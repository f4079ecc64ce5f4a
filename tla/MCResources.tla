---------------------------- MODULE MCResources ----------------------------
(* Small instances of what qubes are given of the host, one in a behaviour:  *)
(* a volume in an LVM thin pool (ThinVolume) and memory (MemoryBalance).     *)
EXTENDS ThinVolume, MemoryBalance, TLC

CONSTANTS dom0, q1, q2

VARIABLE kind

KeepsAll == {-1, 1}

MCMemMax == [d \in Doms |-> CASE d = dom0 -> 1600 [] d = q1 -> 800 [] d = q2 -> 400]

NothingReported == meminfo[dom0] = 200 /\ meminfo[q1] = 400 /\ meminfo[q2] = None

\* A large dom0 and a qube that have not reported yet, and room for another.
MCMemoryInit ==
    /\ MemoryInit
    /\ alive = {dom0, q1}
    /\ target[dom0] = 700 /\ target[q1] = 700 /\ NothingReported

(* The resource that a behaviour is not about stays as it was.             *)
MCInit ==
    /\ kind \in {"volume", "memory"}
    /\ Init /\ MCMemoryInit
    /\ kind # "volume" => keep = 1
    /\ kind # "memory" => store = target

(* A crash or a foreign `lvs`; a report of a domain or a second request.   *)
MCNext ==
    /\ UNCHANGED kind
    /\ \/ /\ kind = "volume" /\ Next /\ UNCHANGED memoryVars
          /\ crashes' = 0 \/ lists' = 0
       \/ /\ kind = "memory" /\ MemoryNext /\ UNCHANGED vars
          /\ requests' <= 1 \/ NothingReported'

MCSpec == MCInit /\ [][MCNext]_<<kind, vars, memoryVars>>
=============================================================================
