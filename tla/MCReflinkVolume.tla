-------------------------- MODULE MCReflinkVolume --------------------------
(* The two drivers that keep volumes in files, on small instances: "reflink" *)
(* (ReflinkVolume) and "file" (FileVolume); the one that runs commands       *)
(* around the calls of another: "callback" (CallbackPool); and which volumes *)
(* a qube is started from, whatever the driver: "any" (QubeTemplates).       *)
EXTENDS ReflinkVolume, FileVolume, CallbackPool, QubeTemplates

CONSTANTS t1, t2, a1, a2, d1

VARIABLES driver

MCInit ==
    /\ driver \in {"reflink", "file", "callback", "any"}
    /\ Init /\ FileInit /\ PoolInit /\ ChainInit
    /\ driver # "file" => kept = 0
    /\ driver # "reflink" => keep = 0
    /\ driver # "callback" => late = FALSE
    /\ driver # "any" => serves = {} /\ template[a1] = t1

MCNext ==
    \/ driver = "reflink" /\ Next /\ UNCHANGED <<driver, fileVars, poolVars, chainVars>>
    \/ driver = "file" /\ FileNext /\ UNCHANGED <<driver, vars, poolVars, chainVars>>
    \/ driver = "callback" /\ PoolNext /\ UNCHANGED <<driver, vars, fileVars, chainVars>>
    \/ driver = "any" /\ ChainNext /\ UNCHANGED <<driver, vars, fileVars, poolVars>>

MCSpec == MCInit /\ [][MCNext]_<<driver, vars, fileVars, poolVars, chainVars>>

KeepsAll == {-1, 0, 1}
=============================================================================
