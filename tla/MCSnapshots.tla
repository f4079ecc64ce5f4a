---------------------------- MODULE MCSnapshots ----------------------------
(* Small instances of what reads volumes while they change, one in a         *)
(* behaviour: the snapshots of a ZFS volume (ZfsVolume) and a backup of the  *)
(* files that exported volumes are (Backup).                                 *)
EXTENDS ZfsVolume, Backup

CONSTANTS c1, c2

VARIABLE kind

KeepsAll == {-1, 1}

(* The one that a behaviour is not about stays as it was.                  *)
MCInit ==
    /\ kind \in {"volume", "backup"}
    /\ Init /\ BackupInit
    /\ kind # "volume" => keep = 1
    /\ kind # "backup" => target = "file" /\ \A f \in 1..NFiles : size[f] = 1

MCNext ==
    \/ kind = "volume" /\ Next /\ UNCHANGED <<kind, backupVars>>
    \/ kind = "backup" /\ BackupNext /\ UNCHANGED <<kind, vars>>

MCSpec == MCInit /\ [][MCNext]_<<kind, vars, backupVars>> /\ Fairness
=============================================================================
