------------------------------ MODULE XmlStore ------------------------------
(***************************************************************************)
(* qubes.xml on disk and the processes that load and save it: load(),      *)
(* save(), _acquire_lock() and _release_lock() of qubes/app.py with        *)
(* replace_file() and rename_file() of qubes/utils.py.                     *)
(*                                                                         *)
(* A step is one system call, or the calls between two that other          *)
(* processes can tell apart.  A file is the set of updates it was written  *)
(* with, and stands for its own modification time: no two files have the   *)
(* same one.  The lock is the POSIX record lock of lockf(), which belongs  *)
(* to a file and not to the name, and goes when its holder closes it.      *)
(***************************************************************************)
EXTENDS Naturals, FiniteSets

CONSTANTS
    Procs,          \* processes with a Qubes object of this store
    Writers,        \* those of them that change and save it
    Updates,        \* changes, each made once
    None,           \* no process
    MaxFiles,       \* bound: files that ever get the name
    MaxCrashes      \* bound: power cuts, exits and crashes of processes

ASSUME WritersAreProcs == Writers \subseteq Procs /\ None \notin Procs
ASSUME BoundsAreNaturals == MaxFiles \in Nat \ {0} /\ MaxCrashes \in Nat

VARIABLES
    link,       \* the file that has the name qubes.xml
    synced,     \* the file that has it after a power cut
    state,      \* files: not made, being written, whole on disk, deleted
    content,    \* the updates each file is written with
    owner,      \* the process holding the lock on each file
    pc,         \* the system call each process is at
    loading,    \* processes that are in load()
    fd,         \* the file opened by _acquire_lock(), or 0
    fh,         \* __locked_fh, or 0
    tmp,        \* the temporary file of replace_file(), or 0
    ts,         \* __load_timestamp, or 0
    mem,        \* the updates in the Qubes object of each process
    made,       \* updates made so far
    acked,      \* updates whose save() has returned
    crashes     \* power cuts, exits and crashes so far

diskVars  == <<link, synced, state, content>>
procVars  == <<loading, fd, fh, tmp, ts, mem>>
countVars == <<made, acked, crashes>>
vars == <<diskVars, owner, pc, procVars, countVars>>

Files == 1..MaxFiles

Pcs == {"down", "idle", "open", "check", "stamp", "lock", "parse", "loaded",
        "write", "sync", "rename", "dirsync", "swap"}

TypeOK ==
    /\ link \in Files /\ synced \in Files
    /\ state \in [Files -> {"none", "partial", "whole", "deleted"}]
    /\ content \in [Files -> SUBSET Updates]
    /\ owner \in [Files -> Procs \cup {None}]
    /\ pc \in [Procs -> Pcs] /\ loading \subseteq Procs
    /\ fd \in [Procs -> Files \cup {0}] /\ fh \in [Procs -> Files \cup {0}]
    /\ tmp \in [Procs -> Files \cup {0}] /\ ts \in [Procs -> Files \cup {0}]
    /\ mem \in [Procs -> SUBSET Updates]
    /\ made \subseteq Updates /\ acked \subseteq Updates
    /\ crashes \in 0..MaxCrashes

(* qubes-create has made the store.                                        *)
Init ==
    /\ link = 1 /\ synced = 1
    /\ state = [f \in Files |-> IF f = 1 THEN "whole" ELSE "none"]
    /\ content = [f \in Files |-> {}]
    /\ owner = [f \in Files |-> None]
    /\ pc = [p \in Procs |-> "down"] /\ loading = {}
    /\ fd = [p \in Procs |-> 0] /\ fh = [p \in Procs |-> 0]
    /\ tmp = [p \in Procs |-> 0] /\ ts = [p \in Procs |-> 0]
    /\ mem = [p \in Procs |-> {}]
    /\ made = {} /\ acked = {} /\ crashes = 0

Go(p, call) == pc' = [pc EXCEPT ![p] = call]

(* Closing any descriptor of a file drops the process's lock on it.        *)
CloseAll(p) == owner' = [f \in Files |-> IF owner[f] = p THEN None ELSE owner[f]]
Close(p, f) == owner' = [g \in Files |-> IF g = f /\ owner[g] = p
                                         THEN None ELSE owner[g]]

---------------------------------------------------------------------------
(* _acquire_lock()                                                         *)

Start(p) ==
    /\ pc[p] = "down"
    /\ Go(p, "open")
    /\ loading' = loading \cup {p}
    /\ UNCHANGED <<diskVars, owner, fd, fh, tmp, ts, mem, countVars>>

Open(p) ==
    /\ pc[p] = "open"
    /\ Go(p, "check")
    /\ fd' = [fd EXCEPT ![p] = link]
    /\ UNCHANGED <<diskVars, owner, loading, fh, tmp, ts, mem, countVars>>

(* fstat() and stat() agree, or another file has got the name since.       *)
Check(p) ==
    /\ pc[p] = "check" /\ fd[p] = link
    /\ Go(p, "stamp")
    /\ UNCHANGED <<diskVars, owner, procVars, countVars>>

Reopen(p) ==
    /\ pc[p] = "check" /\ fd[p] # link
    /\ Go(p, "open")
    /\ fd' = [fd EXCEPT ![p] = 0] /\ Close(p, fd[p])
    /\ UNCHANGED <<diskVars, loading, fh, tmp, ts, mem, countVars>>

(* Someone else has saved since this process loaded: the save is refused.  *)
IsCurrent(p) == ts[p] \in {0, link}

Stamp(p) ==
    /\ pc[p] = "stamp" /\ IsCurrent(p)
    /\ Go(p, "lock")
    /\ UNCHANGED <<diskVars, owner, procVars, countVars>>

Refuse(p) ==
    /\ pc[p] = "stamp" /\ ~IsCurrent(p)
    /\ Go(p, "idle")
    /\ fd' = [fd EXCEPT ![p] = 0] /\ Close(p, fd[p])
    /\ UNCHANGED <<diskVars, loading, fh, tmp, ts, mem, countVars>>

Lock(p) ==
    /\ pc[p] = "lock" /\ owner[fd[p]] = None
    /\ owner' = [owner EXCEPT ![fd[p]] = p]
    /\ fh' = [fh EXCEPT ![p] = fd[p]] /\ fd' = [fd EXCEPT ![p] = 0]
    /\ Go(p, IF p \in loading THEN "parse" ELSE "write")
    /\ UNCHANGED <<diskVars, loading, tmp, ts, mem, countVars>>

---------------------------------------------------------------------------
(* load()                                                                  *)

Parse(p) ==
    /\ pc[p] = "parse"
    /\ mem' = [mem EXCEPT ![p] = content[fh[p]]]
    /\ Go(p, "loaded")
    /\ UNCHANGED <<diskVars, owner, loading, fd, fh, tmp, ts, countVars>>

(* The time is that of the file that has the name now.                     *)
LoadEnd(p) ==
    /\ pc[p] = "loaded"
    /\ ts' = [ts EXCEPT ![p] = link]
    /\ Close(p, fh[p]) /\ fh' = [fh EXCEPT ![p] = 0]
    /\ loading' = loading \ {p}
    /\ Go(p, "idle")
    /\ UNCHANGED <<diskVars, fd, tmp, mem, countVars>>

---------------------------------------------------------------------------
(* save()                                                                  *)

(* A write operation of the Admin API, or a domain-load handler that finds *)
(* something to clean up while load() still runs.                          *)
Change(p) ==
    /\ p \in Writers /\ pc[p] \in {"idle", "loaded"}
    /\ \E u \in Updates \ made :
        /\ made' = made \cup {u}
        /\ mem' = [mem EXCEPT ![p] = @ \cup {u}]
    /\ UNCHANGED <<diskVars, owner, pc, loading, fd, fh, tmp, ts, acked,
                   crashes>>

Save(p) ==
    /\ p \in Writers /\ pc[p] \in {"idle", "loaded"}
    /\ mem[p] # {}
    /\ Go(p, IF fh[p] = 0 THEN "open" ELSE "write")
    /\ UNCHANGED <<diskVars, owner, procVars, countVars>>

Write(p) ==
    /\ pc[p] = "write"
    /\ \E f \in Files :
        /\ state[f] = "none"
        /\ state' = [state EXCEPT ![f] = "partial"]
        /\ content' = [content EXCEPT ![f] = mem[p]]
        /\ tmp' = [tmp EXCEPT ![p] = f]
    /\ Go(p, "sync")
    /\ UNCHANGED <<link, synced, owner, loading, fd, fh, ts, mem, countVars>>

Sync_Skipped(f) == UNCHANGED state           \* fault: no fsync of the file
Sync(f) == state' = [state EXCEPT ![f] = "whole"]

SyncFile(p) ==
    /\ pc[p] = "sync"
    /\ Sync(tmp[p])
    /\ Go(p, "rename")
    /\ UNCHANGED <<link, synced, content, owner, procVars, countVars>>

Rename(p) ==
    /\ pc[p] = "rename"
    /\ link' = tmp[p]
    /\ Go(p, "dirsync")
    /\ UNCHANGED <<synced, state, content, owner, procVars, countVars>>

SyncDir_Skipped == UNCHANGED synced          \* fault: no fsync of the directory
SyncDir == synced' = link

SyncDirectory(p) ==
    /\ pc[p] = "dirsync"
    /\ SyncDir
    /\ Go(p, "swap")
    /\ UNCHANGED <<link, state, content, owner, procVars, countVars>>

(* The old file is closed; the new one, which is not locked, is kept.      *)
Swap(p) ==
    /\ pc[p] = "swap"
    /\ ts' = [ts EXCEPT ![p] = link]
    /\ Close(p, fh[p]) /\ fh' = [fh EXCEPT ![p] = tmp[p]]
    /\ tmp' = [tmp EXCEPT ![p] = 0]
    /\ acked' = acked \cup mem[p]
    /\ Go(p, IF p \in loading THEN "loaded" ELSE "idle")
    /\ UNCHANGED <<diskVars, loading, fd, mem, made, crashes>>

LeaveLock(p) == UNCHANGED <<fh, owner>>

(* No space, an I/O error: the temporary file goes, if it still has its    *)
(* name, and the lock stays; a load that fails ends the process.           *)
SaveFails(p) ==
    /\ pc[p] \in {"write", "sync", "rename", "dirsync"} /\ p \notin loading
    /\ state' = IF pc[p] \in {"sync", "rename"}
                THEN [state EXCEPT ![tmp[p]] = "deleted"] ELSE state
    /\ tmp' = [tmp EXCEPT ![p] = 0]
    /\ LeaveLock(p)
    /\ Go(p, "idle")
    /\ UNCHANGED <<link, synced, content, loading, fd, ts, mem, countVars>>

---------------------------------------------------------------------------
(* Ends.                                                                   *)

(* Written back by the kernel on its own.                                  *)
Writeback ==
    /\ SyncDir
    /\ UNCHANGED <<link, state, content, owner, pc, procVars, countVars>>

Crash == crashes < MaxCrashes /\ crashes' = crashes + 1

Forget(D) ==
    /\ pc' = [p \in Procs |-> IF p \in D THEN "down" ELSE pc[p]]
    /\ loading' = loading \ D
    /\ fd' = [p \in Procs |-> IF p \in D THEN 0 ELSE fd[p]]
    /\ fh' = [p \in Procs |-> IF p \in D THEN 0 ELSE fh[p]]
    /\ tmp' = [p \in Procs |-> IF p \in D THEN 0 ELSE tmp[p]]
    /\ ts' = [p \in Procs |-> IF p \in D THEN 0 ELSE ts[p]]
    /\ mem' = [p \in Procs |-> IF p \in D THEN {} ELSE mem[p]]

(* A process ends or is killed: close(), or the kernel closes for it.      *)
Exit(p) ==
    /\ pc[p] # "down"
    /\ Crash
    /\ Forget({p}) /\ CloseAll(p)
    /\ UNCHANGED <<diskVars, made, acked>>

PowerCut ==
    /\ Crash
    /\ link' = synced
    /\ Forget(Procs) /\ owner' = [f \in Files |-> None]
    /\ UNCHANGED <<synced, state, content, made, acked>>

Step(p) ==
    \/ Start(p) \/ Open(p) \/ Check(p) \/ Reopen(p) \/ Stamp(p) \/ Refuse(p)
    \/ Lock(p)
    \/ Parse(p) \/ LoadEnd(p)
    \/ Change(p) \/ Save(p) \/ Write(p) \/ SyncFile(p) \/ Rename(p)
    \/ SyncDirectory(p) \/ Swap(p) \/ SaveFails(p)
    \/ Exit(p)

Next == (\E p \in Procs : Step(p)) \/ Writeback \/ PowerCut

Spec == Init /\ [][Next]_vars

---------------------------------------------------------------------------
(* The inductive invariants.                                               *)

Saving    == {"sync", "rename", "dirsync", "swap"}
Acquiring == {"open", "check", "stamp", "lock"}

(* What a call works on is open.                                           *)
OpenInv ==
    \A p \in Procs :
        /\ pc[p] \in Acquiring \ {"open"} => fd[p] \in Files
        /\ pc[p] \in Saving \cup {"parse", "loaded", "write"} => fh[p] \in Files
        /\ pc[p] \in Saving => tmp[p] \in Files

(* Whoever writes: the temporary files of the saves under way are apart,   *)
(* and until it is renamed none of them is the store.                      *)
FilesInv ==
    /\ state[link] = "whole" /\ state[synced] = "whole"
    /\ \A p \in Procs : pc[p] \in Saving =>
        /\ state[tmp[p]] # "none"
        /\ pc[p] = "sync" => state[tmp[p]] = "partial"
        /\ pc[p] = "rename" =>
            state[tmp[p]] = "whole" /\ tmp[p] \notin {link, synced}
    /\ \A p, q \in Procs :
        p # q /\ pc[p] \in Saving /\ pc[q] \in Saving => tmp[p] # tmp[q]

WholeInv == TypeOK /\ OpenInv /\ FilesInv

(* One writer: only its saves move the store, and it knows all it saved.   *)
ReadersInv ==
    \A p \in Procs \ Writers :
        /\ pc[p] \notin Saving \cup {"write"}
        /\ pc[p] \in Acquiring \cup {"parse", "loaded"} => p \in loading

PromiseInv ==
    /\ acked \subseteq content[link] /\ acked \subseteq content[synced]
    /\ \A p \in Writers :
        /\ pc[p] \in Saving \cup {"idle", "write", "loaded"} =>
            acked \subseteq mem[p]
        /\ pc[p] \in Acquiring /\ p \notin loading => acked \subseteq mem[p]
        /\ pc[p] \in Acquiring \ {"open"} =>
            state[fd[p]] # "none" /\ acked \subseteq content[fd[p]]
        /\ pc[p] = "parse" => state[fh[p]] # "none" /\ acked \subseteq content[fh[p]]
        /\ pc[p] \in Saving => content[tmp[p]] = mem[p]
        /\ pc[p] = "dirsync" => link = tmp[p]
        /\ pc[p] = "swap" => link = tmp[p] /\ synced = tmp[p]

CurrentInv ==
    \A p \in Writers :
        /\ pc[p] \in {"idle", "down"} => p \notin loading
        /\ pc[p] \in Acquiring => ts[p] = IF p \in loading THEN 0 ELSE link
        /\ pc[p] = "idle" /\ fh[p] = 0 => ts[p] = link
        /\ pc[p] = "down" => ts[p] = 0

SingleInv == WholeInv /\ ReadersInv /\ PromiseInv /\ CurrentInv

---------------------------------------------------------------------------
(* Properties.                                                             *)

(* "No space left should not result in empty file": whatever fails and     *)
(* whenever, the file that has the name, now or after a power cut, is one  *)
(* that was written to its end.                                            *)
StoreWhole == state[link] = "whole" /\ state[synced] = "whole"

(* One writer, restarted at any time, whatever reads beside it: the store  *)
(* is an atomic durable one.                                               *)
Promises == INSTANCE DurableStore WITH
    visible <- content[link], durable <- content[synced], promised <- acked
KeepsPromises == Promises!StoreSpec

(* "Someone else modified qubes.xml in the meantime" is never said to the  *)
(* only writer, whatever part of an earlier save of its own failed.        *)
OnlyWriterIsCurrent == \A p \in Writers : pc[p] = "stamp" => IsCurrent(p)
=============================================================================
