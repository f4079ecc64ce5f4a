------------------------------ MODULE ZfsVolume ------------------------------
(***************************************************************************)
(* One volume of a ZFS pool that is kept when its qube stops: ZFSVolume of *)
(* qubes/storage/zfs.py under start() and stop() of its qube, volume       *)
(* import, revert and clone, while another volume is made from it (export, *)
(* import_volume of a copy, start of a qube based on it).                  *)
(*                                                                         *)
(* A step is one zfs command with the code up to the next await.  Commands *)
(* wait for the lock of ZFSPropertyCache; those that forget the staled     *)
(* list of snapshots before they run are two steps, because code without   *)
(* await reads the list, and caches it, in between.                        *)
(***************************************************************************)
EXTENDS Integers, FiniteSets

CONSTANTS
    Keeps,          \* values an administrator gives revisions_to_keep
    MaxData,        \* bound: writes
    MaxSnaps,       \* bound: snapshots ever made
    MaxClones,      \* bound: clones there are at a time
    MaxUpsets       \* bound: commands that fail for reasons of their own,
                    \* power cuts, restarts of qubesd, and times that
                    \* snapshots are turned off or on

ASSUME ZfsAssumption ==
    /\ Keeps # {} /\ \A k \in Keeps : k \in Int /\ k >= -1
    /\ MaxData \in Nat \ {0} /\ MaxSnaps \in Nat /\ MaxSnaps >= 2
    /\ MaxClones \in Nat /\ MaxUpsets \in Nat

VARIABLES
    main, dirty,        \* the volume, and org.qubes:dirty
    imp, tmp,           \* .importing/, .tmp/
    snaps, made,        \* its snapshots, and how many there ever were
    cloned,             \* those that a clone depends on
    stale,              \* {} or {the snapshots ZFSPropertyCache lists}, if
                        \* these are not those there are
    issued,             \* whose command has forgotten the list and runs
    keep,               \* revisions_to_keep
    qube, active,       \* the domain, and whether state_file exists
    op, pc, todo,       \* the call that holds the volume's lock
    rpc, src, rtodo,    \* the call that makes a clone of the volume
    last, upsets,       \* counters of what is bounded
    committed,          \* history: what the volume said when last at rest
    doubtful            \* history: its clean snapshots may not say so

pool   == <<main, dirty, imp, tmp, snaps, made, cloned>>
domain == <<qube, active>>
callVars == <<op, pc, todo>>
reader == <<rpc, src, rtodo>>
count  == <<last, upsets>>
past   == <<committed, doubtful>>
vars   == <<pool, stale, issued, keep, domain, callVars, reader, count, past>>

Data    == 1..MaxData
Foreign == MaxData + 1      \* the data of the volume a clone is made of
Torn    == MaxData + 2      \* an import that has not ended
Wholes  == 1..Foreign

(* `gone` is defer_destroy: removed, but for a clone that depends on it.   *)
Snaps == [id : 1..MaxSnaps, clean : {"revision", "clean"}, data : Wholes,
          gone : {"no", "deferred"}]
NoSnap == [id |-> 0, clean |-> "clean", data |-> Foreign, gone |-> "no"]

Ops == {"none", "start", "stop", "importEnd", "clone", "revert"}
Pcs == {"idle", "revision", "purge", "dirty", "undirty", "list", "clean",
        "drop", "copy", "replace", "rename", "rollback", "unrevision"}
ReaderPcs == {"idle", "queued", "clone", "list", "remark", "drop"}

TypeOK ==
    /\ main \in Wholes \cup {0} /\ dirty \in BOOLEAN
    /\ imp \in Data \cup {0, Torn} /\ tmp \in {0, Foreign}
    /\ snaps \subseteq Snaps /\ made \in 0..MaxSnaps
    /\ cloned \subseteq 1..MaxSnaps
    /\ \A list \in stale : stale = {list} /\ list \subseteq Snaps
    /\ issued \in {"none", "call", "reader"}
    /\ keep \in Keeps
    /\ qube \in {"off", "starting", "stored", "ready", "on", "ended",
                 "recovering"}
    /\ active \in BOOLEAN
    /\ op \in Ops /\ pc \in Pcs /\ todo \subseteq Snaps
    /\ rpc \in ReaderPcs /\ src \in Snaps \cup {NoSnap} /\ rtodo \subseteq Snaps
    /\ last \in 0..MaxData /\ upsets \in 0..MaxUpsets
    /\ committed \in Wholes /\ doubtful \in BOOLEAN

SnapshotsDisabled == keep = -1

Snapshot(kind, n) == [id |-> n, clean |-> kind, data |-> main, gone |-> "no"]

(* create() has made the volume, its first revision and clean snapshot.    *)
Init ==
    /\ main = 1 /\ dirty = FALSE /\ imp = 0 /\ tmp = 0
    /\ keep \in Keeps
    /\ made = IF keep > 0 THEN 2 ELSE IF keep = 0 THEN 1 ELSE 0
    /\ snaps = {Snapshot(IF n = made THEN "clean" ELSE "revision", n) :
                    n \in 1..made}
    /\ cloned = {} /\ stale = {} /\ issued = "none"
    /\ qube = "off" /\ active = FALSE
    /\ op = "none" /\ pc = "idle" /\ todo = {}
    /\ rpc = "idle" /\ src = NoSnap /\ rtodo = {}
    /\ last = 1 /\ upsets = 0
    /\ committed = main /\ doubtful = FALSE

---------------------------------------------------------------------------
(* What the code sees of the snapshots: the cached list if there is one.   *)

Seen == IF stale = {} THEN snaps ELSE UNION stale
Revisions == {s \in Seen : s.clean = "revision" /\ s.gone = "no"}
Cleans == {s \in Seen : s.clean = "clean"}

Newest(s, set) == s \in set /\ \A t \in set : t.id <= s.id

(* latest_clean_snapshot, or without one latest_revision.                  *)
IsSource_RevisionFirst(s) ==
    IF Revisions # {} THEN Newest(s, Revisions) ELSE Newest(s, Cleans)
IsSource(s) == IF Cleans # {} THEN Newest(s, Cleans) ELSE Newest(s, Revisions)

(* revs[max(0, revisions_to_keep):], the newest first                      *)
Surplus ==
    {s \in Revisions : Cardinality({t \in Revisions : t.id > s.id}) >= keep}

(* Something without an await asks for the list (admin.vm.volume.Info,     *)
(* is_outdated() of the qubes based on this one, ...) while a command runs  *)
(* that changes it.  At other times it does no harm.                       *)
Look ==
    /\ main # 0 /\ issued # "none"
    /\ stale' = {snaps}
    /\ UNCHANGED <<pool, issued, keep, domain, callVars, reader, count, past>>

(* What the commands of a call have in common.                             *)
Exists(s) == \E t \in snaps : t.id = s.id

Destroy(s) ==
    LET kept == {t \in snaps : t.id # s.id} IN
    snaps' = IF s.id \in cloned
             THEN kept \cup {[t EXCEPT !.gone = "deferred"] :
                                t \in {u \in snaps : u.id = s.id}}
             ELSE kept

Free == issued = "none" /\ rpc \notin {"queued", "remark"}
At(where) == pc = where /\ Free
Issued(where) == pc = where /\ issued = "call"
Goto(where) == pc' = where /\ UNCHANGED op
EndCall == op' = "none" /\ pc' = "idle" /\ todo' = {}
Begin(name, where) == op = "none" /\ op' = name /\ pc' = where

(* Storage.start() and Storage.stop() go on when the volume is done.       *)
QubeAfter(ok) ==
    /\ qube' = IF op = "start" THEN IF ok THEN "stored" ELSE "off"
               ELSE IF op = "stop" THEN "off" ELSE qube
    /\ active' = (active /\ ~(op = "stop" /\ ok))

Forgetful == {"revision", "clean", "rollback"}

Issue ==
    /\ pc \in Forgetful /\ Free
    /\ issued' = "call" /\ stale' = {}
    /\ UNCHANGED <<pool, keep, domain, callVars, reader, count, past>>

TakeSnapshot(kind) ==
    /\ made < MaxSnaps /\ made' = made + 1
    /\ snaps' = snaps \cup {Snapshot(kind, made + 1)}
    /\ issued' = "none"
    /\ UNCHANGED <<main, dirty, imp, tmp, cloned, stale>>

Upset == upsets < MaxUpsets /\ upsets' = upsets + 1

(* What the command of this step needs.                                    *)
CanWork ==
    /\ pc \in {"purge", "drop", "unrevision"} => \A s \in todo : Exists(s)
    /\ pc = "rename" => (IF op = "clone" THEN tmp ELSE imp) # 0
    /\ pc = "rollback" =>
        \A s \in todo : Exists(s) /\ \A id \in cloned : id <= s.id

(* It fails: a clone that ends early loses what it has copied.             *)
Raise ==
    /\ pc # "idle" /\ (pc \in {"purge", "drop"} => todo # {})
    /\ IF pc \in Forgetful THEN issued = "call" ELSE Free
    /\ (~CanWork /\ UNCHANGED upsets) \/ Upset
    /\ EndCall /\ QubeAfter(FALSE)
    /\ issued' = "none"
    /\ tmp' = IF pc \in {"replace", "rename"} /\ op = "clone" THEN 0 ELSE tmp
    /\ UNCHANGED <<main, dirty, imp, snaps, made, cloned, stale, keep, reader,
                   last, past>>

---------------------------------------------------------------------------
(* start()                                                                 *)

AfterRevision == IF op = "start" THEN "dirty" ELSE "list"

(* _create_revision(), whose second half is _purge_old_revisions().        *)
CreateRevision == IF keep > 0 THEN "revision" ELSE "purge"

StartsWith == IF dirty THEN "dirty" ELSE CreateRevision

StartBegin ==
    /\ qube = "off" /\ imp = 0 /\ main # 0
    /\ Begin("start", StartsWith)
    /\ qube' = "starting"
    /\ todo' = IF pc' = "purge" THEN Surplus ELSE {}
    /\ UNCHANGED <<pool, stale, issued, keep, active, reader, count, past>>

Revision ==
    /\ Issued("revision")
    /\ TakeSnapshot("revision")
    /\ UNCHANGED <<keep, domain, reader, count, past>>
    /\ Goto("purge") /\ todo' = Surplus'

Purge ==
    /\ At("purge") /\ todo # {} /\ CanWork
    /\ \E s \in todo :
        /\ Newest(s, todo)
        /\ Destroy(s) /\ stale' = {}
        /\ todo' = todo \ {s}
    /\ UNCHANGED <<main, dirty, imp, tmp, made, cloned, issued, keep, domain,
                   op, pc, reader, count, past>>

PurgeEnd ==
    /\ At("purge") /\ todo = {}
    /\ Goto(AfterRevision)
    /\ UNCHANGED <<pool, stale, issued, keep, domain, todo, reader, count,
                   past>>

(* The flags; the volume may be dirty already.                             *)
SetDirty ==
    /\ At("dirty")
    /\ dirty' = TRUE
    /\ EndCall /\ QubeAfter(TRUE)
    /\ UNCHANGED <<main, imp, tmp, snaps, made, cloned, stale, issued, keep,
                   reader, count, past>>

---------------------------------------------------------------------------
(* The domain.                                                             *)

(* Storage.start() makes the state files when every volume has started.    *)
StateFile ==
    /\ qube = "stored" /\ qube' = "ready" /\ active' = TRUE
    /\ UNCHANGED <<pool, stale, issued, keep, callVars, reader, count, past>>

DomainStart ==
    /\ qube = "ready" /\ qube' = "on"
    /\ UNCHANGED <<pool, stale, issued, keep, active, callVars, reader, count,
                   past>>

Write ==
    /\ qube = "on"
    /\ last < MaxData /\ last' = last + 1 /\ main' = last'
    /\ UNCHANGED <<dirty, imp, tmp, snaps, made, cloned, stale, issued, keep,
                   domain, callVars, reader, upsets, past>>

(* It ends, or something fails before it is started.                       *)
DomainEnds ==
    /\ qube \in {"stored", "ready", "on"} /\ qube' = "ended"
    /\ UNCHANGED <<pool, stale, issued, keep, active, callVars, reader, count,
                   past>>

---------------------------------------------------------------------------
(* stop() and _mark_clean()                                                *)

StopBegin ==
    /\ qube \in {"ended", "recovering"} /\ op = "none"
    /\ IF main # 0 /\ dirty
       THEN Begin("stop", "undirty") /\ UNCHANGED domain
       ELSE qube' = "off" /\ active' = FALSE /\ UNCHANGED <<op, pc>>
    /\ UNCHANGED <<pool, stale, issued, keep, todo, reader, count, past>>

ClearDirty ==
    /\ At("undirty")
    /\ dirty' = FALSE
    /\ committed' = main /\ doubtful' = TRUE
    /\ Goto("list")
    /\ UNCHANGED <<main, imp, tmp, snaps, made, cloned, stale, issued, keep,
                   domain, todo, reader, count>>

ListCleans == IF SnapshotsDisabled THEN "drop" ELSE "clean"

(* The clean snapshots there are, to remove when there is a new one.       *)
List ==
    /\ At("list")
    /\ todo' = Cleans
    /\ Goto(ListCleans)
    /\ UNCHANGED <<pool, stale, issued, keep, domain, reader, count, past>>

MarkClean ==
    /\ Issued("clean")
    /\ TakeSnapshot("clean")
    /\ Goto("drop")
    /\ doubtful' = (stale # {})
    /\ UNCHANGED <<keep, domain, todo, reader, count, committed>>

Drop ==
    /\ At("drop") /\ todo # {} /\ CanWork
    /\ \E s \in todo :
        /\ \A t \in todo : s.id <= t.id
        /\ Destroy(s) /\ stale' = {}
        /\ todo' = todo \ {s}
    /\ UNCHANGED <<main, dirty, imp, tmp, made, cloned, issued, keep, domain,
                   op, pc, reader, count, past>>

DropEnd ==
    /\ At("drop") /\ todo = {}
    /\ EndCall /\ QubeAfter(TRUE)
    /\ UNCHANGED <<pool, stale, issued, keep, reader, count, past>>

---------------------------------------------------------------------------
(* import_data(), import_data_end(), import_volume(), revert()             *)

(* is_dirty() of a volume that is missing raises.                          *)
MayReplace == main # 0 /\ ~dirty /\ imp = 0 /\ qube # "recovering"

ImportData ==
    /\ op = "none" /\ Free /\ MayReplace
    /\ imp' = Torn
    /\ UNCHANGED <<main, dirty, tmp, snaps, made, cloned, stale, issued, keep,
                   domain, callVars, reader, count, past>>

(* The script that got the path writes the last of the data.               *)
Upload ==
    /\ imp = Torn /\ last < MaxData /\ last' = last + 1
    /\ imp' = last'
    /\ UNCHANGED <<main, dirty, tmp, snaps, made, cloned, stale, issued, keep,
                   domain, callVars, reader, upsets, past>>

(* internal.vm.volume.ImportEnd says "ok" only after that.                 *)
ImportEnd ==
    /\ imp \in Data /\ qube # "recovering"
    /\ Begin("importEnd", IF main # 0 THEN "replace" ELSE "rename")
    /\ UNCHANGED <<pool, stale, issued, keep, domain, todo, reader, count,
                   past>>

ImportFailed ==
    /\ op = "none" /\ Free /\ imp # 0 /\ qube # "recovering"
    /\ imp' = 0
    /\ UNCHANGED <<main, dirty, tmp, snaps, made, cloned, stale, issued, keep,
                   domain, callVars, reader, count, past>>

CloneBegin ==
    /\ MayReplace
    /\ Begin("clone", "copy")
    /\ UNCHANGED <<pool, stale, issued, keep, domain, todo, reader, count,
                   past>>

(* A left over copy goes first.                                            *)
Copy ==
    /\ At("copy")
    /\ tmp' = Foreign
    /\ Goto("replace")
    /\ UNCHANGED <<main, dirty, imp, snaps, made, cloned, stale, issued, keep,
                   domain, todo, reader, count, past>>

(* Clones of its snapshots are promoted: they keep what they are made of.  *)
Replace ==
    /\ At("replace")
    /\ main' = 0 /\ dirty' = FALSE
    /\ snaps' = {} /\ cloned' = {} /\ stale' = {}
    /\ Goto("rename")
    /\ UNCHANGED <<imp, tmp, made, issued, keep, domain, todo, reader, count,
                   past>>

Rename ==
    /\ At("rename") /\ CanWork
    /\ main' = IF op = "clone" THEN tmp ELSE imp
    /\ tmp' = IF op = "clone" THEN 0 ELSE tmp
    /\ imp' = IF op = "clone" THEN imp ELSE 0
    /\ committed' = main' /\ doubtful' = TRUE
    /\ stale' = {}
    /\ Goto(CreateRevision) /\ todo' = {}
    /\ UNCHANGED <<dirty, snaps, made, cloned, issued, keep, domain, reader,
                   count>>

(* admin.vm.volume.Revert: of the revisions the caller was told.           *)
RevertBegin ==
    /\ MayReplace
    /\ \E s \in Revisions : todo' = {s}
    /\ Begin("revert", "rollback")
    /\ UNCHANGED <<pool, stale, issued, keep, domain, reader, count, past>>

(* zfs rollback -r removes what is newer.                                  *)
Rollback ==
    /\ Issued("rollback") /\ CanWork
    /\ \E s \in todo :
        /\ main' = s.data
        /\ snaps' = {t \in snaps : t.id <= s.id}
    /\ committed' = main' /\ doubtful' = TRUE
    /\ issued' = "none"
    /\ Goto("unrevision")
    /\ UNCHANGED <<dirty, imp, tmp, made, cloned, stale, keep, domain, todo,
                   reader, count>>

RemoveRevision ==
    /\ At("unrevision") /\ CanWork
    /\ \E s \in todo : Destroy(s)
    /\ stale' = {}
    /\ Goto("list") /\ todo' = {}
    /\ UNCHANGED <<main, dirty, imp, tmp, made, cloned, issued, keep, domain,
                   reader, count, past>>

---------------------------------------------------------------------------
(* _wipe_and_clone_from() of another volume of the pool, and export()      *)

(* They do not hold the lock of this volume.                               *)
Waits == rpc \in {"queued", "remark"} /\ issued = "none"
ReaderUnchanged == UNCHANGED <<keep, domain, callVars, count, committed>>

(* What it is cloned from is chosen without an await.                      *)
Pick(s) == src' = s /\ rpc' = "clone"

ReadBegin ==
    /\ rpc = "idle" /\ main # 0 /\ qube # "recovering"
    /\ IF SnapshotsDisabled
       THEN ~active /\ rpc' = "queued" /\ UNCHANGED src
       ELSE \E s \in Seen : IsSource(s) /\ Pick(s)
    /\ UNCHANGED <<pool, stale, issued, rtodo, doubtful>> /\ ReaderUnchanged

ReadIssue ==
    /\ Waits
    /\ issued' = "reader" /\ stale' = {}
    /\ UNCHANGED <<pool, reader, doubtful>> /\ ReaderUnchanged

ReadSnapshot ==
    /\ issued = "reader" /\ rpc = "queued" /\ main # 0
    /\ TakeSnapshot("clean")
    /\ \/ \E s \in Seen' : IsSource(s)' /\ Pick(s)
       \/ /\ \A s \in Seen' : ~IsSource(s)'
          /\ rpc' = "idle" /\ UNCHANGED src
    /\ doubtful' = (doubtful \/ dirty)
    /\ UNCHANGED rtodo /\ ReaderUnchanged

ReadMark ==
    /\ issued = "reader" /\ rpc = "remark" /\ main # 0
    /\ TakeSnapshot("clean")
    /\ rpc' = "drop"
    /\ doubtful' = (doubtful \/ dirty)
    /\ UNCHANGED <<src, rtodo>> /\ ReaderUnchanged

ReadClone ==
    /\ rpc = "clone" /\ Free /\ Exists(src)
    /\ Cardinality(cloned) < MaxClones
    /\ cloned' = cloned \cup {src.id}
    /\ rpc' = IF SnapshotsDisabled THEN "list" ELSE "idle"
    /\ src' = NoSnap
    /\ UNCHANGED <<main, dirty, imp, tmp, snaps, made, stale, issued, rtodo, doubtful>>
    /\ ReaderUnchanged

(* What is listed here goes, with no new clean snapshot in its place when  *)
(* snapshots are disabled now.                                             *)
ReadList ==
    /\ rpc = "list" /\ Free /\ main # 0
    /\ rtodo' = Cleans
    /\ rpc' = IF SnapshotsDisabled THEN "drop" ELSE "remark"
    /\ doubtful' = (doubtful \/ SnapshotsDisabled)
    /\ UNCHANGED <<pool, stale, issued, src>> /\ ReaderUnchanged

ReadDrop ==
    /\ rpc = "drop" /\ Free
    /\ IF rtodo = {}
       THEN rpc' = "idle" /\ UNCHANGED <<snaps, stale, rtodo>>
       ELSE \E s \in rtodo :
                /\ Exists(s) /\ \A t \in rtodo : s.id <= t.id
                /\ Destroy(s) /\ stale' = {}
                /\ rtodo' = rtodo \ {s}
                /\ UNCHANGED rpc
    /\ UNCHANGED <<main, dirty, imp, tmp, made, cloned, issued, src, doubtful>>
    /\ ReaderUnchanged

ReadRaise ==
    /\ rpc # "idle"
    /\ IF rpc \in {"queued", "remark"} THEN issued = "reader" ELSE Free
    /\ \/ Upset
       \/ /\ \/ main = 0
             \/ rpc = "clone" /\ ~Exists(src)
             \/ rpc = "drop" /\ \E s \in rtodo : ~Exists(s)
          /\ UNCHANGED upsets
    /\ rpc' = "idle" /\ src' = NoSnap /\ rtodo' = {}
    /\ issued' = "none"
    /\ UNCHANGED <<pool, stale, keep, domain, callVars, last, past>>

(* export_end(), or the volume made from this one is removed.  A snapshot  *)
(* that goes with it stays listed if it was.                               *)
CloneRemoved ==
    /\ Free
    /\ \E id \in cloned :
        /\ cloned' = cloned \ {id}
        /\ snaps' = {s \in snaps : s.id # id \/ s.gone = "no"}
    /\ stale' \in IF snaps' = snaps THEN {stale} ELSE {stale, {snaps}}
    /\ UNCHANGED <<main, dirty, imp, tmp, made, issued, reader, doubtful>>
    /\ ReaderUnchanged

---------------------------------------------------------------------------
(* Around it.                                                              *)

(* set_revisions_to_keep(): snapshots are not turned on or off under a     *)
(* running domain.                                                         *)
SetKeep ==
    /\ \E k \in Keeps \ {keep} :
        /\ IF -1 \in {k, keep}
           THEN qube # "on" /\ Upset
           ELSE UNCHANGED upsets
        /\ keep' = k
    /\ UNCHANGED <<pool, stale, issued, domain, callVars, reader, last, past>>

(* qubesd restarts, with the domain running on, or the power is cut; then  *)
(* stop_storage() stops the volumes of every qube that is not running,     *)
(* before anything else is asked of them.                                  *)
Crash ==
    /\ Upset
    /\ stale' = {} /\ issued' = "none"
    /\ EndCall
    /\ rpc' = "idle" /\ src' = NoSnap /\ rtodo' = {}
    /\ \/ qube' = "recovering" /\ active' = FALSE
       \/ qube' = "recovering" /\ UNCHANGED active
       \/ qube = "on" /\ UNCHANGED domain
    /\ UNCHANGED <<pool, keep, last, past>>

Next ==
    \/ Look \/ Issue \/ Raise
    \/ StartBegin \/ Revision \/ Purge \/ PurgeEnd \/ SetDirty
    \/ StateFile \/ DomainStart \/ Write \/ DomainEnds
    \/ StopBegin \/ ClearDirty \/ List \/ MarkClean \/ Drop \/ DropEnd
    \/ ImportData \/ Upload \/ ImportEnd \/ ImportFailed
    \/ CloneBegin \/ Copy \/ Replace \/ Rename
    \/ RevertBegin \/ Rollback \/ RemoveRevision
    \/ ReadBegin \/ ReadIssue \/ ReadSnapshot \/ ReadMark \/ ReadClone
    \/ ReadList \/ ReadDrop \/ ReadRaise \/ CloneRemoved
    \/ SetKeep \/ Crash

Spec == Init /\ [][Next]_vars

---------------------------------------------------------------------------
(* Properties.                                                             *)

(* Which call is where, and for which state of the domain.                 *)
CallInv ==
    /\ op = "none" <=> pc = "idle"
    /\ pc \in {"revision", "purge"} => op \in {"start", "importEnd", "clone"}
    /\ pc = "dirty" => op = "start"
    /\ pc = "undirty" => op = "stop"
    /\ pc \in {"list", "clean", "drop"} => op # "start"
    /\ pc = "copy" => op = "clone"
    /\ pc \in {"replace", "rename"} => op \in {"importEnd", "clone"}
    /\ pc \in {"rollback", "unrevision"} => op = "revert"
    /\ issued = "call" => pc \in Forgetful
    /\ op = "start" <=> qube = "starting"
    /\ op = "stop" => qube \in {"ended", "recovering"}

(* A domain has the volume to itself, and what replaces it is there.       *)
VolumeInv ==
    /\ qube = "starting" => imp = 0
    /\ qube \in {"stored", "ready", "on"} =>
        op = "none" /\ dirty /\ imp = 0 /\ main # 0
    /\ pc \notin {"idle", "rename"} => main # 0
    /\ pc = "replace" =>
        IF op = "clone" THEN tmp # 0 ELSE imp \in Data
    /\ pc = "rename" /\ op = "clone" => tmp # 0
    /\ pc = "rename" /\ op = "importEnd" => imp \in Data

(* "Invariant: all revisions are always clean.  All the code to create new *)
(* volumes [...] and export existing volumes relies on this": a revision is*)
(* only taken while no domain has the volume, and says what the volume said*)
(* when last at rest.  The clean snapshots that readers of a volume without*)
(* snapshots take have no such promise: see doubtful.                      *)
RevisionsClean ==
    [][\A s \in snaps' : s.id > made /\ s.clean = "revision" =>
         qube # "on" /\ s.data = committed]_vars

(* Snapshots are known by their ids: who lists them, or has them to do,    *)
(* means the same snapshot by an id, and no later one gets it again.       *)
Known == snaps \cup (UNION stale) \cup todo \cup rtodo

KnownInv ==
    /\ \A s \in Known : s.id <= made
    /\ \A s, t \in Known : s.id = t.id => s.clean = t.clean /\ s.data = t.data
    /\ pc \in {"purge", "rollback", "unrevision"} => \A s \in todo : s.clean = "revision"

(* Where a call takes a snapshot, the volume is what it said at rest; from *)
(* its first change to its clean snapshot, others may say something else.  *)
RestInv ==
    /\ ~dirty /\ main # 0 => main = committed
    /\ main = 0 \/ pc \in {"revision", "rename"} => ~dirty
    /\ pc = "rename" => main = 0
    /\ op \notin {"none", "start"} /\ pc \in {"revision", "purge", "unrevision", "list", "clean"} =>
        main = committed /\ doubtful
    /\ op \notin {"none", "start"} /\ pc = "drop" => main = committed

(* A list of snapshots is good when its newest clean snapshot is what the  *)
(* volume said at rest, or, without one, each of its revisions is.         *)
Says(s, list) ==
    /\ s.clean = "clean" /\ s.gone = "no" /\ s.data = committed
    /\ \A t \in list : t.clean = "clean" => t.id <= s.id
Alike(list) == \A s \in list : s.clean = "revision" /\ s.data = committed

(* And nobody is about to remove it.                                       *)
Stays(s) ==
    /\ pc = "drop" => \A t \in todo : t.id < s.id
    /\ rpc = "drop" => \A t \in rtodo : t.id < s.id

SourceInv ==
    ~doubtful =>
        /\ Alike(snaps) \/ \E s \in snaps : Says(s, snaps) /\ Stays(s)
        /\ \A list \in stale : Alike(list) \/ \E s \in list : Says(s, list)

ReadInv == KnownInv /\ RestInv /\ SourceInv

(* Reading from an export "when domain owning this volume is running [...] *)
(* should return the data from before domain startup", else what it holds: *)
(* whatever is made from the volume gets what it last said at rest, but    *)
(* for the calls that did not come to their _mark_clean().                 *)
SourceIsCommitted ==
    [][rpc' = "clone" /\ rpc # "clone" =>
        src'.data = committed \/ doubtful']_vars

(* "In case of error [...] the existing volume will remain untouched": the *)
(* volume is only removed when what takes its place is whole.              *)
ReplacementReady ==
    [][main # 0 /\ main' = 0 => imp \in Data \/ tmp # 0]_vars
=============================================================================
