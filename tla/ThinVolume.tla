----------------------------- MODULE ThinVolume -----------------------------
(***************************************************************************)
(* One volume of an LVM thin pool that is kept when its qube stops         *)
(* (save_on_stop, rw, no source): ThinVolume of qubes/storage/lvm.py under *)
(* start() and stop() of its qube, stop_storage() at the start of qubesd,  *)
(* volume import, revert and clone.                                        *)
(*                                                                         *)
(* A step is one lvm command, or one `lvs` that fills size_cache, with the *)
(* code up to the next await.  What a logical volume says is a number that *)
(* each write replaces by a fresh one; 0 is no such volume.  A revision is *)
(* named by the second it was made in.                                     *)
(***************************************************************************)
EXTENDS Integers, FiniteSets

CONSTANTS
    Keeps,          \* values an administrator gives revisions_to_keep
    CommandsFail,   \* an lvm command may fail for reasons of its own
    MaxData,        \* bound: writes
    MaxTime,        \* bound: seconds
    MaxLists,       \* bound: times other volumes fill size_cache
    MaxCrashes      \* bound: power cuts and restarts of qubesd

ASSUME KeepsAreValues == Keeps # {} /\ \A k \in Keeps : k \in Int /\ k >= -1
ASSUME FailIsBoolean == CommandsFail \in BOOLEAN
ASSUME BoundsAreNatural ==
    /\ MaxData \in Nat \ {0} /\ MaxTime \in Nat \ {0}
    /\ MaxLists \in Nat /\ MaxCrashes \in Nat

VARIABLES
    main, snap, imp,    \* vm-volume, vm-volume-snap, vm-volume-import
    revs,               \* vm-volume-<time>-back
    cache,              \* size_cache: the volumes there are, it says
    pend,               \* what the lvs of another volume has printed
    keep,               \* revisions_to_keep
    qube, device,       \* the domain, and the volume it was given
    pc, op, from,       \* the call that holds the volume's lock
    todo,               \* the revisions it has still to remove
    last, now, lists, crashes   \* counters of what is bounded

lvs    == <<main, snap, imp, revs>>
domain == <<qube, device>>
call   == <<pc, op, from, todo>>
count  == <<last, now, lists, crashes>>
vars   == <<lvs, cache, pend, keep, domain, call, count>>

Data    == 1..MaxData
Foreign == MaxData + 1      \* the data of the volume a clone is made of
Torn    == MaxData + 2      \* an import that has not ended
Blank   == MaxData + 3      \* a volume whose blocks were discarded
Known   == 1..Blank
Times == 1..MaxTime
Lists == [main : BOOLEAN, snap : BOOLEAN, imp : BOOLEAN, revs : SUBSET Times]
NoList == [main |-> FALSE, snap |-> FALSE, imp |-> FALSE, revs |-> {}]

Calls == {"none", "start", "stop", "import", "importEnd", "clone", "revert"}
Pcs   == {"idle", "activate", "drop", "unsnap", "snapshot", "create", "backup",
          "recache", "promote", "prepare", "prune", "discard", "remove",
          "restore", "reset"}

(* Devices: the time of the revision the domain's volume has become, or    *)
OnMain == 0
OnSnap == -1

TypeOK ==
    /\ {main, snap, imp} \subseteq Known \cup {0}
    /\ revs \in [Times -> Known \cup {0}]
    /\ cache \in Lists /\ pend \in Lists /\ keep \in Keeps
    /\ qube \in {"off", "verified", "starting", "ready", "on", "ended"}
    /\ device \in -1..MaxTime
    /\ op \in Calls /\ pc \in Pcs /\ from \in {"snap", "imp", "other"}
    /\ todo \subseteq Times
    /\ last \in 0..MaxData /\ now \in Times
    /\ lists \in 0..MaxLists /\ crashes \in 0..MaxCrashes

Backs == {t \in Times : revs[t] # 0}

(* What `lvs` prints.                                                      *)
Listed ==
    [main |-> main # 0, snap |-> snap # 0, imp |-> imp # 0, revs |-> Backs]

(* _vid_current: the volume, or its last revision if it is missing.        *)
IsCurrent(d, list) ==
    IF list.main THEN d = main
    ELSE \E t \in list.revs : d = revs[t] /\ \A s \in list.revs : s <= t

(* create() has made the volume.                                           *)
Init ==
    /\ main = 1 /\ snap = 0 /\ imp = 0 /\ revs = [t \in Times |-> 0]
    /\ cache = Listed /\ pend = NoList
    /\ keep \in Keeps /\ qube = "off" /\ device = OnSnap
    /\ op = "none" /\ pc = "idle" /\ from = "snap" /\ todo = {}
    /\ last = 1 /\ now = 1 /\ lists = 0 /\ crashes = 0

---------------------------------------------------------------------------
(* Calls and what they have in common.                                     *)

SnapshotsDisabled == keep = -1
Dirty == cache.snap
ImportInProgress == cache.imp
InUse(dev) == qube = "on" /\ device = dev

Fresh(d) == d = last + 1 /\ d \in Data /\ last' = d

Begin(name, where) == op = "none" /\ op' = name /\ pc' = where
At(name, where) == op = name /\ pc = where
Goto(where) == pc' = where /\ UNCHANGED op
End == pc' = "idle" /\ op' = "none" /\ from' = "snap" /\ todo' = {}
UnchangedCall == UNCHANGED <<from, todo>>

(* A call that starts the qube ends with the qube started or off, one that *)
(* stops it with the qube off, any other one leaves the qube as it is.     *)
QubeAfter(ok) ==
    /\ qube' = IF op \notin {"start", "stop"} THEN qube
               ELSE IF op = "start" /\ ok THEN "ready" ELSE "off"
    /\ UNCHANGED device

(* "remove" discards the blocks first.  Whether that works is not looked   *)
(* at, and a device in use is left alone.                                  *)
Wipe ==
    /\ \/ /\ pc \in {"drop", "prune"}
          /\ \E t \in todo \cap Backs :
                ~InUse(t) /\ revs' = [revs EXCEPT ![t] = Blank]
          /\ UNCHANGED <<main, snap, imp>>
       \/ /\ pc = "unsnap" /\ snap # 0 /\ snap' = Blank
          /\ UNCHANGED <<main, imp, revs>>
       \/ /\ pc = "discard" /\ imp # 0 /\ imp' = Blank
          /\ UNCHANGED <<main, snap, revs>>
       \/ /\ pc = "remove" /\ main # 0 /\ ~InUse(OnMain) /\ main' = Blank
          /\ UNCHANGED <<snap, imp, revs>>
    /\ UNCHANGED <<cache, pend, keep, domain, call, count>>

Commands ==
    {"activate", "snapshot", "create", "backup", "promote", "discard",
     "remove", "restore"}

ToCommit ==
    IF from = "snap" THEN snap ELSE IF from = "imp" THEN imp ELSE Foreign

(* What the lvm command of this step needs: the names it takes and makes.  *)
CanWork ==
    /\ pc = "activate" => \E d \in Known : IsCurrent(d, cache)
    /\ pc = "snapshot" => snap = 0 /\ \E d \in Known : IsCurrent(d, cache)
    /\ pc = "create" => imp = 0
    /\ pc = "backup" => main # 0 /\ revs[now] = 0
    /\ pc = "promote" => main = 0 /\ ToCommit # 0
    /\ pc = "remove" => ~InUse(OnMain)
    /\ pc = "restore" => main = 0 /\ \A t \in todo : revs[t] # 0

(* It fails: start() and stop() refresh the cache in their finally clause, *)
(* the others do not.                                                      *)
Raise ==
    /\ pc \in Commands /\ (CommandsFail \/ ~CanWork)
    /\ End /\ QubeAfter(FALSE)
    /\ cache' = IF op \in {"start", "stop"} THEN Listed ELSE cache
    /\ UNCHANGED <<lvs, pend, keep, count>>

---------------------------------------------------------------------------
(* start()                                                                 *)

(* verify() comes first; after that the qube may wait for other qubes.     *)
Verify ==
    /\ qube = "off" /\ qube' = "verified"
    /\ cache.main \/ cache.revs # {}
    /\ UNCHANGED <<lvs, cache, pend, keep, device, call, count>>

(* Something else in start() fails, or an import is in progress.           *)
StartRefused ==
    /\ qube = "verified" /\ qube' = "off"
    /\ UNCHANGED <<lvs, cache, pend, keep, device, call, count>>

AfterChecks ==
    IF Dirty THEN "activate"
    ELSE IF SnapshotsDisabled /\ cache.revs # {} THEN "drop"
    ELSE IF SnapshotsDisabled THEN "reset" ELSE "unsnap"

StartBegin ==
    /\ qube = "verified" /\ ~ImportInProgress
    /\ Begin("start", AfterChecks)
    /\ qube' = "starting"
    /\ todo' = IF AfterChecks = "drop" THEN cache.revs ELSE {}
    /\ UNCHANGED <<lvs, cache, pend, keep, device, from, count>>

(* _activate(): the volume, not the snapshot the domain will get.          *)
Activate ==
    /\ At("start", "activate") /\ CanWork
    /\ Goto("reset")
    /\ UnchangedCall
    /\ UNCHANGED <<lvs, cache, pend, keep, domain, count>>

(* _remove_revisions(self.revisions); the safety check in its loop         *)
(* compares a revision with a whole volume name, and so never fires.       *)
MayDrop(t) == ~InUse(t)

Drop ==
    /\ At("start", "drop") /\ todo # {}
    /\ \E t \in todo :
        /\ todo' = todo \ {t}
        /\ \/ MayDrop(t) /\ revs' = [revs EXCEPT ![t] = 0]
           \/ (CommandsFail \/ InUse(t)) /\ UNCHANGED revs
    /\ UNCHANGED <<main, snap, imp, cache, pend, keep, domain, pc, op, from,
                   count>>

DropEnd ==
    /\ At("start", "drop") /\ todo = {}
    /\ Goto(IF SnapshotsDisabled THEN "reset" ELSE "unsnap")
    /\ UnchangedCall
    /\ UNCHANGED <<lvs, cache, pend, keep, domain, count>>

(* _snapshot(): whatever goes wrong with the removal is ignored.           *)
Unsnap ==
    /\ At("start", "unsnap")
    /\ snap' = 0 \/ (CommandsFail /\ UNCHANGED snap)
    /\ Goto("snapshot")
    /\ UnchangedCall
    /\ UNCHANGED <<main, imp, revs, cache, pend, keep, domain, count>>

Snapshot ==
    /\ At("start", "snapshot") /\ CanWork
    /\ \E d \in Known : IsCurrent(d, cache) /\ snap' = d
    /\ Goto("reset")
    /\ UnchangedCall
    /\ UNCHANGED <<main, imp, revs, cache, pend, keep, domain, count>>

(* The last reset_cache_coro() of a call.                                  *)
Reset ==
    /\ pc = "reset"
    /\ cache' = Listed
    /\ End /\ QubeAfter(TRUE)
    /\ UNCHANGED <<lvs, pend, keep, count>>

---------------------------------------------------------------------------
(* The domain.                                                             *)

(* block_device(): which of them the domain gets is decided only here.     *)
DomainStart ==
    /\ qube = "ready" /\ qube' = "on"
    /\ device' = IF SnapshotsDisabled THEN OnMain ELSE OnSnap
    /\ IF SnapshotsDisabled THEN main # 0 ELSE snap # 0
    /\ UNCHANGED <<lvs, cache, pend, keep, call, count>>

(* No device, or a failure before or in createWithFlags().                 *)
DomainStartFails ==
    /\ qube = "ready" /\ qube' = "ended"
    /\ UNCHANGED <<lvs, cache, pend, keep, device, call, count>>

Write ==
    /\ qube = "on"
    /\ \E d \in Data :
        /\ Fresh(d)
        /\ main' = IF device = OnMain THEN d ELSE main
        /\ snap' = IF device = OnSnap THEN d ELSE snap
        /\ revs' = IF device \in Times THEN [revs EXCEPT ![device] = d]
                                       ELSE revs
    /\ UNCHANGED <<imp, cache, pend, keep, domain, call, now, lists, crashes>>

DomainEnds ==
    /\ qube = "on" /\ qube' = "ended" /\ device' = OnSnap
    /\ UNCHANGED <<lvs, cache, pend, keep, call, count>>

---------------------------------------------------------------------------
(* stop() and _commit()                                                    *)

(* Make a revision of what there is, unless it is one already.             *)
Commit == IF cache.main THEN "backup" ELSE "promote"

(* With nothing to commit stop() ends here, and leaves size_cache alone.   *)
StopBegin ==
    /\ qube = "ended" /\ op = "none"
    /\ IF ~SnapshotsDisabled /\ ~cache.snap
       THEN /\ qube' = "off"
            /\ UNCHANGED <<op, pc, from>>
       ELSE /\ Begin("stop", IF SnapshotsDisabled THEN "reset" ELSE Commit)
            /\ from' = "snap"
            /\ UNCHANGED qube
    /\ UNCHANGED <<lvs, cache, pend, keep, device, todo, count>>

BackUp_Removed == UNCHANGED revs    \* fault: removed, not renamed
BackUp == revs' = [revs EXCEPT ![now] = main]

RenameToRevision ==
    /\ pc = "backup" /\ CanWork
    /\ BackUp /\ main' = 0
    /\ device' = IF InUse(OnMain) THEN now ELSE device
    /\ Goto("recache")
    /\ UnchangedCall
    /\ UNCHANGED <<snap, imp, cache, pend, keep, qube, count>>

Recache ==
    /\ pc = "recache"
    /\ cache' = Listed
    /\ Goto("promote")
    /\ UnchangedCall
    /\ UNCHANGED <<lvs, pend, keep, domain, count>>

(* What is committed is renamed; what belongs to another volume is cloned. *)
Promote ==
    /\ pc = "promote" /\ CanWork
    /\ main' = ToCommit
    /\ snap' = IF from = "snap" THEN 0 ELSE snap
    /\ imp' = IF from = "imp" THEN 0 ELSE imp
    /\ Goto("prepare")
    /\ UnchangedCall
    /\ UNCHANGED <<revs, cache, pend, keep, domain, count>>

(* revisions[: -revisions_to_keep or None]                                 *)
Surplus(times) ==
    {t \in times :
        LET newer == Cardinality({s \in times : s > t}) IN
        IF keep = -1 THEN newer + 1 = Cardinality(times) ELSE newer >= keep}

(* "make sure the one we've committed right now is properly detected"      *)
Prepare ==
    /\ pc = "prepare"
    /\ cache' = Listed
    /\ main # 0
    /\ Goto("prune")
    /\ todo' = Surplus(Backs)
    /\ UNCHANGED <<lvs, pend, keep, domain, from, count>>

Prune ==
    /\ pc = "prune" /\ todo # {}
    /\ \E t \in todo :
        /\ todo' = todo \ {t}
        /\ \/ MayDrop(t) /\ revs' = [revs EXCEPT ![t] = 0]
           \/ (CommandsFail \/ InUse(t)) /\ UNCHANGED revs
    /\ UNCHANGED <<main, snap, imp, cache, pend, keep, domain, pc, op, from,
                   count>>

PruneEnd ==
    /\ pc = "prune" /\ todo = {}
    /\ Goto("reset")
    /\ UnchangedCall
    /\ UNCHANGED <<lvs, cache, pend, keep, domain, count>>

---------------------------------------------------------------------------
(* import_data(), import_data_end(), import_volume(), revert()             *)

MayReplace == ~Dirty /\ ~ImportInProgress

(* admin.vm.volume.Clear, unlike admin.vm.volume.Import, does not ask      *)
(* whether the qube is halted.                                             *)
ImportBegin ==
    /\ MayReplace
    /\ Begin("import", "create")
    /\ UnchangedCall
    /\ UNCHANGED <<lvs, cache, pend, keep, domain, count>>

ImportCreate ==
    /\ At("import", "create") /\ CanWork
    /\ imp' = Torn
    /\ Goto("reset")
    /\ UnchangedCall
    /\ UNCHANGED <<main, snap, revs, cache, pend, keep, domain, count>>

(* The script that got the path writes the last of the data.               *)
Upload ==
    /\ imp = Torn /\ op \notin {"import", "importEnd"}
    /\ \E d \in Data : Fresh(d) /\ imp' = d
    /\ UNCHANGED <<main, snap, revs, cache, pend, keep, domain, call, now,
                   lists, crashes>>

AfterUpload_Commits(success) == Commit    \* fault: success is not looked at
AfterUpload(success) ==
    IF ~success THEN "discard" ELSE IF cache.imp THEN Commit ELSE "reset"

(* internal.vm.volume.ImportEnd says "ok" only after that.                 *)
ImportEnd ==
    /\ imp # 0
    /\ \E success \in BOOLEAN :
        /\ success => imp \in Data
        /\ Begin("importEnd", AfterUpload(success))
    /\ from' = "imp"
    /\ UNCHANGED <<lvs, cache, pend, keep, domain, todo, count>>

Discard ==
    /\ At("importEnd", "discard")
    /\ imp' = 0
    /\ Goto("reset")
    /\ UnchangedCall
    /\ UNCHANGED <<main, snap, revs, cache, pend, keep, domain, count>>

(* import_volume() of a volume in the same thin pool; its data is whole.   *)
CloneBegin ==
    /\ MayReplace
    /\ Begin("clone", Commit) /\ from' = "other"
    /\ UNCHANGED <<lvs, cache, pend, keep, domain, todo, count>>

RevertBegin ==
    /\ MayReplace
    /\ \E t \in cache.revs \cap Backs :
        /\ todo' = {t}
        /\ Begin("revert", IF cache.main THEN "remove" ELSE "restore")
    /\ UNCHANGED <<lvs, cache, pend, keep, domain, from, count>>

RevertRemove ==
    /\ At("revert", "remove") /\ CanWork
    /\ main' = 0
    /\ Goto("restore")
    /\ UnchangedCall
    /\ UNCHANGED <<snap, imp, revs, cache, pend, keep, domain, count>>

RevertRestore ==
    /\ At("revert", "restore") /\ CanWork
    /\ \E t \in todo : main' = revs[t]
    /\ Goto("reset")
    /\ UnchangedCall
    /\ UNCHANGED <<snap, imp, revs, cache, pend, keep, domain, count>>

---------------------------------------------------------------------------
(* Around it.                                                              *)

(* set_revisions_to_keep(): snapshots are not turned on or off under a     *)
(* running domain.                                                         *)
SetKeep ==
    /\ \E k \in Keeps \ {keep} :
        /\ -1 \in {k, keep} => qube # "on"
        /\ keep' = k
    /\ UNCHANGED <<lvs, cache, pend, domain, call, count>>

Tick ==
    /\ now < MaxTime /\ now' = now + 1
    /\ UNCHANGED <<lvs, cache, pend, keep, domain, call, last, lists, crashes>>

(* reset_cache_coro() of another volume: the lvs, and later its result.    *)
OtherList ==
    /\ lists < MaxLists /\ lists' = lists + 1
    /\ pend' = Listed
    /\ UNCHANGED <<lvs, cache, keep, domain, call, last, now, crashes>>

OtherReset ==
    /\ pend # NoList
    /\ cache' = pend /\ pend' = NoList
    /\ UNCHANGED <<lvs, keep, domain, call, count>>

(* qubesd restarts, with the domain running on, or the power is cut; then  *)
(* stop_storage() stops the volumes of every qube that is not running.     *)
Crash ==
    /\ crashes < MaxCrashes /\ crashes' = crashes + 1
    /\ cache' = Listed /\ pend' = NoList
    /\ End
    /\ \/ qube' = "ended" /\ device' = OnSnap
       \/ qube = "on" /\ UNCHANGED domain
    /\ UNCHANGED <<lvs, keep, last, now, lists>>

Next ==
    \/ Wipe \/ Raise \/ Verify \/ StartRefused
    \/ StartBegin \/ Activate \/ Drop \/ DropEnd \/ Unsnap \/ Snapshot
    \/ DomainStart \/ DomainStartFails \/ Write \/ DomainEnds
    \/ StopBegin \/ RenameToRevision \/ Recache \/ Promote \/ Prepare
    \/ Prune \/ PruneEnd \/ Reset
    \/ ImportBegin \/ ImportCreate \/ Upload \/ ImportEnd \/ Discard
    \/ CloneBegin \/ RevertBegin \/ RevertRemove \/ RevertRestore
    \/ SetKeep \/ Tick \/ OtherList \/ OtherReset \/ Crash

Spec == Init /\ [][Next]_vars

---------------------------------------------------------------------------
(* The inductive invariant.                                                *)

Committing == {"backup", "recache", "promote"}

CallInv ==
    /\ op = "none" <=> pc = "idle"
    /\ pc \in {"activate", "drop", "unsnap", "snapshot"} => op = "start"
    /\ pc \in Committing \cup {"prepare", "prune"}
            => op \in {"stop", "importEnd", "clone"}
    /\ pc = "create" => op = "import"
    /\ pc = "discard" => op = "importEnd"
    /\ pc \in {"remove", "restore"} => op = "revert"
    /\ op = "start" => qube = "starting"
    /\ op = "stop" => qube = "ended"
    /\ pc \in Committing =>
        /\ from = "snap" <=> op = "stop"
        /\ from = "imp" <=> op = "importEnd"

(* While anything is removed there is something left.                      *)
CopyInv ==
    /\ pc \in {"prepare", "prune"} => main # 0
    /\ pc \in {"remove", "restore"} => \E t \in todo : revs[t] # 0
    /\ op = "importEnd" /\ pc \in Committing => imp \in Data

(* No revision is from the future, and the domain's volume exists.         *)
DomainInv ==
    /\ \A t \in Backs : t <= now
    /\ qube = "on" =>
        /\ device = OnMain => main # 0
        /\ device = OnSnap => snap # 0
        /\ device \in Times => revs[device] # 0

---------------------------------------------------------------------------
(* Properties.                                                             *)

(* A qube, a clone or a later session never gets, and a revision is never  *)
(* made of, an import that has not come to its end.                        *)
CommittedIsWhole == Torn \notin {main, snap} \cup {revs[t] : t \in Times}

VolumeInv == TypeOK /\ CallInv /\ CopyInv /\ DomainInv /\ CommittedIsWhole

(* "make sure the one we've committed right now is properly detected [...]  *)
(* before removing anything": no commit, import, clone or revert, however  *)
(* far it gets, takes away the last copy of the volume.                    *)
Copies == ({main} \cup {revs[t] : t \in Times}) \ {0}
LastCopyKept ==
    [][Copies' = {} /\ Copies # {} => op = "start" /\ pc = "drop"]_vars

(* The volume is "the most recent committed volume state": whatever fails  *)
(* or crashes, only revert() brings back an earlier one.                   *)
OnlyRevertGoesBack ==
    [][<<main, revs>>' # <<main, revs>> =>
        \A d \in Known : IsCurrent(d, Listed)' /\ ~IsCurrent(d, Listed) =>
            \/ d \in {snap, imp, Foreign}
            \/ last' > last /\ d = last'
            \/ op = "revert"
            \/ op = "start" /\ pc = "drop"]_vars

(* "-snap" is, "at VM shutdown, [...] committed": what a session wrote is  *)
(* not thrown away before it is committed.                                 *)
SessionKept ==
    [][(snap \in Data \ Copies /\ snap' # snap) =>
            main' = snap \/ (snap' = last' /\ last' > last)]_vars
=============================================================================
