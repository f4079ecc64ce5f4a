---------------------------- MODULE ReflinkVolume ----------------------------
(***************************************************************************)
(* One volume of a file-reflink pool that is kept when its qube stops:     *)
(* ReflinkVolume of qubes/storage/reflink.py under start() and stop() of   *)
(* its qube, volume import, clone and revert.                              *)
(*                                                                         *)
(* A call works on the image files in a thread of its own, and holds the   *)
(* lock of the volume.  A step is what replace_file(), rename_file() or    *)
(* remove_file() makes durable: a power cut falls between two of them.     *)
(* What an image says is a number, 0 is no such file.  Temporary files     *)
(* ("~") and sizes are left out.                                           *)
(***************************************************************************)
EXTENDS Integers, FiniteSets

CONSTANTS
    Keeps,          \* values an administrator gives revisions_to_keep
    Imports,        \* callers of admin.vm.volume.Import and Clear
    MaxData,        \* bound: writes
    MaxRevs,        \* bound: numbers of revisions
    MaxUpsets       \* bound: file operations that fail for reasons of their
                    \* own, power cuts, restarts of qubesd, manual edits, and
                    \* times that snapshots are turned off or on

ASSUME ReflinkAssumption ==
    /\ Keeps # {} /\ \A k \in Keeps : k \in Int /\ k >= -1
    /\ MaxData \in Nat \ {0} /\ MaxRevs \in Nat \ {0} /\ MaxUpsets \in Nat

VARIABLES
    clean, dirty, pre,  \* .img, -dirty.img, -precache.img
    imp, writer,        \* -import.img, and whose it is
    revs,               \* .img.<number>@<time>Z
    keep,               \* revisions_to_keep
    qube,               \* the domain
    op, pc, todo,       \* the call that holds the volume's lock
    up,                 \* how far an import has come
    last, upsets,       \* counters of what is bounded
    overlapped,         \* history: an import began while another went on
    turned              \* history: revisions_to_keep changed during the call

files == <<clean, dirty, pre, imp, revs>>
call  == <<op, pc, todo, turned>>
count == <<last, upsets>>
vars  == <<files, writer, keep, qube, call, up, count, overlapped>>

Data    == 1..MaxData
Foreign == MaxData + 1      \* the data of the volume a clone is made of
Torn    == MaxData + 2      \* an import that has not ended
Known   == 1..Torn
Numbers == 1..MaxRevs
Nobody  == "nobody"

Calls == {"none", "start", "stop", "importEnd", "clone", "revert"}
Pcs == {"idle", "unimport", "prune", "unprecache", "take", "check", "copy",
        "revision", "uncache", "replace", "precache", "discard"}

TypeOK ==
    /\ {clean, dirty, pre, imp} \subseteq Known \cup {0}
    /\ writer \in Imports \cup {Nobody}
    /\ revs \in [Numbers -> Known \cup {0}]
    /\ keep \in Keeps
    /\ qube \in {"off", "starting", "on", "ended", "recovering"}
    /\ op \in Calls /\ pc \in Pcs /\ todo \subseteq Numbers
    /\ up \in [Imports -> {"none", "writing", "written"}]
    /\ last \in 0..MaxData /\ upsets \in 0..MaxUpsets
    /\ overlapped \in BOOLEAN /\ turned \in BOOLEAN

SnapshotsDisabled == keep = -1

(* create() has made the image and, with snapshots, its copy.              *)
Init ==
    /\ clean = 1 /\ dirty = 0 /\ imp = 0 /\ writer = Nobody
    /\ keep \in Keeps
    /\ pre = IF SnapshotsDisabled THEN 0 ELSE clean
    /\ revs = [n \in Numbers |-> 0]
    /\ qube = "off"
    /\ op = "none" /\ pc = "idle" /\ todo = {}
    /\ up = [i \in Imports |-> "none"]
    /\ last = 1 /\ upsets = 0 /\ overlapped = FALSE /\ turned = FALSE

---------------------------------------------------------------------------
(* Calls and what they have in common.                                     *)

Revisions == {n \in Numbers : revs[n] # 0}

(* list(self.revisions.items())[: -keep or None]: with -1, the oldest one. *)
Surplus_OneMore ==
    {n \in Revisions : Cardinality({m \in Revisions : m > n}) >= keep - 1}
Surplus ==
    {n \in Revisions :
        LET newer == Cardinality({m \in Revisions : m > n})
        IN IF keep = -1 THEN newer + 1 = Cardinality(Revisions)
           ELSE newer >= keep}

IsNext(n) == n \in Numbers /\ \A m \in Revisions : m < n
NextRevision(n) == IsNext(n) /\ \A m \in Numbers : IsNext(m) => n <= m

Begin(name, where) == op = "none" /\ op' = name /\ pc' = where
At(where) == pc = where
Goto(where) == pc' = where /\ UNCHANGED <<op, turned>>
End == op' = "none" /\ pc' = "idle" /\ todo' = {} /\ turned' = FALSE
Upset == upsets < MaxUpsets /\ upsets' = upsets + 1

QubeAfter(ok) ==
    qube' = IF op = "start" /\ ok THEN "on"
            ELSE IF op \in {"start", "stop"} THEN "off" ELSE qube

(* The image that _commit() or revert() makes the volume.                  *)
NewClean == IF op = "stop" THEN dirty ELSE imp

(* What the file operation of this step needs.                             *)
CanWork ==
    /\ pc \in {"take", "check", "copy", "revision"} => clean # 0
    /\ pc = "replace" => (op = "revert" \/ NewClean # 0)
    /\ pc = "uncache" => (op = "revert" \/ NewClean # 0)
    /\ op = "revert" /\ pc \in {"revision", "uncache", "replace"} =>
            \A n \in todo : revs[n] # 0

Raise ==
    /\ pc # "idle"
    /\ (~CanWork /\ UNCHANGED upsets) \/ Upset
    /\ End /\ QubeAfter(FALSE)
    /\ UNCHANGED <<files, writer, keep, up, last, overlapped>>

---------------------------------------------------------------------------
(* start()                                                                 *)

(* verify() has found the image.                                           *)
StartBegin ==
    /\ qube = "off" /\ clean # 0
    /\ Begin("start", "unimport") /\ qube' = "starting"
    /\ UNCHANGED <<files, writer, keep, todo, turned, up, count, overlapped>>

AfterUnimport ==
    IF SnapshotsDisabled THEN "prune" ELSE IF dirty # 0 THEN "started"
    ELSE "check"

Started == End /\ QubeAfter(TRUE)

(* _remove_incomplete_images()                                             *)
RemoveImport ==
    /\ At("unimport") /\ op = "start"
    /\ imp' = 0 /\ writer' = Nobody
    /\ IF AfterUnimport = "started" THEN Started
       ELSE /\ Goto(AfterUnimport) /\ UNCHANGED qube
            /\ todo' = IF AfterUnimport = "prune" THEN Revisions ELSE {}
    /\ UNCHANGED <<clean, dirty, pre, revs, keep, up, count, overlapped>>

(* With snapshots disabled: the domain gets the image itself.              *)
RemovePrecache ==
    /\ At("unprecache")
    /\ pre' = 0
    /\ IF dirty # 0 THEN Started ELSE Goto("take") /\ UNCHANGED <<qube, todo>>
    /\ UNCHANGED <<clean, dirty, imp, writer, revs, keep, up, count,
                   overlapped>>

TakeClean ==
    /\ At("take") /\ CanWork
    /\ dirty' = clean /\ clean' = 0
    /\ Started
    /\ UNCHANGED <<pre, imp, writer, revs, keep, up, count, overlapped>>

(* _remove_stale_precache() compares it with the image.                    *)
IsStale_Never == FALSE
IsStale == pre # clean
RemoveStale ==
    /\ At("check") /\ CanWork
    /\ pre' = IF IsStale THEN 0 ELSE pre
    /\ Goto("copy")
    /\ UNCHANGED <<clean, dirty, imp, writer, revs, keep, qube, todo, up,
                   count, overlapped>>

CopyClean ==
    /\ At("copy") /\ CanWork
    /\ dirty' = IF pre # 0 THEN pre ELSE clean
    /\ pre' = 0
    /\ Started
    /\ UNCHANGED <<clean, imp, writer, revs, keep, up, count, overlapped>>

---------------------------------------------------------------------------
(* The domain.                                                             *)

Write ==
    /\ qube = "on" /\ dirty # 0
    /\ last < MaxData /\ last' = last + 1 /\ dirty' = last'
    /\ UNCHANGED <<clean, pre, imp, writer, revs, keep, qube, call, up,
                   upsets, overlapped>>

DomainEnds ==
    /\ qube = "on" /\ qube' = "ended"
    /\ UNCHANGED <<files, writer, keep, call, up, count, overlapped>>

---------------------------------------------------------------------------
(* stop() and _commit()                                                    *)

Commit == IF keep = 0 THEN "prune" ELSE "revision"
EnterCommit == todo' = IF Commit = "prune" THEN Surplus ELSE {}

StopBegin ==
    /\ qube \in {"ended", "recovering"} /\ op = "none"
    /\ IF dirty = 0 THEN qube' = "off" /\ UNCHANGED <<op, pc, todo>>
       ELSE IF SnapshotsDisabled
       THEN Begin("stop", "replace") /\ UNCHANGED <<qube, todo>>
       ELSE Begin("stop", Commit) /\ EnterCommit /\ UNCHANGED qube
    /\ UNCHANGED <<files, writer, keep, turned, up, count, overlapped>>

(* _add_revision(); revert() goes on without pruning.                      *)
AddRevision ==
    /\ At("revision") /\ CanWork
    /\ \E n \in Numbers : NextRevision(n) /\ revs' = [revs EXCEPT ![n] = clean]
    /\ UNCHANGED <<clean, dirty, pre, imp, writer, keep, qube, up, count,
                   overlapped>>
    /\ IF op = "revert" THEN Goto("uncache") /\ UNCHANGED todo
       ELSE Goto("prune") /\ todo' = Surplus'

Prune ==
    /\ At("prune") /\ todo # {}
    /\ \E n \in todo :
        /\ \A m \in todo : n <= m
        /\ revs' = [revs EXCEPT ![n] = 0]
        /\ todo' = todo \ {n}
    /\ UNCHANGED <<clean, dirty, pre, imp, writer, keep, qube, op, pc, turned,
                   up, count, overlapped>>

PruneEnd ==
    /\ At("prune") /\ todo = {}
    /\ Goto(IF op = "start" THEN "unprecache" ELSE "uncache")
    /\ UNCHANGED <<files, writer, keep, qube, todo, up, count, overlapped>>

(* _update_precache(): first without a copy, then with a new one.          *)
Uncache ==
    /\ At("uncache") /\ CanWork
    /\ pre' = 0
    /\ Goto("replace")
    /\ UNCHANGED <<clean, dirty, imp, writer, revs, keep, qube, todo, up,
                   count, overlapped>>

(* stop() with snapshots disabled has no copy to care for.                 *)
AfterReplace == IF SnapshotsDisabled THEN "done" ELSE "precache"

Replace ==
    /\ At("replace") /\ CanWork
    /\ IF op = "revert"
       THEN \E n \in todo : clean' = revs[n] /\ revs' = [revs EXCEPT ![n] = 0]
       ELSE clean' = NewClean /\ UNCHANGED revs
    /\ dirty' = IF op = "stop" THEN 0 ELSE dirty
    /\ IF op \in {"importEnd", "clone"} THEN imp' = 0 /\ writer' = Nobody
                                        ELSE UNCHANGED <<imp, writer>>
    /\ IF AfterReplace = "done" THEN End /\ QubeAfter(TRUE)
       ELSE Goto("precache") /\ todo' = {} /\ UNCHANGED qube
    /\ UNCHANGED <<pre, keep, up, count, overlapped>>

Precache ==
    /\ At("precache")
    /\ pre' = clean
    /\ End /\ QubeAfter(TRUE)
    /\ UNCHANGED <<clean, dirty, imp, writer, revs, keep, up, count,
                   overlapped>>

---------------------------------------------------------------------------
(* import_data(), import_data_end(), import_volume(), revert()             *)

Serving == qube # "recovering"

(* A new file takes the place of one that is being written.                *)
ImportData(i) ==
    /\ Serving /\ op = "none" /\ up[i] = "none"
    /\ imp' = Torn /\ writer' = i
    /\ up' = [up EXCEPT ![i] = "writing"]
    /\ overlapped' = (overlapped \/ \E j \in Imports : up[j] # "none")
    /\ UNCHANGED <<clean, dirty, pre, revs, keep, qube, call, count>>

(* The last of the data is written, to the file that was opened.           *)
Upload(i) ==
    /\ up[i] = "writing" /\ up' = [up EXCEPT ![i] = "written"]
    /\ last < MaxData /\ last' = last + 1
    /\ imp' = IF writer = i THEN last' ELSE imp
    /\ UNCHANGED <<clean, dirty, pre, revs, writer, keep, qube, call, upsets,
                   overlapped>>

(* "ok" comes only after that.                                             *)
ImportEnd_Always(i) ==
    /\ Serving /\ up[i] # "none"
    /\ Begin("importEnd", Commit) /\ EnterCommit
    /\ up' = [up EXCEPT ![i] = "none"]
    /\ UNCHANGED <<files, writer, keep, qube, turned, count, overlapped>>
ImportEnd(i) ==
    /\ Serving /\ up[i] = "written"
    /\ Begin("importEnd", Commit) /\ EnterCommit
    /\ up' = [up EXCEPT ![i] = "none"]
    /\ UNCHANGED <<files, writer, keep, qube, turned, count, overlapped>>

ImportFailed(i) ==
    /\ Serving /\ op = "none" /\ up[i] # "none"
    /\ imp' = 0 /\ writer' = Nobody
    /\ up' = [up EXCEPT ![i] = "none"]
    /\ UNCHANGED <<clean, dirty, pre, revs, keep, qube, call, count,
                   overlapped>>

(* import_volume(): the copy is whole, or there is none.                   *)
Clone ==
    /\ Serving
    /\ Begin("clone", Commit) /\ EnterCommit
    /\ imp' = Foreign /\ writer' = Nobody
    /\ UNCHANGED <<clean, dirty, pre, revs, keep, qube, turned, up, count,
                   overlapped>>

RevertBegin ==
    /\ Serving /\ dirty = 0
    /\ \E n \in Revisions : todo' = {n}
    /\ Begin("revert", IF keep = 0 THEN "uncache" ELSE "revision")
    /\ UNCHANGED <<files, writer, keep, qube, turned, up, count, overlapped>>

---------------------------------------------------------------------------
(* Around it.                                                              *)

(* set_revisions_to_keep(): snapshots are not turned on or off under a     *)
(* running domain.                                                         *)
SetKeep ==
    /\ \E k \in Keeps \ {keep} :
        /\ IF -1 \in {k, keep} THEN qube # "on" /\ Upset ELSE UNCHANGED upsets
        /\ keep' = k
    /\ turned' = (op # "none")
    /\ UNCHANGED <<files, writer, qube, op, pc, todo, up, last, overlapped>>

(* "In case the user manually modified an image file"                      *)
Edit ==
    /\ qube = "off" /\ op = "none" /\ clean # 0 /\ Upset
    /\ last < MaxData /\ last' = last + 1 /\ clean' = last'
    /\ UNCHANGED <<dirty, pre, imp, revs, writer, keep, qube, call, up,
                   overlapped>>

(* qubesd restarts, with the domain running on, or the power is cut; then  *)
(* stop_storage() stops the volumes of every qube that is not running,     *)
(* before anything else is asked of them.                                  *)
Crash ==
    /\ Upset /\ End
    /\ \/ qube' = "recovering" /\ up' = [i \in Imports |-> "none"]
       \/ /\ qube' = IF qube = "on" THEN "on" ELSE "recovering"
          /\ UNCHANGED up
    /\ UNCHANGED <<files, writer, keep, last, overlapped>>

Next ==
    \/ Raise
    \/ StartBegin \/ RemoveImport \/ RemovePrecache \/ TakeClean
    \/ RemoveStale \/ CopyClean
    \/ Write \/ DomainEnds
    \/ StopBegin \/ AddRevision \/ Prune \/ PruneEnd \/ Uncache \/ Replace
    \/ Precache
    \/ \E i \in Imports :
        ImportData(i) \/ Upload(i) \/ ImportEnd(i) \/ ImportFailed(i)
    \/ Clone \/ RevertBegin \/ SetKeep \/ Edit \/ Crash

Spec == Init /\ [][Next]_vars

---------------------------------------------------------------------------
(* Properties.                                                             *)

(* Which call is where.                                                    *)
CallInv ==
    /\ op = "none" <=> pc = "idle"
    /\ pc \in {"unimport", "unprecache", "take", "check", "copy"} => op = "start"
    /\ pc \in {"revision", "uncache", "replace", "precache"} => op # "start"
    /\ op = "start" <=> qube = "starting"
    /\ op = "stop" => qube \in {"ended", "recovering"}
    /\ pc = "copy" => pre \in {0, clean}
    /\ clean # 0 \/ dirty # 0

(* What an import is to be replaced by has come to its end.                *)
UploadInv ==
    \/ overlapped
    \/ /\ \A i \in Imports : up[i] = "writing" => writer = i \/ imp # Torn
       /\ \A i \in Imports : up[i] = "written" => imp # Torn
       /\ \A i, j \in Imports : i # j => "none" \in {up[i], up[j]}
       /\ op \in {"importEnd", "clone"} => imp # Torn

(* What is to be replaced is a revision, and not one of those to prune or  *)
(* to restore.                                                             *)
KeptInv ==
    (/\ pc \in {"prune", "uncache", "replace"} /\ op # "start"
     /\ keep > 0 /\ ~turned /\ clean # 0) =>
        \E n \in Numbers \ todo : revs[n] = clean

(* "In case the user manually modified an image file but forgot about its  *)
(* precache": a session starts from the volume, whatever was interrupted   *)
(* and whatever the copy made in advance says.                             *)
SessionStartsFromClean ==
    [][dirty = 0 /\ dirty' # 0 => dirty' = clean]_vars

(* A session, a clone or a revision is never made of an import that has    *)
(* not come to its end, unless there were two of them at a time.           *)
CommittedIsWhole ==
    Torn \in {clean, dirty, pre} \cup {revs[n] : n \in Numbers} => overlapped

(* What commit or revert replaces is left as a revision, if any are kept:  *)
(* an interrupted call leaves "the old or the new volume".                 *)
ReplacedIsKept ==
    [][clean # 0 /\ clean' # clean /\ pc = "replace" /\ keep > 0 =>
        turned \/ \E n \in Numbers : revs'[n] = clean]_vars

(* There is always an image left: the volume, or what a session made of it.*)
ImageLeft == clean # 0 \/ dirty # 0
=============================================================================
