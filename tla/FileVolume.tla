----------------------------- MODULE FileVolume -----------------------------
(* The private volume of a template for disposables in a pool of the driver  *)
(* "file" (storage/file.py): an image, and a copy-on-write file into which   *)
(* device-mapper saves the old blocks of a session.  A disposable may start  *)
(* at any time and reads the image through that file: what the volume was    *)
(* before the session.                                                       *)
EXTENDS Integers

CONSTANTS FileKeeps,    \* values of revisions_to_keep, of -1, 0, 1
          MaxWrites,    \* versions ever written into the image
          MaxCrashes    \* restarts of qubesd and power cuts

VARIABLES
    img,        \* what volume.img holds: a version; 0 when it is missing
    cow,        \* volume-cow.img: "none", "empty", or "data" of a session
    base,       \* the version the data in it restores
    kept,       \* revisions_to_keep
    mark,       \* _export_lock: "none", "running" or "exported"
    run,        \* the template: "off", "starting", "on", or "ending"
    direct,     \* its domain was created on the image without device-mapper
    away,       \* the image was replaced under the running template
    import,     \* volume-import.img: "none", "partial" or "full"
    reader,     \* the version a disposable runs on; 0: none, -1: a mixture
    alive,      \* the domain of the disposable exists
    committed,  \* history: the last version stopped, imported or cloned
    started,    \* history: committed when it started; -1 with a mixed file
    mixed,      \* history: the copy-on-write file has old blocks for good
    crossed,    \* history: a check found a qube halted that was starting
    blind,      \* history: qubesd restarted under a session
    writes, crashes

disk == <<img, cow, base, import>>
memory == <<kept, mark>>
session == <<direct, away>>
readers == <<reader, alive, started>>
notes == <<committed, mixed, crossed, blind>>
counters == <<writes, crashes>>
fileVars == <<disk, memory, run, session, readers, notes, counters>>

(* qubesd after stop_storage().                                            *)
FileInit ==
    /\ img = 1 /\ cow = "none" /\ base = 0 /\ import = "none"
    /\ kept \in FileKeeps /\ mark = "none" /\ run = "off"
    /\ direct = FALSE /\ away = FALSE
    /\ reader = 0 /\ alive = FALSE /\ started = 0
    /\ committed = 1 /\ mixed = FALSE /\ crossed = FALSE /\ blind = FALSE
    /\ writes = 1 /\ crashes = 0

snapshots_disabled == kept = -1

(* is_dirty(): the copy-on-write file has blocks of a session.             *)
is_dirty == cow = "data"

----------------------------------------------------------------------------
(* A session of the template.                                              *)

(* The domain-pre-start handler of the template and start(): refused while *)
(* exported and, as the mark then stays, after a start that failed here;   *)
(* a copy-on-write file that is there is used on.                          *)
FileStartBegin ==
    /\ run = "off" /\ mark = "none" /\ img # 0
    /\ snapshots_disabled => ~alive
    /\ mark' = "running" /\ run' = "starting"
    /\ cow' = IF cow = "none" /\ ~snapshots_disabled THEN "empty" ELSE cow
    /\ crossed' = (crossed \/ (snapshots_disabled /\ reader # 0))
    /\ UNCHANGED <<img, base, import, kept, session, readers, committed, mixed, blind, counters>>

StartDone ==
    /\ run = "starting" /\ run' = "on" /\ direct' = snapshots_disabled
    /\ UNCHANGED <<disk, memory, away, readers, notes, counters>>

(* When Storage.start() itself fails nobody calls stop(); when the start   *)
(* of the domain fails, the storage is stopped.                            *)
StartFails ==
    /\ run = "starting" /\ run' \in {"off", "ending"}
    /\ UNCHANGED <<disk, memory, session, readers, notes, counters>>

(* The template writes: what was there is saved first, unless snapshots    *)
(* are disabled.  A disposable then sees the new blocks.                   *)
ImageWrite ==
    /\ run = "on" /\ writes < MaxWrites /\ writes' = writes + 1
    /\ IF away THEN UNCHANGED img ELSE img' = writes + 1
    /\ IF direct
       THEN /\ UNCHANGED <<cow, base>>
            /\ mixed' = (mixed \/ (~away /\ cow = "data"))
            /\ reader' = IF away \/ reader = 0 THEN reader ELSE -1
       ELSE /\ cow' = "data"
            /\ base' = IF cow = "data" THEN base ELSE img
            /\ mixed' = (mixed \/ away)
            /\ UNCHANGED reader
    /\ UNCHANGED <<import, memory, run, session, alive, started, committed, crossed, blind, crashes>>

SessionEnds ==
    /\ run = "on" /\ run' = "ending"
    /\ UNCHANGED <<disk, memory, session, readers, notes, counters>>

(* commit() that keeps the copy-on-write file.  "A_B" is A with a mistake.  *)
commit_Kept == cow' = cow /\ base' = base /\ mixed' = FALSE

(* commit(): the saved blocks go, or become the revision "old", and a new  *)
(* copy-on-write file is made.                                             *)
commit == cow' = "empty" /\ base' = 0 /\ mixed' = FALSE

(* stop().  The assertion that it is not exported can fail only after a    *)
(* restart of qubesd; the volume then keeps the copy-on-write file.        *)
stop ==
    /\ IF snapshots_disabled THEN UNCHANGED <<cow, base, mixed>> ELSE commit
    /\ mark' = "none" /\ committed' = img

Stop ==
    /\ run = "ending" /\ run' = "off" /\ direct' = FALSE /\ away' = FALSE
    /\ IF mark = "exported"
       THEN /\ committed' = IF is_dirty THEN committed ELSE img
            /\ UNCHANGED <<cow, base, mixed, mark>>
       ELSE stop
    /\ UNCHANGED <<img, import, kept, readers, crossed, blind, counters>>

(* Storage.set_revisions_to_keep(): snapshots are enabled and disabled     *)
(* only while neither the template nor a disposable runs.                  *)
SetRevisionsToKeep(k) ==
    /\ k # kept /\ kept' = k
    /\ -1 \in {k, kept} => run \notin {"on", "ending"} /\ ~alive
    /\ crossed' = (crossed \/ (-1 \in {k, kept} /\ (run = "starting" \/ reader # 0)))
    /\ mixed' = (mixed \/ (k = -1 /\ is_dirty))
    /\ UNCHANGED <<disk, mark, run, session, readers, committed, blind, counters>>

----------------------------------------------------------------------------
(* The disposable.                                                         *)

View == IF mixed THEN -1 ELSE IF cow = "data" THEN base ELSE img

(* Storage.start() and start() of its volume: not while the template runs  *)
(* without snapshots, which its state file tells; the copy-on-write file   *)
(* of the template is made if it is missing.                               *)
ReaderStarts ==
    /\ reader = 0 /\ img # 0
    /\ ~(snapshots_disabled /\ run \in {"on", "ending"})
    /\ cow' = IF cow = "none" THEN "empty" ELSE cow
    /\ reader' = View /\ started' = IF mixed THEN -1 ELSE committed
    /\ crossed' = (crossed \/ (snapshots_disabled /\ run = "starting"))
    /\ UNCHANGED <<img, base, import, memory, run, session, alive, committed, mixed, blind, counters>>

ReaderUp ==
    /\ reader # 0 /\ ~alive /\ alive' = TRUE
    /\ UNCHANGED <<disk, memory, run, session, reader, started, notes, counters>>

ReaderStops ==
    /\ reader # 0 /\ reader' = 0 /\ alive' = FALSE /\ started' = 0
    /\ crossed' = (crossed /\ (run # "off" \/ is_dirty))
    /\ UNCHANGED <<disk, memory, run, session, committed, mixed, blind, counters>>

----------------------------------------------------------------------------
(* Copies out of and into the volume.                                      *)

(* export() is refused while the template runs, or ran and was not stopped.*)
Export ==
    /\ mark = "none" /\ ~is_dirty /\ mark' = "exported"
    /\ UNCHANGED <<disk, kept, run, session, readers, notes, counters>>

export_end ==
    /\ mark = "exported" /\ mark' = "none"
    /\ UNCHANGED <<disk, kept, run, session, readers, notes, counters>>

(* The image is another file from now on; a copy-on-write file is kept.    *)
ReplaceImage(v) ==
    /\ img' = v /\ committed' = v
    /\ away' = (run # "off") /\ UNCHANGED direct
    /\ mixed' = (mixed \/ is_dirty)

(* import_volume() of a qube that admin.vm.volume.CloneTo found halted:    *)
(* the image is removed before the other is copied, and it is gone when    *)
(* the other cannot be exported or copied.                                 *)
import_volume(ok) ==
    /\ run \in {"off", "starting"}
    /\ IF ok
       THEN /\ writes < MaxWrites /\ writes' = writes + 1
            /\ ReplaceImage(writes + 1)
       ELSE ReplaceImage(0) /\ UNCHANGED writes
    /\ UNCHANGED <<cow, base, import, memory, run, readers, crossed, blind, crashes>>

(* internal.vm.volume.ImportBegin of a halted qube; import_data() refuses  *)
(* when the file is there already.                                         *)
import_data ==
    /\ run \in {"off", "starting"} /\ import = "none" /\ import' = "partial"
    /\ UNCHANGED <<img, cow, base, memory, run, session, readers, notes, counters>>

ImportedAll ==
    /\ import = "partial" /\ import' = "full"
    /\ UNCHANGED <<img, cow, base, memory, run, session, readers, notes, counters>>

(* import_data_end() does not look at the qube again.                      *)
import_data_end(success) ==
    /\ import # "none" /\ import' = "none"
    /\ IF success
       THEN /\ import = "full" /\ writes < MaxWrites /\ writes' = writes + 1
            /\ ReplaceImage(writes + 1)
       ELSE UNCHANGED <<img, committed, session, mixed, writes>>
    /\ UNCHANGED <<cow, base, memory, run, readers, crossed, blind, crashes>>

----------------------------------------------------------------------------
(* qubesd restarts: what _export_lock said is forgotten, and stop_storage()*)
(* stops the volumes of every qube that does not run.                      *)
FileRestart ==
    /\ crashes < MaxCrashes /\ crashes' = crashes + 1
    /\ \/ /\ run = "on" /\ mark' = "none" /\ blind' = TRUE
          /\ UNCHANGED <<cow, base, mixed, committed, run, session>>
       \/ /\ stop /\ run' = "off" /\ direct' = FALSE /\ away' = FALSE /\ blind' = FALSE
    /\ \/ ~alive /\ reader' = 0 /\ started' = 0 /\ crossed' = FALSE
       \/ alive /\ UNCHANGED <<reader, started, crossed>>
    /\ UNCHANGED <<img, import, kept, alive, writes>>

(* The power goes, and qubesd starts: the blocks of an unfinished session  *)
(* are committed by stop_storage().                                        *)
PowerCut ==
    /\ crashes < MaxCrashes /\ crashes' = crashes + 1
    /\ stop /\ run' = "off" /\ direct' = FALSE /\ away' = FALSE
    /\ reader' = 0 /\ alive' = FALSE /\ started' = 0
    /\ crossed' = FALSE /\ blind' = FALSE
    /\ UNCHANGED <<img, import, kept, writes>>

FileNext ==
    \/ FileStartBegin \/ StartDone \/ StartFails \/ ImageWrite \/ SessionEnds \/ Stop
    \/ \E k \in FileKeeps : SetRevisionsToKeep(k)
    \/ ReaderStarts \/ ReaderUp \/ ReaderStops \/ Export \/ export_end
    \/ \E ok \in BOOLEAN : import_volume(ok)
    \/ import_data \/ ImportedAll
    \/ \E ok \in BOOLEAN : import_data_end(ok)
    \/ FileRestart \/ PowerCut

FileSpec == FileInit /\ [][FileNext]_fileVars

----------------------------------------------------------------------------
(* Properties.                                                             *)

(* A disposable that starts from the volume reads what was last committed  *)
(* when it started, also while a session writes into the image, whatever   *)
(* session began, ended or was cut before.                                 *)
ReaderSeesCommitted == reader # 0 /\ ~crossed => reader = started

(* An image is not written while it is exported.                           *)
ExportedIsStill == mark = "exported" /\ ~blind => run = "off"

(* Both: disposables and exports read a volume that is committed and does  *)
(* not change under them.                                                  *)
ReadersServed == ReaderSeesCommitted /\ ExportedIsStill

(* The inductive invariant.  What was committed is in the image, or in the *)
(* copy-on-write file once a session has written; only a domain without    *)
(* device-mapper writes past it, and then no disposable is there that the  *)
(* checks have seen.                                                       *)
FileInv ==
    /\ run \in {"off", "starting", "on", "ending"}
    /\ direct \in BOOLEAN /\ crossed \in BOOLEAN /\ mixed \in BOOLEAN
    /\ direct => snapshots_disabled /\ run \in {"on", "ending"}
    /\ run = "on" => (direct <=> snapshots_disabled)
    /\ cow = "data" /\ snapshots_disabled => mixed
    /\ cow = "data" /\ ~mixed => base = committed
    /\ cow # "data" /\ ~direct => img = committed
    /\ mixed => cow = "data"
    /\ reader # 0 /\ ~crossed =>
            reader = started /\ (snapshots_disabled => run = "off")
    /\ ~blind /\ run # "off" => mark = "running"
=============================================================================
