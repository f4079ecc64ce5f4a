------------------------------- MODULE Backup -------------------------------
(* admin.backup.Execute and Cancel, and Backup.backup_do() (backup.py): a    *)
(* task archives the files of the backup in chunks and puts them into a      *)
(* queue, SendWorker sends them to a file or to the service qubes.Backup of  *)
(* a qube, watchers cancel the task before the one that failed, and          *)
(* backup_do() collects them all.                                            *)
EXTENDS Integers, Sequences, SequencesExt, FiniteSets

CONSTANTS Calls,        \* calls of admin.backup.Execute for one profile
          Targets,      \* of {"file", "vm"}
          NFiles, MaxSize, ChunkSize,
          QueueMax,     \* to_send; 10 in the code
          MaxCancels    \* bound of calls of admin.backup.Cancel

(* There is always qubes.xml to back up, and chunks are not empty.         *)
ASSUME SizesAssumption ==
    NFiles \in Nat \ {0} /\ ChunkSize \in Nat \ {0} /\ MaxSize \in Nat

VARIABLES
    call,       \* each call: "idle", "loading", "running", "answered"
    target,     \* where the backup goes
    size,       \* of each file; 1 is qubes.xml, the others are volumes
    phase,      \* what backup_do() waits for
    result,     \* how it ends
    at,         \* where the archiving task is
    file, part, \* what it is archiving
    why,        \* the exception it ends with after its cleanup
    exported,   \* volumes exported
    leaked,     \* history: ... that nothing will release
    cut,        \* history: scrypt failed before the end of a chunk
    queue,      \* to_send
    sender,     \* SendWorker's task
    sending,    \* what it is sending
    service,    \* qubes.Backup and the task that monitors it
    pipe,       \* qubesd's end of the pipe to it is open
    watching,   \* the watchers that have not ended
    received,   \* the target's content
    stamped,    \* backup_timestamp was set
    cancels

backupVars == <<call, target, size, phase, result, at, file, part, why, exported, leaked,
                cut, queue, sender, sending, service, pipe, watching, received, stamped,
                cancels>>

Header == [file |-> 0, part |-> 1, data |-> 0]
FINISHED == [file |-> 0, part |-> 0, data |-> 1]
ERROR == [file |-> 0, part |-> 0, data |-> 2]

BackupInit ==
    /\ call = [c \in Calls |-> "idle"]
    /\ target \in Targets
    /\ size \in [1..NFiles -> 0..MaxSize] /\ size[1] = 1
    /\ phase = "none" /\ result = "none"
    /\ at = "none" /\ file = 1 /\ part = 1 /\ why = "no"
    /\ exported = {} /\ leaked = {} /\ cut = FALSE /\ queue = <<>>
    /\ sender = "none" /\ sending = Header
    /\ service = "none" /\ pipe = FALSE /\ watching = {}
    /\ received = <<>> /\ stamped = FALSE /\ cancels = 0

Request == <<call, target, size, cancels>>
Archiver == <<at, file, part, why, exported, leaked>>
Sending == <<sender, sending, received>>
Service == <<service, pipe>>

----------------------------------------------------------------------------
(* admin.backup.Execute.                                                   *)

(* _load_backup_profile() may wait for the passphrase of another qube.     *)
Execute(c) ==
    /\ call[c] = "idle" /\ call' = [call EXCEPT ![c] = "loading"]
    /\ UNCHANGED <<target, size, cancels, phase, result, Archiver, cut, queue, Sending,
                   Service, watching, stamped>>

(* The profile may be wrong, or the same backup runs already; else the     *)
(* task backup_do() begins, which may refuse before it starts anything.    *)
Loaded(c) ==
    /\ call[c] = "loading"
    /\ \/ /\ call' = [call EXCEPT ![c] = "answered"]
          /\ UNCHANGED <<phase, result, at, file, part, why, cut, queue, received, stamped>>
       \/ /\ \A d \in Calls : call[d] # "running"
          /\ call' = [call EXCEPT ![c] = "running"]
          /\ phase' = (IF target = "vm" THEN "service" ELSE "header")
          /\ result' = "none" /\ at' = "none" /\ file' = 1 /\ part' = 1 /\ why' = "no"
          /\ cut' = FALSE /\ queue' = <<>> /\ received' = <<>> /\ stamped' = FALSE
    /\ UNCHANGED <<target, size, cancels, exported, leaked, sender, sending, Service,
                   watching>>

(* The call returns when its task has ended.                               *)
Returns(c) ==
    /\ call[c] = "running" /\ phase = "over"
    /\ call' = [call EXCEPT ![c] = "answered"] /\ phase' = "none"
    /\ UNCHANGED <<target, size, cancels, result, Archiver, cut, queue, Sending, Service,
                   watching, stamped>>

----------------------------------------------------------------------------
(* The archiving task, _wrap_and_send_files().                             *)

DataOf(f, p) == IF size[f] - (p - 1) * ChunkSize < ChunkSize
                THEN size[f] - (p - 1) * ChunkSize ELSE ChunkSize

ChunkOf(f, p) == [file |-> f, part |-> p, data |-> DataOf(f, p)]

ChunkStep == UNCHANGED <<Request, phase, result, Sending, Service, watching, stamped>>
ArchiveStep == ChunkStep /\ UNCHANGED cut

Fails == at' = "failed" /\ UNCHANGED <<file, part, why, exported, leaked>>

(* The path of a volume is what its export() returns.                      *)
Export ==
    /\ at = "export"
    /\ \/ /\ exported' = exported \cup ({file} \ {1}) /\ at' = "spawn"
          /\ UNCHANGED <<file, part, why, leaked>>
       \/ file # 1 /\ Fails
    /\ UNCHANGED queue /\ ArchiveStep

(* tar is started; nothing releases the volume when that fails.            *)
Spawn ==
    /\ at = "spawn"
    /\ \/ at' = "chunk" /\ part' = 1 /\ UNCHANGED <<file, why, exported, leaked>>
       \/ /\ at' = "failed" /\ leaked' = leaked \cup (exported \cap {file})
          /\ UNCHANGED <<file, part, why, exported>>
    /\ UNCHANGED queue /\ ArchiveStep

(* _split_and_send(): at most a chunk of what tar gives is written to the  *)
(* pipe of scrypt, whose exit code is only logged: when it fails, on a full *)
(* disk say, nobody notices that the chunk is incomplete.                  *)
Chunk ==
    /\ at = "chunk"
    /\ \/ at' = "put" /\ UNCHANGED <<why, cut>>
       \/ at' = "put" /\ cut' = TRUE /\ UNCHANGED why
       \/ at' = "cleanup" /\ why' = "failed" /\ UNCHANGED cut
    /\ UNCHANGED <<file, part, exported, leaked, queue>> /\ ChunkStep

(* output_queue.put() waits for room; a full chunk is followed by another. *)
Put ==
    /\ at = "put" /\ Len(queue) < QueueMax
    /\ queue' = Append(queue, ChunkOf(file, part))
    /\ IF DataOf(file, part) = ChunkSize
       THEN at' = "chunk" /\ part' = part + 1
       ELSE at' = "cleanup" /\ UNCHANGED part
    /\ UNCHANGED <<file, why, exported, leaked>> /\ ArchiveStep

(* The finally clause calls export_end().  "A_B" is A with a mistake.      *)
Cleanup_OnSuccess ==
    /\ at = "cleanup"
    /\ exported' = (IF why = "no" THEN exported \ {file} ELSE exported)
    /\ at' = (IF why = "no" THEN "wait" ELSE why)
    /\ UNCHANGED <<file, part, why, leaked, queue>> /\ ArchiveStep

Cleanup ==
    /\ at = "cleanup"
    /\ exported' = exported \ {file}
    /\ at' = (IF why = "no" THEN "wait" ELSE why)
    /\ UNCHANGED <<file, part, why, leaked, queue>> /\ ArchiveStep

(* tar's exit code is looked at last.                                      *)
WaitTar ==
    /\ at = "wait"
    /\ \/ /\ IF file < NFiles THEN file' = file + 1 /\ at' = "export"
             ELSE at' = "finish" /\ UNCHANGED file
          /\ UNCHANGED <<part, why, exported, leaked>>
       \/ Fails
    /\ UNCHANGED queue /\ ArchiveStep

Finish ==
    /\ at = "finish" /\ Len(queue) < QueueMax
    /\ queue' = Append(queue, FINISHED) /\ at' = "done"
    /\ UNCHANGED <<file, part, why, exported, leaked>> /\ ArchiveStep

Archive == Export \/ Spawn \/ Chunk \/ Put \/ Cleanup \/ WaitTar \/ Finish

Ended == {"done", "failed", "cancelled"}

(* What a cancellation does to the task: only inside of the try statement  *)
(* the volume is released, and a second one interrupts even that.          *)
CancelArchive ==
    CASE at \in {"chunk", "put"} ->
            at' = "cleanup" /\ why' = "cancelled" /\ UNCHANGED <<exported, leaked>>
      [] at = "export" ->
            /\ at' = "cancelled" /\ exported' \in {exported, exported \cup ({file} \ {1})}
            /\ leaked' = leaked \cup exported' /\ UNCHANGED why
      [] at \in {"spawn", "cleanup"} ->
            /\ at' = "cancelled" /\ leaked' = leaked \cup exported
            /\ UNCHANGED <<why, exported>>
      [] at \in {"wait", "finish"} ->
            at' = "cancelled" /\ UNCHANGED <<why, exported, leaked>>
      [] OTHER -> UNCHANGED <<at, why, exported, leaked>>

----------------------------------------------------------------------------
(* SendWorker, the service of the target qube, and the watchers.           *)

SendStep == UNCHANGED <<Request, phase, result, Archiver, cut, watching, stamped, pipe>>

Get ==
    /\ sender = "get" /\ queue # <<>> /\ queue' = Tail(queue)
    /\ IF Head(queue) \in {FINISHED, ERROR} THEN sender' = "done" /\ UNCHANGED sending
       ELSE sender' = "sending" /\ sending' = Head(queue)
    /\ UNCHANGED <<received, service>> /\ SendStep

(* tar writes the chunk to the target, or fails: no space, or nobody reads.*)
Send ==
    /\ sender = "sending"
    /\ \/ /\ service \in {"none", "running"}
          /\ received' = Append(received, sending) /\ sender' = "get"
       \/ sender' = "failed" /\ UNCHANGED received
    /\ UNCHANGED <<sending, queue, service>> /\ SendStep

(* The qube's service fails at any time, or ends when its input does.      *)
ServiceEnds ==
    /\ service = "running"
    /\ \/ service' = "failed"
       \/ ~pipe /\ service' = "done"
    /\ UNCHANGED <<queue, Sending>> /\ SendStep

CancelSender == sender' = IF sender \in {"get", "sending"} THEN "cancelled" ELSE sender

(* _cancel_on_error() of the service cancels the sender ...                *)
WatchService ==
    /\ "service" \in watching /\ service \in Ended
    /\ watching' = watching \ {"service"}
    /\ IF service = "done" THEN UNCHANGED sender ELSE CancelSender
    /\ UNCHANGED <<Request, phase, result, Archiver, cut, queue, sending, received, Service,
                   stamped>>

(* ... and that of the sender cancels the archiving, which might otherwise *)
(* wait for ever for room in the queue.                                    *)
WatchSender_Deaf ==
    /\ "sender" \in watching /\ sender \in Ended
    /\ watching' = watching \ {"sender"}
    /\ UNCHANGED <<Request, phase, result, Archiver, cut, queue, Sending, Service, stamped>>

WatchSender ==
    /\ "sender" \in watching /\ sender \in Ended
    /\ watching' = watching \ {"sender"}
    /\ IF sender = "done" THEN UNCHANGED <<at, why, exported, leaked>> ELSE CancelArchive
    /\ UNCHANGED <<Request, phase, result, file, part, cut, queue, Sending, Service, stamped>>

----------------------------------------------------------------------------
(* backup_do().                                                            *)

MainStep == UNCHANGED <<Request, file, part, cut, received, sending>>

Over(r) == phase' = "over" /\ result' = r

(* The service is called, the header is made; an error only ends the task. *)
CallService ==
    /\ phase = "service"
    /\ \/ /\ phase' = "header" /\ service' = "running" /\ pipe' = TRUE
          /\ UNCHANGED result
       \/ Over("error") /\ UNCHANGED Service
    /\ UNCHANGED <<at, why, exported, leaked, queue, sender, watching, stamped>> /\ MainStep

MakeHeader ==
    /\ phase = "header"
    /\ \/ /\ phase' = "archive" /\ queue' = <<Header>>
          /\ sender' = "get" /\ at' = "export"
          /\ watching' = {"sender"} \cup (IF target = "vm" THEN {"service"} ELSE {})
          /\ UNCHANGED <<result, Service>>
       \/ Over("error") /\ UNCHANGED <<at, queue, sender, watching, Service>>
    /\ UNCHANGED <<why, exported, leaked, stamped>> /\ MainStep

(* The finally clause closes the target and waits for the service.         *)
Close(r) ==
    /\ pipe' = FALSE /\ result' = r
    /\ phase' = IF target = "vm" THEN "closed" ELSE "ending"

Main == UNCHANGED <<at, why, exported, leaked, queue, sender, watching, service, stamped>>
        /\ MainStep

ArchiveEnded ==
    /\ phase = "archive" /\ at \in Ended
    /\ phase' = (IF at = "done" THEN "send" ELSE "put_error")
    /\ UNCHANGED <<result, pipe>> /\ Main

(* await to_send.put(QUEUE_ERROR)                                          *)
PutError ==
    /\ phase = "put_error" /\ Len(queue) < QueueMax
    /\ queue' = Append(queue, ERROR)
    /\ phase' = (IF target = "vm" THEN "error_service" ELSE "error_send")
    /\ UNCHANGED <<result, pipe, at, why, exported, leaked, sender, watching, service,
                   stamped>>
    /\ MainStep

ServiceAwaited ==
    /\ phase = "error_service" /\ service \in Ended
    /\ IF service = "done" THEN phase' = "error_send" /\ UNCHANGED <<result, pipe>>
       ELSE Close("error")
    /\ Main

ErrorSent == phase = "error_send" /\ sender \in Ended /\ Close("error") /\ Main

(* Success needs the sender's end; not to wait for it would be a mistake.  *)
Sent_Early ==
    /\ phase = "send"
    /\ Close(IF sender \in {"failed", "cancelled"} THEN "error" ELSE "success") /\ Main

Sent ==
    /\ phase = "send" /\ sender \in Ended
    /\ Close(IF sender = "done" THEN "success" ELSE "error") /\ Main

Closed ==
    /\ phase = "closed" /\ service \in Ended
    /\ phase' = "ending" /\ result' = (IF service = "done" THEN result ELSE "error")
    /\ UNCHANGED pipe /\ Main

(* The temporary directory is removed; only a success sets timestamps.     *)
End ==
    /\ phase = "ending" /\ phase' = "over" /\ stamped' = (result = "success")
    /\ service' = "none" /\ sender' = "none" /\ watching' = {} /\ at' = "none"
    /\ UNCHANGED <<result, pipe, why, exported, leaked, queue>> /\ MainStep

(* admin.backup.Cancel cancels what backup_do() waits for.                 *)
Cancel ==
    /\ \E c \in Calls : call[c] = "running"
    /\ cancels < MaxCancels /\ cancels' = cancels + 1
    /\ CASE phase \in {"service", "header"} ->
              /\ Over("error")
              /\ UNCHANGED <<at, why, exported, leaked, sender, service, pipe>>
         [] phase = "archive" /\ at \notin Ended ->
              CancelArchive /\ UNCHANGED <<phase, result, sender, service, pipe>>
         [] phase = "archive" /\ at \in Ended ->
              /\ phase' = "put_error"
              /\ UNCHANGED <<result, at, why, exported, leaked, sender, service, pipe>>
         [] phase = "put_error" ->
              Close("error") /\ UNCHANGED <<at, why, exported, leaked, sender, service>>
         [] phase \in {"error_service", "closed"} ->
              /\ service' = (IF service = "running" THEN "cancelled" ELSE service)
              /\ IF phase = "closed" THEN phase' = "ending" /\ result' = "error" /\ UNCHANGED pipe
                 ELSE Close("error")
              /\ UNCHANGED <<at, why, exported, leaked, sender>>
         [] phase \in {"error_send", "send"} ->
              /\ CancelSender /\ Close("error")
              /\ UNCHANGED <<at, why, exported, leaked, service>>
         [] OTHER ->
              UNCHANGED <<phase, result, at, why, exported, leaked, sender, service, pipe>>
    /\ UNCHANGED <<call, target, size, file, part, cut, queue, sending, received, watching,
                   stamped>>

BackupDo == \/ CallService \/ MakeHeader \/ ArchiveEnded \/ PutError \/ ServiceAwaited
            \/ ErrorSent \/ Sent \/ Closed \/ End

Workers == Archive \/ Get \/ Send \/ WatchService \/ WatchSender
           \/ (ServiceEnds /\ service' = "done")

BackupNext ==
    \/ \E c \in Calls : Execute(c) \/ Loaded(c) \/ Returns(c)
    \/ Archive \/ Get \/ Send \/ ServiceEnds \/ WatchService \/ WatchSender
    \/ BackupDo \/ Cancel

(* The event loop runs what can run, and qubes.Backup reads to its end.    *)
Fairness == WF_backupVars(Workers \/ BackupDo)

BackupSpec == BackupInit /\ [][BackupNext]_backupVars /\ Fairness

----------------------------------------------------------------------------
(* Properties.                                                             *)

(* What follows a chunk (the header counts as file 0): the next part of its *)
(* file, the first of the next file, or the end.                           *)
Follows(e) == IF e.data = ChunkSize THEN ChunkOf(e.file, e.part + 1)
              ELSE IF e.file < NFiles THEN ChunkOf(e.file + 1, 1) ELSE FINISHED

InOrder(s) ==
    \A i \in DOMAIN s :
        IF i = 1 THEN s[i] = Header ELSE s[i - 1] # FINISHED /\ s[i] = Follows(s[i - 1])

Whole(s) == s # <<>> /\ InOrder(s) /\ Last(s) # FINISHED /\ Follows(Last(s)) = FINISHED

(* A backup_timestamp is set only when the target has received the header  *)
(* and every chunk of every file, once and in order ("Save date of last    *)
(* backup, only when backup succeeded"), each one as scrypt left it: that  *)
(* a chunk is there does not say that scrypt has written all of it.        *)
ArchiveComplete == stamped => Whole(received)

(* handle_streams() is said to "monitor all mentioned processes.  If any   *)
(* of them terminate with non-zero code, interrupt the process": a backup  *)
(* with a chunk that scrypt did not finish would never count as done.      *)
ArchiveIntact == stamped => ~cut

(* A backup exports one volume at a time and releases it whatever fails or *)
(* is cancelled; except one cancelled, or that fails, around the try       *)
(* statement, or during the release.                                       *)
ExportsReleased ==
    exported \subseteq leaked \cup
        (IF phase # "over" /\ at \in {"spawn", "chunk", "put", "cleanup"} THEN {file} ELSE {})

(* The inductive invariant: only the archiving task exports and releases,  *)
(* and only in the one backup that is being made.                          *)
Archiving == {"export", "spawn", "chunk", "put", "cleanup", "wait", "finish"}

ExportInv ==
    /\ why \in {"no", "failed", "cancelled"}
    /\ call \in [Calls -> {"idle", "loading", "running", "answered"}]
    /\ \A c, d \in Calls : call[c] = "running" /\ call[d] = "running" => c = d
    /\ phase # "none" <=> \E c \in Calls : call[c] = "running"
    /\ at \in Archiving => phase = "archive"
    /\ ExportsReleased

(* The inductive invariant of ArchiveComplete: what was received, is being *)
(* sent and waits in the queue is in order while both tasks of a backup    *)
(* can go on, and the archiving task is about to add what follows; a       *)
(* success means that the sender has met the end.                          *)
Unsent == IF sender = "sending" THEN <<sending>> ELSE <<>>
Stream == received \o Unsent \o queue

Continues ==
    LET e == Last(Stream) IN
    /\ at = "done" <=> e = FINISHED
    /\ at \in {"export", "spawn"} => Follows(e) = ChunkOf(file, 1)
    /\ at \in {"chunk", "put"} => Follows(e) = ChunkOf(file, part)
    /\ (at = "cleanup" /\ why = "no") \/ at = "wait" => e.file = file /\ e.data # ChunkSize
    /\ at = "finish" => Follows(e) = FINISHED

Items == [file : 0..NFiles, part : Nat, data : Int]

StreamTypeOK ==
    /\ size \in [1..NFiles -> 0..MaxSize] /\ file \in 1..NFiles /\ part \in Nat \ {0}
    /\ received \in Seq(Items) /\ queue \in Seq(Items) /\ sending \in Items

Flows == phase \in {"archive", "send"} /\ sender \in {"get", "sending"}

StreamInv ==
    /\ StreamTypeOK
    /\ phase \in {"none", "over", "service", "header"} => sender = "none"
    /\ phase \in {"service", "header"} => received = <<>> /\ file = 1
    /\ phase = "send" => at = "done"
    /\ Flows => Stream # <<>> /\ InOrder(Stream) /\ Continues
    /\ phase \in {"archive", "send"} /\ sender = "done" => Whole(received)
    /\ phase \in {"closed", "ending"} /\ result = "success" =>
            sender = "done" /\ Whole(received)
    /\ stamped => phase \in {"over", "none"} /\ Whole(received)

(* An element of the chain that ended can still be told so: nobody waits   *)
(* for room in a queue that is read no more ("cancel previous one to avoid *)
(* deadlock", backup.py:810), or for a service that waits for qubesd.      *)
PutIsRead == phase = "put_error" /\ Len(queue) = QueueMax => sender \in {"get", "sending"}
ServiceEndsFirst == phase = "error_service" => service \in Ended

Blocked == ~PutIsRead \/ ~ServiceEndsFirst

(* Every backup ends, with success or an error, unless it is blocked so.   *)
BackupEnds == (phase # "none") ~> (phase \in {"over", "none"} \/ Blocked)
=============================================================================
