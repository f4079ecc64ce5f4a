-------------------------- MODULE DomainLifecycle --------------------------
(***************************************************************************)
(* The life of ONE qube inside qubesd: starting it, killing it, shutting   *)
(* it down, removing it, and reacting to libvirt's STOPPED event, as the   *)
(* coroutines of qubes/vm/qubesvm.py, qubes/vm/dispvm.py, qubes/app.py and *)
(* qubes/api/admin.py do it on the asyncio event loop of qubesd.           *)
(*                                                                         *)
(* A step is what a coroutine does between two awaits, so every            *)
(* interleaving of the coroutines at their awaits is a behaviour.  An      *)
(* asyncio.Lock hands itself over in FIFO order; here a free lock is taken *)
(* by any waiter, which contains every order the code can produce.         *)
(***************************************************************************)
EXTENDS Naturals, FiniteSets

CONSTANTS
    Tasks,              \* coroutines serving API calls on this qube
    Coro,               \* the _domain_stopped_coro() of this qube
    None,               \* "no owner" of a lock
    MaxRuns,            \* bound: libvirt domains created for this qube
    MaxRestarts,        \* bound: restarts of qubesd
    MaxDrops,           \* bound: losses of the libvirt connection
    Disposable,         \* the qube is a DispVM with auto_cleanup
    HandlersMayFail,    \* a handler of domain-stopped/-shutdown may raise
    ShutdownMayTimeOut, \* shutdown(wait=True) may reach its timeout
    CreateMayFailLate,  \* start() may raise after libvirt made the domain
    EarlyStopped        \* libvirt may send STOPPED while the domain is Dying

ASSUME OwnersDistinct == Coro \notin Tasks /\ None \notin Tasks /\ Coro # None

ASSUME BoundsAreNaturals ==
    MaxRuns \in Nat /\ MaxRestarts \in Nat /\ MaxDrops \in Nat

ASSUME SwitchesAreBooleans ==
    /\ Disposable \in BOOLEAN
    /\ HandlersMayFail \in BOOLEAN
    /\ ShutdownMayTimeOut \in BOOLEAN
    /\ CreateMayFailLate \in BOOLEAN
    /\ EarlyStopped \in BOOLEAN

VARIABLES
    power,      \* get_power_state(), the states that matter here
    run,        \* number of libvirt domains created so far; names the last one
    emitted,    \* libvirt has sent STOPPED for the current domain
    evq,        \* STOPPED events sent by libvirt, not yet read by qubesd
    conn,       \* the libvirt connection is alive
    received,   \* _domain_stopped_event_received
    handled,    \* _domain_stopped_event_handled
    stopTask,   \* _domain_stopped_future: none, waiting for the lock, running
    stopLock,   \* holder of _domain_stopped_lock
    handling,   \* where the holder of stopLock is in its event dispatch
    waiter,     \* QubesVM.__waiter: no future, a pending one, a cancelled one
    wres,       \* what the future captured by each task has become
    krun,       \* the live run when each task captured its future, or 0
    startLock,  \* holder of startup_lock
    pc,         \* the await each task is suspended at
    storage,    \* the qube's volumes: stopped, partial, started, removed
    inDomains,  \* the qube is in app.domains
    saved,      \* the qube is in the qubes.xml on disk
    boot,       \* app.stop_storage() while qubesd starts
    restarts,   \* qubesd restarts so far
    drops,      \* libvirt connection losses so far
    fired,      \* history: dispatches of domain-stopped, per run
    finished,   \* history: runs whose domain-shutdown was dispatched
    lost,       \* history: runs whose end no qubesd saw, or takes for one
    overrun     \* history: a forced cleanup unlisted the qube while another
                \* call's start() had still to create the domain

domainVars == <<power, run, emitted, evq, conn>>
stopVars   == <<received, handled, stopTask, stopLock, handling>>
waitVars   == <<waiter, wres, krun>>
diskVars   == <<storage, inDomains, saved>>
envVars    == <<boot, restarts, drops>>
histVars   == <<fired, finished, lost, overrun>>
vars == <<domainVars, stopVars, waitVars, startLock, pc, diskVars, envVars,
          histVars>>

Runs   == 1..MaxRuns
Owners == Tasks \cup {Coro, None}

Active == power \in {"Paused", "Running", "Dying"}    \* is_running()
Alive  == power \in {"Paused", "Running"}

(* A lock is free.                                                         *)
StartLockFree_Ignored == TRUE        \* fault: no startup_lock
StartLockFree == startLock = None
StopLockFree == stopLock = None

(* Where a task can be suspended.                                          *)
StartHoldPcs == {"start_ensure", "pre_start", "storage_start", "pre_spawn",
                 "spawn_undo", "boot", "up", "boot_failed", "boot_kill",
                 "start_failed"}
RemoveHoldPcs == {"remove_ensure", "remove_storage", "remove_end"}
PreCreatePcs == {"pre_start", "storage_start", "pre_spawn"}
BeforeCreatePcs == PreCreatePcs \cup {"start_ensure"}
EnsurePcs  == {"start_ensure", "remove_ensure", "cleanup_ensure"}
OtherPcs   == {"idle", "start_lock", "remove_lock", "kill_wait",
               "cleanup_kill", "cleanup_ensure", "cleanup_storage",
               "shutdown_pre", "shutdown_cmd", "shutdown_wait",
               "pause_pre", "unpause_pre"}
Pcs == StartHoldPcs \cup RemoveHoldPcs \cup OtherPcs

Init ==
    /\ power = "Halted" /\ run = 0 /\ emitted = TRUE /\ evq = 0 /\ conn = TRUE
    /\ received = TRUE /\ handled = TRUE
    /\ stopTask = "none" /\ stopLock = None /\ handling = "none"
    /\ waiter = "none"
    /\ wres = [t \in Tasks |-> "none"]
    /\ krun = [t \in Tasks |-> 0]
    /\ startLock = None
    /\ pc = [t \in Tasks |-> "idle"]
    /\ storage = "stopped" /\ inDomains = TRUE /\ saved = TRUE
    /\ boot = "none" /\ restarts = 0 /\ drops = 0
    /\ fired = [r \in Runs |-> 0] /\ finished = {} /\ lost = {}
    /\ overrun = FALSE

Goto(t, label) == pc' = [pc EXCEPT ![t] = label]

---------------------------------------------------------------------------
(* libvirt and the guest.                                                  *)

(* The domain stops being active, or starts dying.  STOPPED is sent once,  *)
(* at the latest when the domain is gone, and to nobody while libvirtd is  *)
(* away.                                                                   *)
GoDown(p, tell) ==
    /\ power' = p
    /\ emitted' = (emitted \/ (tell /\ conn) \/ p = "Halted")
    /\ evq' = IF tell /\ ~emitted /\ conn THEN evq + 1 ELSE evq
    /\ UNCHANGED <<run, conn>>

DomainEnds ==
    \/ GoDown("Halted", TRUE)
    \/ GoDown("Dying", FALSE)
    \/ EarlyStopped /\ GoDown("Dying", TRUE)

(* libvirt_domain.destroy(): no effect on a domain that is already dying.  *)
Destroy == IF Alive THEN DomainEnds ELSE UNCHANGED domainVars

GuestStops ==
    /\ Alive
    /\ DomainEnds
    /\ UNCHANGED <<stopVars, waitVars, startLock, pc, diskVars, envVars,
                   histVars>>

DyingEnds ==
    /\ power = "Dying"
    /\ GoDown("Halted", TRUE)
    /\ UNCHANGED <<stopVars, waitVars, startLock, pc, diskVars, envVars,
                   histVars>>

(* libvirtd restarts: events not read yet are gone, and the new libvirtd   *)
(* tells of a domain it still finds dying.                                 *)
ConnectionLost ==
    /\ conn /\ drops < MaxDrops
    /\ conn' = FALSE /\ evq' = 0 /\ drops' = drops + 1
    /\ emitted' = (power = "Halted")
    /\ UNCHANGED <<power, run, stopVars, waitVars, startLock, pc, diskVars,
                   boot, restarts, histVars>>

---------------------------------------------------------------------------
(* The libvirt STOPPED event.                                              *)

(* on_libvirt_domain_stopped(): ignored for a domain that is up, and when  *)
(* a stop was already received; otherwise the coroutine is scheduled.      *)
AcceptsStopped_Twice == ~Alive                     \* fault: flag not looked at
AcceptsStopped == ~Alive /\ ~received

OnLibvirtDomainStopped ==
    IF AcceptsStopped
    THEN /\ received' = TRUE
         /\ stopTask' = "waiting"
         /\ UNCHANGED <<handled, stopLock, handling>>
    ELSE UNCHANGED stopVars

(* _domain_event_callback(): an event of an unknown domain is ignored.     *)
ReadEvent == conn /\ evq > 0 /\ evq' = evq - 1

DeliverStopped ==
    /\ ReadEvent
    /\ IF inDomains THEN OnLibvirtDomainStopped ELSE UNCHANGED stopVars
    /\ UNCHANGED <<power, run, emitted, conn, waitVars, startLock, pc,
                   diskVars, envVars, histVars>>

(* register_event_handlers(old_connection), from the first libvirt call    *)
(* that finds the connection dead: stops that were missed are made up for. *)
CatchUp_Forgotten == UNCHANGED stopVars           \* fault: no making up
CatchUp == IF inDomains /\ ~Active THEN OnLibvirtDomainStopped
                                   ELSE UNCHANGED stopVars

Reconnect ==
    /\ ~conn
    /\ conn' = TRUE
    /\ CatchUp
    /\ UNCHANGED <<power, run, emitted, evq, waitVars, startLock, pc,
                   diskVars, envVars, histVars>>

---------------------------------------------------------------------------
(* Handling a stop: _domain_stopped_coro() and _ensure_shutdown_handled(). *)
(* Both hold stopLock while they dispatch domain-stopped (handling =       *)
(* "stopped": storage.stop() runs) and then domain-shutdown ("shutdown";   *)
(* "cleaning" while a disposable removes itself).                          *)

FireStopped ==
    fired' = IF run \in Runs THEN [fired EXCEPT ![run] = @ + 1] ELSE fired

(* _domain_stopped_coro() gets the lock.                                   *)
CoroBegin ==
    /\ conn
    /\ stopTask = "waiting" /\ StopLockFree
    /\ stopTask' = "running" /\ stopLock' = Coro
    /\ handled' = TRUE
    /\ IF power = "Dying"
       THEN handling' = "dying" /\ UNCHANGED fired
       ELSE handling' = "stopped" /\ FireStopped
    /\ UNCHANGED <<received, domainVars, waitVars, startLock, pc, diskVars,
                   envVars, finished, lost, overrun>>

(* The coroutine polls every 0.25 s until the domain is no longer dying.   *)
CoroDyingOver ==
    /\ conn
    /\ handling = "dying" /\ power # "Dying"
    /\ handling' = "stopped" /\ FireStopped
    /\ UNCHANGED <<received, handled, stopTask, stopLock, domainVars, waitVars,
                   startLock, pc, diskVars, envVars, finished, lost, overrun>>

(* _ensure_shutdown_handled(), called by start() and remove_from_disk(),   *)
(* gets the lock: later STOPPED events are refused, a coroutine that still *)
(* waits is cancelled, and an unhandled stop is handled here.              *)
AfterEnsure(p) ==
    CASE p = "start_ensure"   -> "pre_start"
      [] p = "remove_ensure"  -> "remove_storage"
      [] p = "cleanup_ensure" -> "cleanup_storage"

CancelStopTask == stopTask' = "none"

EnsureBegin(t) ==
    /\ pc[t] \in EnsurePcs /\ StopLockFree
    /\ received' = TRUE
    /\ CancelStopTask
    /\ IF handled
       THEN /\ Goto(t, AfterEnsure(pc[t]))
            /\ UNCHANGED <<handled, stopLock, handling, fired>>
       ELSE /\ handled' = TRUE /\ stopLock' = t
            /\ handling' = "stopped" /\ FireStopped
            /\ UNCHANGED pc
    /\ UNCHANGED <<domainVars, waitVars, startLock, diskVars, envVars,
                   finished, lost, overrun>>

(* Where an exception out of _ensure_shutdown_handled() leaves its caller: *)
(* vm_remove logs it and goes on, the others fail.                         *)
FailedEnsure(p) ==
    CASE p = "start_ensure"   -> "start_failed"
      [] p = "remove_ensure"  -> "remove_end"
      [] p = "cleanup_ensure" -> "idle"

Outcome(ok) == IF ok THEN "done" ELSE "failed"

(* The end of the dispatch: everyone awaiting the waiter gets the result   *)
(* or the exception, and the lock is released.  On a future that was       *)
(* cancelled set_result() and set_exception() raise InvalidStateError.     *)
FinishHandling(ok) ==
    LET caught == ok /\ waiter # "cancelled"
    IN
    /\ handling' = "none" /\ stopLock' = None
    /\ stopTask' = IF stopLock = Coro THEN "none" ELSE stopTask
    /\ finished' = IF ok THEN finished \cup {run} ELSE finished
    /\ waiter' = IF waiter = "pending" THEN "none" ELSE waiter
    /\ wres' = [t \in Tasks |->
                  IF waiter = "pending" /\ wres[t] = "pending"
                  THEN Outcome(ok)
                  ELSE wres[t]]
    /\ pc' = [t \in Tasks |->
                IF t # stopLock THEN pc[t]
                ELSE IF caught THEN AfterEnsure(pc[t])
                ELSE FailedEnsure(pc[t])]
    /\ UNCHANGED <<received, handled, krun, domainVars, startLock, envVars,
                   fired, lost, overrun>>

(* storage.stop() of on_domain_stopped() ends; a StoragePoolException is   *)
(* logged and leaves the volumes as they are.                              *)
StoppedHandlersDone ==
    /\ handling = "stopped"
    /\ handling' = "shutdown"
    /\ storage' \in IF storage = "removed" THEN {"removed"}
                    ELSE {"stopped", storage}
    /\ UNCHANGED <<received, handled, stopTask, stopLock, domainVars, waitVars,
                   startLock, pc, inDomains, saved, envVars, histVars>>

ShutdownHandlersDone ==
    /\ handling = "shutdown"
    /\ ~(Disposable /\ inDomains)
    /\ FinishHandling(TRUE)
    /\ UNCHANGED diskVars

(* DispVM.on_domain_shutdown(): _auto_cleanup() takes the qube out of      *)
(* app.domains and removes its volumes, still under stopLock.              *)
AutoCleanup ==
    /\ conn
    /\ handling = "shutdown"
    /\ Disposable /\ inDomains
    /\ ~Active                        \* else del app.domains[...] raises
    /\ inDomains' = FALSE
    /\ handling' = "cleaning"
    /\ UNCHANGED <<received, handled, stopTask, stopLock, domainVars, waitVars,
                   startLock, pc, storage, saved, envVars, histVars>>

AutoCleanupDone ==
    /\ handling = "cleaning"
    /\ storage' = "removed" /\ saved' = FALSE /\ UNCHANGED inDomains
    /\ FinishHandling(TRUE)

HandlerFails ==
    /\ HandlersMayFail
    /\ handling \in {"stopped", "shutdown"}
    /\ FinishHandling(FALSE)
    /\ UNCHANGED diskVars

(* storage.remove() raises; the directory is deleted all the same, and     *)
(* qubes.xml is not saved.                                                 *)
AutoCleanupFails ==
    /\ HandlersMayFail
    /\ handling = "cleaning"
    /\ storage' = "removed" /\ UNCHANGED <<inDomains, saved>>
    /\ FinishHandling(FALSE)

---------------------------------------------------------------------------
(* Helpers of the API coroutines.                                          *)

(* `if self.__waiter is None: self.__waiter = create_future()`, and the    *)
(* caller keeps that future.                                               *)
CaptureWaiter(t) ==
    LET now == IF waiter = "none" THEN "pending" ELSE waiter
    IN  /\ waiter' = now
        /\ wres' = [wres EXCEPT ![t] = now]
        /\ krun' = [krun EXCEPT ![t] = IF Active THEN run ELSE 0]

ForgetWaiter(t) == /\ wres' = [wres EXCEPT ![t] = "none"]
                   /\ krun' = [krun EXCEPT ![t] = 0]
                   /\ UNCHANGED waiter

Resolved(t) == wres[t] \in {"done", "failed", "cancelled"}

(* kill(), up to `await waiter` (at label await) or to the                 *)
(* QubesVMNotStartedError it raises for a qube that is not running; the    *)
(* destroy() of a dying domain has no effect or raises OPERATION_INVALID,  *)
(* and then the future stays behind for the next user.                     *)
TryKill(t, await, notStarted) ==
    \/ /\ Active
       /\ Goto(t, await) /\ CaptureWaiter(t) /\ Destroy
    \/ /\ power = "Dying"
       /\ Goto(t, notStarted)
       /\ waiter' = IF waiter = "none" THEN "pending" ELSE waiter
       /\ UNCHANGED <<wres, krun, domainVars>>
    \/ /\ ~Active
       /\ Goto(t, notStarted)
       /\ UNCHANGED <<waitVars, domainVars>>

(* A request on the qube is accepted once qubesd serves its sockets and    *)
(* finds the qube in app.domains.                                          *)
Request(t) == pc[t] = "idle" /\ boot = "none" /\ inDomains

---------------------------------------------------------------------------
(* QubesVM.start().                                                        *)

StartRequest(t) ==
    /\ Request(t)
    /\ Goto(t, "start_lock")
    /\ UNCHANGED <<domainVars, stopVars, waitVars, startLock, diskVars,
                   envVars, histVars>>

(* startup_lock is taken; a qube removed meanwhile, or one that is not     *)
(* Halted, ends the call at once.                                          *)
MayStart_UnlessRunning == inDomains /\ power # "Running"  \* fault: paused too
MayStart == inDomains /\ ~Active

StartEnter(t) ==
    /\ conn
    /\ pc[t] = "start_lock" /\ StartLockFree
    /\ IF MayStart
       THEN Goto(t, "start_ensure") /\ startLock' = t
       ELSE Goto(t, "idle") /\ UNCHANGED startLock
    /\ UNCHANGED <<domainVars, stopVars, waitVars, diskVars, envVars,
                   histVars>>

(* prohibit-start, domain-pre-start, devices, storage.verify() (which      *)
(* refuses a qube whose directory is gone), netvm and memory.  The call is *)
(* suspended in them, so whoever awaited the stop lock has had it.         *)
Verify == storage # "removed"

UnlessRemoved(state) == IF Verify THEN state ELSE "removed"

PreStart(t) ==
    /\ pc[t] = "pre_start"
    /\ \/ /\ Verify /\ Goto(t, "storage_start")
          /\ \A u \in Tasks : pc[u] \notin EnsurePcs
       \/ Goto(t, "start_failed")
    /\ UNCHANGED <<domainVars, stopVars, waitVars, startLock, diskVars,
                   envVars, histVars>>

(* storage.start() ends; when it fails some volumes stay started.  What a  *)
(* forced cleanup removed meanwhile stays removed.                         *)
StorageStart(t) ==
    /\ pc[t] = "storage_start"
    /\ \/ storage' = UnlessRemoved("started") /\ Goto(t, "pre_spawn")
       \/ storage' = UnlessRemoved("partial") /\ Goto(t, "start_failed")
    /\ UNCHANGED <<domainVars, stopVars, waitVars, startLock, inDomains, saved,
                   envVars, histVars>>

CreateDomain ==
    /\ run < MaxRuns
    /\ power' = "Paused" /\ run' = run + 1 /\ emitted' = FALSE
    /\ UNCHANGED <<evq, conn>>

AcceptStops_HandledOnly == handled' = FALSE /\ UNCHANGED received  \* fault
AcceptStops == received' = FALSE /\ handled' = FALSE

(* domain-pre-spawn is over: the paused domain is created and, with no     *)
(* await in between, the stop of the new run may be received -- but nobody *)
(* will tell of it when the qube is no longer in app.domains.              *)
SpawnOk(t) ==
    /\ conn
    /\ pc[t] = "pre_spawn"
    /\ CreateDomain
    /\ AcceptStops
    /\ lost' = IF inDomains THEN lost ELSE lost \cup {run + 1}
    /\ Goto(t, "boot")
    /\ UNCHANGED <<stopTask, stopLock, handling, waitVars, startLock,
                   diskVars, envVars, fired, finished, overrun>>

(* domain-pre-spawn or createWithFlags() raises.                           *)
SpawnFails(t) ==
    /\ pc[t] = "pre_spawn"
    /\ Goto(t, "spawn_undo")
    /\ UNCHANGED <<domainVars, stopVars, waitVars, startLock, diskVars,
                   envVars, histVars>>

(* create_xs_entries() or a property-reset handler raises: the domain      *)
(* exists, and the code takes the same way out: its stop is not accepted.  *)
SpawnFailsLate(t) ==
    /\ CreateMayFailLate
    /\ conn
    /\ pc[t] = "pre_spawn"
    /\ CreateDomain
    /\ lost' = lost \cup {run + 1}
    /\ Goto(t, "spawn_undo")
    /\ UNCHANGED <<stopVars, waitVars, startLock, diskVars, envVars,
                   fired, finished, overrun>>

(* `await self.storage.stop()` of the failed spawn.                        *)
SpawnUndo(t) ==
    /\ pc[t] = "spawn_undo"
    /\ storage' = UnlessRemoved("stopped")
    /\ Goto(t, "start_failed")
    /\ UNCHANGED <<domainVars, stopVars, waitVars, startLock, inDomains, saved,
                   envVars, histVars>>

(* domain-spawn, qubesdb and domain-pre-unpaused are over: the domain is   *)
(* resumed.  A domain killed meanwhile fails one of them, or the resume.   *)
BootResume(t) ==
    /\ conn
    /\ pc[t] = "boot" /\ Alive
    /\ power' = "Running"
    /\ Goto(t, "up")
    /\ UNCHANGED <<run, emitted, evq, conn, stopVars, waitVars, startLock,
                   diskVars, envVars, histVars>>

(* domain-unpaused, qrexec daemon and domain-start are over.               *)
StartDone(t) ==
    /\ pc[t] = "up"
    /\ Goto(t, "idle") /\ startLock' = None
    /\ UNCHANGED <<domainVars, stopVars, waitVars, diskVars, envVars,
                   histVars>>

BootFails(t) ==
    /\ pc[t] \in {"boot", "up"}
    /\ Goto(t, "boot_failed")
    /\ UNCHANGED <<domainVars, stopVars, waitVars, startLock, diskVars,
                   envVars, histVars>>

(* After domain-start-failed: `await self.kill()` with startup_lock held,  *)
(* QubesVMNotStartedError ignored.                                         *)
BootKill(t) ==
    /\ conn
    /\ pc[t] = "boot_failed"
    /\ TryKill(t, "boot_kill", "start_failed")
    /\ UNCHANGED <<stopVars, startLock, diskVars, envVars, histVars>>

BootKilled(t) ==
    /\ pc[t] = "boot_kill" /\ Resolved(t)
    /\ Goto(t, "start_failed") /\ ForgetWaiter(t)
    /\ UNCHANGED <<domainVars, stopVars, startLock, diskVars, envVars,
                   histVars>>

(* The exception leaves start() and releases startup_lock.                 *)
StartFailed(t) ==
    /\ ~Disposable
    /\ pc[t] = "start_failed"
    /\ Goto(t, "idle") /\ startLock' = None
    /\ UNCHANGED <<domainVars, stopVars, waitVars, diskVars, envVars,
                   histVars>>

(* remove_from_disk(): makes sure the shutdown is handled, unless it is    *)
(* marked as handled already.                                              *)
RemoveFromDisk(t, ensure, remove) == Goto(t, IF handled THEN remove ELSE ensure)

(* DispVM.start(): on any exception cleanup(force=True), which kills a     *)
(* running qube (its shutdown then cleans up) and otherwise removes it,    *)
(* whoever else is starting it.                                            *)
ForcedCleanup(t) ==
    \/ /\ inDomains /\ Active
       /\ TryKill(t, "cleanup_kill", "idle")   \* then not halted: refused
       /\ UNCHANGED <<inDomains, overrun>>
    \/ /\ inDomains /\ ~Active
       /\ inDomains' = FALSE
       /\ RemoveFromDisk(t, "cleanup_ensure", "cleanup_storage")
       /\ overrun' =
             (overrun \/ \E u \in Tasks \ {t} : pc[u] \in BeforeCreatePcs)
       /\ UNCHANGED <<waitVars, domainVars>>
    \/ /\ ~inDomains
       /\ Goto(t, "idle")
       /\ UNCHANGED <<waitVars, domainVars, inDomains, overrun>>

StartFailedCleanup(t) ==
    /\ Disposable
    /\ conn
    /\ pc[t] = "start_failed"
    /\ startLock' = None
    /\ ForcedCleanup(t)
    /\ UNCHANGED <<stopVars, storage, saved, envVars, fired, finished, lost>>

(* The template is no longer a template for disposables: DispVM.start()    *)
(* raises before it asks for startup_lock, and cleans up all the same.     *)
StartRefused(t) ==
    /\ Disposable
    /\ Request(t) /\ conn
    /\ ForcedCleanup(t)
    /\ UNCHANGED <<stopVars, startLock, storage, saved, envVars, fired,
                   finished, lost>>

CleanupKilled(t) ==
    /\ pc[t] = "cleanup_kill" /\ Resolved(t)
    /\ Goto(t, "idle") /\ ForgetWaiter(t)
    /\ UNCHANGED <<domainVars, stopVars, startLock, diskVars, envVars,
                   histVars>>

CleanupStorageDone(t) ==
    /\ pc[t] = "cleanup_storage"
    /\ storage' = "removed" /\ saved' = FALSE
    /\ Goto(t, "idle")
    /\ UNCHANGED <<inDomains, domainVars, stopVars, waitVars, startLock,
                   envVars, histVars>>

---------------------------------------------------------------------------
(* admin.vm.Remove.                                                        *)

RemoveRequest(t) ==
    /\ Request(t)
    /\ Goto(t, "remove_lock")
    /\ UNCHANGED <<domainVars, stopVars, waitVars, startLock, diskVars,
                   envVars, histVars>>

(* startup_lock is taken; `del app.domains[...]` refuses a qube that is    *)
(* gone or not halted, else the qube leaves app.domains.                   *)
MayRemove_Anytime == inDomains                    \* fault: state not looked at
MayRemove == inDomains /\ ~Active

RemoveEnter(t) ==
    /\ conn
    /\ pc[t] = "remove_lock" /\ StartLockFree
    /\ IF MayRemove
       THEN /\ startLock' = t /\ inDomains' = FALSE
            /\ RemoveFromDisk(t, "remove_ensure", "remove_storage")
       ELSE Goto(t, "idle") /\ UNCHANGED <<startLock, inDomains>>
    /\ UNCHANGED <<domainVars, stopVars, waitVars, storage, saved, envVars,
                   histVars>>

(* domain-remove-from-disk, storage.remove() and rmtree() are over.        *)
RemoveStorageDone(t) ==
    /\ pc[t] = "remove_storage"
    /\ storage' = "removed"
    /\ Goto(t, "remove_end")
    /\ UNCHANGED <<domainVars, stopVars, waitVars, startLock, inDomains, saved,
                   envVars, histVars>>

(* The lock is released and app.save() drops the qube from qubes.xml.      *)
RemoveEnd(t) ==
    /\ pc[t] = "remove_end"
    /\ startLock' = None /\ saved' = FALSE
    /\ Goto(t, "idle")
    /\ UNCHANGED <<domainVars, stopVars, waitVars, storage, inDomains, envVars,
                   histVars>>

---------------------------------------------------------------------------
(* kill(), shutdown(), pause() and unpause().                              *)

Kill(t) ==
    /\ Request(t) /\ conn /\ Active
    /\ TryKill(t, "kill_wait", "idle")
    /\ UNCHANGED <<stopVars, startLock, diskVars, envVars, histVars>>

Killed(t) ==
    /\ pc[t] = "kill_wait" /\ Resolved(t)
    /\ Goto(t, "idle") /\ ForgetWaiter(t)
    /\ UNCHANGED <<domainVars, stopVars, startLock, diskVars, envVars,
                   histVars>>

Shutdown(t) ==
    /\ Request(t) /\ conn /\ Active
    /\ Goto(t, "shutdown_pre")
    /\ UNCHANGED <<domainVars, stopVars, waitVars, startLock, diskVars,
                   envVars, histVars>>

(* domain-pre-shutdown is over.  A paused qube is refused, or destroyed    *)
(* with force; any other is asked to shut down by a subprocess.            *)
ShutdownPre(t) ==
    /\ conn
    /\ pc[t] = "shutdown_pre"
    /\ \/ power = "Paused" /\ Goto(t, "idle") /\ UNCHANGED <<waitVars, domainVars>>
       \/ power = "Paused" /\ Goto(t, "shutdown_wait") /\ CaptureWaiter(t) /\ Destroy
       \/ /\ power # "Paused" /\ Goto(t, "shutdown_cmd") /\ CaptureWaiter(t)
          /\ UNCHANGED domainVars
    /\ UNCHANGED <<stopVars, startLock, diskVars, envVars, histVars>>

(* `xl shutdown` is over: it failed, or the guest was asked.               *)
ShutdownCmdDone(t) ==
    /\ pc[t] = "shutdown_cmd"
    /\ \/ Goto(t, "idle") /\ ForgetWaiter(t)
       \/ Alive /\ Goto(t, "shutdown_wait") /\ UNCHANGED waitVars
    /\ UNCHANGED <<domainVars, stopVars, startLock, diskVars, envVars,
                   histVars>>

(* Without wait=True the call ends here; with it, when the future does.    *)
ShutdownEnd(t) ==
    /\ pc[t] = "shutdown_wait"
    /\ Goto(t, "idle") /\ ForgetWaiter(t)
    /\ UNCHANGED <<domainVars, stopVars, startLock, diskVars, envVars,
                   histVars>>

(* asyncio.wait_for() reaches its timeout and cancels the future it awaits *)
(* -- the one future every other caller of kill() and shutdown() awaits.   *)
ShutdownTimesOut(t) ==
    /\ ShutdownMayTimeOut
    /\ pc[t] = "shutdown_wait" /\ wres[t] = "pending"
    /\ waiter' = "cancelled"
    /\ wres' = [u \in Tasks |-> IF u = t THEN "none"
                                ELSE IF wres[u] = "pending" THEN "cancelled"
                                ELSE wres[u]]
    /\ krun' = [krun EXCEPT ![t] = 0]
    /\ Goto(t, "idle")
    /\ UNCHANGED <<domainVars, stopVars, startLock, diskVars, envVars,
                   histVars>>

(* pause(): domain-pre-paused, then libvirt suspends a running domain.     *)
Pause(t) ==
    /\ Request(t) /\ conn /\ Active
    /\ Goto(t, "pause_pre")
    /\ UNCHANGED <<domainVars, stopVars, waitVars, startLock, diskVars,
                   envVars, histVars>>

PauseDone(t) ==
    /\ conn
    /\ pc[t] = "pause_pre"
    /\ power' = IF power = "Running" THEN "Paused" ELSE power
    /\ Goto(t, "idle")
    /\ UNCHANGED <<run, emitted, evq, conn, stopVars, waitVars, startLock,
                   diskVars, envVars, histVars>>

Unpause(t) ==
    /\ Request(t) /\ conn /\ power = "Paused"
    /\ Goto(t, "unpause_pre")
    /\ UNCHANGED <<domainVars, stopVars, waitVars, startLock, diskVars,
                   envVars, histVars>>

UnpauseDone(t) ==
    /\ conn
    /\ pc[t] = "unpause_pre"
    /\ power' = IF power = "Paused" THEN "Running" ELSE power
    /\ Goto(t, "idle")
    /\ UNCHANGED <<run, emitted, evq, conn, stopVars, waitVars, startLock,
                   diskVars, envVars, histVars>>

---------------------------------------------------------------------------
(* qubesd restarts.                                                        *)

(* Every coroutine is gone and the Qubes object is built anew from         *)
(* qubes.xml; a qube found running accepts a stop again.                   *)
Restart ==
    /\ restarts < MaxRestarts
    /\ restarts' = restarts + 1
    /\ conn' = TRUE /\ evq' = 0
    /\ received' = (~Active \/ ~saved) /\ handled' = (~Active \/ ~saved)
    /\ stopTask' = "none" /\ stopLock' = None /\ handling' = "none"
    /\ waiter' = "none"
    /\ wres' = [t \in Tasks |-> "none"] /\ krun' = [t \in Tasks |-> 0]
    /\ startLock' = None /\ pc' = [t \in Tasks |-> "idle"]
    /\ inDomains' = saved
    /\ boot' = "check"
    /\ lost' = IF ~Active THEN lost \cup {run} ELSE lost
    /\ overrun' = (overrun /\ ~saved)
    /\ UNCHANGED <<power, run, emitted, storage, saved, drops, fired, finished>>

(* app.stop_storage(), before the API sockets are created.                 *)
BootCheck ==
    /\ conn
    /\ boot = "check"
    /\ boot' = IF inDomains /\ ~Active THEN "stopping" ELSE "none"
    /\ UNCHANGED <<domainVars, stopVars, waitVars, startLock, pc, diskVars,
                   restarts, drops, histVars>>

BootStorageStopped ==
    /\ boot = "stopping"
    /\ boot' = "none"
    /\ storage' = UnlessRemoved("stopped")
    /\ UNCHANGED <<domainVars, stopVars, waitVars, startLock, pc, inDomains,
                   saved, restarts, drops, histVars>>

(* Any other API call of the system may save qubes.xml at any time.        *)
SaveStore ==
    /\ saved # inDomains
    /\ saved' = inDomains
    /\ UNCHANGED <<domainVars, stopVars, waitVars, startLock, pc, storage,
                   inDomains, envVars, histVars>>

---------------------------------------------------------------------------
Libvirt == GuestStops \/ DyingEnds \/ ConnectionLost

Qubesd == \/ DeliverStopped \/ Reconnect
          \/ CoroBegin \/ CoroDyingOver
          \/ StoppedHandlersDone \/ ShutdownHandlersDone
          \/ AutoCleanup \/ AutoCleanupDone
          \/ HandlerFails \/ AutoCleanupFails
          \/ Restart \/ BootCheck \/ BootStorageStopped \/ SaveStore

Requests(t) == \/ StartRequest(t) \/ StartRefused(t) \/ RemoveRequest(t)
               \/ Kill(t) \/ Shutdown(t)
               \/ Pause(t) \/ Unpause(t)

TakesLock(t) == StartEnter(t) \/ RemoveEnter(t) \/ EnsureBegin(t)

Resumes(t) == \/ PreStart(t) \/ StorageStart(t)
              \/ SpawnOk(t) \/ SpawnFails(t) \/ SpawnFailsLate(t) \/ SpawnUndo(t)
              \/ BootResume(t) \/ BootFails(t) \/ StartDone(t)
              \/ BootKill(t) \/ BootKilled(t)
              \/ StartFailed(t) \/ StartFailedCleanup(t)
              \/ CleanupKilled(t) \/ CleanupStorageDone(t)
              \/ RemoveStorageDone(t) \/ RemoveEnd(t)
              \/ Killed(t) \/ ShutdownPre(t) \/ ShutdownCmdDone(t)
              \/ ShutdownEnd(t) \/ ShutdownTimesOut(t)
              \/ PauseDone(t) \/ UnpauseDone(t)

Next == \/ Libvirt
        \/ Qubesd
        \/ \E t \in Tasks : Requests(t) \/ TakesLock(t) \/ Resumes(t)

Spec == Init /\ [][Next]_vars

(* Awaited calls return, ready coroutines run, events are read, the lock   *)
(* is FIFO (so a waiter is served), and a dying domain dies.  Nothing      *)
(* obliges a client to call or a guest to stop.                            *)
Fairness ==
    /\ WF_vars(DyingEnds)
    /\ WF_vars(DeliverStopped)
    /\ WF_vars(Reconnect)
    /\ WF_vars(CoroBegin \/ CoroDyingOver)
    /\ WF_vars(StoppedHandlersDone \/ ShutdownHandlersDone \/ AutoCleanup
               \/ AutoCleanupDone \/ HandlerFails \/ AutoCleanupFails)
    /\ WF_vars(BootCheck \/ BootStorageStopped)
    /\ \A t \in Tasks : WF_vars(Resumes(t)) /\ SF_vars(TakesLock(t))

FairSpec == Spec /\ Fairness

---------------------------------------------------------------------------
(* Properties.                                                             *)

(* Every variable stays in its set.                                        *)
DomainType ==
    /\ power \in {"Halted", "Paused", "Running", "Dying"}
    /\ run \in 0..MaxRuns
    /\ emitted \in BOOLEAN /\ evq \in Nat /\ conn \in BOOLEAN

StopType ==
    /\ received \in BOOLEAN /\ handled \in BOOLEAN
    /\ stopTask \in {"none", "waiting", "running"}
    /\ stopLock \in Owners
    /\ handling \in {"none", "dying", "stopped", "shutdown", "cleaning"}

WaitType ==
    /\ waiter \in {"none", "pending", "cancelled"}
    /\ wres \in [Tasks -> {"none", "pending", "done", "failed", "cancelled"}]
    /\ krun \in [Tasks -> 0..MaxRuns]

TaskType ==
    /\ startLock \in Tasks \cup {None}
    /\ pc \in [Tasks -> Pcs]

DiskType ==
    /\ storage \in {"stopped", "partial", "started", "removed"}
    /\ inDomains \in BOOLEAN /\ saved \in BOOLEAN

EnvType ==
    /\ boot \in {"none", "check", "stopping"}
    /\ restarts \in 0..MaxRestarts /\ drops \in 0..MaxDrops

HistType ==
    /\ fired \in [Runs -> Nat]
    /\ finished \subseteq 0..MaxRuns /\ lost \subseteq 0..MaxRuns
    /\ overrun \in BOOLEAN

TypeOK ==
    /\ DomainType /\ StopType /\ WaitType /\ TaskType
    /\ DiskType /\ EnvType /\ HistType

(* The handlers of domain-stopped and domain-shutdown run only while the   *)
(* qube has no libvirt domain: neither a stale STOPPED event nor a start() *)
(* racing with the coroutine lets them loose on a live domain.             *)
HandlingOnlyWhenDown ==
    handling \in {"stopped", "shutdown", "cleaning"} => power = "Halted"

(* `assert not self._domain_stopped_event_handled` of the coroutine: the   *)
(* stop it was scheduled for was not handled by anyone in between.         *)
CoroAssertion ==
    stopTask = "waiting" /\ stopLock = None => ~handled

(* _ensure_shutdown_handled() "MUST NOT be called when domain is running". *)
EnsureOnlyWhenDown ==
    \A t \in Tasks : pc[t] \in EnsurePcs => power = "Halted"

(* domain-stopped is dispatched at most once for each run of the qube, and *)
(* exactly once before the next run begins, whichever of the event, the    *)
(* reconnection and start() comes first.  The exceptions: a run that ended *)
(* unseen by any qubesd, one whose start() failed late, and one created    *)
(* after a forced cleanup had unlisted the qube.                           *)
StoppedOncePerRun ==
    \A r \in Runs : /\ fired[r] <= 1
                    /\ r < run /\ fired[r] = 0 => r \in lost

(* A live domain has its volumes started, and nobody is stopping or        *)
(* removing them, unless its start() failed late or created it after a     *)
(* forced cleanup had unlisted the qube.                                   *)
StorageUnderLiveDomain ==
    Alive /\ run \notin lost =>
        /\ storage = "started"
        /\ handling \notin {"stopped", "cleaning"}
        /\ boot # "stopping"
        /\ \A t \in Tasks :
              pc[t] \notin {"spawn_undo", "remove_storage", "cleanup_storage"}

(* While start() brings the volumes up, nobody takes them down, but for a  *)
(* forced cleanup: it does not ask for startup_lock.                       *)
StorageStartExclusive ==
    (\E t \in Tasks : pc[t] \in {"storage_start", "pre_spawn"}) =>
        /\ handling = "none" /\ boot = "none"
        /\ \A t \in Tasks :
              pc[t] \notin {"remove_storage", "cleanup_storage"} \/ overrun

(* A qube that left app.domains is not running and is never started again, *)
(* though start() looks at app.domains only when it gets startup_lock --   *)
(* unless a forced cleanup unlisted it after that look.                    *)
RemovedStaysDown == ~inDomains => power = "Halted" \/ overrun

(* The answer of kill() and shutdown(wait=True) is good only after the     *)
(* domain-shutdown of the run they were called on was dispatched.          *)
AnswerAfterShutdownHandled ==
    \A t \in Tasks : wres[t] = "done" => krun[t] \in finished \cup lost \cup {0}

(* The shutdown of a run is dispatched once, and who asked for it is       *)
(* answered after that.                                                    *)
ShutdownHandled == StoppedOncePerRun /\ AnswerAfterShutdownHandled

(* A caller of kill() or shutdown(wait=True) waits until the qube is down  *)
(* ("wait for shutdown to complete"), fails, or times out itself: nobody   *)
(* else's timeout ends its wait.                                           *)
WaitsAreTheirOwn == \A t \in Tasks : wres[t] # "cancelled"

(* A qube that is down is never started within a run: the domain created   *)
(* by start() is always a new run whose predecessor was handled, and a     *)
(* qube outside app.domains gets none, unless a forced cleanup unlisted it *)
(* while start() was under way.                                            *)
StartAfterHandled ==
    [][run' # run =>
         (inDomains \/ overrun) /\ handled /\ handling = "none"]_vars

(* The domain of this run has no end that qubesd can see, so that who      *)
(* waits for it waits for ever: a forced cleanup unlisted the qube first.  *)
Unseen == run \in lost

(* kill(), also the one start() does with startup_lock held, returns.      *)
KillReturns ==
    \A t \in Tasks :
        pc[t] \in {"kill_wait", "boot_kill", "cleanup_kill"} ~>
            Unseen \/ pc[t] \notin {"kill_wait", "boot_kill", "cleanup_kill"}

(* start() and admin.vm.Remove end, so no two of the locks, the waiter and *)
(* the coroutine wait for each other.                                      *)
StartReturns ==
    \A t \in Tasks : pc[t] = "start_lock" ~> Unseen \/ pc[t] = "idle"
RemoveReturns ==
    \A t \in Tasks : pc[t] = "remove_lock" ~> Unseen \/ pc[t] = "idle"

(* No call waits for ever for another: kill(), start() and admin.vm.Remove *)
(* return, although two of them hold or await startup_lock, the stop lock  *)
(* and the end of a run at once -- or wait for a domain that was created   *)
(* for a qube already unlisted.                                            *)
CallsReturn == KillReturns /\ StartReturns /\ RemoveReturns

(* The end of a run is eventually handled, also when its STOPPED event was *)
(* lost with the connection, was refused, or raced with another call -- if *)
(* the qube was still listed when the run began.                           *)
EndIsHandled ==
    power = "Halted" /\ ~handled ~> Unseen \/ (handled /\ handling = "none")

(* The implementation of QubeRuns: a run is dealt with once its stop is    *)
(* marked as handled and nobody dispatches its events any more.  One whose *)
(* start() failed late, or overtook the removal of the qube, is over for   *)
(* qubesd although it is alive.                                            *)
QubeLife == INSTANCE QubeRuns WITH
    phase  <- IF Alive /\ run \notin lost THEN "up"
              ELSE IF handled /\ handling = "none" /\ power = "Halted"
              THEN "off" ELSE "ended",
    count  <- run,
    listed <- inDomains,
    torn   <- overrun

(* qubesd keeps the promise of QubeRuns: every step is one of its steps or *)
(* none, whoever boots, kills, removes and restarts.                       *)
KeepsRunPromise ==
    /\ QubeLife!AbsInit
    /\ [][QubeLife!AbsNext]_(QubeLife!absVars)

---------------------------------------------------------------------------
(* The inductive invariant behind the safety properties.                   *)

RemovingPcs  == {"remove_ensure", "remove_storage", "remove_end",
                 "cleanup_ensure", "cleanup_storage"}

(* startup_lock excludes.                                                  *)
StartLockInv ==
    \A t \in Tasks : pc[t] \in StartHoldPcs \cup RemoveHoldPcs => startLock = t

(* Who holds _domain_stopped_lock is dispatching a stop marked as handled. *)
StopLockInv ==
    /\ handling = "none" <=> stopLock = None
    /\ handling # "none" => handled
    /\ handling = "dying" => stopLock = Coro
    /\ stopLock = Coro <=> stopTask = "running"
    /\ stopLock \in Tasks => pc[stopLock] \in EnsurePcs

(* A stop is handled only after it was received, and a coroutine that      *)
(* waits for the lock has an unhandled stop in front of it.                *)
StopFlagsInv ==
    /\ handled => received
    /\ stopTask = "waiting" => received /\ ~handled

(* What happens only while there is no libvirt domain.                     *)
DownInv ==
    /\ handling \in {"stopped", "shutdown", "cleaning"} => power = "Halted"
    /\ stopTask = "waiting" \/ handling = "dying" => ~Alive
    /\ ~inDomains => power = "Halted" \/ overrun
    /\ ~saved => ~inDomains
    /\ handling = "cleaning" => ~inDomains
    /\ boot # "none" => \A t \in Tasks : pc[t] = "idle"
    /\ boot = "stopping" => power = "Halted"

(* What start() and removal have established at each of their awaits.      *)
PcInv ==
    \A t \in Tasks :
        /\ pc[t] \in EnsurePcs => power = "Halted"
        /\ pc[t] \in PreCreatePcs =>
              power = "Halted" /\ handled /\ handling = "none"
        /\ pc[t] \in {"storage_start", "pre_spawn"} =>
              /\ inDomains \/ overrun
              /\ \A u \in Tasks : pc[u] \notin EnsurePcs
        /\ pc[t] \in {"start_ensure", "pre_start"} /\ ~inDomains =>
              storage = "removed" \/ handling = "cleaning" \/ overrun
        /\ pc[t] \in RemovingPcs => ~inDomains

LifecycleInv ==
    TypeOK /\ StartLockInv /\ StopLockInv /\ StopFlagsInv /\ DownInv /\ PcInv

=============================================================================
