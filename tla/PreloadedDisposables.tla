------------------------ MODULE PreloadedDisposables ------------------------
(***************************************************************************)
(* The preload queue of one disposable template: disposables are created,  *)
(* booted and paused in the background, and handed to the callers of       *)
(* admin.vm.CreateDisposable (qubes/vm/dispvm.py and                       *)
(* qubes/vm/mix/dvmtemplate.py).                                           *)
(*                                                                         *)
(* A step is what a coroutine does between two awaits.  The queue is a SET *)
(* here: which listed qube is taken or cut first is left open, so every    *)
(* order of the list is covered.  How a domain starts and stops is the     *)
(* subject of DomainLifecycle; here a domain ends in one step and its      *)
(* domain-shutdown handlers run in another.                                *)
(***************************************************************************)
EXTENDS Naturals, FiniteSets

CONSTANTS
    Qubes,          \* the disposables that may be preloaded, one use each
    Users,          \* coroutines serving admin.vm.CreateDisposable
    Tools,          \* coroutines serving admin.vm.Unpause
    None,           \* no qube
    MaxPreload,     \* bound: values of preload-dispvm-max
    MaxEvents,      \* bound: domain-preload-dispvm-* events waiting to run
    MaxMake,        \* bound: preloading tasks not yet begun
    MaxAdmin,       \* bound: changes made by the administrator
    MaxRestarts,    \* bound: restarts of qubesd
    Failures,       \* starts, uses and domains may fail, waits time out
    CreateMayFail,  \* create_on_disk() may raise
    NegativeDelay   \* preload-dispvm-delay < 0: refill only an empty queue

ASSUME ActorsDistinct == Users \cap Tools = {} /\ None \notin Qubes
ASSUME QubesFinite == IsFiniteSet(Qubes)
ASSUME BoundsAreNaturals ==
    /\ MaxPreload \in Nat /\ MaxEvents \in Nat /\ MaxMake \in Nat
    /\ MaxAdmin \in Nat /\ MaxRestarts \in Nat
ASSUME SwitchesAreBooleans ==
    Failures \in BOOLEAN /\ CreateMayFail \in BOOLEAN /\ NegativeDelay \in BOOLEAN

VARIABLES
    max,        \* the preload-dispvm-max feature of the template
    list,       \* its preload-dispvm feature
    events,     \* preload events fired and not yet handled
    toMake,     \* from_appvm(preload=True) calls not yet begun
    inDom,      \* the disposables in app.domains
    born,       \* the names ever given
    phase,      \* where gen_disposable(preload=True) and start() are
    power,      \* the libvirt domain; "Ended": its stop is not handled yet
    requested,  \* the qubes with preload_requested
    completed,  \* those with the preload-dispvm-completed feature
    inprog,     \* those with the preload-dispvm-in-progress feature
    stale,      \* qubes whose is_preload_outdated() would tell a difference
    surplus,    \* cleanup() scheduled by remove_preload_excess()
    doomed,     \* cleanup() scheduled for outdated or late qubes
    forced,     \* cleanup(force=True) scheduled by on_domain_loaded()
    removing,   \* remove_from_disk() of _auto_cleanup() is under way
    pc,         \* the await of each caller
    mine,       \* the qube each caller works on
    got,        \* the preloaded qube each caller was answered with
    saved,      \* what qubes.xml says
    admin,      \* administrator's changes so far
    restarts    \* restarts of qubesd so far

queueVars == <<max, list, events, toMake>>
markVars  == <<requested, completed, inprog>>
reapVars  == <<surplus, doomed, forced, removing>>
callVars  == <<pc, mine, got>>
envVars   == <<stale, admin, restarts>>
vars == <<queueVars, inDom, born, phase, power, markVars, reapVars, callVars,
          saved, envVars>>

Callers == Users \cup Tools

Phases == {"none", "create", "starting", "boot", "services", "suspend",
           "undo", "failed", "idle"}
Powers == {"Halted", "Running", "Paused", "Ended"}
CallPcs == {"idle", "wait", "unpause", "resumed", "use", "fresh", "done"}

Stores == [dom : SUBSET Qubes, list : SUBSET Qubes,
           inprog : SUBSET Qubes, completed : SUBSET Qubes]

TypeOK ==
    /\ max \in 0..MaxPreload /\ events \in 0..MaxEvents /\ toMake \in 0..MaxMake
    /\ list \subseteq Qubes /\ inDom \subseteq Qubes /\ born \subseteq Qubes
    /\ phase \in [Qubes -> Phases] /\ power \in [Qubes -> Powers]
    /\ requested \subseteq Qubes /\ completed \subseteq Qubes
    /\ inprog \subseteq Qubes
    /\ surplus \subseteq Qubes /\ doomed \subseteq Qubes
    /\ forced \subseteq Qubes /\ removing \subseteq Qubes
    /\ stale \subseteq Qubes
    /\ pc \in [Callers -> CallPcs]
    /\ mine \in [Callers -> Qubes \cup {None}]
    /\ got \in [Callers -> Qubes \cup {None}]
    /\ saved \in Stores
    /\ admin \in 0..MaxAdmin /\ restarts \in 0..MaxRestarts

---------------------------------------------------------------------------
(* What the code asks of its state.                                        *)

Alive(q) == power[q] \in {"Running", "Paused"}

IsPreload(q) == q \in list \cup requested

CanPreload == Cardinality(list) < max

Store == [dom |-> inDom, list |-> list, inprog |-> inprog \cap inDom,
          completed |-> completed \cap inDom]

(* app.save()                                                              *)
Save == saved' = Store'

(* fire_event_async("domain-preload-dispvm-...") in a task of its own; an  *)
(* event beyond MaxEvents would find the queue as the one before it leaves *)
(* it.                                                                     *)
FireEvent == events' = IF events < MaxEvents THEN events + 1 ELSE events

FillGap ==
    IF CanPreload /\ ~(NegativeDelay /\ list # {})
    THEN FireEvent ELSE UNCHANGED events

FireUsed_Never == UNCHANGED events                \* fault: no refill
FireUsed ==
    IF NegativeDelay /\ list # {} THEN UNCHANGED events ELSE FireEvent

(* The system has started: preload-autostart was requested, nothing is     *)
(* preloaded yet.                                                          *)
Init ==
    /\ max \in 0..MaxPreload /\ list = {} /\ toMake = 0
    /\ events = IF MaxEvents > 0 THEN 1 ELSE 0
    /\ inDom = {} /\ born = {}
    /\ phase = [q \in Qubes |-> "none"]
    /\ power = [q \in Qubes |-> "Halted"]
    /\ requested = {} /\ completed = {} /\ inprog = {}
    /\ stale = {} /\ surplus = {} /\ doomed = {} /\ forced = {}
    /\ removing = {}
    /\ pc = [c \in Callers |-> "idle"]
    /\ mine = [c \in Callers |-> None]
    /\ got = [c \in Callers |-> None]
    /\ saved = Store
    /\ admin = 0 /\ restarts = 0

---------------------------------------------------------------------------
(* Filling the queue.                                                      *)

(* remove_preload_excess(n): the qubes beyond the first n leave the list,  *)
(* and those still in app.domains get a cleanup().                         *)
Keeps(n) == {K \in SUBSET list :
                Cardinality(K) = IF Cardinality(list) < n
                                 THEN Cardinality(list) ELSE n}

RemoveExcess(K) ==
    /\ list' = K
    /\ surplus' = surplus \cup ((list \ K) \cap inDom)

(* on_domain_preload_dispvm_used(): offload the excess, or make as many as *)
(* there are gaps and memory for.  Each one is a task that looks again.    *)
HandleEvent ==
    /\ events > 0
    /\ events' = events - 1
    /\ IF CanPreload
       THEN /\ \E k \in (IF Failures THEN 0 ELSE max - Cardinality(list))
                        ..(max - Cardinality(list)) : toMake' = toMake + k
            /\ toMake' <= MaxMake
            /\ UNCHANGED <<list, surplus>>
       ELSE /\ \E K \in Keeps(max) : RemoveExcess(K)
            /\ UNCHANGED toMake
    /\ UNCHANGED <<max, inDom, born, phase, power, markVars, doomed, forced,
                   removing, callVars, saved, envVars>>

(* The first, synchronous part of from_appvm(preload=True): refuse when    *)
(* the queue is full, else add_new_vm() and mark_preload().                *)
MayAdd == CanPreload

BeginPreload ==
    /\ toMake > 0
    /\ toMake' = toMake - 1
    /\ IF MayAdd
       THEN \E q \in Qubes \ born :
                /\ born' = born \cup {q} /\ inDom' = inDom \cup {q}
                /\ list' = list \cup {q}
                /\ inprog' = inprog \cup {q}
                /\ phase' = [phase EXCEPT ![q] = "create"]
       ELSE UNCHANGED <<born, inDom, list, inprog, phase>>
    /\ UNCHANGED <<max, events, power, requested, completed, reapVars,
                   callVars, saved, envVars>>

Enter(q, p) == phase' = [phase EXCEPT ![q] = p]

Created(q) ==
    /\ phase[q] = "create"
    /\ Enter(q, IF q \in inDom THEN "starting" ELSE "idle")
    /\ UNCHANGED <<queueVars, inDom, born, power, markVars, reapVars,
                   callVars, saved, envVars>>

(* create_on_disk() raises: gen_disposable() leaves everything as it is.   *)
CreateFails(q) ==
    /\ CreateMayFail /\ phase[q] = "create"
    /\ Enter(q, "failed")
    /\ UNCHANGED <<queueVars, inDom, born, power, markVars, reapVars,
                   callVars, saved, envVars>>

(* start() makes the domain; nothing asks whether the qube is still wanted.*)
Spawn(q) ==
    /\ phase[q] = "starting"
    /\ power' = [power EXCEPT ![q] = "Running"]
    /\ Enter(q, "boot")
    /\ UNCHANGED <<queueVars, inDom, born, markVars, reapVars, callVars,
                   saved, envVars>>

(* The end of on_domain_started_dispvm(): completed, and no longer in      *)
(* progress unless somebody waits for it.                                  *)
Completes(q) ==
    /\ completed' = completed \cup {q}
    /\ IF q \in requested
       THEN UNCHANGED <<inprog, saved>>
       ELSE inprog' = inprog \ {q} /\ Save

(* domain-start: a qube that is not preloaded is left alone, a requested   *)
(* one is complete at once, the others wait for their services.            *)
Booted(q) ==
    /\ phase[q] = "boot" /\ Alive(q)
    /\ UNCHANGED <<queueVars, inDom, born, power, requested, reapVars,
                   callVars, envVars>>
    /\ IF IsPreload(q) /\ q \in requested
       THEN Enter(q, "idle") /\ Completes(q)
       ELSE /\ Enter(q, IF IsPreload(q) THEN "services" ELSE "idle")
            /\ UNCHANGED <<completed, inprog, saved>>

(* The services and the domain-pre-paused handlers are over, or the        *)
(* request event broke them off.                                           *)
ServicesOver(q) ==
    /\ phase[q] = "services"
    /\ UNCHANGED <<queueVars, inDom, born, power, requested, reapVars,
                   callVars, envVars>>
    /\ IF q \in requested
       THEN Enter(q, "idle") /\ Completes(q)
       ELSE /\ Alive(q)
            /\ Enter(q, "suspend") /\ UNCHANGED <<completed, inprog, saved>>

(* pause() goes on after its handlers: no second look at the request.      *)
Suspend(q) ==
    /\ phase[q] = "suspend" /\ Alive(q)
    /\ power' = [power EXCEPT ![q] = "Paused"]
    /\ UNCHANGED <<queueVars, inDom, born, requested, reapVars, callVars,
                   envVars>>
    /\ Enter(q, "idle") /\ Completes(q)

---------------------------------------------------------------------------
(* Taking qubes away.                                                      *)

Unlist(q) == list' = list \ {q}

(* del app.domains[q]; remove_from_disk() follows.                         *)
Delete(q) == inDom' = inDom \ {q} /\ removing' = removing \cup {q}

(* _auto_cleanup(): off the list in any case, then, unless somebody else   *)
(* has done it, out of app.domains and off the disk.                       *)
LeaveDomains(q) ==
    /\ Unlist(q)
    /\ IF q \in inDom THEN Delete(q) ELSE UNCHANGED <<inDom, removing>>

(* The end of cleanup(force=True), which a removed qube does not reach.    *)
ForcedCleanup(q) ==
    IF q \in inDom THEN LeaveDomains(q) ELSE UNCHANGED <<list, inDom, removing>>

AutoCleanup(q) ==
    /\ power[q] = "Ended"
    /\ power' = [power EXCEPT ![q] = "Halted"]
    /\ LeaveDomains(q)
    /\ UNCHANGED <<max, events, toMake, born, phase, markVars, surplus, doomed,
                   forced, callVars, saved, envVars>>

(* remove_from_disk() waits until the stop of the domain is handled.       *)
Removed(q) ==
    /\ q \in removing /\ power[q] # "Ended"
    /\ removing' = removing \ {q}
    /\ UNCHANGED <<queueVars, inDom, born, phase, power, markVars, surplus,
                   doomed, forced, callVars, envVars>>
    /\ Save

(* start() fails: kill() if the domain lives, then cleanup(force=True).    *)
StartFails(q) ==
    /\ phase[q] \in {"starting", "boot", "services", "suspend"}
    /\ Failures \/ (phase[q] # "starting" /\ ~Alive(q))
    /\ power' = [power EXCEPT ![q] = IF Alive(q) THEN "Ended" ELSE @]
    /\ Enter(q, "undo")
    /\ UNCHANGED <<queueVars, inDom, born, markVars, reapVars, callVars,
                   saved, envVars>>

StartUndone(q) ==
    /\ phase[q] = "undo" /\ power[q] = "Halted"
    /\ Enter(q, "idle")
    /\ ForcedCleanup(q)
    /\ UNCHANGED <<max, events, toMake, born, power, markVars, surplus, doomed,
                   forced, callVars, saved, envVars>>

(* cleanup(): kill() raises QubesVMNotStartedError for a qube that is not  *)
(* up, and without force that is all; else domain-shutdown does the rest.  *)
Kills(q) ==
    power' = IF q \in inDom /\ Alive(q) THEN [power EXCEPT ![q] = "Ended"]
             ELSE power

CleanSurplus(q) ==
    /\ q \in surplus
    /\ surplus' = surplus \ {q} /\ Kills(q)
    /\ UNCHANGED <<queueVars, inDom, born, phase, markVars, doomed, forced,
                   removing, callVars, saved, envVars>>

CleanDoomed(q) ==
    /\ q \in doomed
    /\ doomed' = doomed \ {q} /\ Kills(q)
    /\ UNCHANGED <<queueVars, inDom, born, phase, markVars, surplus, forced,
                   removing, callVars, saved, envVars>>

CleanForced(q) ==
    /\ q \in forced
    /\ forced' = forced \ {q} /\ Kills(q)
    /\ IF Alive(q) THEN UNCHANGED <<list, inDom, removing>> ELSE ForcedCleanup(q)
    /\ UNCHANGED <<max, events, toMake, born, phase, markVars, surplus, doomed,
                   callVars, saved, envVars>>

(* A guest shuts down or crashes, or somebody kills it.                    *)
QubeEnds(q) ==
    /\ Failures /\ Alive(q)
    /\ power' = [power EXCEPT ![q] = "Ended"]
    /\ UNCHANGED <<queueVars, inDom, born, phase, markVars, reapVars,
                   callVars, saved, envVars>>

(* admin.vm.Remove of a qube that is halted and that no start() holds.  It *)
(* leaves app.domains first; domain-remove-from-disk takes it off the list,*)
(* or domain-shutdown when the stop of its domain is still to be handled.  *)
AdminRemove(q) ==
    /\ Failures /\ phase[q] \in {"create", "failed", "idle"}
    /\ q \in inDom /\ ~Alive(q)
    /\ Delete(q)
    /\ IF power[q] = "Ended" THEN UNCHANGED list ELSE Unlist(q)
    /\ UNCHANGED <<max, events, toMake, born, phase, power, markVars, surplus,
                   doomed, forced, callVars, saved, envVars>>

CleanOutdated_None(outdated) == UNCHANGED doomed  \* fault: no cleanup()
CleanOutdated(outdated) == doomed' = doomed \cup outdated

(* refresh_outdated_preload(): outdated preloaded qubes, requested ones    *)
(* included, leave the list and are cleaned up.                            *)
RefreshOutdated ==
    LET outdated == {q \in inDom : IsPreload(q) /\ q \in stale}
    IN  /\ outdated # {}
        /\ list' = list \ outdated
        /\ CleanOutdated(outdated)
        /\ FireEvent
        /\ UNCHANGED <<max, toMake, inDom, born, phase, power, markVars,
                       surplus, forced, removing, callVars, saved, envVars>>

---------------------------------------------------------------------------
(* Handing a preloaded qube out.                                           *)

Go(c, p) == pc' = [pc EXCEPT ![c] = p]
Answer(c, q) == Go(c, "done") /\ got' = [got EXCEPT ![c] = q]

(* mark_preload_requested() is synchronous, so no other caller sees the    *)
(* qube on the list.                                                       *)
TakeOff_Forgotten(q, discarded) == list' = list \ discarded   \* fault
TakeOff(q, discarded) == list' = list \ (discarded \cup {q})

(* request_preload(): outdated qubes found on the way are discarded, the   *)
(* first current one is requested.                                         *)
Request(c) ==
    /\ c \in Users /\ pc[c] = "idle"
    /\ \E discarded \in SUBSET (list \cap inDom \cap stale),
          q \in (list \cap inDom) \ stale :
        /\ FillGap
        /\ TakeOff(q, discarded)
        /\ doomed' = doomed \cup discarded
        /\ requested' = requested \cup {q}
        /\ inprog' = inprog \cup {q}
        /\ mine' = [mine EXCEPT ![c] = q]
        /\ Go(c, "wait")
    /\ UNCHANGED <<max, toMake, inDom, born, phase, power, completed, surplus,
                   forced, removing, got, saved, envVars>>

(* No current qube: all outdated ones are discarded and a new disposable   *)
(* is made.                                                                *)
RequestFresh(c) ==
    /\ c \in Users /\ pc[c] = "idle"
    /\ list \subseteq inDom \cap stale
    /\ list' = {} /\ doomed' = doomed \cup list
    /\ IF list = {} THEN FillGap
       ELSE IF max > 0 THEN FireEvent ELSE UNCHANGED events
    /\ Go(c, "fresh")
    /\ UNCHANGED <<max, toMake, inDom, born, phase, power, markVars, surplus,
                   forced, removing, mine, got, saved, envVars>>

(* A listed name that is not in app.domains any more comes first: KeyError *)
(* for the caller, after the outdated ones met before it were discarded.   *)
RequestBreaks(c) ==
    /\ c \in Users /\ pc[c] = "idle"
    /\ ~(list \subseteq inDom)
    /\ \E discarded \in SUBSET (list \cap inDom \cap stale) :
        list' = list \ discarded /\ doomed' = doomed \cup discarded
    /\ FillGap
    /\ Answer(c, None)
    /\ UNCHANGED <<max, toMake, inDom, born, phase, power, markVars, surplus,
                   forced, removing, mine, saved, envVars>>

(* gen_disposable() for the caller, which has no part in the queue.        *)
Fresh(c) ==
    /\ pc[c] = "fresh"
    /\ Answer(c, None)
    /\ UNCHANGED <<queueVars, inDom, born, phase, power, markVars, reapVars,
                   mine, envVars>>
    /\ Save

(* The first, synchronous part of use_preload().                           *)
UseBegin(c, q) ==
    /\ Go(c, "use")
    /\ requested' = requested \ {q}
    /\ list' = IF q \in requested THEN list ELSE list \ {q}

(* get_preload(): the qube is complete.  A paused one is unpaused, else    *)
(* use_preload() is called, which refuses a qube that is not preloaded.    *)
MustUnpause_Never(q) == FALSE                     \* fault: left paused
MustUnpause(q) == power[q] = "Paused"

GetPreload(c) ==
    /\ pc[c] = "wait" /\ mine[c] \in completed
    /\ LET q == mine[c] IN
       IF MustUnpause(q)
       THEN Go(c, "unpause") /\ UNCHANGED <<requested, list, got>>
       ELSE IF IsPreload(q) THEN UseBegin(c, q) /\ UNCHANGED got
       ELSE Answer(c, None) /\ UNCHANGED <<requested, list>>
    /\ UNCHANGED <<max, events, toMake, inDom, born, phase, power, completed,
                   inprog, reapVars, mine, saved, envVars>>

(* The qube is not complete in time: a fresh one instead, and a cleanup(). *)
(* Without Failures only a qube that will never complete is late.          *)
MayTimeOut_Never(q) == FALSE                      \* fault: no time limit
MayTimeOut(q) ==
    /\ q \notin completed
    /\ Failures \/ (~Alive(q) /\ phase[q] \in {"idle", "undo"})

GetTimesOut(c) ==
    /\ pc[c] = "wait" /\ MayTimeOut(mine[c])
    /\ Go(c, "fresh")
    /\ doomed' = doomed \cup {mine[c]}
    /\ UNCHANGED <<queueVars, inDom, born, phase, power, markVars, surplus,
                   forced, removing, mine, got, saved, envVars>>

(* admin.vm.Unpause called on a preloaded qube that nobody requested.      *)
ToolUnpause(c) ==
    /\ c \in Tools /\ pc[c] = "idle"
    /\ \E q \in inDom :
        /\ power[q] = "Paused" /\ phase[q] = "idle"
        /\ mine' = [mine EXCEPT ![c] = q]
    /\ Go(c, "unpause")
    /\ UNCHANGED <<queueVars, inDom, born, phase, power, markVars, reapVars,
                   got, saved, envVars>>

(* domain-pre-unpaused is over: resume(), which fails on a dead domain.    *)
Resume(c) ==
    /\ pc[c] = "unpause"
    /\ IF Alive(mine[c])
       THEN /\ power' = [power EXCEPT ![mine[c]] = "Running"]
            /\ Go(c, "resumed") /\ UNCHANGED got
       ELSE Answer(c, None) /\ UNCHANGED power
    /\ UNCHANGED <<queueVars, inDom, born, phase, markVars, reapVars, mine,
                   saved, envVars>>

(* on_domain_unpaused(): a preloaded qube that is usable becomes used.     *)
Unpaused(c) ==
    /\ pc[c] = "resumed"
    /\ LET q == mine[c] IN
       IF IsPreload(q) /\ Alive(q)
       THEN UseBegin(c, q) /\ UNCHANGED got
       ELSE Answer(c, q) /\ UNCHANGED <<requested, list>>
    /\ UNCHANGED <<max, events, toMake, inDom, born, phase, power, completed,
                   inprog, reapVars, mine, saved, envVars>>

(* apply_deferred_netvm() is over: the mark is cleared, all is saved, the  *)
(* caller gets the qube.                                                   *)
UseEnd(c) ==
    /\ pc[c] = "use"
    /\ inprog' = inprog \ {mine[c]}
    /\ FireUsed
    /\ Answer(c, mine[c])
    /\ UNCHANGED <<max, list, toMake, inDom, born, phase, power, requested,
                   completed, reapVars, mine, envVars>>
    /\ Save

(* apply_deferred_netvm() raises: get_preload() takes a TimeoutError for   *)
(* its own and falls back; any other error, and any error of a tool's      *)
(* call, goes to the caller.                                               *)
UseTimesOut(c) ==
    /\ Failures /\ c \in Users /\ pc[c] = "use"
    /\ Go(c, "fresh")
    /\ doomed' = doomed \cup {mine[c]}
    /\ UNCHANGED <<queueVars, inDom, born, phase, power, markVars, surplus,
                   forced, removing, mine, got, saved, envVars>>

UseFails(c) ==
    /\ Failures /\ pc[c] = "use"
    /\ Answer(c, None)
    /\ UNCHANGED <<queueVars, inDom, born, phase, power, markVars, reapVars,
                   mine, saved, envVars>>

---------------------------------------------------------------------------
(* The administrator, the other users of app.save(), and restarts.         *)

Admin == admin < MaxAdmin /\ admin' = admin + 1

(* admin.vm.feature.Set of preload-dispvm-max, which saves.                *)
SetMax ==
    /\ Admin
    /\ \E n \in 0..MaxPreload \ {max} : max' = n
    /\ FireEvent
    /\ UNCHANGED <<list, toMake, inDom, born, phase, power, markVars, reapVars,
                   callVars, stale, restarts>>
    /\ Save

(* remove_preload_excess(0): the feature is deleted, the template of the   *)
(* disposable template changes, the host suspends (and resumes later).     *)
DropAll ==
    /\ Admin
    /\ RemoveExcess({})
    /\ max' \in {0, max}
    /\ FireEvent
    /\ UNCHANGED <<toMake, inDom, born, phase, power, markVars, doomed, forced,
                   removing, callVars, saved, stale, restarts>>

(* The template shuts down with a new root image, or a property of the     *)
(* disposable template changes: every disposable that exists is outdated.  *)
MakeStale ==
    /\ Admin
    /\ stale' = stale \cup inDom
    /\ UNCHANGED <<queueVars, inDom, born, phase, power, markVars, reapVars,
                   callVars, saved, restarts>>

(* Any other write operation of the admin API saves qubes.xml as it is,    *)
(* and so does qubesd's handler of SIGTERM: a clean restart is OtherSave,  *)
(* then Restart.  Bound: only while a restart can still read it.           *)
OtherSave ==
    /\ restarts < MaxRestarts
    /\ UNCHANGED <<queueVars, inDom, born, phase, power, markVars, reapVars,
                   callVars, envVars>>
    /\ Save

(* on_domain_loaded(): absent qubes and interrupted ones leave the list,   *)
(* and the interrupted ones are cleaned up.                                *)
Interrupted(q) == (~Alive(q) /\ q \in saved.completed) \/ q \in saved.inprog

Restart ==
    /\ restarts < MaxRestarts
    /\ restarts' = restarts + 1
    /\ inDom' = saved.dom
    /\ forced' = {q \in saved.dom : Interrupted(q)}
    /\ list' = (saved.list \cap saved.dom) \ forced'
    /\ completed' = saved.completed /\ inprog' = saved.inprog
    /\ requested' = {}
    /\ power' = [q \in Qubes |-> IF Alive(q) THEN power[q] ELSE "Halted"]
    /\ phase' = [q \in Qubes |-> "idle"]
    /\ events' = 0 /\ toMake' = 0
    /\ surplus' = {} /\ doomed' = {} /\ removing' = {}
    /\ pc' = [c \in Callers |-> IF pc[c] = "idle" THEN "idle" ELSE "done"]
    /\ saved' = [saved EXCEPT !.list = list']
    /\ UNCHANGED <<max, born, mine, got, stale, admin>>

QubeStep(q) ==
    \/ Created(q) \/ Spawn(q) \/ Booted(q) \/ ServicesOver(q) \/ Suspend(q)
    \/ AutoCleanup(q) \/ Removed(q) \/ StartUndone(q)
    \/ CleanSurplus(q) \/ CleanDoomed(q) \/ CleanForced(q)

CallStep(c) ==
    \/ Request(c) \/ RequestFresh(c) \/ RequestBreaks(c)
    \/ Fresh(c) \/ GetPreload(c)
    \/ GetTimesOut(c) \/ Resume(c) \/ Unpaused(c) \/ UseEnd(c)

Environment ==
    \/ \E q \in Qubes : CreateFails(q) \/ StartFails(q) \/ QubeEnds(q)
                        \/ AdminRemove(q)
    \/ \E c \in Callers : ToolUnpause(c) \/ UseTimesOut(c) \/ UseFails(c)
    \/ SetMax \/ DropAll \/ MakeStale \/ OtherSave \/ Restart

Next ==
    \/ HandleEvent \/ BeginPreload \/ RefreshOutdated
    \/ \E q \in Qubes : QubeStep(q)
    \/ \E c \in Callers : CallStep(c)
    \/ Environment

Spec == Init /\ [][Next]_vars

(* Every coroutine that can run does; a call waits for a qube no longer    *)
(* than its time limit; a start whose domain died fails.                   *)
Fairness ==
    /\ WF_vars(HandleEvent) /\ WF_vars(BeginPreload)
    /\ \A q \in Qubes :
        /\ WF_vars(Created(q)) /\ WF_vars(Spawn(q)) /\ WF_vars(Booted(q))
        /\ WF_vars(ServicesOver(q)) /\ WF_vars(Suspend(q))
        /\ WF_vars(AutoCleanup(q)) /\ WF_vars(Removed(q))
        /\ WF_vars(StartUndone(q)) /\ WF_vars(StartFails(q) /\ ~Alive(q))
        /\ WF_vars(CleanSurplus(q)) /\ WF_vars(CleanDoomed(q))
        /\ WF_vars(CleanForced(q))
    /\ \A c \in Users :
        /\ WF_vars(Fresh(c)) /\ WF_vars(GetPreload(c))
        /\ WF_vars(GetTimesOut(c)) /\ WF_vars(Resume(c))
        /\ WF_vars(Unpaused(c)) /\ WF_vars(UseEnd(c))

FairSpec == Spec /\ Fairness

---------------------------------------------------------------------------
(* The inductive invariants.                                               *)

Serving(c) == pc[c] \in {"wait", "unpause", "resumed", "use"}

(* Listed qubes are marked as in progress or complete, in memory and, if   *)
(* they are there, in qubes.xml; a name not given yet is nowhere.          *)
ListInv ==
    /\ list \cup inDom \cup removing \subseteq born
    /\ saved.dom \subseteq born
    /\ list \subseteq inprog \cup completed
    /\ saved.list \cap saved.dom \subseteq saved.inprog \cup saved.completed
    /\ surplus \subseteq born /\ requested \subseteq born
    /\ list \cap requested = {}
    /\ \A c \in Callers : Serving(c) => mine[c] \in born
    /\ \A c \in Callers : pc[c] = "use" => mine[c] \notin list

(* A listed qube that left app.domains waits for the stop of its domain,   *)
(* and has no start() before it; a name not given yet has no domain.       *)
LeavingInv ==
    /\ list \ inDom \subseteq {q \in removing : power[q] = "Ended"}
    /\ \A q \in Qubes :
        /\ phase[q] \in {"none", "create", "starting", "failed"}
             => power[q] = "Halted"
        /\ q \notin born => power[q] = "Halted" /\ phase[q] \in {"none", "idle"}

QueueInv == TypeOK /\ ListInv /\ LeavingInv

(* The qube a caller works on has left the queue; it is requested until    *)
(* use_preload() begins, and complete from then on.                        *)
ServingInv ==
    /\ completed \subseteq born /\ saved.completed \subseteq born
    /\ \A q \in completed : phase[q] = "idle"
    /\ \A q \in Qubes : phase[q] \in {"none", "idle"} \/ q \in born
    /\ surplus \cap (list \cup requested) = {}
    /\ \A c \in Users :
        /\ Serving(c) => mine[c] \notin list \cup surplus
        /\ Serving(c) => (pc[c] = "use" <=> mine[c] \notin requested)
        /\ Serving(c) /\ pc[c] # "wait" => phase[mine[c]] = "idle"

(* A delivered qube has left it for good; while it lives, qubes.xml says   *)
(* so too.                                                                 *)
DeliveredInv ==
    \A c \in Users : got[c] # None =>
        /\ got[c] \in born /\ got[c] \notin list \cup surplus
        /\ phase[got[c]] = "idle"
        /\ Alive(got[c]) =>
            got[c] \notin requested \cup inprog \cup saved.list \cup saved.inprog

(* No two callers share a qube.                                            *)
SeparateInv ==
    \A c, d \in Users : c # d =>
        /\ Serving(c) /\ Serving(d) => mine[c] # mine[d]
        /\ Serving(c) /\ got[d] # None => mine[c] # got[d]
        /\ got[c] # None => got[c] # got[d]

(* Who pauses: only the end of a preload.  A qube past it, handed out or   *)
(* about to be, is not paused again.                                       *)
AwakeInv ==
    /\ completed \subseteq born /\ saved.completed \subseteq born
    /\ \A q \in completed : phase[q] = "idle"
    /\ \A q \in Qubes :
        /\ power[q] # "Halted" \/ phase[q] \notin {"none", "idle"} => q \in born
        /\ power[q] = "Paused" => phase[q] = "idle"
    /\ \A c \in Callers :
        /\ pc[c] \in {"unpause", "resumed", "use"} => phase[mine[c]] = "idle"
        /\ pc[c] \in {"resumed", "use"} => power[mine[c]] # "Paused"
        /\ got[c] # None =>
            got[c] \in born /\ phase[got[c]] = "idle" /\ power[got[c]] # "Paused"

(* A qube that may be paused, or may yet be, has somebody who knows it.    *)
Accounted(q) ==
    \/ q \in list \cup surplus \cup doomed \cup forced
    \/ \E c \in Callers : mine[c] = q /\ pc[c] \in {"wait", "unpause"}

MayBePaused(q) ==
    \/ power[q] = "Paused"
    \/ Alive(q) /\ phase[q] \in {"services", "suspend"}

AccountInv == restarts = 0 => \A q \in inDom : MayBePaused(q) => Accounted(q)

HandOutInv == QueueInv /\ ServingInv /\ DeliveredInv /\ SeparateInv

---------------------------------------------------------------------------
(* Properties.                                                             *)

(* request_preload() looks listed names up in app.domains without a guard. *)
(* It misses only a qube that admin.vm.Remove has taken out of app.domains *)
(* while the stop of its domain is not handled yet; a removed qube whose   *)
(* stop is handled, or that is off the disk, is not listed.                *)
MissingAreLeaving == list \ inDom \subseteq {q \in removing : power[q] = "Ended"}

(* "Another request to this function will not return the same qube": no    *)
(* two callers are ever answered with the same disposable, whatever the    *)
(* administrator does and whenever qubesd restarts.                        *)
DeliveredOnce ==
    \A c, d \in Users : c # d /\ got[c] # None => got[c] # got[d]

(* A caller is never answered with a qube that is still paused.            *)
DeliveredAwake == \A c \in Users : got[c] # None => power[got[c]] # "Paused"

(* "so we guarantee that it finishes before the user can use the           *)
(* disposable": a live qube a caller was answered with is marked as used   *)
(* in memory and on disk, its network changes are applied, and it is no    *)
(* longer a preloaded one.                                                 *)
DeliveredUsed ==
    \A c \in Users : got[c] # None /\ Alive(got[c]) =>
        ~IsPreload(got[c]) /\ got[c] \notin inprog /\ got[c] \notin saved.list

(* Who is answered with a disposable can use it: it is not paused, and,    *)
(* while nobody calls admin.vm.Unpause on a preloaded qube, it is marked   *)
(* as used in memory and on disk.                                          *)
DeliveredReady ==
    /\ DeliveredAwake
    /\ (\A t \in Tools : pc[t] = "idle") => DeliveredUsed

(* "Decreasing preload-dispvm-max feature will not remove the qube": what  *)
(* remove_preload_excess() cleans up is neither listed nor requested nor   *)
(* delivered.                                                              *)
SurplusUnwanted ==
    \A q \in surplus : ~IsPreload(q) /\ \A c \in Users : got[c] # q

(* No paused qube is forgotten: it is listed, a caller is about to unpause *)
(* it, or its cleanup is scheduled.  Only a restart of qubesd, which       *)
(* forgets the scheduled cleanups, leaves one behind.                      *)
PausedAccounted ==
    restarts = 0 =>
        \A q \in inDom : power[q] = "Paused" => Accounted(q)

(* The maximum may be lowered below the length of the list, but nothing    *)
(* makes the list longer than the maximum, however many preload events and *)
(* from_appvm() calls run at once.                                         *)
GrowsWithinMax ==
    [][Cardinality(list') > Cardinality(list) =>
        restarts' > restarts \/ Cardinality(list') <= max]_vars

(* "The only stage that should conserve the preloaded qubes is a qubes     *)
(* that has completed preloading": after a restart the list has only live, *)
(* complete qubes without an interrupted request on record.                *)
RestartKeepsComplete ==
    [][restarts' > restarts =>
        \A q \in list' : Alive(q) /\ q \in completed' \ inprog']_vars

(* Every caller is answered: with a preloaded qube, a fresh one, an error. *)
RequestReturns == \A c \in Users : pc[c] = "wait" ~> pc[c] = "done"

(* Once nobody changes anything any more, the queue fills up to the        *)
(* maximum and stays full.                                                 *)
Refilled == <>[](Cardinality(list) = max)
=============================================================================
