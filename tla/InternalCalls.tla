--------------------------- MODULE InternalCalls ---------------------------
(* What dom0 asks of qubesd (api/internal.py): to put the qubes to sleep and *)
(* wake them when the host suspends, and for the system info that qrexec     *)
(* decides with, which is cached until an event says that it changed.        *)
EXTENDS Naturals, FiniteSets

CONSTANTS Qubes,
          Guis,         \* values of guivm and default_guivm
          MaxMoves      \* bound of calls by users, restarts and suspends

VARIABLES
    listed,     \* app.domains
    power,      \* get_power_state()
    event,      \* the event that will tell of the last change of it
    own,        \* guivm: its own value or "default"
    default,    \* app.default_guivm
    info,       \* SystemInfoCache.cache: a function, or NoInfo for None
    record,     \* /run/qubes/previously-paused.list
    pc, todo,   \* the call SuspendPre or SuspendPost, and its tasks
    asleep,     \* the host is about to suspend, suspended, or resumes
    was,        \* history: power when SuspendPre was called
    touched,    \* history: qubes somebody changed since, or that failed
    twice,      \* history: SuspendPre was called twice before SuspendPost
    missed,     \* history: a change without an event, since info was cached
    moves

domains == <<listed, power, event>>
settings == <<own, default>>
suspension == <<record, pc, todo>>
notes == <<asleep, was, touched, twice>>
internalVars == <<domains, settings, info, suspension, notes, missed, moves>>

Asleep == {"Paused", "Suspended"}
NoInfo == <<>>

is_running(q) == power[q] # "Halted"
guivm(q) == IF own[q] = "default" THEN default ELSE own[q]

InternalInit ==
    /\ listed = Qubes
    /\ power \in [Qubes -> {"Halted", "Running", "Paused"}]
    /\ event = [q \in Qubes |-> "none"]
    /\ own = [q \in Qubes |-> "default"] /\ default \in Guis
    /\ info = NoInfo /\ record = {} /\ pc = "idle" /\ todo = {}
    /\ asleep = FALSE /\ was = power /\ touched = {} /\ twice = FALSE
    /\ missed = FALSE /\ moves = 0

Move == moves < MaxMoves /\ moves' = moves + 1

----------------------------------------------------------------------------
(* SystemInfoCache.                                                        *)

(* event_handler(), on_domain_add() and on_domain_delete().                *)
Invalidate == info' = NoInfo /\ missed' = FALSE

(* get_system_info().                                                      *)
GetSystemInfo ==
    /\ info = NoInfo
    /\ info' = [q \in listed |-> [halted |-> ~is_running(q), guivm |-> guivm(q)]]
    /\ UNCHANGED <<domains, settings, suspension, notes, missed, moves>>

(* Setting or resetting a qube's guivm fires an event of the qube.         *)
SetGuivm(q, g) ==
    /\ Move /\ q \in listed /\ own' = [own EXCEPT ![q] = g] /\ Invalidate
    /\ UNCHANGED <<domains, default, suspension, notes>>

(* Setting default_guivm fires it for every qube that has the default (the *)
(* extension "gui"); resetting it does not.                                *)
SetDefault(g, reset) ==
    /\ Move /\ default' = g
    /\ IF ~reset /\ (\E q \in listed : own[q] = "default")
       THEN Invalidate
       ELSE missed' = (missed \/ reset) /\ UNCHANGED info
    /\ UNCHANGED <<domains, own, suspension, notes>>

----------------------------------------------------------------------------
(* Users, meanwhile.                                                       *)

Touch(q) == Move /\ q \in listed /\ touched' = touched \cup {q}

Power(q, from, to) == power[q] = from /\ power' = [power EXCEPT ![q] = to]

Start(q) ==
    /\ Touch(q) /\ event[q] = "none" /\ Power(q, "Halted", "Transient")
    /\ event' = [event EXCEPT ![q] = "domain-spawn"]
    /\ UNCHANGED <<listed, settings, info, suspension, asleep, was, twice, missed>>

(* Shutdown, kill or a crash.                                              *)
QubeEnds(q) ==
    /\ Touch(q) /\ is_running(q) /\ power' = [power EXCEPT ![q] = "Halted"]
    /\ event' = [event EXCEPT ![q] = "domain-shutdown"]
    /\ UNCHANGED <<listed, settings, info, suspension, asleep, was, twice, missed>>

(* pause() and unpause(); the events "domain-paused" and "domain-unpaused" *)
(* are not among those that invalidate the cache.                         *)
PauseOrNot(q) ==
    /\ Touch(q) /\ (Power(q, "Running", "Paused") \/ Power(q, "Paused", "Running"))
    /\ UNCHANGED <<listed, event, settings, info, suspension, asleep, was, twice, missed>>

(* "domain-shutdown" that does not invalidate the cache.  "A_B" is A with  *)
(* a mistake.                                                              *)
Told_Shutdown(q) ==
    /\ event[q] # "none"
    /\ event' = [event EXCEPT ![q] = IF @ = "domain-spawn" THEN "domain-start" ELSE "none"]
    /\ IF event[q] = "domain-start" /\ power[q] = "Transient"
       THEN power' = [power EXCEPT ![q] = "Running"] ELSE UNCHANGED power
    /\ IF event[q] = "domain-shutdown" THEN UNCHANGED <<info, missed>> ELSE Invalidate
    /\ UNCHANGED <<listed, settings, suspension, notes, moves>>

(* "domain-spawn" once the domain exists, "domain-start" at the end of     *)
(* start(), and "domain-shutdown" each invalidate the cache.               *)
Told(q) ==
    /\ event[q] # "none"
    /\ event' = [event EXCEPT ![q] = IF @ = "domain-spawn" THEN "domain-start" ELSE "none"]
    /\ IF event[q] = "domain-start" /\ power[q] = "Transient"
       THEN power' = [power EXCEPT ![q] = "Running"] ELSE UNCHANGED power
    /\ Invalidate
    /\ UNCHANGED <<listed, settings, suspension, notes, moves>>

RemoveQube(q) ==
    /\ Touch(q) /\ power[q] = "Halted" /\ event[q] = "none"
    /\ listed' = listed \ {q} /\ Invalidate
    /\ UNCHANGED <<power, event, settings, suspension, asleep, was, twice>>

CreateQube(q) ==
    /\ Move /\ q \notin listed /\ listed' = listed \cup {q}
    /\ own' = [own EXCEPT ![q] = "default"] /\ Invalidate
    /\ UNCHANGED <<power, event, default, suspension, notes>>

----------------------------------------------------------------------------
(* The host suspends.                                                      *)

(* suspend_pre(): who is paused is written down first.                     *)
SuspendPre ==
    /\ Move /\ pc = "idle" /\ pc' = "notify"
    /\ record' = {q \in listed : power[q] \in Asleep}
    /\ IF asleep THEN UNCHANGED <<was, touched>> ELSE was' = power /\ touched' = {}
    /\ twice' = (asleep /\ (twice \/ \E q \in listed : power[q] \in Asleep \ {was[q]}))
    /\ asleep' = TRUE
    /\ UNCHANGED <<domains, settings, info, todo, missed>>

(* After the service SuspendPreAll has run everywhere or timed out, every  *)
(* other qube that runs, or is paused by now, is suspended.                *)
Suspends ==
    /\ pc = "notify" /\ pc' = "suspend"
    /\ todo' = {q \in listed \ record : is_running(q)}
    /\ UNCHANGED <<domains, settings, info, record, notes, missed, moves>>

(* suspend(): to memory, or paused when the qube cannot do that; it fails  *)
(* when the qube has stopped, or for a reason of its own.                  *)
suspend(q) ==
    /\ pc = "suspend" /\ q \in todo /\ todo' = todo \ {q}
    /\ \/ is_running(q) /\ \E s \in Asleep : power' = [power EXCEPT ![q] = s]
       \/ UNCHANGED power
    /\ UNCHANGED <<listed, event, settings, info, record, pc, notes, missed, moves>>

(* The end of suspend_pre(), with an error when one task failed.           *)
Suspended ==
    /\ pc = "suspend" /\ todo = {} /\ pc' = "idle"
    /\ UNCHANGED <<domains, settings, info, record, todo, notes, missed, moves>>

(* suspend_post() that wakes everyone.                                     *)
SuspendPost_Everyone ==
    /\ pc = "idle" /\ asleep /\ pc' = "resume"
    /\ todo' = {q \in listed : power[q] \in Asleep}
    /\ record' = {}
    /\ UNCHANGED <<domains, settings, info, notes, missed, moves>>

(* suspend_post(): those that were not written down are resumed.           *)
SuspendPost ==
    /\ pc = "idle" /\ asleep /\ pc' = "resume"
    /\ todo' = {q \in listed \ record : power[q] \in Asleep}
    /\ record' = {}
    /\ UNCHANGED <<domains, settings, info, notes, missed, moves>>

(* resume(), which may raise; suspend_post() does not look.                *)
resume(q) ==
    /\ pc = "resume" /\ q \in todo /\ todo' = todo \ {q}
    /\ \/ /\ power[q] \in Asleep /\ power' = [power EXCEPT ![q] = "Running"]
          /\ UNCHANGED touched
       \/ /\ UNCHANGED power /\ touched' = touched \cup {q}
    /\ UNCHANGED <<listed, event, settings, info, record, pc, asleep, was, twice, missed, moves>>

Resumed ==
    /\ pc = "resume" /\ todo = {} /\ pc' = "awake"
    /\ UNCHANGED <<domains, settings, info, record, todo, notes, missed, moves>>

(* The services SuspendPostAll, and preloading starts again.               *)
PostEnds ==
    /\ pc = "awake" /\ pc' = "idle" /\ asleep' = FALSE /\ twice' = FALSE
    /\ UNCHANGED <<domains, settings, info, record, todo, was, touched, missed, moves>>

(* qubesd restarts; the call that is lost is not repeated.                 *)
InternalRestart ==
    /\ Move /\ pc' = "idle" /\ todo' = {} /\ Invalidate
    /\ asleep' = (asleep /\ pc \notin {"resume", "awake"})
    /\ event' = [q \in Qubes |-> "none"]
    /\ UNCHANGED <<listed, power, settings, record, was, touched, twice>>

InternalNext ==
    \/ GetSystemInfo
    \/ \E q \in Qubes : \E g \in Guis \cup {"default"} : SetGuivm(q, g)
    \/ \E g \in Guis : \E reset \in BOOLEAN : SetDefault(g, reset)
    \/ \E q \in Qubes :
          Start(q) \/ QubeEnds(q) \/ PauseOrNot(q) \/ Told(q) \/ RemoveQube(q) \/ CreateQube(q)
          \/ suspend(q) \/ resume(q)
    \/ SuspendPre \/ Suspends \/ Suspended \/ SuspendPost \/ Resumed \/ PostEnds
    \/ InternalRestart

InternalSpec == InternalInit /\ [][InternalNext]_internalVars

----------------------------------------------------------------------------
(* The inductive invariant.                                                *)

States == {"Halted", "Transient", "Running"} \cup Asleep

InternalTypeOK ==
    /\ listed \subseteq Qubes /\ power \in [Qubes -> States]
    /\ event \in [Qubes -> {"none", "domain-spawn", "domain-start", "domain-shutdown"}]
    /\ own \in [Qubes -> Guis \cup {"default"}] /\ default \in Guis
    /\ pc \in {"idle", "notify", "suspend", "resume", "awake"}
    /\ record \subseteq Qubes /\ todo \subseteq Qubes
    /\ was \in [Qubes -> States] /\ touched \subseteq Qubes

Kept(q) ==
    IF was[q] = "Transient" THEN power[q] \in {"Transient", "Running"} ELSE power[q] = was[q]

(* Until the host has resumed, what is written down are the qubes that     *)
(* were paused, and the others are as they were or put to sleep; then what *)
(* is left to do are those.                                                *)
SleepInv ==
    /\ \A q \in Qubes \ listed : power[q] = "Halted"
    /\ pc # "idle" => asleep
    /\ pc = "suspend" => todo \cap record = {}
    /\ asleep /\ ~twice => \A q \in Qubes \ touched :
        /\ pc \in {"idle", "notify", "suspend"} =>
            /\ q \in record <=> was[q] \in Asleep
            /\ Kept(q) \/ (q \notin record /\ was[q] # "Halted" /\ power[q] \in Asleep)
        /\ pc = "resume" =>
            IF q \in todo THEN was[q] \in {"Transient", "Running"} /\ power[q] \in Asleep
            ELSE Kept(q)
        /\ pc = "awake" => Kept(q)

----------------------------------------------------------------------------
(* Properties.                                                             *)

(* When the host has resumed, every qube is what it was before, unless     *)
(* somebody changed it meanwhile or it failed: those that were paused are  *)
(* paused, also when qubesd restarted in between; not when the host was    *)
(* suspended again before SuspendPost.                                     *)
RestoredAfterSleep ==
    pc = "awake" /\ ~twice => \A q \in listed \ touched : Kept(q)

(* The cached system info knows every qube, who of them runs once its      *)
(* events are handled, and their settings.                                 *)
SystemInfoCurrent ==
    info # NoInfo => /\ DOMAIN info = listed
                    /\ \A q \in listed :
                          /\ event[q] = "none" => info[q].halted = ~is_running(q)
                          /\ ~missed => info[q].guivm = guivm(q)

InternalInv == InternalTypeOK /\ SleepInv /\ SystemInfoCurrent
=============================================================================
