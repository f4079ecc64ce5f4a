---------------------------- MODULE QubeTemplates ----------------------------
(* Templates, qubes based on them, and disposables based on those: whose     *)
(* volumes the root and private volume of a qube are snapshots of            *)
(* (vm/appvm.py, vm/dispvm.py, vm/mix/dvmtemplate.py, storage/__init__.py).  *)
(* A volume keeps the object of its source, so a change of template has to   *)
(* reach it, and the checks that nobody runs do not see a qube that starts.  *)
(* Each change is saved before the call answers, without a wait.             *)
EXTENDS Integers, FiniteSets

CONSTANTS Templates, AppVMs, DispVMs,
          None, MaxChanges      \* changes of properties

(* The three kinds of qubes are different qubes, and none of them is None. *)
ASSUME ChainAssumption == AppVMs \cap DispVMs = {} /\ None \notin AppVMs \cup Templates

VARIABLES
    template,           \* [AppVMs and DispVMs -> their template, None: no such qube]
    serves,             \* the AppVMs with template_for_dispvms
    default_dispvm,     \* of the system: an AppVM or None
    kind,               \* [DispVMs -> how it came to be, where it is as a preload]
    source,             \* [qubes -> the owners of their volumes' sources]
    phase,              \* [qubes -> how far start() is]
    device,             \* [qubes -> the owners of what it was started from]
    doomed,             \* disposables whose cleanup() is scheduled
    behind,             \* history: a template changed behind a check (README)
    changes

chain == <<template, serves, default_dispvm, source>>
chainVars == <<chain, kind, phase, device, doomed, behind, changes>>

Based == AppVMs \cup DispVMs
Exists(q) == template[q] # None
dispvms(a) == {d \in DispVMs : template[d] = a}
is_halted(q) == phase[q] # "running"
is_running(q) == phase[q] = "running"
is_preload(d) == kind[d] \in {"listed", "requested"}
Temporary(d) == kind[d] # "named"

Nothing == [root |-> None, private |-> None]

(* _update_volume_config_source(): from the template upwards to the first  *)
(* volume that is nobody's snapshot.  The private volume of an AppVM is    *)
(* its own.                                                                *)
SourceOf(q, tmpl) ==
    IF q \in AppVMs THEN [root |-> tmpl[q], private |-> None]
    ELSE IF tmpl[q] = None THEN Nothing
    ELSE [root |-> tmpl[tmpl[q]], private |-> tmpl[q]]

ChainInit ==
    /\ \E t \in Templates :
           template = [q \in Based |-> IF q \in AppVMs THEN t ELSE None]
    /\ serves \in SUBSET AppVMs
    /\ default_dispvm = None
    /\ kind = [d \in DispVMs |-> "named"]
    /\ source = [q \in Based |-> SourceOf(q, template)]
    /\ phase = [q \in Based |-> "halted"]
    /\ device = [q \in Based |-> Nothing]
    /\ doomed = {} /\ behind = {} /\ changes = 0

----------------------------------------------------------------------------
(* The calls that change the chain.                                        *)

Change == changes < MaxChanges /\ changes' = changes + 1

(* template_changed_update_storage(): the volumes of the qubes of S are    *)
(* made anew.                                                              *)
UpdateStorage(S) ==
    source' = [q \in Based |-> IF q \in S THEN SourceOf(q, template') ELSE source[q]]

(* remove_preload_excess(0): off the list, to be cleaned up.               *)
RemoveExcess(a) ==
    LET listed == {d \in dispvms(a) : kind[d] = "listed"} IN
    /\ kind' = [d \in DispVMs |-> IF d \in listed THEN "off" ELSE kind[d]]
    /\ doomed' = doomed \cup listed

(* The start of these qubes has read their volumes already, or a user is   *)
(* about to be given them.                                                 *)
Behind(S) == {q \in S : phase[q] = "storage" \/ (q \in DispVMs /\ kind[q] = "requested")}

(* on_property_set_template() of an AppVM, also called for each disposable *)
(* based on it.                                                            *)
Affected(a) == {a} \cup dispvms(a)

(* The pre-set handlers of both classes: a halted qube, and no running     *)
(* disposable that is not a preloaded one.  "A_B" is A with a mistake.     *)
MaySetTemplate_Itself(a, t) == is_halted(a)
MaySetTemplate(a, t) ==
    /\ is_halted(a)
    /\ a \in serves /\ t # template[a] => \A d \in dispvms(a) : is_running(d) => is_preload(d)

SetTemplateOfAppVM(a, t) ==
    /\ Change /\ MaySetTemplate(a, t)
    /\ template' = [template EXCEPT ![a] = t]
    /\ UpdateStorage(Affected(a))
    /\ IF a \in serves /\ t # template[a] THEN RemoveExcess(a) ELSE UNCHANGED <<kind, doomed>>
    /\ behind' = IF t = template[a] THEN behind ELSE behind \cup Behind(Affected(a))
    /\ UNCHANGED <<serves, default_dispvm, phase, device>>

(* Of a disposable that is not preloaded.                                  *)
SetTemplateOfDispVM(d, a) ==
    /\ Change /\ Exists(d) /\ ~is_preload(d) /\ is_halted(d) /\ a \in serves
    /\ template' = [template EXCEPT ![d] = a]
    /\ UpdateStorage({d})
    /\ behind' = IF a = template[d] THEN behind ELSE behind \cup Behind({d})
    /\ UNCHANGED <<serves, default_dispvm, kind, phase, device, doomed>>

(* template_for_dispvms may be withdrawn when no property names the qube;  *)
(* what its preloaded disposables say does not count.  A requested one is  *)
(* delivered all the same, and no check looks at it then.                  *)
MayWithdraw(a) == default_dispvm # a /\ \A d \in dispvms(a) : is_preload(d)

Withdraw(a) ==
    /\ Change /\ a \in serves /\ MayWithdraw(a)
    /\ serves' = serves \ {a}
    /\ RemoveExcess(a)
    /\ behind' = behind \cup {d \in dispvms(a) : kind[d] = "requested"}
    /\ UNCHANGED <<template, default_dispvm, source, phase, device>>

Allow(a) ==
    /\ Change /\ a \notin serves
    /\ serves' = serves \cup {a}
    /\ UNCHANGED <<template, default_dispvm, source, kind, phase, device, doomed, behind>>

SetDefaultDispvm(a) ==
    /\ Change /\ a \in serves \cup {None}
    /\ default_dispvm' = a
    /\ UNCHANGED <<template, serves, source, kind, phase, device, doomed, behind>>

----------------------------------------------------------------------------
(* Disposables come, are preloaded, requested and delivered, and go.       *)

(* DispVM(): by admin.vm.Create, with the default template if none is      *)
(* given, or as a preloaded disposable.                                    *)
CreateDispVM(d, arg, k) ==
    LET a == IF arg = "default" THEN default_dispvm ELSE arg IN
    /\ ~Exists(d) /\ a \in serves
    /\ template' = [template EXCEPT ![d] = a]
    /\ kind' = [kind EXCEPT ![d] = k]
    /\ UpdateStorage({d})
    /\ UNCHANGED <<serves, default_dispvm, phase, device, doomed, behind, changes>>

(* request_preload() takes it off the list; use_preload() delivers it.     *)
RequestPreload(d) ==
    /\ Exists(d) /\ kind[d] = "listed" /\ is_running(d)
    /\ kind' = [kind EXCEPT ![d] = "requested"]
    /\ UNCHANGED <<chain, phase, device, doomed, behind, changes>>

Deliver(d) ==
    /\ Exists(d) /\ kind[d] = "requested" /\ is_running(d)
    /\ kind' = [kind EXCEPT ![d] = "used"]
    /\ UNCHANGED <<chain, phase, device, doomed, behind, changes>>

(* The qube leaves app.domains.                                            *)
Gone(S) ==
    /\ template' = [q \in Based |-> IF q \in S THEN None ELSE template[q]]
    /\ source' = [q \in Based |-> IF q \in S THEN Nothing ELSE source[q]]
    /\ device' = [q \in Based |-> IF q \in S THEN Nothing ELSE device[q]]
    /\ phase' = [q \in Based |-> IF q \in S THEN "halted" ELSE phase[q]]
    /\ kind' = [d \in DispVMs |-> IF d \in S THEN "named" ELSE kind[d]]
    /\ doomed' = doomed \ S /\ behind' = behind \ S
    /\ UNCHANGED <<serves, default_dispvm>>

RemoveDispVM(d) ==
    /\ Exists(d) /\ ~Temporary(d) /\ phase[d] = "halted"
    /\ Gone({d}) /\ UNCHANGED changes

(* A scheduled cleanup() kills; it leaves alone what does not run yet.     *)
CleanUp(d) ==
    /\ d \in doomed
    /\ IF is_running(d) THEN Gone({d})
       ELSE doomed' = doomed \ {d} /\ UNCHANGED <<chain, kind, phase, device, behind>>
    /\ UNCHANGED changes

----------------------------------------------------------------------------
(* Starting and stopping.                                                  *)

Enter(q, p) == phase' = [phase EXCEPT ![q] = p]

(* DispVM.start() checks that the template still serves disposables, and   *)
(* cleans up after any error.                                              *)
StartBegins(q) ==
    /\ Exists(q) /\ phase[q] = "halted"
    /\ q \in DispVMs => template[q] \in serves
    /\ Enter(q, "begun")
    /\ UNCHANGED <<chain, kind, device, doomed, behind, changes>>

StartRefused(d) ==
    /\ Exists(d) /\ phase[d] = "halted" /\ template[d] \notin serves
    /\ Gone({d}) /\ UNCHANGED changes

(* With the memory it needs, Storage.start() of the volumes there are now. *)
StorageStarts(q) ==
    /\ phase[q] = "begun"
    /\ Enter(q, "storage")
    /\ device' = [device EXCEPT ![q] = source[q]]
    /\ UNCHANGED <<chain, kind, doomed, behind, changes>>

DomainCreated(q) ==
    /\ phase[q] = "storage"
    /\ Enter(q, "running")
    /\ UNCHANGED <<chain, kind, device, doomed, behind, changes>>

(* A failed start, or the end of the domain: a disposable that failed to   *)
(* start is cleaned up, a temporary one whenever it ends.                  *)
Ends(q) ==
    /\ phase[q] # "halted"
    /\ IF q \in DispVMs /\ (Temporary(q) \/ ~is_running(q)) THEN Gone({q})
       ELSE /\ Enter(q, "halted")
            /\ device' = [device EXCEPT ![q] = Nothing] /\ behind' = behind \ {q}
            /\ UNCHANGED <<chain, kind, doomed>>
    /\ UNCHANGED changes

(* qubesd starts again: domains go on, starts under way do not, and the    *)
(* preloaded disposables that were requested or not running are removed.   *)
(* Nothing knows any more of the cleanups that were scheduled.             *)
ChainRestart ==
    LET cut == {d \in DispVMs : is_preload(d) /\ (~is_running(d) \/ kind[d] = "requested")}
        starting == {q \in Based : phase[q] \in {"begun", "storage"}}
    IN
    /\ starting # {} \/ doomed # {} \/ cut # {}
    /\ doomed' = cut
    /\ kind' = [d \in DispVMs |-> IF d \in cut THEN "off" ELSE kind[d]]
    /\ phase' = [q \in Based |-> IF q \in starting THEN "halted" ELSE phase[q]]
    /\ device' = [q \in Based |-> IF q \in starting THEN Nothing ELSE device[q]]
    /\ behind' = behind \ starting
    /\ source' = [q \in Based |-> SourceOf(q, template)]
    /\ UNCHANGED <<template, serves, default_dispvm, changes>>

ChainNext ==
    \/ \E a \in AppVMs :
        \/ \E t \in Templates : SetTemplateOfAppVM(a, t)
        \/ Withdraw(a) \/ Allow(a)
    \/ \E a \in AppVMs \cup {None} : SetDefaultDispvm(a)
    \/ \E d \in DispVMs :
        \/ \E a \in AppVMs : SetTemplateOfDispVM(d, a)
        \/ \E a \in AppVMs \cup {"default"}, k \in {"named", "listed"} : CreateDispVM(d, a, k)
        \/ RequestPreload(d) \/ Deliver(d) \/ RemoveDispVM(d) \/ CleanUp(d)
        \/ StartRefused(d)
    \/ \E q \in Based : StartBegins(q) \/ StorageStarts(q) \/ DomainCreated(q) \/ Ends(q)
    \/ ChainRestart

ChainSpec == ChainInit /\ [][ChainNext]_chainVars

----------------------------------------------------------------------------
(* Properties.                                                             *)

(* Whatever is changed and started meanwhile, every qube a user can have   *)
(* runs from the template it names, and a disposable from the template of  *)
(* its disposable template, with that qube's private volume.  So will its  *)
(* next start; and that of a disposable somebody keeps is not refused, for *)
(* a refused start removes it.  Excepted are qubes whose template changed  *)
(* while their volumes were started or they were delivered (behind).       *)
RunsItsTemplate ==
    \A q \in Based :
        /\ Exists(q) => source[q] = SourceOf(q, template)
        /\ Exists(q) /\ q \in DispVMs /\ kind[q] = "named" => template[q] \in serves
        /\ q \notin behind /\ is_running(q) /\ (q \in DispVMs => kind[q] \in {"named", "used"})
             => device[q] = SourceOf(q, template)
=============================================================================
