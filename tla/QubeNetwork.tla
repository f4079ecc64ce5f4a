--------------------------- MODULE QubeNetwork ---------------------------
(***************************************************************************)
(* The network of the qubes (vm/mix/net.py): the netvm property of every   *)
(* qube with its default, the interface libvirt has really attached, the   *)
(* note left when a change must wait for an unpause, and what each netvm   *)
(* holds in its QubesDB (the addresses connected to it, their firewall     *)
(* rules).  Property changes, starts, crashes, pauses and the handlers of  *)
(* their events interleave as the await points of the code let them.       *)
(***************************************************************************)
EXTENDS Naturals

CONSTANTS Qubes,        \* the places (qids) of the collection
          Nets,         \* those whose provides_network an admin toggles
          Pausable,     \* those an admin pauses
          NoQube,       \* None
          Default,      \* a netvm property left at its default
          Absent,       \* no deferred-netvm-original feature
          Unnamed,      \* the feature holding "": there was no netvm before
          Fallible,       \* those libvirt may refuse to attach or detach
          MaxChanges    \* bound: configuration changes of a behaviour

ASSUME NetworkAssumption ==
    /\ Nets \subseteq Qubes /\ Pausable \subseteq Qubes /\ Fallible \subseteq Qubes
    /\ NoQube \notin Qubes /\ Default \notin Qubes /\ NoQube # Default
    /\ Absent \notin Qubes /\ Unnamed \notin Qubes /\ Absent # Unnamed
    /\ MaxChanges \in Nat

VARIABLES
    listed,             \* the qubes of app.domains
    netvm,              \* the property as stored: a qube, None or default
    provides_network,
    default_netvm,      \* the property of the Qubes object
    power,              \* "Off", "Spawning", "Created", "Running", "Paused"
    eth,                \* the backend of the attached interface
    deferred,           \* the feature deferred-netvm-original
    connected_ips,      \* QubesDB of a netvm: /connected-ips
    rules,              \* QubesDB of a netvm: /qubes-firewall/<ip>/
    stopped,            \* stopped, domain-shutdown not handled yet
    unpaused,           \* domain-unpaused not handled yet
    starting,           \* domain-start not handled yet
    serving,            \* the qubes a domain-start handler has yet to visit
    slipped,            \* history: qubes whose interface a step left behind,
                        \* a detach or an attach that libvirt refused too
    changes             \* configuration changes so far

config == <<listed, netvm, provides_network, default_netvm, changes>>
tasks == <<stopped, unpaused, starting, serving>>
vars == <<config, power, eth, deferred, connected_ips, rules, tasks, slipped>>

Netvm(q) == IF netvm[q] = Default THEN default_netvm ELSE netvm[q]
connected_vms(n) == {q \in listed : Netvm(q) = n}

\* The smallest set that has the clients of q and the clients of its members.
get_vms_connected_to(q) ==
    {c \in listed : \A S \in SUBSET listed :
        connected_vms(q) \cup UNION {connected_vms(d) : d \in S} \subseteq S
            => c \in S}

is_running(q) == power[q] \in {"Created", "Running", "Paused"}
is_paused(q) == power[q] \in {"Created", "Paused"}
HasQdb(q) == power[q] \in {"Running", "Paused"}
Breaks(q) == q # NoQube /\ power[q] = "Created"   \* running, no QubesDB yet
Up(q) == q # NoQube /\ is_running(q)

--------------------------------------------------------------------------
(* property-pre-set:netvm, for qube q and new value v *)
NotStarted(q, v) == is_running(q) /\ v # NoQube /\ ~is_running(v)
DetachRaises(q) == ~is_running(q) /\ deferred[q] # Absent
PreSetPasses(q, v) == ~NotStarted(q, v) /\ ~DetachRaises(q)

Detaches(q) == /\ power[q] = "Running"
               /\ deferred[q] # Absent \/ Up(Netvm(q))

NameOf(old) == IF old = NoQube THEN Unnamed ELSE old

\* The interfaces and notes after the pre-set handlers of the qubes of D.  (The
\* operators named A_B are A with a mistake: none is used here.)
EthPreSet(D) == [q \in Qubes |-> IF q \in D /\ Detaches(q) THEN NoQube ELSE eth[q]]
DeferredPreSet_NotWhileStarting(D) ==
    [q \in Qubes |-> IF q \in D /\ power[q] = "Paused" /\ deferred[q] = Absent
                     THEN NameOf(Netvm(q)) ELSE deferred[q]]
DeferredPreSet(D) ==
    [q \in Qubes |-> IF q \in D /\ is_paused(q) /\ deferred[q] = Absent
                     THEN NameOf(Netvm(q)) ELSE deferred[q]]

\* The interface of a crashed netvm, whose shutdown nobody has handled yet.
LeavesInterface(q) == power[q] = "Running" /\ ~Detaches(q) /\ eth[q] # NoQube

(* property-set:netvm.  Reloading the addresses of a netvm whose QubesDB   *)
(* is not up raises; so does attaching a second interface (its MAC is the  *)
(* one of the first).  The new value is stored by then.                    *)
Reached(old, v) == v # NoQube /\ ~Breaks(old) /\ ~Breaks(v)
SetRaises(q, old, v) == \/ Breaks(old) \/ Breaks(v)
                        \/ v # NoQube /\ LeavesInterface(q)
                        \/ v # NoQube /\ power[q] = "Created"
Attaches(q, old, v) ==
    Reached(old, v) /\ power[q] = "Running" /\ ~LeavesInterface(q)

\* The interfaces when the handlers of D, then the attachments of A, have run.
Interfaces(D, A, old, v) ==
    [q \in Qubes |-> IF q \in A /\ Attaches(q, old, v) THEN v ELSE EthPreSet(D)[q]]

\* net-domain-connect of the qubes of A: reload_firewall_for_vm() in v.
RulesOf(A, old, v) ==
    [n \in Qubes |-> IF n = v
                     THEN rules[n] \cup {q \in A : is_running(q) /\ ~SetRaises(q, old, v)}
                     ELSE rules[n]]

reload_connected_ips(N, clients) ==
    [n \in Qubes |-> IF n \in N /\ HasQdb(n) THEN clients[n] ELSE connected_ips[n]]

CanChange == changes < MaxChanges
Changed == changes' = changes + 1
Stays == UNCHANGED <<power, tasks>>
--------------------------------------------------------------------------
(* The collection and its properties *)

AddQube(q) ==               \* admin.vm.Create: add_new_vm()
    /\ CanChange /\ q \notin listed
    /\ listed' = listed \cup {q}
    /\ netvm' = [netvm EXCEPT ![q] = Default]
    /\ provides_network' = [provides_network EXCEPT ![q] = FALSE]
    /\ deferred' = [deferred EXCEPT ![q] = Absent]
    /\ Changed /\ Stays
    /\ UNCHANGED <<default_netvm, eth, connected_ips, rules, slipped>>

\* domain-pre-delete: get_qube_prop_deps() finds the references that are not
\* defaults.
IsUsed(q) == default_netvm = q \/ \E o \in listed \ {q} : netvm[o] = q

RemoveQube(q) ==            \* admin.vm.Remove: del app.domains[q]
    /\ CanChange /\ q \in listed /\ power[q] = "Off" /\ ~IsUsed(q)
    /\ listed' = listed \ {q}
    /\ stopped' = stopped \ {q}
    /\ Changed
    /\ UNCHANGED <<netvm, provides_network, default_netvm, power, eth, deferred,
                   connected_ips, rules, unpaused, starting, serving, slipped>>

SetProvides(q, b) ==        \* _setter_provides_network()
    /\ CanChange /\ q \in listed \cap Nets /\ b # provides_network[q]
    /\ b \/ connected_vms(q) = {}
    /\ provides_network' = [provides_network EXCEPT ![q] = b]
    /\ slipped' = slipped \cup {c \in connected_vms(q) : power[c] # "Off"}
    /\ Changed /\ Stays
    /\ UNCHANGED <<listed, netvm, default_netvm, eth, deferred, connected_ips, rules>>

ResetProvides(q) ==         \* admin.vm.property.Reset: back to False, unasked
    /\ CanChange /\ q \in listed \cap Nets /\ provides_network[q]
    /\ provides_network' = [provides_network EXCEPT ![q] = FALSE]
    /\ Changed /\ Stays
    /\ UNCHANGED <<listed, netvm, default_netvm, eth, deferred, connected_ips, rules,
                   slipped>>

NetvmAllowed(q, v) ==       \* _setter_netvm()
    v # NoQube => /\ v \in listed /\ provides_network[v]
                  /\ v # q /\ v \notin get_vms_connected_to(q)

\* Setting, or resetting, the netvm of one qube: `stored` is the property as
\* it is stored, v the netvm it stands for.  A is {q}, or empty when libvirt
\* refuses to attach the new interface: the value is stored by then.
StoreNetvm(q, stored, v, A) ==
    LET old == Netvm(q) IN
    /\ A = {q} \/ (A = {} /\ q \in Fallible /\ Attaches(q, old, v))
    /\ CanChange /\ q \in listed /\ NetvmAllowed(q, v) /\ PreSetPasses(q, v)
    /\ netvm' = [netvm EXCEPT ![q] = stored]
    /\ eth' = Interfaces({q}, A, old, v)
    /\ deferred' = DeferredPreSet({q})
    /\ rules' = RulesOf(A, old, v)
    /\ connected_ips' = reload_connected_ips(
                            IF Breaks(old) THEN {} ELSE {old, v},
                            [n \in Qubes |-> (connected_vms(n) \ {q})
                                             \cup (IF n = v THEN {q} ELSE {})])
    /\ slipped' = IF LeavesInterface(q) \/ (power[q] # "Off" /\ Breaks(old)) \/ A = {}
                  THEN slipped \cup {q} ELSE slipped
    /\ Changed /\ Stays /\ UNCHANGED <<listed, provides_network, default_netvm>>

SetNetvm(q, v) == \E A \in SUBSET {q} : StoreNetvm(q, v, v, A)

ResetNetvm(q) ==            \* the handlers do nothing when the netvm stays
    \/ /\ default_netvm # Netvm(q)
       /\ \E A \in SUBSET {q} : StoreNetvm(q, Default, default_netvm, A)
    \/ /\ CanChange /\ q \in listed /\ default_netvm = Netvm(q)
       /\ NetvmAllowed(q, default_netvm) /\ netvm[q] # Default
       /\ netvm' = [netvm EXCEPT ![q] = Default]
       /\ Changed /\ Stays
       /\ UNCHANGED <<listed, provides_network, default_netvm, eth, deferred,
                      connected_ips, rules, slipped>>

ByDefault == {q \in listed : netvm[q] = Default}

DefaultAllowed(v) ==        \* _setter_default_netvm()
    v # NoQube => /\ v \in listed
                  /\ \A q \in ByDefault : v # q /\ v \notin get_vms_connected_to(q)

\* Setting default_netvm fires property-pre-set:netvm on every qube with a
\* default netvm, stores, then fires property-reset:netvm on them; the one
\* that raises, or that libvirt refuses to attach, ends the loop, and A is the
\* set of those before it.
SetDefault(v, A) ==
    LET old == default_netvm
        D == ByDefault
    IN
    /\ CanChange /\ DefaultAllowed(v) /\ \A q \in D : PreSetPasses(q, v)
    /\ v # old => /\ \A q \in A : ~SetRaises(q, old, v)
                  /\ \/ A = D
                     \/ \E q \in D \ A : \/ SetRaises(q, old, v)
                                         \/ q \in Fallible /\ Attaches(q, old, v)
    /\ v = old => A = D
    /\ default_netvm' = v
    /\ deferred' = DeferredPreSet(D)
    /\ IF v = old
       THEN /\ eth' = EthPreSet(D)
            /\ UNCHANGED <<connected_ips, rules>>
       ELSE /\ eth' = Interfaces(D, A, old, v)
            /\ rules' = RulesOf(A, old, v)
            /\ connected_ips' = reload_connected_ips(
                   IF D = {} \/ Breaks(old) THEN {} ELSE {old, v},
                   [n \in Qubes |-> (connected_vms(n) \ D)
                                    \cup (IF n = v THEN D ELSE {})])
    /\ slipped' = slipped \cup {q \in D :
           \/ power[q] = "Running" /\ (v = old \/ q \notin A \/ LeavesInterface(q))
           \/ power[q] # "Off" /\ Breaks(old)}
    /\ Changed /\ Stays /\ UNCHANGED <<listed, netvm, provides_network>>

\* A pre-set handler raises, a check of its own or libvirt that does not
\* detach, after those of A have run: nothing is stored.
SetDefaultFails(v, A) ==
    /\ CanChange /\ DefaultAllowed(v)
    /\ \A q \in A : PreSetPasses(q, v)
    /\ \E q \in ByDefault \ A : ~PreSetPasses(q, v) \/ Detaches(q)
    /\ eth' = EthPreSet(A)
    /\ deferred' = DeferredPreSet(A)
    /\ slipped' = slipped \cup {q \in A : Detaches(q)}
    /\ Changed /\ Stays
    /\ UNCHANGED <<listed, netvm, provides_network, default_netvm, connected_ips, rules>>

\* admin.property.Reset: no handler is registered for the reset of
\* default_netvm.
ResetDefault ==
    /\ CanChange /\ default_netvm # NoQube
    /\ default_netvm' = NoQube
    /\ slipped' = slipped \cup {q \in ByDefault : power[q] # "Off"}
    /\ Changed /\ Stays
    /\ UNCHANGED <<listed, netvm, provides_network, eth, deferred, connected_ips, rules>>
--------------------------------------------------------------------------
(* Starting and stopping *)

PreSpawn(q) ==              \* domain-pre-spawn; an await follows
    /\ q \in listed /\ power[q] = "Off" /\ q \notin stopped
    /\ Netvm(q) # NoQube => HasQdb(Netvm(q))
    /\ power' = [power EXCEPT ![q] = "Spawning"]
    /\ connected_ips' = reload_connected_ips(
           {Netvm(q)}, [n \in Qubes |-> connected_vms(n)])
    /\ rules' = [n \in Qubes |-> IF n = Netvm(q) THEN rules[n] \cup {q} ELSE rules[n]]
    /\ UNCHANGED <<config, eth, deferred, tasks, slipped>>

Create(q) ==                \* libvirt creates the domain, paused
    /\ power[q] = "Spawning"
    /\ Netvm(q) # NoQube => is_running(Netvm(q))
    /\ power' = [power EXCEPT ![q] = "Created"]
    /\ eth' = [eth EXCEPT ![q] = Netvm(q)]
    /\ UNCHANGED <<config, deferred, connected_ips, rules, tasks, slipped>>

SpawnFails(q) ==
    /\ power[q] = "Spawning"
    /\ power' = [power EXCEPT ![q] = "Off"]
    /\ slipped' = slipped \ {q}
    /\ UNCHANGED <<config, eth, deferred, connected_ips, rules, tasks>>

Activate_NoReload(q) ==
    /\ power[q] = "Created"
    /\ power' = [power EXCEPT ![q] = "Running"]
    /\ starting' = starting \cup {q}
    /\ UNCHANGED <<config, eth, deferred, connected_ips, rules, stopped, unpaused,
                   serving, slipped>>
Activate(q) ==              \* create_qdb_entries(), domain-qdb-create, resume
    /\ power[q] = "Created"
    /\ power' = [power EXCEPT ![q] = "Running"]
    /\ IF provides_network[q]
       THEN /\ connected_ips' = [connected_ips EXCEPT ![q] = connected_vms(q)]
            /\ rules' = [rules EXCEPT ![q] = {c \in connected_vms(q) : is_running(c)}]
       ELSE UNCHANGED <<connected_ips, rules>>
    /\ starting' = starting \cup {q}
    /\ UNCHANGED <<config, eth, deferred, stopped, unpaused, serving, slipped>>

OnStarted(q) ==             \* on_domain_started_net(), up to its loop
    /\ q \in starting /\ ~Breaks(Netvm(q))
    /\ starting' = starting \ {q}
    /\ rules' = [n \in Qubes |-> IF n = Netvm(q) /\ HasQdb(n)
                                 THEN rules[n] \cup {q} ELSE rules[n]]
    /\ serving' = [serving EXCEPT ![q] = IF provides_network[q] THEN listed \ {q} ELSE {}]
    /\ UNCHANGED <<config, power, eth, deferred, connected_ips, stopped, unpaused, slipped>>

\* apply_deferred_netvm() of c, whose netvm, if any, is running.  The
\* pre-set handler is content with the note when c is paused again.  The note
\* outlives a failure, of libvirt (`refused`) or of a QubesDB.
Applies(c) == deferred[c] # Absent /\ (Netvm(c) = NoQube \/ is_running(Netvm(c)))
Apply(c, refused) ==
    LET old == IF deferred[c] \in listed THEN deferred[c] ELSE NoQube
        n == Netvm(c)
        raises == /\ n # NoQube
                  /\ Breaks(old) \/ Breaks(n) \/ (refused /\ power[c] = "Running")
    IN
    /\ eth' = [eth EXCEPT ![c] = IF power[c] # "Running" THEN eth[c]
                                 ELSE IF raises THEN NoQube ELSE n]
    /\ deferred' = [deferred EXCEPT ![c] = IF raises THEN deferred[c] ELSE Absent]
    /\ connected_ips' = reload_connected_ips(
           IF n = NoQube \/ Breaks(old) THEN {} ELSE {old, n},
           [m \in Qubes |-> connected_vms(m)])
    /\ rules' = [m \in Qubes |-> IF m = n /\ ~raises THEN rules[m] \cup {c} ELSE rules[m]]
    /\ slipped' = IF power[c] = "Running" \/ raises THEN slipped ELSE slipped \cup {c}

DetachFails(c) ==           \* libvirt keeps the old interface: nothing is done
    /\ power[c] = "Running" /\ eth[c] # NoQube
    /\ UNCHANGED <<eth, deferred, connected_ips, rules, slipped>>

ApplyOrFail(c) == \/ Apply(c, FALSE)
                  \/ c \in Fallible /\ (Apply(c, TRUE) \/ DetachFails(c))

\* One turn of the loop of on_domain_started_net(), which goes on after a
\* client it "Cannot attach".
Serve(n, c) ==
    /\ c \in serving[n]
    /\ serving' = [serving EXCEPT ![n] = @ \ {c}]
    /\ IF c \notin connected_vms(n) \/ power[c] # "Running"
       THEN /\ slipped' = IF /\ c \in connected_vms(n) /\ power[c] = "Paused"
                             /\ eth[c] = NoQube /\ deferred[c] = Absent
                          THEN slipped \cup {c} ELSE slipped
            /\ UNCHANGED <<eth, deferred, connected_ips, rules>>
       ELSE IF deferred[c] # Absent THEN ApplyOrFail(c)
       ELSE /\ \/ /\ eth' = [eth EXCEPT ![c] = IF @ = NoQube THEN n ELSE @]
                  /\ slipped' = slipped
               \/ /\ c \in Fallible /\ eth[c] = NoQube /\ eth' = eth
                  /\ slipped' = slipped \cup {c}
            /\ UNCHANGED <<deferred, connected_ips, rules>>
    /\ UNCHANGED <<config, power, stopped, unpaused, starting>>

Pause(q) ==
    /\ q \in Pausable /\ power[q] = "Running"
    /\ power' = [power EXCEPT ![q] = "Paused"]
    /\ UNCHANGED <<config, eth, deferred, connected_ips, rules, tasks, slipped>>

Unpause(q) ==
    /\ power[q] = "Paused"
    /\ power' = [power EXCEPT ![q] = "Running"]
    /\ unpaused' = unpaused \cup {q}
    /\ UNCHANGED <<config, eth, deferred, connected_ips, rules, stopped, starting,
                   serving, slipped>>

OnUnpaused(q) ==            \* on_domain_unpaused_net()
    /\ q \in unpaused
    /\ unpaused' = unpaused \ {q}
    /\ IF Applies(q) THEN ApplyOrFail(q)
       ELSE UNCHANGED <<eth, deferred, connected_ips, rules, slipped>>
    /\ UNCHANGED <<config, power, stopped, starting, serving>>

\* The domain ends: a shutdown, a kill, a crash, or a start that fails (a
\* client whose uplink does not come up in time fails the start of its netvm).
Stop(q) ==
    /\ is_running(q)
    /\ power' = [power EXCEPT ![q] = "Off"]
    /\ eth' = [eth EXCEPT ![q] = NoQube]
    /\ connected_ips' = [connected_ips EXCEPT ![q] = {}]
    /\ rules' = [rules EXCEPT ![q] = {}]
    /\ stopped' = stopped \cup {q}
    /\ unpaused' = unpaused \ {q}
    /\ starting' = starting \ {q}
    /\ serving' = [serving EXCEPT ![q] = {}]
    /\ slipped' = slipped \ {q}
    /\ UNCHANGED <<config, deferred>>

\* on_domain_shutdown_net(), which ignores the clients F it fails to detach.
OnShutdown(q) ==
    LET on == {c \in connected_vms(q) : is_running(c)} IN
    \E F \in SUBSET {c \in on \cap Fallible : eth[c] # NoQube} :
        /\ q \in stopped
        /\ stopped' = stopped \ {q}
        /\ eth' = [c \in Qubes |-> IF c \in on \ F /\ power[c] = "Running"
                                   THEN NoQube ELSE eth[c]]
        /\ deferred' = [c \in Qubes |->
                          IF c = q THEN Absent
                          ELSE IF /\ c \in on \ F /\ is_paused(c)
                                  /\ deferred[c] = Absent /\ eth[c] \in listed
                               THEN eth[c] ELSE deferred[c]]
        /\ slipped' = slipped \cup F
        /\ UNCHANGED <<config, power, connected_ips, rules, unpaused, starting, serving>>
--------------------------------------------------------------------------
ConfigOK == /\ listed \subseteq Qubes
            /\ netvm \in [Qubes -> Qubes \cup {NoQube, Default}]
            /\ provides_network \in [Qubes -> BOOLEAN]
            /\ default_netvm \in Qubes \cup {NoQube}

(* No qube is, through its netvm and the netvm of that one, its own        *)
(* network: every set of qubes has one whose netvm lies outside.  qubesd   *)
(* walks these chains without a bound (check_with_netvm(), features.py:200). *)
NoLoop == \A S \in SUBSET listed : S # {} => \E q \in S : Netvm(q) \notin S

(* A stored reference is to a qube of the collection.                      *)
ReferencesHold ==
    /\ default_netvm # NoQube => default_netvm \in listed
    /\ \A q \in listed : netvm[q] \in Qubes => netvm[q] \in listed

(* The configuration stays well formed whatever is set, reset, created and *)
(* removed: each setter checks only the value it is given.                 *)
GraphInv == ConfigOK /\ NoLoop /\ ReferencesHold

(* A qube that a netvm property names outright provides network, as the    *)
(* setters of both properties demand (net.py:74, 93).  (A default_netvm    *)
(* need not: its setter does not ask.)  A reset of provides_network breaks *)
(* it, and leaves a qubes.xml that load() refuses.                         *)
NetvmProvides ==
    \A q \in listed : netvm[q] \in listed => provides_network[netvm[q]]

\* What qubesd may load from qubes.xml (on_domain_load_netvm_loop_check()
\* breaks a loop it finds there), with every qube off.
Init == /\ listed \in SUBSET Qubes
        /\ netvm \in [Qubes -> Qubes \cup {NoQube, Default}]
        /\ provides_network \in [Qubes -> BOOLEAN]
        /\ default_netvm \in Qubes \cup {NoQube}
        /\ GraphInv /\ NetvmProvides
        /\ power = [q \in Qubes |-> "Off"]
        /\ eth = [q \in Qubes |-> NoQube]
        /\ deferred = [q \in Qubes |-> Absent]
        /\ connected_ips = [q \in Qubes |-> {}]
        /\ rules = [q \in Qubes |-> {}]
        /\ stopped = {} /\ unpaused = {} /\ starting = {}
        /\ serving = [q \in Qubes |-> {}]
        /\ slipped = {}
        /\ changes = 0

Next == \/ \E q \in Qubes :
             \/ AddQube(q) \/ RemoveQube(q) \/ ResetNetvm(q)
             \/ PreSpawn(q) \/ Create(q) \/ SpawnFails(q) \/ Activate(q)
             \/ OnStarted(q) \/ Pause(q) \/ Unpause(q) \/ OnUnpaused(q)
             \/ Stop(q) \/ OnShutdown(q) \/ ResetProvides(q)
             \/ \E b \in BOOLEAN : SetProvides(q, b)
             \/ \E v \in Qubes \cup {NoQube} : SetNetvm(q, v)
             \/ \E c \in Qubes : Serve(q, c)
        \/ \E v \in Qubes \cup {NoQube}, A \in SUBSET ByDefault :
             SetDefault(v, A) \/ SetDefaultFails(v, A)
        \/ ResetDefault

Spec == Init /\ [][Next]_vars
--------------------------------------------------------------------------
(* A running qube has no interface to another qube than its netvm, unless  *)
(* a note says a change is waiting or one of the steps that set `slipped`  *)
(* left it behind (a loop over clients that ends early, a netvm that is    *)
(* not up, a detach or an attach that libvirt refuses and the code ignores *)
(* or only logs): those are all the ways to stay on an old network.        *)
InterfaceFollowsNetvm ==
    \A q \in listed \ slipped :
        power[q] = "Running" /\ deferred[q] = Absent => eth[q] \in {NoQube, Netvm(q)}

(* A running qube whose netvm is up and has finished its domain-start work *)
(* is attached to it, with the same exceptions: whatever the order of      *)
(* changes, pauses, crashes and restarts, both sides' handlers add up.     *)
UplinkPresent ==
    \A q \in listed \ slipped :
        LET n == Netvm(q) IN
        /\ power[q] = "Running" /\ deferred[q] = Absent
        /\ n # NoQube /\ HasQdb(n) /\ provides_network[n] /\ n \notin starting /\ q \notin serving[n]
        => eth[q] = n

(* A qube attached to its netvm has its firewall rules and its address in  *)
(* the QubesDB of that netvm, also when the netvm was restarted or changed *)
(* while the qube was starting or paused.  (A note promises both as well:  *)
(* a loop that ended early may have passed over a paused qube.)            *)
FirewalledUplink ==
    \A q \in listed \ slipped :
        /\ power[q] = "Running" /\ q \notin starting /\ deferred[q] = Absent
        /\ eth[q] = Netvm(q) /\ eth[q] # NoQube /\ HasQdb(eth[q])
        /\ provides_network[eth[q]]
        => q \in rules[eth[q]] /\ q \in connected_ips[eth[q]]

(* A running qube is attached to its netvm, which holds its firewall rules. *)
ServedByNetvm == UplinkPresent /\ FirewalledUplink

(* net.py:157: "When `None`, machine is disconnected."                     *)
DisconnectedWhenNone ==
    \A q \in listed : power[q] = "Running" /\ deferred[q] = Absent /\ Netvm(q) = NoQube
        => eth[q] = NoQube
===========================================================================
