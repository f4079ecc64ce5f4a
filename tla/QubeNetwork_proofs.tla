------------------------ MODULE QubeNetwork_proofs ------------------------
(* The network configuration of QubeNetwork stays well formed. *)
EXTENDS QubeNetwork, TLAPS

\* The closed set that shows v to be no client, direct or indirect, of q.
LEMMA NotAClient ==
    ASSUME NEW q, NEW v \in listed, v \notin get_vms_connected_to(q)
    PROVE  \E T \in SUBSET listed :
              /\ v \notin T
              /\ \A c \in listed : Netvm(c) = q \/ Netvm(c) \in T => c \in T
<1>1. PICK T \in SUBSET listed :
         /\ connected_vms(q) \cup UNION {connected_vms(d) : d \in T} \subseteq T
         /\ v \notin T
  BY DEF get_vms_connected_to
<1>2. \A c \in listed : Netvm(c) = q \/ Netvm(c) \in T => c \in T
  BY <1>1 DEF connected_vms
<1> QED BY <1>1, <1>2

\* Giving the qubes of D the netvm v closes no loop when v is no client of
\* theirs: a loop would hold one outside the clients of D already.
LEMMA NewEdges ==
    ASSUME NoLoop, NEW v \in listed, NEW D \in SUBSET listed, NEW f,
           \A d \in D : v # d /\ v \notin get_vms_connected_to(d),
           NEW S \in SUBSET listed, S # {},
           \A c \in S : f[c] = IF c \in D THEN v ELSE Netvm(c)
    PROVE  \E c \in S : f[c] \notin S
<1> SUFFICES ASSUME \A c \in S : f[c] \in S PROVE FALSE
  OBVIOUS
<1> DEFINE Closed(d, T) == /\ v \notin T
                           /\ \A c \in listed : Netvm(c) = d \/ Netvm(c) \in T => c \in T
           U == {x \in listed : \E d \in D : \E T \in SUBSET listed :
                                   Closed(d, T) /\ (x \in T \/ x = d)}
           R == S \ U
<1>1. ASSUME S \cap D = {} PROVE FALSE
  <2>1. \A c \in S : Netvm(c) \in S BY <1>1
  <2> QED BY <2>1 DEF NoLoop
<1>2. v \in S
  BY <1>1
<1>3. \A d \in D : \E T \in SUBSET listed : Closed(d, T)
  BY NotAClient
<1>4. D \subseteq U
  BY <1>3
<1>5. v \in R
  BY <1>2
<1>6. \A c \in R : Netvm(c) \in R
  <2> SUFFICES ASSUME NEW c \in R PROVE Netvm(c) \in R
    OBVIOUS
  <2>1. c \notin D /\ c \in listed BY <1>4
  <2>2. Netvm(c) \in S BY <2>1
  <2>3. ASSUME Netvm(c) \in U PROVE FALSE
    <3>1. PICK d \in D, T \in SUBSET listed : Closed(d, T) /\ (Netvm(c) \in T \/ Netvm(c) = d)
      BY <2>3
    <3>2. c \in T BY <3>1, <2>1
    <3> QED BY <3>1, <3>2, <2>1
  <2> QED BY <2>2, <2>3
<1> HIDE DEF U, Closed
<1> QED BY <1>5, <1>6 DEF NoLoop

LEMMA AddQubeKeeps ==
    ASSUME GraphInv, NetworkAssumption, NEW q \in Qubes, AddQube(q) PROVE GraphInv'
<1>1. ConfigOK' BY DEF AddQube, GraphInv, ConfigOK
<1>2. ReferencesHold' BY NetworkAssumption DEF AddQube, GraphInv, ConfigOK, ReferencesHold, NetworkAssumption
<1>3. NoLoop'
  <2> SUFFICES ASSUME NEW S \in SUBSET listed', S # {}, \A c \in S : Netvm(c)' \in S
               PROVE  FALSE
    BY DEF NoLoop
  <2>1. \A c \in listed : Netvm(c)' = Netvm(c) /\ Netvm(c) # q
    BY NetworkAssumption DEF AddQube, GraphInv, ConfigOK, ReferencesHold, Netvm, NetworkAssumption
  <2>2. Netvm(q)' # q
    BY NetworkAssumption DEF AddQube, GraphInv, ConfigOK, ReferencesHold, Netvm, NetworkAssumption
  <2>3. S \ {q} \in SUBSET listed BY DEF AddQube
  <2>4. \A c \in S \ {q} : Netvm(c) \in S \ {q} BY <2>1, <2>3
  <2>5. S \ {q} # {} BY <2>2
  <2> QED BY <2>3, <2>4, <2>5 DEF NoLoop, GraphInv
<1> QED BY <1>1, <1>2, <1>3 DEF GraphInv

LEMMA RemoveQubeKeeps ==
    ASSUME GraphInv, NEW q \in Qubes, RemoveQube(q) PROVE GraphInv'
<1>1. ConfigOK' BY DEF RemoveQube, GraphInv, ConfigOK
<1>2. ReferencesHold'
  BY DEF RemoveQube, IsUsed, GraphInv, ConfigOK, ReferencesHold
<1>3. NoLoop'
  <2>1. listed' \subseteq listed /\ \A c \in listed : Netvm(c)' = Netvm(c)
    BY DEF RemoveQube, Netvm
  <2> QED BY <2>1 DEF NoLoop, GraphInv
<1> QED BY <1>1, <1>2, <1>3 DEF GraphInv

LEMMA SetProvidesKeeps ==
    ASSUME GraphInv, NetworkAssumption, NEW q \in Qubes, NEW b \in BOOLEAN, SetProvides(q, b)
    PROVE  GraphInv'
<1>1. ConfigOK' BY DEF SetProvides, GraphInv, ConfigOK
<1>2. ReferencesHold' BY DEF SetProvides, GraphInv, ReferencesHold
<1>3. NoLoop'
  <2>1. listed' = listed /\ \A c \in listed : Netvm(c)' = Netvm(c)
    BY DEF SetProvides, Netvm
  <2> QED BY <2>1 DEF NoLoop, GraphInv
<1> QED BY <1>1, <1>2, <1>3 DEF GraphInv

LEMMA ResetProvidesKeeps ==
    ASSUME GraphInv, NEW q \in Qubes, ResetProvides(q)
    PROVE  GraphInv'
<1>1. ConfigOK' BY DEF ResetProvides, GraphInv, ConfigOK
<1>2. ReferencesHold' BY DEF ResetProvides, GraphInv, ReferencesHold
<1>3. NoLoop'
  <2>1. listed' = listed /\ \A c \in listed : Netvm(c)' = Netvm(c)
    BY DEF ResetProvides, Netvm
  <2> QED BY <2>1 DEF NoLoop, GraphInv
<1> QED BY <1>1, <1>2, <1>3 DEF GraphInv

LEMMA StoreNetvmKeeps ==
    ASSUME GraphInv, NetworkAssumption, NEW q \in Qubes, NEW v \in Qubes \cup {NoQube},
           NEW stored \in {v, Default}, stored = Default => v = default_netvm,
           NEW A, StoreNetvm(q, stored, v, A)
    PROVE  GraphInv'
<1>0. /\ netvm' = [netvm EXCEPT ![q] = stored] /\ NetvmAllowed(q, v) /\ q \in listed
      /\ UNCHANGED <<listed, provides_network, default_netvm>>
  BY DEF StoreNetvm
<1>1. ConfigOK' BY <1>0 DEF GraphInv, ConfigOK
<1>2. ReferencesHold'
  BY <1>0, NetworkAssumption DEF GraphInv, ConfigOK, ReferencesHold, NetvmAllowed, NetworkAssumption
<1>3. NoLoop'
  <2> SUFFICES ASSUME NEW S \in SUBSET listed, S # {} PROVE \E c \in S : Netvm(c)' \notin S
    BY <1>0 DEF NoLoop
  <2>1. \A c \in S : Netvm(c)' = IF c \in {q} THEN v ELSE Netvm(c)
    BY <1>0, NetworkAssumption DEF GraphInv, ConfigOK, Netvm, NetworkAssumption
  <2>2. CASE v = NoQube
    <3>1. q \in S => Netvm(q)' \notin S
      BY <2>1, <2>2, NetworkAssumption DEF GraphInv, ConfigOK, NetworkAssumption
    <3> QED BY <2>1, <3>1 DEF NoLoop, GraphInv
  <2>3. CASE v # NoQube
    <3> DEFINE f == [c \in S |-> Netvm(c)']
               D == {q}
    <3>1. /\ v \in listed /\ D \in SUBSET listed
          /\ \A d \in D : v # d /\ v \notin get_vms_connected_to(d)
      BY <1>0, <2>3 DEF NetvmAllowed
    <3>2. \A c \in S : f[c] = IF c \in D THEN v ELSE Netvm(c)
      BY <2>1
    <3> HIDE DEF f, D
    <3>3. \E c \in S : f[c] \notin S
      BY <3>1, <3>2, NewEdges DEF GraphInv
    <3> QED BY <3>3 DEF f
  <2> QED BY <2>2, <2>3
<1> QED BY <1>1, <1>2, <1>3 DEF GraphInv

LEMMA ResetNetvmKeeps ==
    ASSUME GraphInv, NetworkAssumption, NEW q \in Qubes, ResetNetvm(q) PROVE GraphInv'
<1>1. ASSUME NEW A \in SUBSET {q}, StoreNetvm(q, Default, default_netvm, A) PROVE GraphInv'
  <2>1. default_netvm \in Qubes \cup {NoQube} BY DEF GraphInv, ConfigOK
  <2> QED BY <1>1, <2>1, StoreNetvmKeeps
<1>2. CASE /\ CanChange /\ q \in listed /\ default_netvm = Netvm(q)
           /\ netvm' = [netvm EXCEPT ![q] = Default]
           /\ UNCHANGED <<listed, provides_network, default_netvm>>
  <2>1. ConfigOK' BY <1>2 DEF GraphInv, ConfigOK
  <2>2. ReferencesHold' BY <1>2, NetworkAssumption DEF GraphInv, ConfigOK, ReferencesHold, NetworkAssumption
  <2>3. \A c \in listed : Netvm(c)' = Netvm(c)
    BY <1>2 DEF GraphInv, ConfigOK, Netvm
  <2>4. NoLoop' BY <1>2, <2>3 DEF NoLoop, GraphInv
  <2> QED BY <2>1, <2>2, <2>4 DEF GraphInv
<1> QED BY <1>1, <1>2 DEF ResetNetvm

LEMMA SetDefaultKeeps ==
    ASSUME GraphInv, NetworkAssumption, NEW v \in Qubes \cup {NoQube},
           DefaultAllowed(v), default_netvm' = v,
           UNCHANGED <<listed, netvm, provides_network>>
    PROVE  GraphInv'
<1>1. ConfigOK' BY DEF GraphInv, ConfigOK
<1>2. ReferencesHold' BY DEF GraphInv, ConfigOK, ReferencesHold, DefaultAllowed
<1>3. NoLoop'
  <2> SUFFICES ASSUME NEW S \in SUBSET listed, S # {} PROVE \E c \in S : Netvm(c)' \notin S
    BY DEF NoLoop
  <2>1. \A c \in S : Netvm(c)' = IF c \in ByDefault THEN v ELSE Netvm(c)
    BY DEF ByDefault, Netvm
  <2>2. CASE v = NoQube
    <3>1. NoQube \notin S BY NetworkAssumption DEF GraphInv, ConfigOK, NetworkAssumption
    <3> QED BY <2>1, <2>2, <3>1 DEF NoLoop, GraphInv
  <2>3. CASE v # NoQube
    <3> DEFINE f == [c \in S |-> Netvm(c)']
    <3>1. /\ v \in listed /\ ByDefault \in SUBSET listed
          /\ \A d \in ByDefault : v # d /\ v \notin get_vms_connected_to(d)
      BY <2>3 DEF DefaultAllowed, ByDefault
    <3>2. \A c \in S : f[c] = IF c \in ByDefault THEN v ELSE Netvm(c)
      BY <2>1
    <3> HIDE DEF f
    <3>3. \E c \in S : f[c] \notin S
      BY <3>1, <3>2, NewEdges DEF GraphInv
    <3> QED BY <3>3 DEF f
  <2> QED BY <2>2, <2>3
<1> QED BY <1>1, <1>2, <1>3 DEF GraphInv

LEMMA SameConfigKeeps ==
    ASSUME GraphInv, UNCHANGED <<listed, netvm, provides_network, default_netvm>>
    PROVE  GraphInv'
<1>1. \A c \in listed : Netvm(c)' = Netvm(c) BY DEF Netvm
<1>2. NoLoop' BY <1>1 DEF NoLoop, GraphInv
<1> QED BY <1>2 DEF GraphInv, ConfigOK, ReferencesHold

\* Whatever is set, reset, created or removed, in whatever order, the netvm
\* properties form no loop and name qubes that exist.
THEOREM GraphSafe == Spec => []GraphInv
<1>1. Init => GraphInv
  BY DEF Init
<1>2. GraphInv /\ [Next]_vars => GraphInv'
  <2> SUFFICES ASSUME GraphInv, [Next]_vars PROVE GraphInv'
    OBVIOUS
  <2> USE NetworkAssumption
  <2>1. ASSUME NEW q \in Qubes, AddQube(q) PROVE GraphInv' BY <2>1, AddQubeKeeps
  <2>2. ASSUME NEW q \in Qubes, RemoveQube(q) PROVE GraphInv' BY <2>2, RemoveQubeKeeps
  <2>3. ASSUME NEW q \in Qubes, ResetNetvm(q) PROVE GraphInv' BY <2>3, ResetNetvmKeeps
  <2>4. ASSUME NEW q \in Qubes, NEW b \in BOOLEAN, SetProvides(q, b) PROVE GraphInv'
    BY <2>4, SetProvidesKeeps
  <2>5. ASSUME NEW q \in Qubes, NEW v \in Qubes \cup {NoQube}, SetNetvm(q, v) PROVE GraphInv'
    <3>1. v # Default /\ \E A \in SUBSET {q} : StoreNetvm(q, v, v, A)
      BY <2>5 DEF SetNetvm, NetworkAssumption
    <3> QED BY <3>1, StoreNetvmKeeps
  <2>6. ASSUME NEW v \in Qubes \cup {NoQube}, NEW A \in SUBSET ByDefault, SetDefault(v, A)
        PROVE  GraphInv'
    BY <2>6, SetDefaultKeeps DEF SetDefault
  <2>7. ASSUME NEW v \in Qubes \cup {NoQube}, NEW A \in SUBSET ByDefault,
               SetDefaultFails(v, A)
        PROVE  GraphInv'
    BY <2>7, SameConfigKeeps DEF SetDefaultFails
  <2>8. ASSUME ResetDefault PROVE GraphInv'
    BY <2>8, SetDefaultKeeps DEF ResetDefault, DefaultAllowed
  <2>9. ASSUME NEW q \in Qubes,
               \/ PreSpawn(q) \/ Create(q) \/ SpawnFails(q) \/ Activate(q)
               \/ OnStarted(q) \/ Pause(q) \/ Unpause(q) \/ OnUnpaused(q)
               \/ Stop(q) \/ OnShutdown(q) \/ \E c \in Qubes : Serve(q, c)
        PROVE  GraphInv'
    <3>1. UNCHANGED config
      BY <2>9 DEF PreSpawn, Create, SpawnFails, Activate, OnStarted, Pause,
                  Unpause, OnUnpaused, Stop, OnShutdown, Serve
    <3> QED BY <3>1, SameConfigKeeps DEF config
  <2>10. ASSUME NEW q \in Qubes, ResetProvides(q) PROVE GraphInv'
    BY <2>10, ResetProvidesKeeps
  <2>11. ASSUME UNCHANGED vars PROVE GraphInv'
    BY <2>11, SameConfigKeeps DEF vars, config
  <2> QED BY <2>1, <2>2, <2>3, <2>4, <2>5, <2>6, <2>7, <2>8, <2>9, <2>10, <2>11 DEF Next
<1> QED BY <1>1, <1>2, PTL DEF Spec

--------------------------------------------------------------------------
(* What holds of the power, the interfaces and the notes by themselves.    *)
NetType ==
    /\ power \in [Qubes -> {"Off", "Spawning", "Created", "Running", "Paused"}]
    /\ eth \in [Qubes -> Qubes \cup {NoQube}]
    /\ deferred \in [Qubes -> Qubes \cup {Absent, Unnamed}]
    /\ \A q \in Qubes : q \notin listed \/ q \in stopped => power[q] = "Off"

(* InterfaceFollowsNetvm for qubes that are paused as well, since their    *)
(* interface is what they have when they go on.                            *)
Linked ==
    \A q \in listed \ slipped :
        is_running(q) /\ deferred[q] = Absent => eth[q] \in {NoQube, Netvm(q)}

LinkInv == GraphInv /\ NetType /\ Linked

LEMMA NetvmType ==
    ASSUME GraphInv, NEW q \in Qubes PROVE Netvm(q) \in Qubes \cup {NoQube}
BY DEF GraphInv, ConfigOK, Netvm

\* The handlers of a netvm change keep the types.
LEMMA HandlersType ==
    ASSUME LinkInv, NEW D, NEW A, NEW old, NEW v \in Qubes \cup {NoQube}
    PROVE  /\ EthPreSet(D) \in [Qubes -> Qubes \cup {NoQube}]
           /\ Interfaces(D, A, old, v) \in [Qubes -> Qubes \cup {NoQube}]
           /\ DeferredPreSet(D) \in [Qubes -> Qubes \cup {Absent, Unnamed}]
<1>1. EthPreSet(D) \in [Qubes -> Qubes \cup {NoQube}]
  BY DEF EthPreSet, LinkInv, NetType
<1>2. Interfaces(D, A, old, v) \in [Qubes -> Qubes \cup {NoQube}]
  BY <1>1 DEF Interfaces
<1>3. DeferredPreSet(D) \in [Qubes -> Qubes \cup {Absent, Unnamed}]
  BY NetvmType DEF DeferredPreSet, NameOf, LinkInv, NetType
<1> QED BY <1>1, <1>2, <1>3

\* After the handlers a paused qube has a note, its old one or a new one.
LEMMA Noted ==
    ASSUME LinkInv, NetworkAssumption, NEW q \in Qubes, NEW D, q \in D, is_paused(q)
    PROVE  DeferredPreSet(D)[q] # Absent
BY NetvmType DEF DeferredPreSet, NameOf, NetworkAssumption, LinkInv

LEMMA StoreNetvmLinks ==
    ASSUME LinkInv, NetworkAssumption, NEW q \in Qubes, NEW v \in Qubes \cup {NoQube},
           NEW stored \in {v, Default}, stored = Default => v = default_netvm,
           NEW A \in SUBSET {q}, StoreNetvm(q, stored, v, A)
    PROVE  NetType' /\ Linked'
<1>1. NetType'
  BY HandlersType DEF StoreNetvm, Stays, tasks, LinkInv, NetType
<1>2. /\ UNCHANGED <<listed, default_netvm, power>>
      /\ netvm' = [netvm EXCEPT ![q] = stored]
      /\ eth' = Interfaces({q}, A, Netvm(q), v)
      /\ deferred' = DeferredPreSet({q})
      /\ slipped' = IF LeavesInterface(q) \/ (power[q] # "Off" /\ Breaks(Netvm(q))) \/ A = {}
                    THEN slipped \cup {q} ELSE slipped
  BY DEF StoreNetvm, Stays
<1>3. Netvm(q)' = v
  BY <1>2, NetworkAssumption DEF Netvm, LinkInv, GraphInv, ConfigOK, NetworkAssumption
<1>4. \A c \in Qubes \ {q} : Netvm(c)' = Netvm(c)
  BY <1>2 DEF Netvm, LinkInv, GraphInv, ConfigOK
<1> SUFFICES ASSUME NEW c \in listed \ slipped', is_running(c), deferred'[c] = Absent
             PROVE  eth'[c] \in {NoQube, Netvm(c)'}
  BY <1>1, <1>2 DEF Linked, is_running
<1>5. c \in Qubes /\ c \notin slipped
  BY <1>2 DEF LinkInv, GraphInv, ConfigOK
<1>6. CASE c # q
  <2>1. eth'[c] = eth[c] /\ deferred[c] = Absent
    BY <1>2, <1>5, <1>6 DEF Interfaces, EthPreSet, DeferredPreSet
  <2> QED BY <2>1, <1>4, <1>5, <1>6 DEF LinkInv, Linked
<1>7. CASE c = q
  <2>1. power[q] = "Running" BY <1>2, <1>7, Noted DEF is_running, is_paused
  <2>2. ~LeavesInterface(q) BY <1>2, <1>7
  <2>3. EthPreSet({q})[q] = NoQube
    BY <2>1, <2>2 DEF EthPreSet, LeavesInterface
  <2>4. eth'[q] \in {NoQube, v} BY <1>2, <2>3 DEF Interfaces
  <2> QED BY <2>4, <1>3, <1>7
<1> QED BY <1>6, <1>7

\* All the qubes with a default netvm at once: one that runs is marked, or
\* reached by the loop, or had no interface to lose.
LEMMA SetDefaultLinks ==
    ASSUME LinkInv, NetworkAssumption, NEW v \in Qubes \cup {NoQube}, NEW A \in SUBSET ByDefault,
           SetDefault(v, A)
    PROVE  NetType' /\ Linked'
<1> DEFINE D == ByDefault
<1>1. /\ UNCHANGED <<listed, netvm, power, stopped>> /\ default_netvm' = v
      /\ A \subseteq D
      /\ deferred' = DeferredPreSet(D)
      /\ eth' = IF v = default_netvm THEN EthPreSet(D) ELSE Interfaces(D, A, default_netvm, v)
      /\ slipped' = slipped \cup {q \in D :
           \/ power[q] = "Running" /\ (v = default_netvm \/ q \notin A \/ LeavesInterface(q))
           \/ power[q] # "Off" /\ Breaks(default_netvm)}
  BY DEF SetDefault, Stays, tasks
<1>2. NetType'
  BY <1>1, HandlersType DEF LinkInv, NetType
<1>3. \A q \in D : Netvm(q)' = v
  BY <1>1 DEF Netvm, ByDefault
<1>4. \A q \in listed \ D : Netvm(q)' = Netvm(q)
  BY <1>1 DEF Netvm, ByDefault
<1> SUFFICES ASSUME NEW c \in listed \ slipped', is_running(c), deferred'[c] = Absent
             PROVE  eth'[c] \in {NoQube, Netvm(c)'}
  BY <1>1, <1>2 DEF Linked, is_running
<1>5. c \in Qubes /\ c \notin slipped
  BY <1>1 DEF LinkInv, GraphInv, ConfigOK
<1>6. CASE c \notin D
  <2>1. eth'[c] = eth[c] /\ deferred[c] = Absent
    BY <1>1, <1>5, <1>6 DEF Interfaces, EthPreSet, DeferredPreSet
  <2> QED BY <2>1, <1>4, <1>5, <1>6 DEF LinkInv, Linked
<1>7. CASE c \in D
  <2>1. power[c] = "Running" BY <1>1, <1>5, <1>7, Noted DEF is_running, is_paused
  <2>2. ~LeavesInterface(c) BY <1>1, <1>7, <2>1
  <2>3. EthPreSet(D)[c] = NoQube
    BY <1>5, <1>7, <2>1, <2>2 DEF EthPreSet, LeavesInterface
  <2>4. eth'[c] \in {NoQube, v} BY <1>1, <1>5, <2>3 DEF Interfaces
  <2> QED BY <2>4, <1>3, <1>7
<1> QED BY <1>6, <1>7

LEMMA SetDefaultFailsLinks ==
    ASSUME LinkInv, NetworkAssumption, NEW v \in Qubes \cup {NoQube}, NEW A \in SUBSET Qubes,
           SetDefaultFails(v, A)
    PROVE  NetType' /\ Linked'
<1>1. /\ UNCHANGED <<listed, netvm, default_netvm, power, stopped>>
      /\ deferred' = DeferredPreSet(A) /\ eth' = EthPreSet(A)
      /\ slipped' = slipped \cup {q \in A : Detaches(q)}
  BY DEF SetDefaultFails, Stays, tasks
<1>2. NetType'
  BY <1>1, HandlersType DEF LinkInv, NetType
<1> SUFFICES ASSUME NEW c \in listed \ slipped', is_running(c), deferred'[c] = Absent
             PROVE  eth'[c] \in {NoQube, Netvm(c)'}
  BY <1>1, <1>2 DEF Linked, is_running
<1>3. c \in Qubes /\ c \notin slipped /\ Netvm(c)' = Netvm(c)
  BY <1>1 DEF LinkInv, GraphInv, ConfigOK, Netvm
<1>4. eth'[c] \in {NoQube, eth[c]} /\ deferred[c] = Absent
  BY <1>1, <1>3, Noted DEF EthPreSet, DeferredPreSet, is_paused
<1> QED BY <1>3, <1>4 DEF LinkInv, Linked

\* A deferred change that is applied connects a running qube to its netvm.
LEMMA ApplyLinks ==
    ASSUME LinkInv, NetworkAssumption, NEW c \in Qubes, deferred[c] # Absent,
           NEW refused \in BOOLEAN, Apply(c, refused),
           UNCHANGED <<config, power, stopped>>
    PROVE  NetType' /\ Linked'
<1>1. /\ UNCHANGED <<listed, netvm, default_netvm>>
      /\ \A d \in Qubes : Netvm(d)' = Netvm(d)
  BY DEF config, Netvm
<1>2. /\ eth'[c] \in {NoQube, Netvm(c)} \/ power[c] # "Running"
      /\ eth' \in [Qubes -> Qubes \cup {NoQube}]
      /\ \A d \in Qubes \ {c} : eth'[d] = eth[d] /\ deferred'[d] = deferred[d]
  BY NetvmType DEF Apply, LinkInv, NetType
<1>3. /\ deferred' \in [Qubes -> Qubes \cup {Absent, Unnamed}]
      /\ deferred'[c] = Absent => power[c] = "Running" \/ c \in slipped'
      /\ slipped \subseteq slipped'
  BY DEF Apply, LinkInv, NetType
<1>4. NetType' BY <1>1, <1>2, <1>3 DEF LinkInv, NetType
<1> SUFFICES ASSUME NEW d \in listed \ slipped', is_running(d), deferred'[d] = Absent
             PROVE  eth'[d] \in {NoQube, Netvm(d)'}
  BY <1>1, <1>4 DEF Linked, is_running
<1>5. d \in Qubes /\ d \notin slipped
  BY <1>3 DEF LinkInv, GraphInv, ConfigOK
<1> QED BY <1>1, <1>2, <1>3, <1>5 DEF LinkInv, Linked

\* A step that changes neither interfaces nor netvms.
LEMMA SameLinks ==
    ASSUME LinkInv, NetType', UNCHANGED <<listed, netvm, default_netvm, eth>>,
           \A q \in listed \ slipped' : is_running(q)' /\ deferred'[q] = Absent
              => is_running(q) /\ deferred[q] = Absent /\ q \notin slipped
    PROVE  Linked'
<1>1. \A q \in listed : Netvm(q)' = Netvm(q) BY DEF Netvm
<1> QED BY <1>1 DEF LinkInv, Linked

LEMMA CollectionLinks ==
    ASSUME LinkInv, NetworkAssumption, NEW q \in Qubes,
           \/ AddQube(q) \/ RemoveQube(q) \/ ResetDefault \/ ResetProvides(q)
           \/ \E b \in BOOLEAN : SetProvides(q, b)
    PROVE  NetType' /\ Linked'
<1>1. CASE AddQube(q)
  <2>1. NetType' BY <1>1 DEF AddQube, Stays, tasks, LinkInv, NetType
  <2>2. \A c \in listed : c # q /\ Netvm(c)' = Netvm(c) /\ deferred'[c] = deferred[c]
    BY <1>1 DEF AddQube, Netvm, LinkInv, GraphInv, ConfigOK, NetType
  <2>3. power[q] = "Off" /\ UNCHANGED <<power, eth, slipped>> /\ listed' = listed \cup {q}
    BY <1>1 DEF AddQube, Stays, LinkInv, NetType
  <2> QED BY <2>1, <2>2, <2>3 DEF LinkInv, Linked, is_running
<1>2. CASE RemoveQube(q)
  <2>1. NetType' BY <1>2 DEF RemoveQube, LinkInv, NetType
  <2>2. \A c \in Qubes : Netvm(c)' = Netvm(c) BY <1>2 DEF RemoveQube, Netvm
  <2>3. listed' \subseteq listed /\ listed \subseteq Qubes
        /\ UNCHANGED <<power, eth, deferred, slipped>>
    BY <1>2 DEF RemoveQube, LinkInv, GraphInv, ConfigOK
  <2> QED BY <2>1, <2>2, <2>3 DEF LinkInv, Linked, is_running
<1>3. CASE ResetDefault
  <2>1. NetType' BY <1>3 DEF ResetDefault, Stays, tasks, LinkInv, NetType
  <2>2. /\ UNCHANGED <<listed, netvm, power, eth, deferred>>
        /\ slipped' = slipped \cup {c \in ByDefault : power[c] # "Off"}
    BY <1>3 DEF ResetDefault, Stays
  <2>3. \A c \in listed : c \in ByDefault \/ Netvm(c)' = Netvm(c)
    BY <2>2 DEF Netvm, ByDefault
  <2> QED BY <2>1, <2>2, <2>3 DEF LinkInv, Linked, is_running
<1>4. CASE ResetProvides(q) \/ \E b \in BOOLEAN : SetProvides(q, b)
  <2>1. NetType' BY <1>4 DEF SetProvides, ResetProvides, Stays, tasks, LinkInv, NetType
  <2>2. /\ UNCHANGED <<listed, netvm, default_netvm, power, eth, deferred>>
        /\ slipped \subseteq slipped'
    BY <1>4 DEF SetProvides, ResetProvides, Stays
  <2> QED BY <2>1, <2>2, SameLinks DEF is_running
<1> QED BY <1>1, <1>2, <1>3, <1>4

LEMMA PowerLinks ==
    ASSUME LinkInv, NetworkAssumption, NEW q \in Qubes,
           \/ PreSpawn(q) \/ Create(q) \/ SpawnFails(q) \/ Activate(q)
           \/ OnStarted(q) \/ Pause(q) \/ Unpause(q) \/ Stop(q)
    PROVE  NetType' /\ Linked'
<1>1. CASE PreSpawn(q) \/ SpawnFails(q) \/ Activate(q) \/ OnStarted(q) \/ Pause(q) \/ Unpause(q)
  <2>1. NetType'
    BY <1>1 DEF PreSpawn, SpawnFails, Activate, OnStarted, Pause, Unpause, config, tasks,
                LinkInv, GraphInv, ConfigOK, NetType
  <2>2. /\ UNCHANGED <<listed, netvm, default_netvm, eth, deferred>>
        /\ slipped' = slipped \/ (slipped' = slipped \ {q} /\ power'[q] = "Off")
        /\ \A c \in Qubes : is_running(c)' => is_running(c)
    BY <1>1 DEF PreSpawn, SpawnFails, Activate, OnStarted, Pause, Unpause, config, tasks,
                is_running, LinkInv, NetType
  <2>3. listed \subseteq Qubes BY DEF LinkInv, GraphInv, ConfigOK
  <2> QED BY <2>1, <2>2, <2>3, SameLinks DEF is_running
<1>2. CASE Create(q)
  <2>1. NetType'
    BY <1>2, NetvmType DEF Create, config, tasks, LinkInv, NetType
  <2>2. \A c \in Qubes : Netvm(c)' = Netvm(c)
    BY <1>2 DEF Create, config, Netvm
  <2>3. /\ UNCHANGED <<listed, deferred, slipped>> /\ listed \subseteq Qubes
        /\ eth'[q] = Netvm(q)
        /\ \A c \in Qubes \ {q} : power'[c] = power[c] /\ eth'[c] = eth[c]
    BY <1>2 DEF Create, config, LinkInv, GraphInv, ConfigOK, NetType
  <2> QED BY <2>1, <2>2, <2>3 DEF LinkInv, Linked, is_running
<1>3. CASE Stop(q)
  <2>1. NetType' BY <1>3 DEF Stop, config, LinkInv, NetType
  <2>2. \A c \in Qubes : Netvm(c)' = Netvm(c)
    BY <1>3 DEF Stop, config, Netvm
  <2>3. /\ UNCHANGED <<listed, deferred>> /\ listed \subseteq Qubes /\ slipped' = slipped \ {q}
        /\ power'[q] = "Off"
        /\ \A c \in Qubes \ {q} : power'[c] = power[c] /\ eth'[c] = eth[c]
    BY <1>3 DEF Stop, config, LinkInv, GraphInv, ConfigOK, NetType
  <2> QED BY <2>1, <2>2, <2>3 DEF LinkInv, Linked, is_running
<1> QED BY <1>1, <1>2, <1>3

\* The same when libvirt refuses a part of it.
LEMMA ApplyOrFailLinks ==
    ASSUME LinkInv, NetworkAssumption, NEW c \in Qubes, deferred[c] # Absent, ApplyOrFail(c),
           UNCHANGED <<config, power, stopped>>
    PROVE  NetType' /\ Linked'
<1>1. ASSUME NEW refused \in BOOLEAN, Apply(c, refused) PROVE NetType' /\ Linked'
  BY <1>1, ApplyLinks
<1>2. CASE DetachFails(c)
  <2>1. UNCHANGED <<eth, deferred, slipped>> BY <1>2 DEF DetachFails
  <2>2. NetType' BY <2>1 DEF config, LinkInv, NetType
  <2> QED BY <2>1, <2>2, SameLinks DEF config, is_running
<1> QED BY <1>1, <1>2 DEF ApplyOrFail

LEMMA HandlerLinks ==
    ASSUME LinkInv, NetworkAssumption, NEW q \in Qubes,
           OnUnpaused(q) \/ OnShutdown(q) \/ \E c \in Qubes : Serve(q, c)
    PROVE  NetType' /\ Linked'
<1>1. CASE OnUnpaused(q)
  <2>1. CASE Applies(q)
    BY <1>1, <2>1, ApplyOrFailLinks DEF OnUnpaused, Applies
  <2>2. CASE ~Applies(q)
    <3>1. UNCHANGED <<config, power, stopped, eth, deferred, slipped>>
      BY <1>1, <2>2 DEF OnUnpaused
    <3>2. NetType' BY <3>1 DEF config, LinkInv, NetType
    <3> QED BY <3>1, <3>2, SameLinks DEF config, is_running
  <2> QED BY <2>1, <2>2
<1>2. CASE OnShutdown(q)
  <2>1. NetType' BY <1>2 DEF OnShutdown, config, LinkInv, GraphInv, ConfigOK, NetType
  <2>2. power[q] = "Off" BY <1>2 DEF OnShutdown, LinkInv, NetType
  <2>3. /\ UNCHANGED <<listed, netvm, default_netvm, power>> /\ slipped \subseteq slipped'
        /\ \A c \in Qubes : /\ eth'[c] \in {NoQube, eth[c]}
                            /\ c # q /\ deferred'[c] = Absent => deferred[c] = Absent
    BY <1>2, NetworkAssumption
    DEF OnShutdown, config, LinkInv, GraphInv, ConfigOK, NetType, NetworkAssumption
  <2>4. \A c \in Qubes : Netvm(c)' = Netvm(c) BY <2>3 DEF Netvm
  <2>5. listed \subseteq Qubes BY DEF LinkInv, GraphInv, ConfigOK
  <2> QED BY <2>1, <2>2, <2>3, <2>4, <2>5 DEF LinkInv, Linked, is_running
<1>3. ASSUME NEW c \in Qubes, Serve(q, c) PROVE NetType' /\ Linked'
  <2>1. CASE c \notin connected_vms(q) \/ power[c] # "Running"
    <3>1. UNCHANGED <<config, power, stopped, eth, deferred>> /\ slipped \subseteq slipped'
      BY <1>3, <2>1 DEF Serve
    <3>2. NetType' BY <3>1 DEF config, LinkInv, NetType
    <3> QED BY <3>1, <3>2, SameLinks DEF config, is_running
  <2>2. CASE ~(c \notin connected_vms(q) \/ power[c] # "Running") /\ deferred[c] # Absent
    BY <1>3, <2>2, ApplyOrFailLinks DEF Serve
  <2>3. CASE ~(c \notin connected_vms(q) \/ power[c] # "Running") /\ deferred[c] = Absent
    <3>1. /\ UNCHANGED <<config, power, stopped, deferred>> /\ slipped \subseteq slipped'
          /\ eth' = eth \/ eth' = [eth EXCEPT ![c] = IF @ = NoQube THEN q ELSE @]
          /\ Netvm(c) = q
      BY <1>3, <2>3 DEF Serve, connected_vms
    <3>2. NetType' BY <3>1 DEF config, LinkInv, NetType
    <3>3. \A d \in Qubes : Netvm(d)' = Netvm(d) BY <3>1 DEF config, Netvm
    <3>4. listed \subseteq Qubes BY DEF LinkInv, GraphInv, ConfigOK
    <3>5. \A d \in Qubes : eth'[d] = eth[d] \/ (d = c /\ eth'[d] = q)
      BY <3>1 DEF LinkInv, NetType
    <3> QED BY <3>1, <3>2, <3>3, <3>4, <3>5 DEF config, LinkInv, Linked, is_running
  <2> QED BY <2>1, <2>2, <2>3
<1> QED BY <1>1, <1>2, <1>3

LEMMA NextLinks ==
    ASSUME LinkInv, NetworkAssumption, [Next]_vars PROVE NetType' /\ Linked'
<1>1. ASSUME NEW q \in Qubes,
             \/ AddQube(q) \/ RemoveQube(q) \/ ResetProvides(q)
             \/ \E b \in BOOLEAN : SetProvides(q, b)
      PROVE  NetType' /\ Linked'
  BY <1>1, CollectionLinks
<1>2. ASSUME NEW q \in Qubes, ResetNetvm(q) PROVE NetType' /\ Linked'
  <2>1. ASSUME NEW A \in SUBSET {q}, StoreNetvm(q, Default, default_netvm, A)
        PROVE  NetType' /\ Linked'
    <3>1. default_netvm \in Qubes \cup {NoQube} BY DEF LinkInv, GraphInv, ConfigOK
    <3> QED BY <2>1, <3>1, StoreNetvmLinks
  <2>2. CASE /\ default_netvm = Netvm(q) /\ netvm[q] # Default
             /\ netvm' = [netvm EXCEPT ![q] = Default] /\ Stays
             /\ UNCHANGED <<listed, default_netvm, eth, deferred, slipped>>
    <3>1. NetType' BY <2>2 DEF Stays, tasks, LinkInv, NetType
    <3>2. \A c \in Qubes : Netvm(c)' = Netvm(c)
      BY <2>2 DEF LinkInv, GraphInv, ConfigOK, Netvm
    <3>3. listed \subseteq Qubes BY DEF LinkInv, GraphInv, ConfigOK
    <3> QED BY <2>2, <3>1, <3>2, <3>3 DEF Stays, LinkInv, Linked, is_running
  <2> QED BY <1>2, <2>1, <2>2 DEF ResetNetvm
<1>3. ASSUME NEW q \in Qubes, NEW v \in Qubes \cup {NoQube}, SetNetvm(q, v)
      PROVE  NetType' /\ Linked'
  <2>1. v # Default BY NetworkAssumption DEF NetworkAssumption
  <2> QED BY <1>3, <2>1, StoreNetvmLinks DEF SetNetvm
<1>4. ASSUME NEW v \in Qubes \cup {NoQube}, NEW A \in SUBSET ByDefault,
             SetDefault(v, A) \/ SetDefaultFails(v, A)
      PROVE  NetType' /\ Linked'
  <2>1. A \in SUBSET Qubes BY DEF ByDefault, LinkInv, GraphInv, ConfigOK
  <2> QED BY <1>4, <2>1, SetDefaultLinks, SetDefaultFailsLinks
<1>5. ASSUME ResetDefault PROVE NetType' /\ Linked'
  <2>1. default_netvm \in Qubes BY <1>5 DEF ResetDefault, LinkInv, GraphInv, ConfigOK
  <2> QED BY <1>5, <2>1, CollectionLinks
<1>6. ASSUME NEW q \in Qubes,
             \/ PreSpawn(q) \/ Create(q) \/ SpawnFails(q) \/ Activate(q)
             \/ OnStarted(q) \/ Pause(q) \/ Unpause(q) \/ Stop(q)
      PROVE  NetType' /\ Linked'
  BY <1>6, PowerLinks
<1>7. ASSUME NEW q \in Qubes, OnUnpaused(q) \/ OnShutdown(q) \/ \E c \in Qubes : Serve(q, c)
      PROVE  NetType' /\ Linked'
  BY <1>7, HandlerLinks
<1>8. ASSUME UNCHANGED vars PROVE NetType' /\ Linked'
  <2>1. NetType' BY <1>8 DEF vars, config, tasks, LinkInv, NetType
  <2> QED BY <1>8, <2>1, SameLinks DEF vars, config, is_running
<1> QED BY <1>1, <1>2, <1>3, <1>4, <1>5, <1>6, <1>7, <1>8 DEF Next

\* Whatever is set, started, paused and shut down, and in whatever order the
\* handlers run, a qube that runs stays on no old network unnoticed.
THEOREM InterfaceNeverStrays == Spec => []InterfaceFollowsNetvm
<1>1. Init => NetType /\ Linked
  BY DEF Init, NetType, Linked, is_running, GraphInv, ConfigOK
<1>2. GraphInv /\ GraphInv' /\ NetType /\ Linked /\ [Next]_vars => NetType' /\ Linked'
  BY NextLinks, NetworkAssumption DEF LinkInv
<1>3. NetType /\ Linked => InterfaceFollowsNetvm
  BY DEF Linked, InterfaceFollowsNetvm, is_running
<1> QED BY <1>1, <1>2, <1>3, GraphSafe, PTL DEF Spec

--------------------------------------------------------------------------
(* What the other side has to know: of q, if n is its netvm and up.        *)
ServedType ==
    /\ connected_ips \in [Qubes -> SUBSET Qubes]
    /\ rules \in [Qubes -> SUBSET Qubes]
    /\ serving \in [Qubes -> SUBSET Qubes]
    /\ \A q \in unpaused : q \in Qubes /\ HasQdb(q)

Client(q, n) == q \in listed \ slipped /\ n = Netvm(q) /\ n # NoQube /\ HasQdb(n)
                /\ provides_network[n]

(* UplinkPresent for qubes that are paused as well.                        *)
Uplinked ==
    \A q \in Qubes, n \in Qubes :
        /\ Client(q, n) /\ is_running(q) /\ deferred[q] = Absent
        /\ n \notin starting /\ q \notin serving[n]
        => eth[q] = n

(* libvirt gave a domain that is not resumed yet its interface.            *)
Fresh ==
    \A q \in Qubes : q \in listed \ slipped /\ power[q] = "Created" /\ deferred[q] = Absent
                      => eth[q] = Netvm(q)

(* The netvm has the address from domain-pre-spawn on, the rules from      *)
(* domain-start on.                                                        *)
Known == \A q \in Qubes, n \in Qubes :
             Client(q, n) /\ power[q] # "Off" => q \in connected_ips[n]
Ruled == \A q \in Qubes, n \in Qubes :
             Client(q, n) /\ HasQdb(q) /\ q \notin starting /\ deferred[q] = Absent
                 => q \in rules[n]

ServedInv == ServedType /\ Uplinked /\ Fresh /\ Known /\ Ruled
AllInv == LinkInv /\ ServedInv

LEMMA ListedAreQubes == ASSUME AllInv PROVE listed \subseteq Qubes
BY DEF AllInv, LinkInv, GraphInv, ConfigOK

LEMMA ReloadType ==
    ASSUME AllInv, NEW N, NEW f \in [Qubes -> SUBSET Qubes]
    PROVE  reload_connected_ips(N, f) \in [Qubes -> SUBSET Qubes]
BY DEF reload_connected_ips, AllInv, ServedInv, ServedType

LEMMA RulesType ==
    ASSUME AllInv, NEW A \in SUBSET Qubes, NEW old, NEW v
    PROVE  RulesOf(A, old, v) \in [Qubes -> SUBSET Qubes]
BY DEF RulesOf, AllInv, ServedInv, ServedType

\* Steps after which no netvm owes its clients more than before.
LEMMA NoMoreOwed ==
    ASSUME AllInv, ServedType',
           \A q \in Qubes : q \in listed' \ slipped' /\ power'[q] # "Off" =>
               /\ q \in listed \ slipped /\ power[q] # "Off" /\ Netvm(q)' = Netvm(q)
               /\ is_running(q)' /\ deferred'[q] = Absent
                    => is_running(q) /\ deferred[q] = Absent
               /\ power'[q] = "Created" => power[q] = "Created"
                                           /\ (deferred'[q] = Absent => eth'[q] = eth[q])
               /\ HasQdb(q)' => HasQdb(q)
               /\ q \in starting => q \in starting',
           \A q \in Qubes, n \in Qubes : Client(q, n)' /\ power'[q] # "Off" =>
               /\ Client(q, n)
               /\ is_running(q)' /\ deferred'[q] = Absent => eth'[q] = eth[q]
               /\ n \in starting => n \in starting'
               /\ q \in serving[n] => q \in serving'[n]
               /\ q \in connected_ips[n] => q \in connected_ips'[n]
               /\ q \in rules[n] => q \in rules'[n]
    PROVE  ServedInv'
<1>1. \A q \in Qubes, n \in Qubes : Client(q, n)' => q \in listed' \ slipped'
  BY DEF Client
<1>2. \A q \in Qubes : is_running(q)' \/ HasQdb(q)' => power'[q] # "Off"
  BY DEF is_running, HasQdb
<1>3. Uplinked' BY <1>1, <1>2 DEF AllInv, ServedInv, Uplinked
<1>4. Fresh' BY <1>2 DEF AllInv, ServedInv, Fresh, is_running
<1>5. Known' BY <1>1 DEF AllInv, ServedInv, Known
<1>6. Ruled'
  <2> SUFFICES ASSUME NEW q \in Qubes, NEW n \in Qubes, Client(q, n)', HasQdb(q)',
                      q \notin starting', deferred'[q] = Absent
               PROVE  q \in rules'[n]
    BY DEF Ruled
  <2>1. is_running(q)' BY DEF is_running, HasQdb
  <2> QED BY <1>1, <1>2, <2>1 DEF AllInv, ServedInv, Ruled
<1> QED BY <1>3, <1>4, <1>5, <1>6 DEF ServedInv

\* After a netvm is set, of the qubes of D, to v: what the handlers leave of
\* the qubes of D that are not marked.
LEMMA Handled ==
    ASSUME AllInv, NetworkAssumption, NEW D \in SUBSET Qubes, NEW A \in SUBSET D,
           NEW old, NEW v \in Qubes \cup {NoQube}, NEW q \in D,
           power[q] = "Off" \/ ~Breaks(old),
           power[q] = "Running" => q \in A /\ ~LeavesInterface(q)
    PROVE  /\ is_running(q) /\ DeferredPreSet(D)[q] = Absent =>
                /\ power[q] = "Running"
                /\ v # NoQube /\ HasQdb(v) => Interfaces(D, A, old, v)[q] = v
           /\ /\ HasQdb(q) /\ DeferredPreSet(D)[q] = Absent
              /\ v # NoQube /\ HasQdb(v)
              => q \in RulesOf(A, old, v)[v]
<1>1. is_running(q) /\ DeferredPreSet(D)[q] = Absent => power[q] = "Running"
  BY Noted DEF AllInv, is_running, is_paused
<1>2. ASSUME power[q] = "Running", v # NoQube, HasQdb(v)
      PROVE  Interfaces(D, A, old, v)[q] = v /\ q \in RulesOf(A, old, v)[v]
  <2>1. ~Breaks(v) /\ ~Breaks(old) BY <1>2 DEF Breaks, HasQdb
  <2>2. Attaches(q, old, v) /\ ~SetRaises(q, old, v)
    BY <1>2, <2>1 DEF Attaches, Reached, SetRaises
  <2> QED BY <1>2, <2>2 DEF Interfaces, RulesOf, is_running
<1> QED BY <1>1, <1>2 DEF HasQdb, is_running

LEMMA StoreNetvmServed ==
    ASSUME AllInv, NetworkAssumption, NEW q \in Qubes, NEW v \in Qubes \cup {NoQube},
           NEW stored \in {v, Default}, stored = Default => v = default_netvm,
           NEW A \in SUBSET {q}, StoreNetvm(q, stored, v, A)
    PROVE  ServedInv'
<1> DEFINE old == Netvm(q)
           clients == [n \in Qubes |-> (connected_vms(n) \ {q}) \cup (IF n = v THEN {q} ELSE {})]
<1>1. /\ UNCHANGED <<listed, provides_network, default_netvm, power, starting, serving, unpaused>>
      /\ netvm' = [netvm EXCEPT ![q] = stored]
      /\ eth' = Interfaces({q}, A, old, v)
      /\ deferred' = DeferredPreSet({q})
      /\ rules' = RulesOf(A, old, v)
      /\ connected_ips' = reload_connected_ips(IF Breaks(old) THEN {} ELSE {old, v}, clients)
      /\ slipped' = IF LeavesInterface(q) \/ (power[q] # "Off" /\ Breaks(old)) \/ A = {}
                    THEN slipped \cup {q} ELSE slipped
  BY DEF StoreNetvm, Stays, tasks
<1>2. Netvm(q)' = v /\ \A c \in Qubes \ {q} : Netvm(c)' = Netvm(c)
  BY <1>1, NetworkAssumption DEF Netvm, AllInv, LinkInv, GraphInv, ConfigOK, NetworkAssumption
<1>3. ServedType'
  <2>1. clients \in [Qubes -> SUBSET Qubes] BY ListedAreQubes DEF connected_vms
  <2> QED BY <1>1, <2>1, ReloadType, RulesType DEF AllInv, ServedInv, ServedType, HasQdb
<1>4. \A c \in Qubes \ {q} : eth'[c] = eth[c] /\ deferred'[c] = deferred[c]
  BY <1>1 DEF Interfaces, EthPreSet, DeferredPreSet
<1>5. \A c \in Qubes \ {q}, n \in Qubes : Client(c, n)' =>
         /\ Client(c, n)
         /\ c \in connected_ips[n] => c \in connected_ips'[n]
         /\ c \in rules[n] => c \in rules'[n]
  <2> SUFFICES ASSUME NEW c \in Qubes \ {q}, NEW n \in Qubes, Client(c, n)'
               PROVE  /\ Client(c, n)
                      /\ c \in connected_ips[n] => c \in connected_ips'[n]
                      /\ c \in rules[n] => c \in rules'[n]
    OBVIOUS
  <2>1. Client(c, n) BY <1>1, <1>2 DEF Client, HasQdb
  <2>2. c \in clients[n] BY <2>1 DEF Client, connected_vms
  <2> HIDE DEF clients
  <2> QED BY <1>1, <2>1, <2>2 DEF reload_connected_ips, RulesOf
<1>6. \A n \in Qubes : Client(q, n)' /\ power[q] # "Off" =>
         /\ v = n /\ HasQdb(v) /\ ~LeavesInterface(q) /\ ~Breaks(old) /\ A = {q}
         /\ q \in connected_ips'[v]
  <2> SUFFICES ASSUME NEW n \in Qubes, Client(q, n)', power[q] # "Off"
               PROVE  /\ v = n /\ HasQdb(v) /\ ~LeavesInterface(q) /\ ~Breaks(old)
                      /\ A = {q}
                      /\ q \in connected_ips'[v]
    OBVIOUS
  <2>1. v = n /\ HasQdb(v) /\ ~LeavesInterface(q) /\ ~Breaks(old) /\ A = {q}
    BY <1>1, <1>2 DEF Client, HasQdb
  <2>2. v \in Qubes /\ q \in clients[v] BY <2>1
  <2> HIDE DEF clients
  <2> QED BY <1>1, <2>1, <2>2 DEF reload_connected_ips
<1>7. \A n \in Qubes : Client(q, n)' =>
         /\ is_running(q) /\ deferred'[q] = Absent => power[q] = "Running" /\ eth'[q] = n
         /\ HasQdb(q) /\ deferred'[q] = Absent => q \in rules'[n]
  <2> SUFFICES ASSUME NEW n \in Qubes, Client(q, n)', power[q] # "Off"
               PROVE  /\ is_running(q) /\ deferred'[q] = Absent
                           => power[q] = "Running" /\ eth'[q] = n
                      /\ HasQdb(q) /\ deferred'[q] = Absent => q \in rules'[n]
    BY DEF is_running, HasQdb
  <2>1. v = n /\ HasQdb(v) /\ v # NoQube /\ ~LeavesInterface(q) /\ ~Breaks(old) /\ A = {q}
    BY <1>6, NetworkAssumption DEF NetworkAssumption
  <2> HIDE DEF old
  <2> QED BY <1>1, <2>1, Handled
<1>8. Uplinked'
  <2> SUFFICES ASSUME NEW c \in Qubes, NEW n \in Qubes, Client(c, n)', is_running(c)',
                      deferred'[c] = Absent, n \notin starting', c \notin serving'[n]
               PROVE  eth'[c] = n
    BY DEF Uplinked
  <2>1. is_running(c) /\ n \notin starting /\ c \notin serving[n]
    BY <1>1 DEF is_running
  <2> HIDE DEF old, clients
  <2>2. CASE c = q BY <1>7, <2>1, <2>2
  <2>3. CASE c # q
    <3>1. Client(c, n) /\ eth'[c] = eth[c] /\ deferred[c] = Absent BY <1>4, <1>5, <2>3
    <3> QED BY <2>1, <3>1 DEF AllInv, ServedInv, Uplinked
  <2> QED BY <2>2, <2>3
<1>9. Fresh'
  <2> SUFFICES ASSUME NEW c \in Qubes, c \in listed \ slipped', power[c] = "Created",
                      deferred'[c] = Absent
               PROVE  eth'[c] = Netvm(c)'
    BY <1>1 DEF Fresh
  <2>1. c \notin slipped BY <1>1
  <2>2. c # q BY <1>1, Noted DEF is_paused, AllInv
  <2> QED BY <1>2, <1>4, <2>1, <2>2 DEF AllInv, ServedInv, Fresh
<1>10. Known' BY <1>1, <1>5, <1>6 DEF AllInv, ServedInv, Known
<1>11. Ruled' BY <1>1, <1>4, <1>5, <1>7 DEF AllInv, ServedInv, Ruled, HasQdb
<1> QED BY <1>3, <1>8, <1>9, <1>10, <1>11 DEF ServedInv

LEMMA SetDefaultServed ==
    ASSUME AllInv, NetworkAssumption, NEW v \in Qubes \cup {NoQube}, NEW A \in SUBSET ByDefault,
           SetDefault(v, A)
    PROVE  ServedInv'
<1> DEFINE old == default_netvm
           D == ByDefault
           clients == [n \in Qubes |-> (connected_vms(n) \ D) \cup (IF n = v THEN D ELSE {})]
<1>1. /\ UNCHANGED <<listed, netvm, provides_network, power, starting, serving, unpaused>>
      /\ default_netvm' = v /\ A \subseteq D
      /\ deferred' = DeferredPreSet(D)
      /\ slipped' = slipped \cup {q \in D :
           \/ power[q] = "Running" /\ (v = old \/ q \notin A \/ LeavesInterface(q))
           \/ power[q] # "Off" /\ Breaks(old)}
  BY DEF SetDefault, Stays, tasks
<1>2. CASE v = old
  <2>1. eth' = EthPreSet(D) /\ UNCHANGED <<connected_ips, rules>>
    BY <1>2 DEF SetDefault
  <2>2. ServedType' BY <1>1, <2>1 DEF AllInv, ServedInv, ServedType, HasQdb
  <2>3. \A c : Netvm(c)' = Netvm(c) BY <1>1, <1>2 DEF Netvm
  <2>4. \A c \in Qubes : c \notin slipped' /\ deferred'[c] = Absent =>
           c \notin slipped /\ deferred[c] = Absent /\ (is_running(c) => eth'[c] = eth[c])
    BY <1>1, <1>2, <2>1, Noted
    DEF EthPreSet, DeferredPreSet, Detaches, is_running, is_paused, AllInv
  <2>5. \A c \in Qubes, n \in Qubes : Client(c, n)' => Client(c, n) /\ c \notin slipped'
    BY <1>1, <2>3 DEF Client, HasQdb
  <2>6. Uplinked' BY <1>1, <2>4, <2>5 DEF AllInv, ServedInv, Uplinked, is_running
  <2>7. Fresh' BY <1>1, <2>3, <2>4 DEF AllInv, ServedInv, Fresh, is_running
  <2>8. Known' BY <1>1, <2>1, <2>5 DEF AllInv, ServedInv, Known
  <2>9. Ruled' BY <1>1, <2>1, <2>4, <2>5 DEF AllInv, ServedInv, Ruled, HasQdb
  <2> QED BY <2>2, <2>6, <2>7, <2>8, <2>9 DEF ServedInv
<1>3. CASE v # old
  <2>1. /\ eth' = Interfaces(D, A, old, v)
        /\ rules' = RulesOf(A, old, v)
        /\ connected_ips' = reload_connected_ips(
               IF D = {} \/ Breaks(old) THEN {} ELSE {old, v}, clients)
    BY <1>3 DEF SetDefault
  <2>2. D \subseteq Qubes /\ A \subseteq Qubes BY ListedAreQubes DEF ByDefault
  <2>3. ServedType'
    <3>1. clients \in [Qubes -> SUBSET Qubes] BY <2>2, ListedAreQubes DEF connected_vms
    <3> HIDE DEF clients, D
    <3> QED BY <1>1, <2>1, <2>2, <3>1, ReloadType, RulesType
        DEF AllInv, ServedInv, ServedType, HasQdb
  <2>4. \A c \in D : Netvm(c)' = v BY <1>1 DEF Netvm, ByDefault
  <2>5. \A c \in listed \ D : Netvm(c)' = Netvm(c) BY <1>1 DEF Netvm, ByDefault
  <2>6. \A c \in Qubes \ D : eth'[c] = eth[c] /\ deferred'[c] = deferred[c]
    BY <1>1, <2>1 DEF Interfaces, EthPreSet, DeferredPreSet
  <2>7. \A c \in Qubes \ D, n \in Qubes : Client(c, n)' =>
           /\ Client(c, n)
           /\ c \in connected_ips[n] => c \in connected_ips'[n]
           /\ c \in rules[n] => c \in rules'[n]
    <3> SUFFICES ASSUME NEW c \in Qubes \ D, NEW n \in Qubes, Client(c, n)'
                 PROVE  /\ Client(c, n)
                        /\ c \in connected_ips[n] => c \in connected_ips'[n]
                        /\ c \in rules[n] => c \in rules'[n]
      OBVIOUS
    <3>1. Client(c, n) BY <1>1, <2>5 DEF Client, HasQdb
    <3>2. c \in clients[n] BY <3>1 DEF Client, connected_vms
    <3> HIDE DEF clients, D
    <3> QED BY <2>1, <3>1, <3>2 DEF reload_connected_ips, RulesOf
  <2>8. \A q \in D, n \in Qubes : Client(q, n)' /\ power[q] # "Off" =>
           /\ v = n /\ HasQdb(v) /\ ~Breaks(old)
           /\ power[q] = "Running" => q \in A /\ ~LeavesInterface(q)
           /\ q \in connected_ips'[v]
    <3> SUFFICES ASSUME NEW q \in D, NEW n \in Qubes, Client(q, n)', power[q] # "Off"
                 PROVE  /\ v = n /\ HasQdb(v) /\ ~Breaks(old)
                        /\ power[q] = "Running" => q \in A /\ ~LeavesInterface(q)
                        /\ q \in connected_ips'[v]
      OBVIOUS
    <3>1. /\ v = n /\ HasQdb(v) /\ ~Breaks(old)
          /\ power[q] = "Running" => q \in A /\ ~LeavesInterface(q)
      BY <1>1, <2>4 DEF Client, HasQdb
    <3>2. v \in Qubes /\ q \in clients[v] /\ D # {} BY <3>1
    <3> HIDE DEF clients, D
    <3> QED BY <2>1, <3>1, <3>2 DEF reload_connected_ips
  <2>9. \A q \in D, n \in Qubes : Client(q, n)' =>
           /\ is_running(q) /\ deferred'[q] = Absent => power[q] = "Running" /\ eth'[q] = n
           /\ HasQdb(q) /\ deferred'[q] = Absent => q \in rules'[n]
    <3> SUFFICES ASSUME NEW q \in D, NEW n \in Qubes, Client(q, n)', power[q] # "Off"
                 PROVE  /\ is_running(q) /\ deferred'[q] = Absent
                             => power[q] = "Running" /\ eth'[q] = n
                        /\ HasQdb(q) /\ deferred'[q] = Absent => q \in rules'[n]
      BY DEF is_running, HasQdb
    <3>1. /\ v = n /\ HasQdb(v) /\ v # NoQube /\ ~Breaks(old)
          /\ power[q] = "Running" => q \in A /\ ~LeavesInterface(q)
      BY <2>8, NetworkAssumption DEF NetworkAssumption
    <3> HIDE DEF D, old
    <3> QED BY <1>1, <2>1, <2>2, <3>1, Handled
  <2> HIDE DEF D, clients
  <2>10. Uplinked'
    BY <1>1, <2>2, <2>6, <2>7, <2>9 DEF AllInv, ServedInv, Uplinked, is_running
  <2>11. Fresh'
    <3> SUFFICES ASSUME NEW c \in Qubes, c \in listed \ slipped', power[c] = "Created",
                        deferred'[c] = Absent
                 PROVE  eth'[c] = Netvm(c)'
      BY <1>1 DEF Fresh
    <3>1. c \notin slipped BY <1>1
    <3>2. c \notin D BY <1>1, <3>1, Noted DEF is_paused, AllInv
    <3> QED BY <2>5, <2>6, <3>1, <3>2 DEF AllInv, ServedInv, Fresh
  <2>12. Known' BY <1>1, <2>7, <2>8 DEF AllInv, ServedInv, Known
  <2>13. Ruled' BY <1>1, <2>6, <2>7, <2>9 DEF AllInv, ServedInv, Ruled, HasQdb
  <2> QED BY <2>3, <2>10, <2>11, <2>12, <2>13 DEF ServedInv
<1> QED BY <1>2, <1>3

LEMMA SetDefaultFailsServed ==
    ASSUME AllInv, NetworkAssumption, NEW v \in Qubes \cup {NoQube}, NEW A \in SUBSET Qubes,
           SetDefaultFails(v, A)
    PROVE  ServedInv'
<1>1. /\ UNCHANGED <<listed, netvm, provides_network, default_netvm, power, tasks,
                    connected_ips, rules>>
      /\ deferred' = DeferredPreSet(A) /\ eth' = EthPreSet(A)
      /\ slipped' = slipped \cup {q \in A : Detaches(q)}
  BY DEF SetDefaultFails, Stays
<1>2. ServedType' BY <1>1 DEF tasks, AllInv, ServedInv, ServedType, HasQdb
<1>3. \A q \in Qubes : q \notin slipped' => eth'[q] = eth[q]
  BY <1>1 DEF EthPreSet, AllInv, LinkInv, NetType
<1>4. \A q \in Qubes : deferred'[q] = Absent => deferred[q] = Absent
  BY <1>1, Noted DEF DeferredPreSet, AllInv
<1>5. \A q \in Qubes : Netvm(q)' = Netvm(q) BY <1>1 DEF Netvm
<1>6. \A q \in Qubes, n \in Qubes : Client(q, n)' => Client(q, n) /\ q \notin slipped'
  BY <1>1, <1>5 DEF Client, HasQdb
<1> QED BY <1>1, <1>2, <1>3, <1>4, <1>5, <1>6, NoMoreOwed DEF tasks, is_running, HasQdb

LEMMA CollectionServed ==
    ASSUME AllInv, NetworkAssumption, NEW q \in Qubes,
           \/ AddQube(q) \/ RemoveQube(q) \/ ResetDefault \/ ResetProvides(q)
           \/ \E b \in BOOLEAN : SetProvides(q, b)
    PROVE  ServedInv'
<1>1. CASE AddQube(q)
  <2>1. /\ UNCHANGED <<power, default_netvm, eth, tasks, connected_ips, rules, slipped>>
        /\ listed' = listed \cup {q} /\ power[q] = "Off"
        /\ \A c \in Qubes \ {q} : /\ netvm'[c] = netvm[c] /\ deferred'[c] = deferred[c]
                                 /\ provides_network'[c] = provides_network[c]
        /\ provides_network'[q] = FALSE
    BY <1>1 DEF AddQube, Stays, AllInv, LinkInv, GraphInv, ConfigOK, NetType
  <2>2. ServedType' BY <2>1 DEF tasks, AllInv, ServedInv, ServedType, HasQdb
  <2>3. \A c \in Qubes \ {q} : Netvm(c)' = Netvm(c) BY <2>1 DEF Netvm
  <2>4. \A c \in Qubes, n \in Qubes : Client(c, n)' /\ power'[c] # "Off" => Client(c, n)
    BY <2>1, <2>3 DEF Client, HasQdb
  <2> QED BY <2>1, <2>2, <2>3, <2>4, NoMoreOwed DEF tasks, is_running, HasQdb
<1>2. CASE RemoveQube(q)
  <2>1. /\ UNCHANGED <<netvm, provides_network, default_netvm, power, eth, deferred, unpaused,
                       starting, serving, connected_ips, rules, slipped>>
        /\ listed' \subseteq listed
    BY <1>2 DEF RemoveQube
  <2>2. ServedType' BY <2>1 DEF AllInv, ServedInv, ServedType, HasQdb
  <2>3. \A c \in Qubes : Netvm(c)' = Netvm(c) BY <2>1 DEF Netvm
  <2>4. \A c \in Qubes, n \in Qubes : Client(c, n)' => Client(c, n)
    BY <2>1, <2>3 DEF Client, HasQdb
  <2> QED BY <2>1, <2>2, <2>3, <2>4, NoMoreOwed DEF is_running, HasQdb
<1>3. CASE ResetDefault
  <2>1. /\ UNCHANGED <<listed, netvm, provides_network, power, eth, deferred, tasks,
                       connected_ips, rules>>
        /\ slipped' = slipped \cup {c \in ByDefault : power[c] # "Off"}
    BY <1>3 DEF ResetDefault, Stays
  <2>2. ServedType' BY <2>1 DEF tasks, AllInv, ServedInv, ServedType, HasQdb
  <2>3. \A c \in listed \ slipped' : power[c] # "Off" => c \notin slipped /\ Netvm(c)' = Netvm(c)
    BY <2>1 DEF Netvm, ByDefault
  <2>4. \A c \in Qubes, n \in Qubes : Client(c, n)' /\ power'[c] # "Off" => Client(c, n)
    BY <2>1, <2>3 DEF Client, HasQdb
  <2> QED BY <2>1, <2>2, <2>3, <2>4, NoMoreOwed DEF tasks, is_running, HasQdb
<1>4. ASSUME NEW b \in BOOLEAN, SetProvides(q, b) PROVE ServedInv'
  <2>1. /\ UNCHANGED <<listed, netvm, default_netvm, power, eth, deferred, tasks,
                       connected_ips, rules>>
        /\ provides_network' = [provides_network EXCEPT ![q] = b]
        /\ slipped' = slipped \cup {c \in connected_vms(q) : power[c] # "Off"}
    BY <1>4 DEF SetProvides, Stays
  <2>2. ServedType' BY <2>1 DEF tasks, AllInv, ServedInv, ServedType, HasQdb
  <2>3. \A c \in Qubes : Netvm(c)' = Netvm(c) BY <2>1 DEF Netvm
  <2>4. \A c \in Qubes, n \in Qubes : Client(c, n)' /\ power[c] # "Off" => Client(c, n)
    BY <2>1, <2>3 DEF Client, HasQdb, connected_vms, AllInv, LinkInv, GraphInv, ConfigOK
  <2> QED BY <2>1, <2>2, <2>3, <2>4, NoMoreOwed DEF tasks, is_running, HasQdb
<1>5. CASE ResetProvides(q)
  <2>1. /\ UNCHANGED <<listed, netvm, default_netvm, power, eth, deferred, tasks,
                       connected_ips, rules, slipped>>
        /\ provides_network' = [provides_network EXCEPT ![q] = FALSE]
    BY <1>5 DEF ResetProvides, Stays
  <2>2. ServedType' BY <2>1 DEF tasks, AllInv, ServedInv, ServedType, HasQdb
  <2>3. \A c \in Qubes : Netvm(c)' = Netvm(c) BY <2>1 DEF Netvm
  <2>4. \A c \in Qubes, n \in Qubes : Client(c, n)' => Client(c, n)
    BY <2>1, <2>3 DEF Client, HasQdb, AllInv, LinkInv, GraphInv, ConfigOK
  <2> QED BY <2>1, <2>2, <2>3, <2>4, NoMoreOwed DEF tasks, is_running, HasQdb
<1> QED BY <1>1, <1>2, <1>3, <1>4, <1>5

LEMMA PowerServed ==
    ASSUME AllInv, NetworkAssumption, NEW q \in Qubes,
           \/ PreSpawn(q) \/ Create(q) \/ SpawnFails(q) \/ Activate(q)
           \/ OnStarted(q) \/ Pause(q) \/ Unpause(q) \/ Stop(q)
    PROVE  ServedInv'
<1>1. CASE SpawnFails(q) \/ Pause(q) \/ Unpause(q)
  <2>1. /\ UNCHANGED <<config, eth, deferred, connected_ips, rules, starting, serving>>
        /\ slipped' = slipped \/ (slipped' = slipped \ {q} /\ power'[q] = "Off")
        /\ unpaused' = unpaused \/ (unpaused' = unpaused \cup {q} /\ power'[q] = "Running")
        /\ \A c \in Qubes : power'[c] = power[c] \/ (c = q /\ power'[q] = "Off")
                            \/ (HasQdb(c) /\ HasQdb(c)')
    BY <1>1 DEF SpawnFails, Pause, Unpause, tasks, HasQdb, AllInv, LinkInv, NetType
  <2>2. ServedType'
    BY <1>1, <2>1 DEF SpawnFails, Pause, Unpause, tasks, AllInv, ServedInv, ServedType, HasQdb,
                      LinkInv, NetType
  <2>3. \A c \in Qubes : Netvm(c)' = Netvm(c) BY <2>1 DEF config, Netvm
  <2>4. \A c \in Qubes : power'[c] # "Off" =>
           /\ power[c] # "Off" /\ (c \notin slipped' => c \notin slipped)
           /\ is_running(c)' => is_running(c)
           /\ power'[c] = "Created" => power[c] = "Created"
           /\ HasQdb(c)' => HasQdb(c)
    BY <2>1 DEF HasQdb, is_running
  <2>5. \A c \in Qubes, n \in Qubes : Client(c, n)' /\ power'[c] # "Off" => Client(c, n)
    <3>1. \A n \in Qubes : HasQdb(n)' => HasQdb(n) BY <2>4 DEF HasQdb
    <3> QED BY <2>1, <2>3, <2>4, <3>1 DEF Client, config
  <2> QED BY <2>1, <2>2, <2>3, <2>4, <2>5, NoMoreOwed DEF config
<1>2. CASE Stop(q)
  <2>1. /\ UNCHANGED config /\ slipped' = slipped \ {q} /\ power'[q] = "Off"
        /\ deferred' = deferred /\ unpaused' = unpaused \ {q} /\ starting' = starting \ {q}
        /\ \A c \in Qubes \ {q} :
              /\ power'[c] = power[c] /\ eth'[c] = eth[c] /\ serving'[c] = serving[c]
              /\ connected_ips'[c] = connected_ips[c] /\ rules'[c] = rules[c]
    BY <1>2 DEF Stop, AllInv, LinkInv, NetType, ServedInv, ServedType
  <2>2. ServedType'
    BY <1>2 DEF Stop, AllInv, ServedInv, ServedType, HasQdb, LinkInv, NetType
  <2>3. \A c \in Qubes : Netvm(c)' = Netvm(c) BY <2>1 DEF config, Netvm
  <2>4. \A c \in Qubes, n \in Qubes : Client(c, n)' /\ power'[c] # "Off" =>
           Client(c, n) /\ n # q /\ c # q
    <3>1. ~HasQdb(q)' BY <2>1 DEF HasQdb
    <3>2. \A n \in Qubes \ {q} : HasQdb(n)' => HasQdb(n) BY <2>1 DEF HasQdb
    <3> QED BY <2>1, <2>3, <3>1, <3>2 DEF Client, config
  <2> QED BY <2>1, <2>2, <2>3, <2>4, NoMoreOwed DEF config, is_running, HasQdb
<1>3. CASE PreSpawn(q)
  <2> DEFINE clients == [n \in Qubes |-> connected_vms(n)]
  <2>1. /\ UNCHANGED <<config, eth, deferred, tasks, slipped>> /\ q \in listed
        /\ power' = [power EXCEPT ![q] = "Spawning"] /\ power[q] = "Off"
        /\ connected_ips' = reload_connected_ips({Netvm(q)}, clients)
        /\ rules' = [n \in Qubes |-> IF n = Netvm(q) THEN rules[n] \cup {q} ELSE rules[n]]
    BY <1>3 DEF PreSpawn
  <2>2. ServedType'
    <3>1. clients \in [Qubes -> SUBSET Qubes] BY ListedAreQubes DEF connected_vms
    <3>2. \A c \in Qubes : HasQdb(c) => power'[c] = power[c]
      BY <2>1 DEF HasQdb, AllInv, LinkInv, NetType
    <3> HIDE DEF clients
    <3> QED BY <2>1, <3>1, <3>2, ReloadType DEF tasks, AllInv, ServedInv, ServedType, HasQdb
  <2>3. \A c \in Qubes : Netvm(c)' = Netvm(c) BY <2>1 DEF config, Netvm
  <2>4. \A n \in Qubes : HasQdb(n)' <=> HasQdb(n)
    BY <2>1 DEF HasQdb, AllInv, LinkInv, NetType
  <2>5. \A c \in Qubes, n \in Qubes : Client(c, n)' =>
           /\ Client(c, n)
           /\ c = q \/ c \in connected_ips[n] => c \in connected_ips'[n]
           /\ c \in rules[n] => c \in rules'[n]
    <3> SUFFICES ASSUME NEW c \in Qubes, NEW n \in Qubes, Client(c, n)'
                 PROVE  /\ Client(c, n)
                        /\ c = q \/ c \in connected_ips[n] => c \in connected_ips'[n]
                        /\ c \in rules[n] => c \in rules'[n]
      OBVIOUS
    <3>1. Client(c, n) BY <2>1, <2>3, <2>4 DEF Client, config
    <3>2. c \in clients[n] BY <3>1 DEF Client, connected_vms
    <3>3. c = q => n = Netvm(q) /\ HasQdb(n) BY <3>1 DEF Client
    <3> HIDE DEF clients
    <3> QED BY <2>1, <3>1, <3>2, <3>3 DEF reload_connected_ips
  <2>6. \A c \in Qubes : c # q => power'[c] = power[c]
    BY <2>1
  <2>7. power'[q] = "Spawning" BY <2>1 DEF AllInv, LinkInv, NetType
  <2>8. Uplinked'
    BY <2>1, <2>5, <2>6, <2>7 DEF tasks, AllInv, ServedInv, Uplinked, is_running
  <2>9. Fresh'
    BY <2>1, <2>3, <2>6, <2>7 DEF config, AllInv, ServedInv, Fresh
  <2>10. Known' BY <2>5, <2>6 DEF AllInv, ServedInv, Known
  <2>11. Ruled' BY <2>1, <2>4, <2>5 DEF tasks, AllInv, ServedInv, Ruled
  <2> QED BY <2>2, <2>8, <2>9, <2>10, <2>11 DEF ServedInv
<1>4. CASE Create(q)
  <2>1. /\ UNCHANGED <<config, deferred, connected_ips, rules, tasks, slipped>>
        /\ power[q] = "Spawning" /\ power'[q] = "Created" /\ eth'[q] = Netvm(q)
        /\ \A c \in Qubes \ {q} : power'[c] = power[c] /\ eth'[c] = eth[c]
    BY <1>4 DEF Create, AllInv, LinkInv, NetType
  <2>2. ServedType'
    BY <2>1 DEF tasks, AllInv, ServedInv, ServedType, HasQdb
  <2>3. \A c \in Qubes : Netvm(c)' = Netvm(c) BY <2>1 DEF config, Netvm
  <2>4. \A n \in Qubes : HasQdb(n)' <=> HasQdb(n) BY <2>1 DEF HasQdb
  <2>5. \A c \in Qubes, n \in Qubes : Client(c, n)' => Client(c, n) /\ n = Netvm(c)
    BY <2>1, <2>3, <2>4 DEF Client, config
  <2>6. Uplinked'
    BY <2>1, <2>5 DEF tasks, AllInv, ServedInv, Uplinked, is_running
  <2>7. Fresh' BY <2>1, <2>3 DEF config, AllInv, ServedInv, Fresh
  <2>8. Known' BY <2>1, <2>5 DEF AllInv, ServedInv, Known
  <2>9. Ruled' BY <2>1, <2>4, <2>5 DEF tasks, AllInv, ServedInv, Ruled
  <2> QED BY <2>2, <2>6, <2>7, <2>8, <2>9 DEF ServedInv
<1>5. CASE Activate(q)
  <2>1. /\ UNCHANGED <<config, eth, deferred, stopped, unpaused, serving, slipped>>
        /\ power[q] = "Created" /\ power' = [power EXCEPT ![q] = "Running"]
        /\ starting' = starting \cup {q}
    BY <1>5 DEF Activate
  <2>2. /\ connected_ips' \in [Qubes -> SUBSET Qubes] /\ rules' \in [Qubes -> SUBSET Qubes]
        /\ \A n \in Qubes \ {q} : connected_ips'[n] = connected_ips[n] /\ rules'[n] = rules[n]
        /\ provides_network[q] =>
              connected_ips'[q] = connected_vms(q)
              /\ rules'[q] = {c \in connected_vms(q) : is_running(c)}
    <3>1. connected_vms(q) \subseteq Qubes BY ListedAreQubes DEF connected_vms
    <3> QED BY <1>5, <3>1 DEF Activate, AllInv, ServedInv, ServedType
  <2>3. ServedType'
    BY <2>1, <2>2 DEF AllInv, ServedInv, ServedType, HasQdb, LinkInv, NetType
  <2>4. \A c \in Qubes : Netvm(c)' = Netvm(c) BY <2>1 DEF config, Netvm
  <2>5. \A c \in Qubes : /\ c # q => power'[c] = power[c]
                         /\ is_running(c)' <=> is_running(c)
    BY <2>1 DEF is_running, AllInv, LinkInv, NetType
  <2>6. \A c \in Qubes, n \in Qubes : Client(c, n)' =>
           /\ n # q => Client(c, n)
           /\ n = q => /\ c \in connected_ips'[n]
                       /\ is_running(c) => c \in rules'[n]
    BY <2>1, <2>2, <2>4, <2>5 DEF Client, config, connected_vms, HasQdb
  <2>7. Uplinked'
    BY <2>1, <2>5, <2>6 DEF AllInv, ServedInv, Uplinked
  <2>8. Fresh'
    <3>1. power'[q] # "Created" BY <2>1 DEF AllInv, LinkInv, NetType
    <3> QED BY <2>1, <2>4, <2>5, <3>1 DEF config, AllInv, ServedInv, Fresh
  <2>9. Known' BY <2>1, <2>2, <2>5, <2>6 DEF AllInv, ServedInv, Known
  <2>10. Ruled'
    BY <2>1, <2>2, <2>5, <2>6 DEF AllInv, ServedInv, Ruled, HasQdb, is_running
  <2> QED BY <2>3, <2>7, <2>8, <2>9, <2>10 DEF ServedInv
<1>6. CASE OnStarted(q)
  <2>1. /\ UNCHANGED <<config, power, eth, deferred, connected_ips, stopped, unpaused, slipped>>
        /\ starting' = starting \ {q}
        /\ rules' = [n \in Qubes |-> IF n = Netvm(q) /\ HasQdb(n)
                                     THEN rules[n] \cup {q} ELSE rules[n]]
        /\ serving' = [serving EXCEPT ![q] = IF provides_network[q] THEN listed \ {q} ELSE {}]
    BY <1>6 DEF OnStarted
  <2>2. ServedType'
    BY <2>1, ListedAreQubes DEF AllInv, ServedInv, ServedType, HasQdb
  <2>3. \A c \in Qubes : Netvm(c)' = Netvm(c) BY <2>1 DEF config, Netvm
  <2>4. \A c \in Qubes, n \in Qubes : Client(c, n)' => Client(c, n) /\ n = Netvm(c) /\ HasQdb(n)
    BY <2>1, <2>3 DEF Client, config, HasQdb
  <2>5. \A n \in Qubes, c \in Qubes : c \in rules[n] => c \in rules'[n] BY <2>1
  <2>6. \A c \in Qubes : Client(c, q) => c # q
    <3> SUFFICES ASSUME NEW c \in Qubes, Client(c, q), c = q PROVE FALSE
      OBVIOUS
    <3>1. q \in listed /\ q = Netvm(q) BY DEF Client
    <3>2. {q} \in SUBSET listed /\ {q} # {} BY <3>1
    <3>3. PICK d \in {q} : Netvm(d) \notin {q}
      BY <3>2 DEF AllInv, LinkInv, GraphInv, NoLoop
    <3> QED BY <3>1, <3>3
  <2>7. Uplinked'
    <3> SUFFICES ASSUME NEW c \in Qubes, NEW n \in Qubes, Client(c, n)', is_running(c)',
                        deferred'[c] = Absent, n \notin starting', c \notin serving'[n]
                 PROVE  eth'[c] = n
      BY DEF Uplinked
    <3>1. Client(c, n) /\ is_running(c) /\ deferred[c] = Absent
      BY <2>1, <2>4 DEF is_running
    <3>2. n # q
      BY <2>1, <2>6, <3>1 DEF Client, AllInv, ServedInv, ServedType
    <3> QED BY <2>1, <3>1, <3>2 DEF AllInv, ServedInv, ServedType, Uplinked
  <2>8. Fresh' BY <2>1, <2>3 DEF config, AllInv, ServedInv, Fresh
  <2>9. Known' BY <2>1, <2>4 DEF AllInv, ServedInv, Known
  <2>10. Ruled'
    <3> SUFFICES ASSUME NEW c \in Qubes, NEW n \in Qubes, Client(c, n)', HasQdb(c)',
                        c \notin starting', deferred'[c] = Absent
                 PROVE  c \in rules'[n]
      BY DEF Ruled
    <3>1. Client(c, n) /\ HasQdb(c) /\ deferred[c] = Absent BY <2>1, <2>4 DEF HasQdb
    <3>2. CASE c = q BY <2>1, <2>4, <3>2
    <3>3. CASE c # q BY <2>1, <2>5, <3>1, <3>3 DEF AllInv, ServedInv, Ruled
    <3> QED BY <3>2, <3>3
  <2> QED BY <2>2, <2>7, <2>8, <2>9, <2>10 DEF ServedInv
<1> QED BY <1>1, <1>2, <1>3, <1>4, <1>5, <1>6

\* A note that is applied to a running qube connects it; to one that is paused
\* again it is lost, which marks the qube.
LEMMA ApplyServed ==
    ASSUME AllInv, NetworkAssumption, NEW c \in Qubes, deferred[c] # Absent,
           NEW refused \in BOOLEAN, Apply(c, refused), power[c] # "Created",
           UNCHANGED <<config, power, starting>>, ServedType',
           \A n \in Qubes, d \in Qubes \ {c} : d \in serving[n] => d \in serving'[n]
    PROVE  ServedInv'
<1> DEFINE n == Netvm(c)
           old == IF deferred[c] \in listed THEN deferred[c] ELSE NoQube
           raises == /\ n # NoQube
                     /\ Breaks(old) \/ Breaks(n) \/ (refused /\ power[c] = "Running")
           clients == [m \in Qubes |-> connected_vms(m)]
<1>1. /\ eth' = [eth EXCEPT ![c] = IF power[c] # "Running" THEN eth[c]
                                  ELSE IF raises THEN NoQube ELSE n]
      /\ deferred' = [deferred EXCEPT ![c] = IF raises THEN deferred[c] ELSE Absent]
      /\ connected_ips' = reload_connected_ips(
             IF n = NoQube \/ Breaks(old) THEN {} ELSE {old, n}, clients)
      /\ rules' = [m \in Qubes |-> IF m = n /\ ~raises THEN rules[m] \cup {c} ELSE rules[m]]
      /\ slipped' = IF power[c] = "Running" \/ raises THEN slipped ELSE slipped \cup {c}
  BY DEF Apply
<1>2. \A d \in Qubes : Netvm(d)' = Netvm(d) BY DEF config, Netvm
<1>3. \A d \in Qubes \ {c} : eth'[d] = eth[d] /\ deferred'[d] = deferred[d]
  BY <1>1 DEF AllInv, LinkInv, NetType
<1>4. deferred'[c] = Absent /\ c \notin slipped' => eth'[c] = Netvm(c) /\ ~raises
  BY <1>1 DEF AllInv, LinkInv, NetType
<1>5. \A d \in Qubes, m \in Qubes : Client(d, m)' =>
         /\ Client(d, m) /\ m = Netvm(d)
         /\ d \in connected_ips[m] => d \in connected_ips'[m]
         /\ d \in rules[m] => d \in rules'[m]
  <2> SUFFICES ASSUME NEW d \in Qubes, NEW m \in Qubes, Client(d, m)'
               PROVE  /\ Client(d, m) /\ m = Netvm(d)
                      /\ d \in connected_ips[m] => d \in connected_ips'[m]
                      /\ d \in rules[m] => d \in rules'[m]
    OBVIOUS
  <2>1. Client(d, m) /\ m = Netvm(d) BY <1>1, <1>2 DEF Client, config, HasQdb
  <2>2. d \in clients[m] BY <2>1 DEF Client, connected_vms
  <2> HIDE DEF clients, raises, n, old
  <2> QED BY <1>1, <2>1, <2>2 DEF reload_connected_ips
<1>6. \A m \in Qubes : m = Netvm(c) /\ ~raises => c \in rules'[m] BY <1>1
<1> HIDE DEF raises
<1>7. Uplinked'
  BY <1>3, <1>4, <1>5 DEF config, AllInv, ServedInv, Uplinked, is_running, Client
<1>8. Fresh'
  <2>1. slipped \subseteq slipped' BY <1>1
  <2> QED BY <1>2, <1>3, <2>1 DEF config, AllInv, ServedInv, Fresh
<1>9. Known' BY <1>5 DEF AllInv, ServedInv, Known
<1>10. Ruled'
  BY <1>3, <1>4, <1>5, <1>6 DEF AllInv, ServedInv, Ruled, HasQdb, Client
<1> QED BY <1>7, <1>8, <1>9, <1>10 DEF ServedInv

LEMMA ApplyOrFailServed ==
    ASSUME AllInv, NetworkAssumption, NEW c \in Qubes, deferred[c] # Absent, ApplyOrFail(c),
           power[c] # "Created", UNCHANGED <<config, power, starting>>,
           serving' \in [Qubes -> SUBSET Qubes], unpaused' \subseteq unpaused,
           \A n \in Qubes, d \in Qubes \ {c} : d \in serving[n] => d \in serving'[n]
    PROVE  ServedInv'
<1>1. ASSUME NEW refused \in BOOLEAN, Apply(c, refused) PROVE ServedInv'
  <2>1. ServedType'
    <3>1. [m \in Qubes |-> connected_vms(m)] \in [Qubes -> SUBSET Qubes]
      BY ListedAreQubes DEF connected_vms
    <3>2. connected_ips' \in [Qubes -> SUBSET Qubes] BY <1>1, <3>1, ReloadType DEF Apply
    <3>3. rules' \in [Qubes -> SUBSET Qubes]
      BY <1>1 DEF Apply, AllInv, ServedInv, ServedType
    <3> QED BY <3>2, <3>3 DEF AllInv, ServedInv, ServedType, HasQdb
  <2> QED BY <1>1, <2>1, ApplyServed
<1>2. CASE DetachFails(c)
  <2>1. UNCHANGED <<eth, deferred, connected_ips, rules, slipped>> BY <1>2 DEF DetachFails
  <2>2. ServedType' BY <2>1 DEF AllInv, ServedInv, ServedType, HasQdb
  <2>3. \A d \in Qubes : Netvm(d)' = Netvm(d) BY DEF config, Netvm
  <2>4. \A d \in Qubes, n \in Qubes : Client(d, n)' => Client(d, n)
    BY <2>1, <2>3 DEF Client, config, HasQdb
  <2>5. Uplinked'
    BY <2>1, <2>4 DEF AllInv, ServedInv, Uplinked, is_running
  <2>6. Fresh' BY <2>1, <2>3 DEF config, AllInv, ServedInv, Fresh
  <2>7. Known' BY <2>1, <2>4 DEF AllInv, ServedInv, Known
  <2>8. Ruled' BY <2>1, <2>4 DEF AllInv, ServedInv, Ruled, HasQdb
  <2> QED BY <2>2, <2>5, <2>6, <2>7, <2>8 DEF ServedInv
<1> QED BY <1>1, <1>2 DEF ApplyOrFail

LEMMA HandlerServed ==
    ASSUME AllInv, NetworkAssumption, NEW q \in Qubes,
           OnUnpaused(q) \/ OnShutdown(q) \/ \E c \in Qubes : Serve(q, c)
    PROVE  ServedInv'
<1>1. CASE OnUnpaused(q)
  <2>1. UNCHANGED <<config, power, stopped, starting, serving>> /\ q \in unpaused
        /\ unpaused' = unpaused \ {q}
    BY <1>1 DEF OnUnpaused
  <2>2. CASE Applies(q)
    <3>1. ApplyOrFail(q) /\ deferred[q] # Absent BY <1>1, <2>2 DEF OnUnpaused, Applies
    <3>2. power[q] # "Created" BY <2>1 DEF AllInv, ServedInv, ServedType, HasQdb
    <3>3. serving' \in [Qubes -> SUBSET Qubes] BY <2>1 DEF AllInv, ServedInv, ServedType
    <3> QED BY <2>1, <3>1, <3>2, <3>3, ApplyOrFailServed
  <2>3. CASE ~Applies(q)
    <3>1. UNCHANGED <<eth, deferred, connected_ips, rules, slipped>>
      BY <1>1, <2>3 DEF OnUnpaused
    <3>2. ServedType' BY <2>1, <3>1 DEF AllInv, ServedInv, ServedType, HasQdb
    <3>3. \A c \in Qubes : Netvm(c)' = Netvm(c) BY <2>1 DEF config, Netvm
    <3>4. \A c \in Qubes, n \in Qubes : Client(c, n)' => Client(c, n)
      BY <2>1, <3>1, <3>3 DEF Client, config, HasQdb
    <3> QED BY <2>1, <3>1, <3>2, <3>3, <3>4, NoMoreOwed DEF config, is_running, HasQdb
  <2> QED BY <2>2, <2>3
<1>2. CASE OnShutdown(q)
  <2>1. /\ UNCHANGED <<config, power, connected_ips, rules, unpaused, starting, serving>>
        /\ power[q] = "Off" /\ slipped \subseteq slipped'
    BY <1>2 DEF OnShutdown, AllInv, LinkInv, NetType
  <2>2. ServedType' BY <2>1 DEF AllInv, ServedInv, ServedType, HasQdb
  <2>3. \A c \in Qubes : Netvm(c)' = Netvm(c) BY <2>1 DEF config, Netvm
  <2>4. \A c \in Qubes, n \in Qubes : Client(c, n)' => Client(c, n) /\ c \notin connected_vms(q)
    BY <2>1, <2>3 DEF Client, config, HasQdb, connected_vms
  <2>5. \A c \in Qubes : c # q /\ deferred'[c] = Absent => deferred[c] = Absent
    BY <1>2, NetworkAssumption
    DEF OnShutdown, AllInv, LinkInv, GraphInv, ConfigOK, NetworkAssumption
  <2>6. \A c \in Qubes : c \notin connected_vms(q) \/ power[c] # "Running" => eth'[c] = eth[c]
    BY <1>2 DEF OnShutdown
  <2> QED BY <2>1, <2>2, <2>3, <2>4, <2>5, <2>6, NoMoreOwed DEF config, is_running, HasQdb
<1>3. ASSUME NEW c \in Qubes, Serve(q, c) PROVE ServedInv'
  <2>1. /\ UNCHANGED <<config, power, stopped, unpaused, starting>>
        /\ serving' = [serving EXCEPT ![q] = @ \ {c}]
    BY <1>3 DEF Serve
  <2>2. \A d \in Qubes : Netvm(d)' = Netvm(d) BY <2>1 DEF config, Netvm
  <2>3. \A n \in Qubes, d \in Qubes : d \in serving[n] /\ ~(n = q /\ d = c) => d \in serving'[n]
    BY <2>1 DEF AllInv, ServedInv, ServedType
  <2>4. CASE (c \notin connected_vms(q) \/ power[c] # "Running") \/ deferred[c] = Absent
    <3>1. /\ UNCHANGED <<deferred, connected_ips, rules>> /\ slipped \subseteq slipped'
          /\ \A d \in Qubes \ {c} : eth'[d] = eth[d]
          /\ eth' = eth \/ power[c] = "Running"
      BY <1>3, <2>4 DEF Serve, AllInv, LinkInv, NetType
    <3>2. ServedType' BY <2>1, <3>1 DEF AllInv, ServedInv, ServedType, HasQdb
    <3>3. \A d \in Qubes, n \in Qubes : Client(d, n)' => Client(d, n)
      BY <2>1, <2>2, <3>1 DEF Client, config, HasQdb
    <3>4. ASSUME Client(c, q), is_running(c), deferred[c] = Absent, c \notin slipped'
          PROVE  eth'[c] = q
      <4>1. c \in connected_vms(q) /\ q = Netvm(c) /\ q # NoQube
        BY <3>4 DEF Client, connected_vms
      <4>2. eth[c] \in {NoQube, q}
        BY <3>4, <4>1 DEF Client, AllInv, LinkInv, Linked
      <4>3. CASE power[c] = "Running"
        BY <1>3, <3>4, <4>1, <4>2, <4>3 DEF Serve, AllInv, LinkInv, NetType
      <4>4. CASE power[c] = "Paused"
        BY <1>3, <3>1, <3>4, <4>1, <4>2, <4>4 DEF Serve
      <4>5. CASE power[c] = "Created"
        BY <3>1, <3>4, <4>1, <4>5 DEF Client, AllInv, ServedInv, Fresh
      <4> QED BY <3>4, <4>3, <4>4, <4>5 DEF is_running
    <3>5. ASSUME NEW n \in Qubes, Client(c, n), n # q, is_running(c), deferred[c] = Absent
          PROVE  eth'[c] = eth[c]
      <4>1. c \notin connected_vms(q) BY <3>5 DEF Client, connected_vms
      <4> QED BY <1>3, <4>1 DEF Serve
    <3>6. Uplinked'
      <4> SUFFICES ASSUME NEW d \in Qubes, NEW n \in Qubes, Client(d, n)', is_running(d)',
                          deferred'[d] = Absent, n \notin starting', d \notin serving'[n]
                   PROVE  eth'[d] = n
        BY DEF Uplinked
      <4>1. /\ Client(d, n) /\ is_running(d) /\ deferred[d] = Absent /\ n \notin starting
            /\ d \notin slipped'
        BY <2>1, <3>1, <3>3 DEF is_running, Client
      <4>2. CASE d = c /\ n = q BY <4>1, <4>2, <3>4
      <4>3. CASE ~(d = c /\ n = q)
        <5>1. eth[d] = n BY <4>1, <4>3, <2>3 DEF AllInv, ServedInv, Uplinked
        <5> QED BY <4>1, <4>3, <5>1, <3>1, <3>5
      <4> QED BY <4>2, <4>3
    <3>7. Fresh'
      BY <2>1, <2>2, <3>1 DEF config, AllInv, ServedInv, Fresh
    <3>8. Known' BY <2>1, <3>1, <3>3 DEF AllInv, ServedInv, Known
    <3>9. Ruled' BY <2>1, <3>1, <3>3 DEF AllInv, ServedInv, Ruled, HasQdb
    <3> QED BY <3>2, <3>6, <3>7, <3>8, <3>9 DEF ServedInv
  <2>5. CASE ~(c \notin connected_vms(q) \/ power[c] # "Running") /\ deferred[c] # Absent
    <3>1. ApplyOrFail(c) /\ power[c] # "Created" BY <1>3, <2>5 DEF Serve
    <3>2. serving' \in [Qubes -> SUBSET Qubes] BY <2>1 DEF AllInv, ServedInv, ServedType
    <3> QED BY <2>1, <2>3, <2>5, <3>1, <3>2, ApplyOrFailServed
  <2> QED BY <2>4, <2>5
<1> QED BY <1>1, <1>2, <1>3

LEMMA NextServed ==
    ASSUME AllInv, NetworkAssumption, [Next]_vars PROVE ServedInv'
<1>1. ASSUME NEW q \in Qubes,
             \/ AddQube(q) \/ RemoveQube(q) \/ ResetProvides(q)
             \/ \E b \in BOOLEAN : SetProvides(q, b)
      PROVE  ServedInv'
  BY <1>1, CollectionServed
<1>2. ASSUME NEW q \in Qubes, ResetNetvm(q) PROVE ServedInv'
  <2>1. ASSUME NEW A \in SUBSET {q}, StoreNetvm(q, Default, default_netvm, A)
        PROVE  ServedInv'
    <3>1. default_netvm \in Qubes \cup {NoQube} BY DEF AllInv, LinkInv, GraphInv, ConfigOK
    <3> QED BY <2>1, <3>1, StoreNetvmServed
  <2>2. CASE /\ default_netvm = Netvm(q) /\ netvm[q] # Default
             /\ netvm' = [netvm EXCEPT ![q] = Default] /\ Stays
             /\ UNCHANGED <<listed, provides_network, default_netvm, eth, deferred,
                            connected_ips, rules, slipped>>
    <3>1. ServedType' BY <2>2 DEF Stays, tasks, AllInv, ServedInv, ServedType, HasQdb
    <3>2. \A c \in Qubes : Netvm(c)' = Netvm(c)
      BY <2>2 DEF AllInv, LinkInv, GraphInv, ConfigOK, Netvm
    <3>3. \A c \in Qubes, n \in Qubes : Client(c, n)' => Client(c, n)
      BY <2>2, <3>2 DEF Stays, Client, HasQdb
    <3> QED BY <2>2, <3>1, <3>2, <3>3, NoMoreOwed DEF Stays, tasks, is_running, HasQdb
  <2> QED BY <1>2, <2>1, <2>2 DEF ResetNetvm
<1>3. ASSUME NEW q \in Qubes, NEW v \in Qubes \cup {NoQube}, SetNetvm(q, v)
      PROVE  ServedInv'
  <2>1. v # Default BY NetworkAssumption DEF NetworkAssumption
  <2> QED BY <1>3, <2>1, StoreNetvmServed DEF SetNetvm
<1>4. ASSUME NEW v \in Qubes \cup {NoQube}, NEW A \in SUBSET ByDefault,
             SetDefault(v, A) \/ SetDefaultFails(v, A)
      PROVE  ServedInv'
  <2>1. A \in SUBSET Qubes BY ListedAreQubes DEF ByDefault
  <2> QED BY <1>4, <2>1, SetDefaultServed, SetDefaultFailsServed
<1>5. ASSUME ResetDefault PROVE ServedInv'
  <2>1. default_netvm \in Qubes BY <1>5 DEF ResetDefault, AllInv, LinkInv, GraphInv, ConfigOK
  <2> QED BY <1>5, <2>1, CollectionServed
<1>6. ASSUME NEW q \in Qubes,
             \/ PreSpawn(q) \/ Create(q) \/ SpawnFails(q) \/ Activate(q)
             \/ OnStarted(q) \/ Pause(q) \/ Unpause(q) \/ Stop(q)
      PROVE  ServedInv'
  BY <1>6, PowerServed
<1>7. ASSUME NEW q \in Qubes, OnUnpaused(q) \/ OnShutdown(q) \/ \E c \in Qubes : Serve(q, c)
      PROVE  ServedInv'
  BY <1>7, HandlerServed
<1>8. ASSUME UNCHANGED vars PROVE ServedInv'
  <2>1. ServedType' BY <1>8 DEF vars, config, tasks, AllInv, ServedInv, ServedType, HasQdb
  <2>2. \A c \in Qubes : Netvm(c)' = Netvm(c) BY <1>8 DEF vars, config, Netvm
  <2>3. \A c \in Qubes, n \in Qubes : Client(c, n)' => Client(c, n)
    BY <1>8, <2>2 DEF vars, config, Client, HasQdb
  <2> QED BY <1>8, <2>1, <2>2, <2>3, NoMoreOwed DEF vars, config, tasks, is_running, HasQdb
<1> QED BY <1>1, <1>2, <1>3, <1>4, <1>5, <1>6, <1>7, <1>8 DEF Next

\* LinkInv and ServedInv together are inductive.
THEOREM NetworkInvariant == Spec => []AllInv
<1>1. Init => NetType /\ Linked /\ ServedInv
  BY DEF Init, NetType, Linked, is_running, GraphInv, ConfigOK, ServedInv, ServedType, Uplinked,
         Fresh, Known, Ruled, Client, HasQdb
<1>2. GraphInv /\ GraphInv' /\ NetType /\ Linked /\ ServedInv /\ [Next]_vars
        => NetType' /\ Linked' /\ ServedInv'
  BY NextLinks, NextServed, NetworkAssumption DEF LinkInv, AllInv
<1>3. GraphInv /\ NetType /\ Linked /\ ServedInv => AllInv BY DEF AllInv, LinkInv
<1> QED BY <1>1, <1>2, <1>3, GraphSafe, PTL DEF Spec

\* A qube that runs, unless a note or a mark says otherwise, is attached to
\* its netvm as soon as that one has served its clients, and that one has its
\* address and its firewall rules, whichever of the two was restarted, paused
\* or changed meanwhile.
THEOREM ClientsAlwaysServed == Spec => []ServedByNetvm
<1>1. AllInv => ServedByNetvm
  <2> SUFFICES ASSUME AllInv PROVE ServedByNetvm
    OBVIOUS
  <2>1. \A q \in listed : q \in Qubes /\ Netvm(q) \in Qubes \cup {NoQube}
    BY NetvmType, ListedAreQubes DEF AllInv, LinkInv
  <2>2. UplinkPresent
    BY <2>1 DEF UplinkPresent, AllInv, ServedInv, Uplinked, Client, is_running
  <2>3. FirewalledUplink
    BY <2>1 DEF FirewalledUplink, AllInv, ServedInv, Known, Ruled, Client, HasQdb
  <2> QED BY <2>2, <2>3 DEF ServedByNetvm
<1> QED BY <1>1, NetworkInvariant, PTL
===========================================================================
