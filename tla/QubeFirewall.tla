---------------------------- MODULE QubeFirewall ----------------------------
(* The firewall rules of a qube (firewall.py): a list in memory, a file, the *)
(* copy in the QubesDB of its netvm, which the netvm enforces, and timers    *)
(* that save the rules again, without what expired, when a rule expires.     *)
EXTENDS Integers, Sequences, SequencesExt, FiniteSets, FiniteSetsExt

CONSTANTS Lines,      \* lines a caller may send: records of options
          OldFile,    \* a file of the format of R3, as its elements
          MaxTime,    \* bound of the clock
          MaxChanges  \* bound of calls, failures and restarts

(* The rules there may be; what is sent need not be one of them, but what  *)
(* is no number does not get so far.                                       *)
Rules == [action : {"accept", "drop"}, proto : {"any", "tcp", "udp", "icmp"},
          dst : {"any", "name", "dns", "v4", "v6"}, prefixlen : Nat,
          lo : Nat, hi : Nat, icmptype : Nat, expire : Nat]

ASSUME LinesAssumption ==
    /\ Lines \subseteq [action : STRING, proto : STRING, dst : STRING, prefixlen : Int,
                        lo : Int, hi : Int, icmptype : Int, expire : Nat]
    /\ OldFile.elements \in Seq(Rules)
    /\ {OldFile.policy, OldFile.dns, OldFile.icmp} \subseteq {"accept", "drop"}

VARIABLES
    rules,      \* Firewall.rules
    loaded,     \* vm.firewall was used: the object exists
    conf,       \* the rules of firewall.xml
    version,    \* its format: 1 or 2; 0 when there is none
    qdb,        \* /qubes-firewall/<ip>/ and <ip6>/ in the netvm
    running,    \* the qube runs
    netvm,      \* vm.netvm is the one that is modelled here
    up,         \* and it runs
    time,       \* the wall clock
    slept,      \* how long the host slept: timers do not count that
    timers,     \* when the event loop calls _expire_rules(), without sleep
    accepted,   \* history: the rules that were last answered with success
    doubtful,   \* history: a failed save left others in memory
    lost,       \* history: the rules were only in memory when qubesd stopped
    untimed,    \* history: rules were sent to the netvm without a timer
    changes

store == <<rules, loaded, conf, version>>
machines == <<running, netvm, up>>
clock == <<time, slept, timers>>
past == <<accepted, doubtful, lost, untimed>>
firewallVars == <<store, qdb, machines, clock, past, changes>>

Families == {4, 6}
NoType == 256
Version == [f \in Families |-> IF f = 4 THEN "v4" ELSE "v6"]

----------------------------------------------------------------------------
(* Rules.                                                                  *)

(* Every option is valid by itself: a prefix is not longer than addresses  *)
(* of the family, and a name has none.                                     *)
DstHost(l) ==
    \/ l.dst \in {"any", "name", "dns"} /\ l.prefixlen = 0
    \/ l.dst = "v4" /\ l.prefixlen \in 0..32
    \/ l.dst = "v6" /\ l.prefixlen \in 0..128

DstPorts(l) == 0 <= l.lo /\ l.lo <= l.hi /\ l.hi < 65536

IcmpType(l) == l.icmptype \in 0..255 \cup {NoType}

(* Rule(): and the options fit each other.                                 *)
Rule(l) ==
    /\ <<l.lo, l.hi>> # <<0, 0>> => l.proto \in {"tcp", "udp"}
    /\ l.icmptype # NoType => l.proto = "icmp"

from_api_string(l) ==
    /\ l.action \in {"accept", "drop"} /\ l.proto \in {"any", "tcp", "udp", "icmp"}
    /\ DstHost(l) /\ DstPorts(l) /\ IcmpType(l) /\ Rule(l)

expired(r) == r.expire # 0 /\ r.expire <= time

(* The elements of s that are in S (SelectSeq(), as a function).           *)
Filtered(s, S) ==
    LET filtered[i \in 0..Len(s)] ==
            IF i = 0 THEN <<>>
            ELSE IF s[i] \in S THEN Append(filtered[i - 1], s[i]) ELSE filtered[i - 1]
    IN  filtered[Len(s)]

unexpired(rs) == Filtered(rs, {r \in ToSet(rs) : ~expired(r)})

load_defaults == <<[action |-> "accept", proto |-> "any", dst |-> "any", prefixlen |-> 0,
                    lo |-> 0, hi |-> 0, icmptype |-> NoType, expire |-> 0]>>

(* An element of an old file: TCP when it has a port but no protocol.      *)
from_xml_v1(e, action) ==
    [e EXCEPT !.action = action,
              !.proto = IF @ = "any" /\ <<e.lo, e.hi>> # <<0, 0>> THEN "tcp" ELSE @]

(* load_v1(): the policy becomes the last rule, "dns" and "icmp" the first *)
(* two, and every element does what the policy does not.                   *)
load_v1 ==
    LET Plain(a, p, d) == [load_defaults[1] EXCEPT !.action = a, !.proto = p, !.dst = d]
        Other == IF OldFile.policy = "accept" THEN "drop" ELSE "accept"
    IN  <<Plain(OldFile.dns, "any", "dns"), Plain(OldFile.icmp, "icmp", "any")>>
        \o [i \in DOMAIN OldFile.elements |-> from_xml_v1(OldFile.elements[i], Other)]
        \o IF OldFile.policy = "accept" THEN load_defaults ELSE <<>>

(* load().                                                                 *)
Stored == IF version = 0 THEN load_defaults
          ELSE IF version = 1 THEN load_v1 ELSE conf

(* A disposable starts with the rules of its template, in memory only.     *)
clone(l) == <<l>>

(* vm.firewall.                                                            *)
firewall == IF loaded THEN rules ELSE Stored

(* qdb_entries() of one address family, after the order of their numbers.  *)
(* "A_B" is A with a mistake: here the families are mixed up.              *)
qdb_entries_Swapped(rs, family) ==
    Filtered(unexpired(rs), {r \in ToSet(rs) : r.dst # (IF family = 6 THEN "v6" ELSE "v4")})

qdb_entries(rs, family) ==
    Filtered(unexpired(rs), {r \in ToSet(rs) : r.dst # (IF family = 6 THEN "v4" ELSE "v6")})

(* reload_firewall_for_vm() of a netvm that runs.                          *)
reload_firewall_for_vm(rs) ==
    qdb' = IF up THEN [f \in Families |-> qdb_entries(rs, f)] ELSE qdb

----------------------------------------------------------------------------
FirewallInit ==
    /\ conf = <<>>
    /\ \/ rules = <<>> /\ loaded = FALSE /\ version \in {0, 1}
       \/ /\ loaded = TRUE /\ version = 0
          /\ \E l \in Lines : from_api_string(l) /\ rules = clone(l)
    /\ qdb = [f \in Families |-> <<>>]
    /\ running = FALSE /\ netvm = TRUE /\ up = FALSE
    /\ time = 0 /\ slept = 0 /\ timers = {}
    /\ accepted = firewall /\ doubtful = FALSE /\ lost = FALSE
    /\ untimed = TRUE       \* reading a file sets no timer
    /\ changes = 0

Change == changes < MaxChanges /\ changes' = changes + 1

(* save(): what has not expired is written, "firewall-changed" sends it to *)
(* the netvm, and a timer is set for the rule that expires first.          *)
NextTimer_Last(rs) ==
    LET times == {r.expire : r \in ToSet(unexpired(rs))} \ {0}
    IN  IF times = {} THEN {} ELSE {Max(times) - slept}

NextTimer(rs) ==
    LET times == {r.expire : r \in ToSet(unexpired(rs))} \ {0}
    IN  IF times = {} THEN {} ELSE {Min(times) - slept}

save(rs, spent) ==
    /\ rules' = rs /\ loaded' = TRUE /\ conf' = unexpired(rs) /\ version' = 2
    /\ IF running /\ netvm THEN reload_firewall_for_vm(rs) ELSE UNCHANGED qdb
    /\ timers' = (timers \ spent) \cup NextTimer(rs)
    /\ doubtful' = FALSE /\ untimed' = FALSE

(* admin.vm.firewall.Set; when the file cannot be written, the new rules   *)
(* stay in memory and the caller is told of the error.                     *)
Set(rs) ==
    /\ Change /\ \A i \in DOMAIN rs : from_api_string(rs[i])
    /\ \/ save(rs, {}) /\ accepted' = rs /\ lost' = FALSE
       \/ /\ rules' = rs /\ loaded' = TRUE /\ doubtful' = TRUE /\ untimed' = TRUE
          /\ UNCHANGED <<conf, version, qdb, timers, accepted, lost>>
    /\ UNCHANGED <<machines, time, slept>>

Use == rules' = firewall /\ loaded' = TRUE

(* admin.vm.firewall.Reload.                                               *)
Reload ==
    /\ running /\ netvm /\ Use /\ reload_firewall_for_vm(firewall)
    /\ UNCHANGED <<conf, version, machines, clock, past, changes>>

(* _expire_rules(): load() and save(); an error ends the timer.            *)
ExpireRules(t) ==
    /\ t \in timers /\ t <= time - slept
    /\ \/ save(Stored, {t}) /\ UNCHANGED changes
       \/ /\ Change /\ rules' = Stored /\ loaded' = TRUE /\ timers' = timers \ {t}
          /\ untimed' = TRUE /\ UNCHANGED <<conf, version, qdb, doubtful>>
    /\ UNCHANGED <<machines, time, slept, accepted, lost>>

----------------------------------------------------------------------------
(* The qube and its netvm start, stop, and are connected.                  *)

QubeStarts ==
    /\ ~running /\ running' = TRUE /\ (netvm => up)
    /\ IF netvm
       THEN Use /\ reload_firewall_for_vm(firewall)
       ELSE UNCHANGED <<rules, loaded, qdb>>
    /\ UNCHANGED <<conf, version, netvm, up, clock, past, changes>>

QubeStops ==
    /\ running /\ running' = FALSE
    /\ UNCHANGED <<store, qdb, netvm, up, clock, past, changes>>

(* on_domain_qdb_create() of the netvm.                                    *)
NetvmStarts ==
    /\ ~up /\ up' = TRUE
    /\ IF running /\ netvm
       THEN /\ Use
            /\ qdb' = [f \in Families |-> qdb_entries(firewall, f)]
       ELSE qdb' = [f \in Families |-> <<>>] /\ UNCHANGED <<rules, loaded>>
    /\ UNCHANGED <<conf, version, running, netvm, clock, past, changes>>

NetvmStops ==
    /\ up /\ up' = FALSE
    /\ UNCHANGED <<store, qdb, running, netvm, clock, past, changes>>

(* on_net_domain_connect(), when a qube that runs gets another netvm.      *)
SetNetvm ==
    /\ Change /\ netvm' = ~netvm
    /\ IF running /\ netvm'
       THEN up /\ Use /\ reload_firewall_for_vm(firewall)
       ELSE UNCHANGED <<rules, loaded, qdb>>
    /\ UNCHANGED <<conf, version, running, up, clock, past>>

----------------------------------------------------------------------------
(* Time, and qubesd.                                                       *)

(* Timers run when they are due.                                           *)
Tick ==
    /\ time < MaxTime /\ time' = time + 1 /\ \A t \in timers : t >= time - slept
    /\ UNCHANGED <<store, qdb, machines, slept, timers, past, changes>>

HostSleeps ==
    /\ time < MaxTime /\ time' = time + 1 /\ slept' = slept + 1
    /\ UNCHANGED <<store, qdb, machines, timers, past, changes>>

(* qubesd restarts: no timers, and no rules that were only in memory.      *)
QubesdRestarts ==
    /\ Change /\ rules' = <<>> /\ loaded' = FALSE /\ timers' = {}
    /\ lost' = (lost \/ unexpired(Stored) # unexpired(accepted))
    /\ untimed' = TRUE
    /\ UNCHANGED <<conf, version, qdb, machines, time, slept, accepted, doubtful>>

FirewallNext ==
    \/ \E n \in 0..2 : \E rs \in [1..n -> Lines] : Set(rs)
    \/ Reload \/ \E t \in timers : ExpireRules(t)
    \/ QubeStarts \/ QubeStops \/ NetvmStarts \/ NetvmStops \/ SetNetvm
    \/ Tick \/ HostSleeps \/ QubesdRestarts

FirewallSpec == FirewallInit /\ [][FirewallNext]_firewallVars

----------------------------------------------------------------------------
(* Properties.                                                             *)

Enforcing == running /\ netvm /\ up

(* What a netvm enforces for a qube is what was last set with success,     *)
(* after restarts of either of them or of qubesd, changes of the netvm and *)
(* timers of older rules; not while a Set that could not be saved, or a    *)
(* restart that lost the rules of a disposable, waits for the next Set.    *)
RulesEnforced ==
    Enforcing /\ ~doubtful /\ ~lost =>
        \A f \in Families :
            unexpired(qdb[f]) = Filtered(accepted, {r \in ToSet(accepted) :
                ~expired(r) /\ r.dst \in {"any", "name", "dns", Version[f]}})

(* A rule a netvm enforces is taken away after it has expired: a timer is  *)
(* set that is due by then, but for the time the host sleeps.              *)
ExpiryPending ==
    Enforcing /\ ~untimed =>
        \A f \in Families : \A r \in ToSet(qdb[f]) :
            r.expire # 0 => \E t \in timers : t <= r.expire

(* The inductive invariant: the file and the rules in memory say what was  *)
(* accepted, and the next timer is due when the first of them expires.     *)
FirewallTypeOK ==
    /\ rules \in Seq(Rules) /\ conf \in Seq(Rules) /\ accepted \in Seq(Rules)
    /\ qdb \in [Families -> Seq(Rules)]
    /\ version \in {0, 1, 2} /\ time \in Nat /\ slept \in Nat

Says(rs) == unexpired(rs) = unexpired(accepted)

Timed(rs) == \A r \in ToSet(unexpired(rs)) : r.expire # 0 => \E t \in timers : t <= r.expire

FirewallInv ==
    /\ FirewallTypeOK
    /\ version = 2 => Says(conf)
    /\ version # 2 => timers = {}
    /\ ~doubtful /\ ~lost => Says(firewall)
    /\ ~untimed => loaded /\ Timed(rules)
    /\ RulesEnforced /\ ExpiryPending
=============================================================================
