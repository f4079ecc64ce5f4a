---------------------------- MODULE MCManagement ----------------------------
(* Small instances of the modules of qubesd's services for callers, one in a *)
(* behaviour: the calls and events of the Admin API (ApiCalls), the internal *)
(* calls (InternalCalls), the firewall (QubeFirewall) and devices, attached  *)
(* (BlockDevices) and assigned (DeviceAssignments).                          *)
EXTENDS ApiCalls, InternalCalls, QubeFirewall, BlockDevices, DeviceAssignments

CONSTANTS q1, q2, c1, c2, f1, f2, p1, p2, d1, d2

VARIABLE kind

Asked(method, arg, payload, dest, framed) ==
    [method |-> method, arg |-> arg, payload |-> payload, dest |-> dest, framed |-> framed]

MCRequests ==
    {Asked("get", TRUE, FALSE, "q1", TRUE), Asked("events", FALSE, FALSE, "q1", TRUE),
     Asked("events", FALSE, FALSE, "dom0", TRUE), Asked("set", TRUE, FALSE, "dom0", TRUE),
     Asked("get", TRUE, FALSE, "q1", FALSE)}

Line(action, dst, expire, proto, port) ==
    [action |-> action, proto |-> proto, dst |-> dst,
     prefixlen |-> IF dst \in {"v4", "v6"} THEN 32 ELSE 0,
     lo |-> 0, hi |-> port, icmptype |-> 256, expire |-> expire]

MCOldFile == [policy |-> "drop", dns |-> "accept", icmp |-> "drop",
              elements |-> <<Line("drop", "v4", 2, "any", 0)>>]
MCLines == {Line("accept", "v4", 1, "any", 0), Line("drop", "v6", 2, "tcp", 80),
            Line("accept", "any", 0, "icmp", 1), Line("drop", "any", 0, "any", 0)}

(* Identities and options as texts, with what has a meaning in a list of   *)
(* properties.                                                             *)
MCDeviceKeys == {[port |-> p1, device |-> <<"a", "quote", "space">>],
                 [port |-> p1, device |-> <<"*">>],
                 [port |-> p2, device |-> <<"a">>],
                 [port |-> p2, device |-> <<"a", "equals">>]}

MCOptions == {<<>>, << <<>> >>, << <<"a", "quote", "space">> >>,
              << <<"backslash", "quote">> >>, << <<"equals", "quote">> >>,
              << <<"a", "quote", "space", "_option", "equals">> >>}

MCChars == AssignmentModes \cup Named \cup Separators \cup {"*", "None", "a", p1, p2}

MCKeys == {[port |-> p1, dev |-> Star], [port |-> Star, dev |-> d1]}

(* The services that a behaviour is not about stay as they were.  Devices  *)
(* start with one frontend that has any assignments, running or not, beside *)
(* a running one that has at most an automatic one for d1.                 *)
MCInit ==
    /\ kind \in {"api", "internal", "firewall", "attachment", "assignment"}
    /\ ApiInit
    /\ kind # "api" => names = {} /\ \A c \in Clients : request[c].method = "set"
    /\ InternalInit
    /\ kind # "internal" => default = "g1" /\ \A q \in Qubes : power[q] = "Halted"
    /\ FirewallInit
    /\ kind # "firewall" => ~loaded /\ version = 0
    /\ Init
    /\ \A p \in Ports : exposed[p] = None
    /\ front[f2] = "on"
    /\ \A k \in Keys : mode[f2][k] \in IF k.port = Star THEN {None, "auto"} ELSE {None}
    /\ kind # "attachment" => /\ front[f1] = "off"
                              /\ \A f \in Fronts, k \in Keys : mode[f][k] = None
    /\ AssignmentInit

Services == <<apiVars, internalVars, firewallVars>>
Devices == <<vars, assignmentVars>>

MCNext ==
    /\ UNCHANGED kind
    /\ \/ /\ UNCHANGED Devices
          /\ \/ kind = "api" /\ ApiNext /\ UNCHANGED <<internalVars, firewallVars>>
             \/ kind = "internal" /\ InternalNext /\ UNCHANGED <<apiVars, firewallVars>>
             \/ kind = "firewall" /\ FirewallNext /\ UNCHANGED <<apiVars, internalVars>>
       \/ /\ UNCHANGED Services
          /\ \/ kind = "attachment" /\ Next /\ UNCHANGED assignmentVars
             \/ kind = "assignment" /\ AssignmentNext /\ UNCHANGED vars

MCSpec == MCInit /\ [][MCNext]_<<kind, Services, Devices>>

=============================================================================
