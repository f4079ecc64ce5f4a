------------------------- MODULE DeviceAssignments -------------------------
(* The devices assigned to a qube: the calls admin.vm.device.*.Assign,      *)
(* Unassign, Set.assignment and Assigned, the text in which assignments     *)
(* travel (device_protocol.py), and their way through qubes.xml.            *)
EXTENDS Integers, Sequences, FiniteSets, FiniteSetsExt

CONSTANTS DeviceKeys,   \* [port, device]: a port and an identity, a text
          Options,      \* no option <<>>, or <<a text>>
          Chars,        \* characters; the names that are packed are some
          MaxSteps

AssignmentModes == {"manual", "ask-to-attach", "auto-attach", "required"}
Named == {"device_id", "port_id", "mode", "_option"}
Separators == {"equals", "quote", "space", "backslash"}
AnyDevice == <<"*">>

ASSUME TextsAssumption ==
    /\ AssignmentModes \cup Named \cup Separators \cup {"*", "None"} \subseteq Chars
    /\ \A k \in DeviceKeys : /\ k = [port |-> k.port, device |-> k.device]
                             /\ k.port \in Chars \ Separators /\ k.device \in Seq(Chars)
    /\ Options \subseteq Seq(Seq(Chars)) /\ \A o \in Options : Len(o) <= 1

VARIABLES
    assigned,   \* AssignedCollection: a function from keys
    stored,     \* the same in qubes.xml
    wanted,     \* history: what callers were told is assigned
    emptied,    \* history: keys whose empty option was loaded from qubes.xml
    unkept,     \* history: a text was accepted that cannot be kept
    steps

assignmentVars == <<assigned, stored, wanted, emptied, unkept, steps>>

AssignmentInit ==
    /\ assigned = <<>> /\ stored = <<>>
    /\ wanted = <<>> /\ emptied = {} /\ unkept = FALSE /\ steps = 0
----------------------------------------------------------------------------
(* Texts: a sequence of characters, a property's name being one.           *)
Escaped(text) ==            \* replace("'", r"\'")
    LET done[i \in 0..Len(text)] ==
            IF i = 0 THEN <<>>
            ELSE IF text[i] = "quote"
            THEN Append(Append(done[i - 1], "backslash"), "quote")
            ELSE Append(done[i - 1], text[i])
    IN  done[Len(text)]

\* A mistake: nothing is replaced.
Unescaped_Not(text) == text

Unescaped(text) ==          \* replace(r"\'", "'")
    LET done[i \in 0..Len(text)] ==
            IF i = 0 THEN <<>>
            ELSE IF i > 1 /\ text[i - 1] = "backslash" /\ text[i] = "quote"
            THEN Append(SubSeq(done[i - 1], 1, Len(done[i - 1]) - 1), "quote")
            ELSE Append(done[i - 1], text[i])
    IN  done[Len(text)]

pack_property(key, v) == <<key, "equals", "quote">> \o Escaped(v) \o <<"quote">>

Packed(s, key, v) == s \o <<"space">> \o pack_property(key, v)

(* VirtualDevice.serialize(), then DeviceAssignment.serialize().           *)
serialize(key, a) ==
    LET device == Packed(pack_property("device_id", key.device), "port_id", <<key.port>>)
        s == Packed(device, "mode", <<a.mode>>)
    IN  IF a.option = <<>> THEN s ELSE Packed(s, "_option", a.option[1])

(* unpack_properties(): the text is cut at every ='; what is between two   *)
(* of them is a value, up to its last quote and space, and a key.          *)
Marks(s) == {i \in 1..(Len(s) - 1) : s[i] = "equals" /\ s[i + 1] = "quote"}
Ends(s, m, n) == {i \in (m + 2)..(n - 2) : s[i] = "quote" /\ s[i + 1] = "space"}

Strip(s) ==
    LET solid == {i \in DOMAIN s : s[i] # "space"}
    IN  IF solid = {} THEN <<>> ELSE SubSeq(s, Min(solid), Max(solid))

KeyAt(s, n) ==
    LET before == {i \in Marks(s) : i < n}
        m == IF before = {} THEN -1 ELSE Max(before)
        ends == IF before = {} THEN {} ELSE Ends(s, m, n)
    IN  Strip(SubSeq(s, IF ends = {} THEN m + 2 ELSE Max(ends) + 2, n - 1))

ValueAt(s, m) ==
    LET after == {i \in Marks(s) : m < i}
        ends == Ends(s, m, Min(after))
        last == IF after = {} THEN Len(s) - 1
                ELSE IF ends = {} THEN 0 ELSE Max(ends) - 1
    IN  Unescaped(SubSeq(s, m + 2, last))

unpack_properties(s) ==
    [m \in Marks(s) |-> [key |-> KeyAt(s, m), value |-> ValueAt(s, m)]]

(* _deserialize(): an unknown property or mode is an error, and so is a    *)
(* device other than the expected one, which may leave the identity open.  *)
(* A property that comes twice has the value that comes last.              *)
Error == [ok |-> FALSE]

Given(props, name) == {m \in DOMAIN props : props[m].key = <<name>>}
Got(props, name, fallback) ==
    IF Given(props, name) = {} THEN fallback ELSE props[Max(Given(props, name))].value

deserialize(s, expected) ==
    LET props == unpack_properties(s)
        device == Got(props, "device_id", expected.device)
        how == Got(props, "mode", <<"manual">>)
    IN  IF \/ \E m \in DOMAIN props : props[m].key \notin {<<name>> : name \in Named}
           \/ Got(props, "port_id", <<expected.port>>) # <<expected.port>>
           \/ expected.device # AnyDevice /\ device # expected.device
           \/ how \notin {<<m>> : m \in AssignmentModes}
        THEN Error
        ELSE [ok |-> TRUE, key |-> [port |-> expected.port, device |-> device],
              mode |-> how[1],
              option |-> IF Given(props, "_option") = {} THEN <<>>
                         ELSE << Got(props, "_option", <<>>) >>]
----------------------------------------------------------------------------
(* The calls; events have no handlers in this repository, so that each is  *)
(* one step of the event loop. An argument names what it can spell.        *)
EndsWell(text) == text = <<>> \/ text[Len(text)] # "equals"
CanBeKept(key, option) == /\ key.device # <<>> /\ EndsWell(key.device)
                          /\ option = <<>> \/ EndsWell(option[1])

Arguments ==
    {k \in DeviceKeys : /\ k.device # <<>>
                        /\ \A i \in DOMAIN k.device : k.device[i] \notin Separators}

Discarded(f, k) == [j \in DOMAIN f \ {k} |-> f[j]]
Joined(f, k, a) == [j \in DOMAIN f \cup {k} |-> IF j = k THEN a ELSE f[j]]

Call == steps < MaxSteps /\ steps' = steps + 1

(* The argument names one device and the payload another, maybe.           *)
vm_device_assign(arg, key, how, option) ==
    LET a == deserialize(serialize(key, [mode |-> how, option |-> option]), arg)
    IN  /\ Call /\ a.ok /\ a.key \notin DOMAIN assigned /\ a.mode # "manual"
        /\ assigned' = Joined(assigned, a.key, [mode |-> a.mode, option |-> a.option])
        /\ stored' = assigned'
        /\ wanted' = Joined(wanted, key, [mode |-> how, option |-> option])
        /\ emptied' = emptied \ {a.key}
        /\ unkept' = (unkept \/ ~CanBeKept(key, option))

vm_device_set_required(key, how) ==
    /\ Call /\ key \in DOMAIN assigned /\ how # "manual"
    /\ assigned' = [assigned EXCEPT ![key].mode = how]
    /\ stored' = assigned'
    /\ wanted' = [k \in DOMAIN wanted |-> IF k = key THEN [wanted[k] EXCEPT !.mode = how]
                                         ELSE wanted[k]]
    /\ UNCHANGED <<emptied, unkept>>

vm_device_unassign(key) ==
    /\ Call /\ key \in DOMAIN assigned
    /\ assigned' = Discarded(assigned, key) /\ stored' = assigned'
    /\ wanted' = Discarded(wanted, key) /\ UNCHANGED <<emptied, unkept>>

(* load_extras(): the text of an empty XML element is None, and str(None)  *)
(* becomes the option. An identity that is empty is saved as "*".          *)
FromXml(a) == IF a.option = << <<>> >> THEN [a EXCEPT !.option = << <<"None">> >>] ELSE a
Saved(k) == IF k.device = <<>> THEN [k EXCEPT !.device = AnyDevice] ELSE k

load_extras ==
    /\ Call
    /\ \A j, k \in DOMAIN stored : Saved(j) = Saved(k) => j = k     \* or qubesd fails
    /\ assigned' = [k \in {Saved(j) : j \in DOMAIN stored} |->
                        FromXml(stored[CHOOSE j \in DOMAIN stored : Saved(j) = k])]
    /\ emptied' = emptied \cup {k \in DOMAIN stored : stored[k].option = << <<>> >>}
    /\ UNCHANGED <<stored, wanted, unkept>>

AssignmentNext ==
    \/ \E arg \in Arguments, key \in DeviceKeys :
       \E how \in AssignmentModes, option \in Options :
          vm_device_assign(arg, key, how, option)
    \/ \E key \in Arguments : vm_device_unassign(key)
    \/ \E key \in Arguments, how \in AssignmentModes : vm_device_set_required(key, how)
    \/ load_extras

AssignmentSpec == AssignmentInit /\ [][AssignmentNext]_assignmentVars
----------------------------------------------------------------------------
(* Properties.                                                             *)

(* What admin.vm.device.*.Assigned lists of a qube is what is assigned to  *)
(* it, through every change and restart and through the text it travels    *)
(* in; and that is what its users were told is assigned, with modes and    *)
(* options, but for an empty option that came from qubes.xml, and unless a *)
(* text was accepted that cannot be kept: one that ends with "=", or no    *)
(* identity at all.                                                        *)
ListedIsAssigned ==
    /\ \A k \in DOMAIN assigned :
          deserialize(serialize(k, assigned[k]), k) =
              [ok |-> TRUE, key |-> k, mode |-> assigned[k].mode,
               option |-> assigned[k].option]
    /\ unkept \/ /\ DOMAIN assigned = DOMAIN wanted
                 /\ \A k \in DOMAIN assigned :
                       /\ assigned[k].mode = wanted[k].mode
                       /\ k \in emptied \/ assigned[k].option = wanted[k].option

(* The inductive invariant: what is assigned, here and in qubes.xml, can   *)
(* be written and read again, and is what was asked for.                   *)
KeptText(t) == t \in Seq(Chars) /\ EndsWell(t)

IsAssignment(k, a) ==
    /\ k = [port |-> k.port, device |-> k.device]
    /\ k.port \in Chars \ Separators /\ KeptText(k.device)
    /\ a = [mode |-> a.mode, option |-> a.option] /\ a.mode \in AssignmentModes
    /\ a.option = <<>> \/ (a.option = <<a.option[1]>> /\ KeptText(a.option[1]))

AsWanted(f, k) ==
    /\ f[k].mode = wanted[k].mode
    /\ k \in emptied \/ f[k].option = wanted[k].option

AssignmentInv ==
    /\ \A k \in DOMAIN assigned : IsAssignment(k, assigned[k])
    /\ \A k \in DOMAIN stored : IsAssignment(k, stored[k])
    /\ \A k \in DOMAIN wanted :
          wanted[k] = [mode |-> wanted[k].mode, option |-> wanted[k].option]
    /\ unkept \/ /\ DOMAIN assigned = DOMAIN wanted /\ DOMAIN stored = DOMAIN wanted
                 /\ \A k \in DOMAIN wanted :
                       /\ k.device # <<>> /\ AsWanted(assigned, k) /\ AsWanted(stored, k)
=============================================================================
