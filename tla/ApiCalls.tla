------------------------------ MODULE ApiCalls ------------------------------
(* Calls of the Admin API (api/__init__.py) and their connections: a request *)
(* is read, checked and executed as a task, and answered with one response   *)
(* or exception; admin.Events instead sends the events of qubes that come    *)
(* and go, until its client leaves, which cancels it.                        *)
EXTENDS Integers, Sequences, FiniteSets

CONSTANTS Clients,
          Names,        \* of qubes
          Requests,     \* what clients ask, of the set CallRecords
          MaxSent       \* bound of what is sent to one client

(* A call has a method, its argument and payload, and a destination.       *)
Methods == [get    |-> [arg |-> TRUE, payload |-> FALSE, adminvm |-> "no"],
            set    |-> [arg |-> TRUE, payload |-> TRUE, adminvm |-> "any"],
            events |-> [arg |-> FALSE, payload |-> FALSE, adminvm |-> "any"]]
Dom0 == "dom0"
CallRecords == [method : DOMAIN Methods \cup {"none"}, arg : BOOLEAN, payload : BOOLEAN,
          dest : Names \cup {Dom0}, framed : BOOLEAN]

ASSUME ApiAssumption == Dom0 \notin Names /\ Requests \subseteq CallRecords

VARIABLES
    request,    \* the call of each client
    state,      \* how far it is
    transport,  \* its connection exists
    sent,       \* what was written to it
    handlers,   \* qubes, and dom0 for the app, its dispatcher has handlers on
    names,      \* app.domains without dom0, by name
    early       \* history: clients that left before cancel() could work

apiVars == <<request, state, transport, sent, handlers, names, early>>

Open == {"connected", "scheduled", "created", "running", "subscribed", "cancelled"}

ApiInit ==
    /\ request \in [Clients -> Requests]
    /\ state = [c \in Clients |-> "connected"]
    /\ transport = [c \in Clients |-> TRUE]
    /\ sent = [c \in Clients |-> <<>>]
    /\ handlers = [c \in Clients |-> {}]
    /\ names \in SUBSET Names
    /\ early = {}

To(c, s) == state' = [state EXCEPT ![c] = s]

(* Nothing is written once the client has left.                            *)
Write(c, what) == sent' = IF transport[c] THEN [sent EXCEPT ![c] = @ \o what] ELSE sent

----------------------------------------------------------------------------
(* One call.                                                               *)

(* eof_received(): the task respond() is scheduled; a request that is too  *)
(* long or not framed is dropped with its connection.                      *)
eof_received(c) ==
    /\ state[c] = "connected" /\ transport[c]
    /\ IF request[c].framed
       THEN To(c, "scheduled") /\ UNCHANGED transport
       ELSE To(c, "done") /\ transport' = [transport EXCEPT ![c] = FALSE]
    /\ UNCHANGED <<request, sent, handlers, names, early>>

(* The checks of __init__() and execute().                                 *)
Executable(r) ==
    /\ r.method # "none"
    /\ r.dest \in names \cup {Dom0}
    /\ r.payload = Methods[r.method].payload
    /\ r.arg = Methods[r.method].arg
    /\ Methods[r.method].adminvm = "no" => r.dest # Dom0

(* respond() until it waits for the task that execute() schedules.         *)
execute(c) ==
    /\ state[c] = "scheduled"
    /\ IF Executable(request[c])
       THEN To(c, "created") /\ UNCHANGED sent
       ELSE To(c, "done") /\ Write(c, <<"exception">>)
    /\ UNCHANGED <<request, transport, handlers, names, early>>

(* The method begins, and ends at once, or waits for something; its policy *)
(* may refuse it, and it may fail; an error nobody foresaw is not answered.*)
Answers == {<<"response">>, <<"exception">>, <<>>}

MethodBegins(c) ==
    /\ state[c] = "created" /\ request[c].method # "events" /\ To(c, "running")
    /\ UNCHANGED <<request, transport, sent, handlers, names, early>>

MethodEnds(c) ==
    /\ state[c] = "running" /\ To(c, "done")
    /\ \E a \in Answers : Write(c, a)
    /\ UNCHANGED <<request, transport, handlers, names, early>>

----------------------------------------------------------------------------
(* admin.Events.                                                           *)

SubjectsOf(c) == IF request[c].dest = Dom0 THEN names \cup {Dom0} ELSE {request[c].dest}

(* events() adds its handlers and says so, in one step of the event loop.  *)
events(c) ==
    /\ state[c] = "created" /\ request[c].method = "events"
    /\ \/ /\ To(c, "subscribed")
          /\ handlers' = [handlers EXCEPT ![c] = SubjectsOf(c)]
          /\ Write(c, <<"established">>)
       \/ To(c, "done") /\ Write(c, <<"exception">>) /\ UNCHANGED handlers    \* refused
    /\ UNCHANGED <<request, transport, names, early>>

(* vm_handler() and app_handler() of every dispatcher with a handler on it.*)
Tell(subject) ==
    sent' = [c \in Clients |->
        IF subject \in handlers[c] /\ transport[c] THEN Append(sent[c], "event") ELSE sent[c]]

fire_event(subject) ==
    /\ subject \in names \cup {Dom0} /\ \A c \in Clients : Len(sent[c]) < MaxSent
    /\ Tell(subject)
    /\ UNCHANGED <<request, state, transport, handlers, names, early>>

(* on_domain_add(): only subscribers of dom0 hear of it; without its last  *)
(* conjunct they would miss the events of the new qube.                    *)
DomainAdd_Unheard(q) ==
    /\ q \notin names /\ \A c \in Clients : Len(sent[c]) < MaxSent
    /\ names' = names \cup {q} /\ Tell(Dom0)
    /\ UNCHANGED <<request, state, transport, handlers, early>>

DomainAdd(q) ==
    /\ q \notin names /\ \A c \in Clients : Len(sent[c]) < MaxSent
    /\ names' = names \cup {q} /\ Tell(Dom0)
    /\ handlers' = [c \in Clients |->
            IF Dom0 \in handlers[c] THEN handlers[c] \cup {q} ELSE handlers[c]]
    /\ UNCHANGED <<request, state, transport, early>>

(* on_domain_delete(); a subscriber of that qube alone keeps its handler.  *)
DomainDelete(q) ==
    /\ q \in names /\ \A c \in Clients : Len(sent[c]) < MaxSent
    /\ names' = names \ {q} /\ Tell(Dom0)
    /\ handlers' = [c \in Clients |->
            IF Dom0 \in handlers[c] THEN handlers[c] \ {q} ELSE handlers[c]]
    /\ UNCHANGED <<request, state, transport, early>>

----------------------------------------------------------------------------
(* Clients leave.                                                          *)

(* connection_lost() cancels what is cancellable, which a call is not yet  *)
(* when its task has not begun.                                            *)
connection_lost(c) ==
    /\ transport[c] /\ transport' = [transport EXCEPT ![c] = FALSE]
    /\ CASE state[c] = "connected" -> To(c, "done")
         [] state[c] = "subscribed" -> To(c, "cancelled")
         [] OTHER -> UNCHANGED state
    /\ early' = IF state[c] \in {"scheduled", "created"} THEN early \cup {c} ELSE early
    /\ UNCHANGED <<request, sent, handlers, names>>

(* The cancelled events() removes its handlers.                            *)
Cancelled(c) ==
    /\ state[c] = "cancelled" /\ To(c, "done")
    /\ handlers' = [handlers EXCEPT ![c] = @ \ SubjectsOf(c)]
    /\ UNCHANGED <<request, transport, sent, names, early>>

ApiNext ==
    \/ \E c \in Clients :
          \/ eof_received(c) \/ execute(c) \/ MethodBegins(c) \/ MethodEnds(c)
          \/ events(c) \/ connection_lost(c) \/ Cancelled(c)
    \/ \E q \in Names : DomainAdd(q) \/ DomainDelete(q)
    \/ \E s \in Names \cup {Dom0} : fire_event(s)

ApiSpec == ApiInit /\ [][ApiNext]_apiVars

----------------------------------------------------------------------------
(* Properties.                                                             *)

(* A client gets one answer or none, or, when it subscribed, first that    *)
(* the subscription works and then events only; never both.                *)
IsAnswer(s) ==
    IF s # <<>> /\ s[1] = "established"
    THEN \A i \in DOMAIN s : (s[i] = "event") = (i > 1)
    ELSE s \in Answers

AnsweredOnce == \A c \in Clients : IsAnswer(sent[c])

(* A subscriber has handlers on exactly what it asked for, while qubes     *)
(* come and go, and none are left once it has gone; except of a client     *)
(* that left before its call could be cancelled.                           *)
SubscriptionFollows ==
    \A c \in Clients \ early :
        /\ state[c] = "subscribed" => handlers[c] = SubjectsOf(c)
        /\ state[c] \notin {"subscribed", "cancelled"} => handlers[c] = {}
        /\ state[c] = "subscribed" => transport[c]

(* Whoever calls, leaves or subscribes, and whatever qubes come and go:    *)
(* nobody is answered twice, and nobody else's events are listened for.    *)
ClientsServed == AnsweredOnce /\ SubscriptionFollows

(* The inductive invariant.                                                *)
Sendable == {"response", "exception", "established", "event"}

ApiTypeOK ==
    /\ request \in [Clients -> Requests]
    /\ state \in [Clients -> Open \cup {"done"}]
    /\ transport \in [Clients -> BOOLEAN]
    /\ sent \in [Clients -> Seq(Sendable)]
    /\ handlers \in [Clients -> SUBSET (Names \cup {Dom0})]
    /\ names \subseteq Names /\ early \subseteq Clients

(* Nothing is sent before a call ends or its subscription works; whoever   *)
(* has a handler was told that, unless it has left.                        *)
ReplyInv ==
    \A c \in Clients :
        /\ state[c] \in {"connected", "scheduled", "created", "running"} =>
            sent[c] = <<>> /\ handlers[c] = {}
        /\ handlers[c] # {} /\ transport[c] => sent[c] # <<>> /\ sent[c][1] = "established"

SubscriberInv ==
    \A c \in Clients \ early :
        /\ state[c] \in {"subscribed", "cancelled"} => handlers[c] = SubjectsOf(c)
        /\ state[c] \notin {"subscribed", "cancelled"} => handlers[c] = {}
        /\ state[c] \in {"scheduled", "created", "subscribed"} => transport[c]

ApiInv == ApiTypeOK /\ AnsweredOnce /\ ReplyInv /\ SubscriberInv
=============================================================================
