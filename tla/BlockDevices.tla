--------------------------- MODULE BlockDevices ---------------------------
(***************************************************************************)
(* The block devices one qube exposes to others (ext/block.py, ext/utils.py*)
(* and devices.py): what the backend lists in its QubesDB, the disks       *)
(* libvirt has for the frontends, the cache qubesd compares them with, the *)
(* assignments, and the tasks that attach a device when it appears or when *)
(* its frontend starts, which may wait for the user's choice.  The         *)
(* handlers of the device events have no await, so an attach, a detach or  *)
(* a change of the list is one step.                                       *)
(***************************************************************************)
EXTENDS Naturals

CONSTANTS Fronts, Ports,
          Devs,         \* identities of devices (device_id)
          Keys,         \* what is assigned: a port or Star, an identity or Star
          Star, None,
          Free,         \* cached, with no frontend
          Absent,       \* not cached; not exposed
          MaxEvents     \* bound: steps of the admin, the qubes and failures

Modes == {"auto", "ask", "required"}

ASSUME DevicesAssumption ==
    /\ Keys \subseteq [port : Ports \cup {Star}, dev : Devs \cup {Star}]
    /\ Star \notin Ports \cup Devs /\ None \notin Devs \cup Modes
    /\ Free \notin Fronts /\ Absent \notin Fronts /\ Free # Absent
    /\ None \notin Fronts /\ MaxEvents \in Nat

VARIABLES
    back,       \* the backend: "off", "on", "ended" (shutdown not handled)
    exposed,    \* its QubesDB: the device in each port
    front,      \* a frontend: "off", "checked", "created", "on", "ended"
    held,       \* its disks: for each port the device they were made for
    cache,      \* devices_cache[backend]
    mode,       \* assignments of each frontend
    changed,    \* a change of QubesDB is not handled yet
    tasks,      \* resolve_conflicts_and_attach and attach_and_notify
    suspect,    \* history: ports whose cache entry a step left behind
    blink,      \* history: ports whose disk a step left behind
    excused,    \* history: ports it is nobody's turn to attach
    skipped,    \* history: ports dropped with the rest of their list
    happened

vms == <<back, front>>
history == <<suspect, blink, excused, skipped>>
vars == <<vms, exposed, held, cache, mode, changed, tasks, history, happened>>

Running(f) == front[f] \in {"created", "on"}
Exposes(p) == back = "on" /\ exposed[p] # None
Holders(p) == {f \in Fronts : Running(f) /\ held[f][p] # None}

\* get_device_attachments() and the device list: what the cache should hold.
Current(p) == IF ~Exposes(p) THEN Absent
              ELSE IF Holders(p) = {} THEN Free
              ELSE CHOOSE f \in Holders(p) : TRUE

Matches(k, p) == k.port \in {Star, p} /\ k.dev \in {Star, exposed[p]}
Rank(k) == (IF k.port = Star THEN 0 ELSE 2) + (IF k.dev = Star THEN 0 ELSE 1)

\* The mode of the most specific assignment, among those of modes M (or none).
Wish(f, p, M) ==
    LET fits == {k \in Keys : mode[f][k] \in M /\ Matches(k, p)}
    IN  {mode[f][k] : k \in {k \in fits : \A j \in fits : Rank(j) <= Rank(k)}}

Item(p, F, M) ==
    [port |-> p, dev |-> exposed[p],
     wants |-> [f \in {f \in F : Wish(f, p, M) # {}} |-> CHOOSE m \in Wish(f, p, M) : TRUE]]

Happens == happened < MaxEvents /\ happened' = happened + 1
Quiet == UNCHANGED happened
--------------------------------------------------------------------------
(* on_device_pre_attached_block() for frontend f; known says whether the   *)
(* caller has found the device.                                            *)
Refused(f, p, known) ==
    ~known \/ ~Running(f) \/ Holders(p) # {} \/ back # "on"

\* The cache is written before libvirt is called, which may fail.
Attached(f, p) ==
    /\ exposed[p] # None
    /\ cache' = [cache EXCEPT ![p] = f]
    /\ held' = [held EXCEPT ![f][p] = exposed[p]]

AttachFails(f, p) ==
    /\ IF exposed[p] = None THEN Quiet ELSE Happens
    /\ cache' = [cache EXCEPT ![p] = f]
    /\ suspect' = suspect \cup {p}
    /\ excused' = excused \cup {p}
    /\ UNCHANGED held

\* Of B, the ports whose disk may still be the wrong one after this step.
Left(B) == {p \in B : \E f \in Fronts : held'[f][p] # None}

Without(S) == [f \in Fronts |-> [p \in Ports |-> IF <<f, p>> \in S THEN None ELSE held[f][p]]]

(* on_device_pre_detached_block() for the pairs Z, one after the other:    *)
(* the cache is written, then the disk detached; a failure ends the loop   *)
(* and what the caller does after it.  Nobody knows of the disks of B.     *)
DetachFails(Z, B) == \E done \in SUBSET Z : \E z \in Z \ done :
    /\ Happens
    /\ held' = Without(done)
    /\ cache' = [p \in Ports |-> IF \E f \in Fronts : <<f, p>> \in done \cup {z}
                                 THEN Free ELSE cache[p]]
    /\ blink' = Left(blink \cup B \cup {x[2] : x \in Z \ done})
--------------------------------------------------------------------------
(* device_list_change() *)
Added == {p \in Ports : cache[p] = Absent /\ Current(p) # Absent}
Detached == {p \in Ports : cache[p] \in Fronts /\ Current(p) # cache[p]}
Zombies_Never(S) == {}
Zombies(S) == {<<cache[p], p>> : p \in {p \in S : /\ cache[p] \in Fronts
                                                  /\ Running(cache[p])
                                                  /\ held[cache[p]][p] # None}}
ToAttach_NotRequired ==
    {i \in {Item(p, {f \in Fronts : Running(f)}, Modes \ {"required"}) : p \in {p \in Added : Current(p) = Free}} :
        DOMAIN i.wants # {}}
ToAttach ==
    {i \in {Item(p, {f \in Fronts : Running(f)}, Modes) : p \in {p \in Added : Current(p) = Free}} :
        DOMAIN i.wants # {}}

Task(id, items) == [of |-> id, items |-> items, stage |-> "ready", now |-> None, known |-> FALSE]
FreshId == CHOOSE n \in 1..(MaxEvents + 1) :
    /\ \A t \in tasks : t.of # n
    /\ \A m \in 1..(n - 1) : \E t \in tasks : t.of = m

OnQdbChange ==
    /\ changed
    /\ held' = Without(Zombies(Detached))
    /\ cache' = [p \in Ports |-> Current(p)]
    /\ tasks' = tasks \cup (IF ToAttach = {} THEN {} ELSE {Task(FreshId, ToAttach)})
    /\ changed' = FALSE
    /\ suspect' = {}
    /\ blink' = Left(blink \cup {p \in suspect : ~Exposes(p)})
    /\ excused' = {p \in excused \ Added : Exposes(p)}
    /\ skipped' = {p \in skipped \ Added : Exposes(p)}
    /\ UNCHANGED <<vms, exposed, mode>> /\ Quiet

OnQdbChangeFails ==
    /\ changed
    /\ DetachFails(Zombies(Detached), {p \in suspect : ~Exposes(p)})
    /\ changed' = FALSE
    /\ suspect' = suspect \cup {p \in Ports : cache'[p] # Current(p)}
    /\ UNCHANGED <<vms, exposed, mode, tasks, excused, skipped>>
--------------------------------------------------------------------------
(* Tasks.  A task goes through its items, which have no order of their     *)
(* own; an exception drops those that are left.                            *)
Drop(t, i) == /\ tasks' = tasks \ {t}
              /\ skipped' = skipped \cup {j.port : j \in t.items \ {i}}

NextItem(t, i) == tasks' = (tasks \ {t}) \cup
    (IF t.items = {i} THEN {}
     ELSE {[t EXCEPT !.items = t.items \ {i}, !.stage = "ready", !.now = None, !.known = FALSE]})

Known(i) == Exposes(i.port) /\ exposed[i.port] = i.dev      \* assignment.device

attach_and_notify(t, i, f, known) ==
    /\ \/ /\ Refused(f, i.port, known)
          /\ Drop(t, i)
          /\ excused' = IF t.stage = "choose" THEN excused \cup {i.port} ELSE excused
          /\ UNCHANGED <<cache, held, suspect>> /\ Quiet
       \/ /\ ~Refused(f, i.port, known)
          /\ AttachFails(f, i.port) /\ Drop(t, i)
       \/ /\ ~Refused(f, i.port, known)
          /\ Attached(f, i.port) /\ NextItem(t, i)
          /\ UNCHANGED <<suspect, excused, skipped>> /\ Quiet
    /\ UNCHANGED <<vms, exposed, mode, changed, blink>>

Waits(t, i, stage) ==
    /\ tasks' = (tasks \ {t}) \cup {[t EXCEPT !.stage = stage, !.now = i, !.known = Known(i)]}
    /\ UNCHANGED <<vms, exposed, held, cache, mode, changed, history>> /\ Quiet

RunTask(t) ==
    /\ t.stage = "ready"
    /\ \E i \in t.items :
        \/ (\E f, g \in DOMAIN i.wants : f # g) /\ Waits(t, i, "choose")
        \/ \E f \in DOMAIN i.wants :
              /\ DOMAIN i.wants = {f}
              /\ IF i.wants[f] = "ask" THEN Waits(t, i, "confirm")
                 ELSE attach_and_notify(t, i, f, Known(i))

Chosen(t) ==                \* several frontends want it: the user picks one
    /\ t.stage = "choose"
    /\ \E f \in DOMAIN t.now.wants : attach_and_notify(t, t.now, f, Known(t.now))

Confirmed(t) ==             \* with the device as found before the question
    /\ t.stage = "confirm"
    /\ \E f \in DOMAIN t.now.wants : attach_and_notify(t, t.now, f, t.known)

\* Refusing a conflict returns from the whole list; refusing one device does not.
Denied(t) ==
    /\ \/ t.stage = "choose" /\ Drop(t, t.now)
       \/ t.stage = "confirm" /\ NextItem(t, t.now) /\ UNCHANGED skipped
    /\ excused' = excused \cup {t.now.port}
    /\ UNCHANGED <<vms, exposed, held, cache, mode, changed, suspect, blink>> /\ Quiet
--------------------------------------------------------------------------
(* admin.vm.device.block.* *)
AttachFrame == UNCHANGED <<vms, exposed, mode, changed, tasks, blink, skipped>>

Attach(f, p) ==
    /\ ~Refused(f, p, Exposes(p))
    /\ \/ Attached(f, p) /\ Happens /\ UNCHANGED <<suspect, excused>>
       \/ AttachFails(f, p)
    /\ AttachFrame

Required(f, p) == \E k \in Keys : mode[f][k] = "required" /\ Matches(k, p)

Detach(f, p) ==
    /\ f \in Holders(p)
    /\ ~Required(f, p)
    /\ \/ /\ cache' = [cache EXCEPT ![p] = Free]
          /\ held' = Without({<<f, p>>})
          /\ blink' = Left(blink)
          /\ suspect' = IF Exposes(p) \/ changed THEN suspect ELSE suspect \cup {p}
          /\ Happens
       \/ DetachFails({<<f, p>>}, {}) /\ suspect' = suspect \cup {p}
    /\ excused' = excused \cup {p}
    /\ UNCHANGED <<vms, exposed, mode, changed, tasks, skipped>>

SetMode(f, k, m) ==
    /\ Happens
    /\ mode' = [mode EXCEPT ![f][k] = m]
    /\ excused' = excused \cup {p \in Ports : k.port \in {Star, p}}
    /\ UNCHANGED <<vms, exposed, held, cache, changed, tasks, suspect, blink, skipped>>

assign(f, k, m) == mode[f][k] = None /\ SetMode(f, k, m)
unassign(f, k) == mode[f][k] # None /\ SetMode(f, k, None)
update_assignment(f, k, m) == mode[f][k] \notin {None, m} /\ SetMode(f, k, m)
--------------------------------------------------------------------------
(* The frontends *)
StartCheck(f) ==            \* start(), up to its first await
    /\ front[f] = "off" /\ Happens
    /\ \A t \in tasks : t.of # f        \* its last start() still has the lock
    /\ \A k \in Keys : mode[f][k] = "required" => \E p \in Ports : Exposes(p) /\ Matches(k, p)
    /\ front' = [front EXCEPT ![f] = "checked"]
    /\ UNCHANGED <<back, exposed, held, cache, mode, changed, tasks, history>>

StartFails(f) ==
    /\ front[f] = "checked"
    /\ front' = [front EXCEPT ![f] = "off"]
    /\ UNCHANGED <<back, exposed, held, cache, mode, changed, tasks, history>> /\ Quiet

\* The disks of xen.xml; a missing device has no device_node to render.
Needed(f) == {p \in Ports : Exposes(p) /\ Required(f, p)}
Renders(f) == \A k \in Keys : mode[f][k] = "required" /\ k.port # Star
                    => Exposes(k.port) /\ Matches(k, k.port)

Create(f) ==                \* createWithFlags(); a held device is not shared
    /\ front[f] = "checked"
    /\ Renders(f)
    /\ \A p \in Needed(f) : Holders(p) = {}
    /\ front' = [front EXCEPT ![f] = "created"]
    /\ held' = [held EXCEPT ![f] = [p \in Ports |-> IF p \in Needed(f) THEN exposed[p] ELSE None]]
    /\ suspect' = suspect \cup Needed(f)
    /\ UNCHANGED <<back, exposed, cache, mode, changed, tasks, blink, excused, skipped>> /\ Quiet

Wanted(f) == {p \in Ports : Exposes(p) /\ Holders(p) = {} /\ Wish(f, p, {"auto", "ask"}) # {}}

on_domain_start(f) ==
    /\ front[f] = "created"
    /\ front' = [front EXCEPT ![f] = "on"]
    /\ tasks' = tasks \cup
            {Task(f, {Item(p, {f}, {"auto", "ask"})}) : p \in Wanted(f)}
    /\ UNCHANGED <<back, exposed, held, cache, mode, changed, history>> /\ Quiet

Stop(f) ==                  \* shutdown, kill, crash
    /\ Running(f) /\ Happens
    /\ front' = [front EXCEPT ![f] = "ended"]
    /\ held' = [held EXCEPT ![f] = [p \in Ports |-> None]]
    /\ excused' = excused \cup {p \in Ports : held[f][p] # None}
    /\ blink' = Left(blink)
    /\ UNCHANGED <<back, exposed, cache, mode, changed, tasks, suspect, skipped>>

Released_Forgotten(f) == [p \in Ports |-> IF cache[p] = f THEN Absent ELSE cache[p]]
Released(f) == [p \in Ports |-> IF cache[p] = f THEN Free ELSE cache[p]]

detach_attached_devices_on_shutdown(f) ==
    /\ front[f] = "ended"
    /\ front' = [front EXCEPT ![f] = "off"]
    /\ cache' = Released(f)
    /\ UNCHANGED <<back, exposed, held, mode, changed, tasks, history>> /\ Quiet
--------------------------------------------------------------------------
(* The backend, and qubesd *)
Plug(p, d) ==
    /\ back = "on" /\ exposed[p] = None /\ Happens
    /\ \A q \in Ports : exposed[q] # d
    /\ exposed' = [exposed EXCEPT ![p] = d]
    /\ changed' = TRUE
    /\ excused' = IF cache[p] = Absent THEN excused ELSE excused \cup {p}
    /\ blink' = IF Holders(p) = {} THEN blink ELSE blink \cup {p}
    /\ UNCHANGED <<vms, held, cache, mode, tasks, suspect, skipped>>

Unplug(p) ==
    /\ Exposes(p) /\ Happens
    /\ exposed' = [exposed EXCEPT ![p] = None]
    /\ changed' = TRUE
    /\ UNCHANGED <<vms, held, cache, mode, tasks, history>>

StopBackend ==
    /\ back = "on" /\ Happens
    /\ back' = "ended"
    /\ exposed' = [p \in Ports |-> None]
    /\ changed' \in {changed, FALSE}
    /\ UNCHANGED <<front, held, cache, mode, tasks, history>>

on_domain_shutdown ==
    /\ back = "ended"
    /\ back' = "off"
    /\ \/ /\ held' = Without(Zombies(Ports))
          /\ cache' = [p \in Ports |-> Absent]
          /\ suspect' = {}
          /\ blink' = Left(blink \cup suspect)
          /\ Quiet
       \/ /\ DetachFails(Zombies(Ports), suspect)
          /\ suspect' = {p \in Ports : cache'[p] # Absent}
    /\ UNCHANGED <<front, exposed, mode, changed, tasks, excused, skipped>>

StartBackend ==
    /\ back = "off" /\ Happens
    /\ back' = "on"
    /\ UNCHANGED <<front, exposed, held, cache, mode, changed, tasks, history>>

Cached == [p \in Ports |-> Current(p)]          \* on_domain_init_load()

Restart ==
    /\ Happens
    /\ tasks' = {} /\ changed' = FALSE
    /\ back' = IF back = "ended" THEN "off" ELSE back
    /\ front' = [f \in Fronts |-> CASE front[f] \in {"checked", "ended"} -> "off"
                                    [] front[f] = "created" -> "on"
                                    [] OTHER -> front[f]]
    /\ cache' = Cached
    /\ suspect' = {} /\ skipped' = {}
    /\ blink' = blink \cup {p \in Ports : \E f \in Fronts : held[f][p] \notin {None, exposed[p]}}
    /\ excused' = {p \in Ports : Exposes(p)}
    /\ UNCHANGED <<exposed, held, mode>>
--------------------------------------------------------------------------
Init ==                     \* qubesd starts: assignments loaded, cache built
    /\ back = "on" /\ changed = FALSE /\ tasks = {} /\ happened = 0
    /\ exposed \in [Ports -> Devs \cup {None}]
    /\ \A p, q \in Ports : exposed[p] = exposed[q] /\ p # q => exposed[p] = None
    /\ front \in [Fronts -> {"off", "on"}]
    /\ held = [f \in Fronts |-> [p \in Ports |-> None]]
    /\ mode \in [Fronts -> [Keys -> Modes \cup {None}]]
    /\ cache = Cached
    /\ suspect = {} /\ blink = {} /\ skipped = {}
    /\ excused = {p \in Ports : exposed[p] # None}

Next ==
    \/ OnQdbChange \/ OnQdbChangeFails
    \/ \E t \in tasks : \/ RunTask(t) \/ Chosen(t) \/ Confirmed(t) \/ Denied(t)
    \/ \E f \in Fronts, p \in Ports : Attach(f, p) \/ Detach(f, p)
    \/ \E f \in Fronts, k \in Keys :
          \/ unassign(f, k)
          \/ \E m \in Modes : assign(f, k, m) \/ update_assignment(f, k, m)
    \/ \E f \in Fronts :
          \/ StartCheck(f) \/ StartFails(f) \/ Create(f) \/ on_domain_start(f)
          \/ Stop(f) \/ detach_attached_devices_on_shutdown(f)
    \/ \E p \in Ports : Unplug(p) \/ \E d \in Devs : Plug(p, d)
    \/ StopBackend \/ on_domain_shutdown \/ StartBackend \/ Restart

Spec == Init /\ [][Next]_vars
--------------------------------------------------------------------------
TypeOK ==
    /\ back \in {"off", "on", "ended"}
    /\ exposed \in [Ports -> Devs \cup {None}]
    /\ front \in [Fronts -> {"off", "checked", "created", "on", "ended"}]
    /\ held \in [Fronts -> [Ports -> Devs \cup {None}]]
    /\ cache \in [Ports -> Fronts \cup {Free, Absent}]
    /\ mode \in [Fronts -> [Keys -> Modes \cup {None}]]
    /\ changed \in BOOLEAN
    /\ suspect \subseteq Ports /\ blink \subseteq Ports
    /\ excused \subseteq Ports /\ skipped \subseteq Ports
    /\ happened \in 0..MaxEvents

\* Nothing of the backend waits to be handled.
Handled == ~changed /\ back # "ended"

(* The cache agrees with QubesDB and libvirt whenever no change waits, but *)
(* for a frontend whose end is not handled and the ports `suspect` names.  *)
CacheAgrees == Handled => \A p \in Ports \ suspect :
    \/ cache[p] = Current(p)
    \/ Current(p) = Free /\ cache[p] \in Fronts /\ front[cache[p]] = "ended"

(* A running qube's disk is backed by the device it was made for, or gone, *)
(* once the unplugging was handled, but for the ports `blink` names.       *)
HoldsWhatIsThere == Handled => \A f \in Fronts, p \in Ports \ blink :
    Running(f) => held[f][p] \in {None, exposed[p]}

(* The inductive invariant: tasks are about ports and qubes there are; a   *)
(* disk belongs to one qube, that runs; and one that is not of what is in  *)
(* its port is still to be taken away, and the cache knows whose it is.    *)
ItemOK(i) == i.port \in Ports /\ DOMAIN i.wants \subseteq Fronts

TaskOK(t) ==
    /\ DOMAIN t = {"of", "items", "stage", "now", "known"}
    /\ t.items # {} /\ \A i \in t.items : ItemOK(i)
    /\ t.stage \in {"ready", "choose", "confirm"}
    /\ t.stage # "ready" => t.now \in t.items

TaskInv == \A t \in tasks : TaskOK(t)

DiskInv ==
    /\ back # "on" => \A p \in Ports : exposed[p] = None
    /\ \A f \in Fronts, p \in Ports : held[f][p] # None =>
        /\ Running(f)
        /\ \A g \in Fronts : held[g][p] # None => g = f
        /\ p \notin blink => cache[p] = f \/ p \in suspect
        /\ p \notin blink /\ held[f][p] # exposed[p] => exposed[p] = None /\ ~Handled

DevicesInv == TypeOK /\ TaskInv /\ DiskInv /\ CacheAgrees

(* A started qube is to get the device of a port without a question, or a  *)
(* created one by its requirement; nobody has it, and no port is excused.  *)
Needs(f, p) ==
    \/ front[f] = "on" /\ ~(Wish(f, p, Modes) \subseteq {"ask"})
    \/ front[f] = "created" /\ Required(f, p)

Waiting(f, p) ==
    Exposes(p) /\ Holders(p) = {} /\ Needs(f, p) /\ p \notin excused \cup skipped

(* Then the handler of an event will find it added, or there is a task     *)
(* that attaches it, once it has asked if it must: it knows the device.    *)
Brings(t, i, f, p) ==
    /\ i.port = p /\ i.dev = exposed[p] /\ f \in DOMAIN i.wants
    /\ t.stage = "confirm" /\ t.now = i => t.known

Coming(f, p) ==
    \/ cache[p] = Absent /\ (changed \/ p \in suspect)
    \/ \E t \in tasks : \E i \in t.items : Brings(t, i, f, p)

ServeInv ==
    /\ \A f \in Fronts, p \in Ports : Waiting(f, p) => Coming(f, p)
    /\ \A t \in tasks : t.stage = "confirm" => \A f, g \in DOMAIN t.now.wants : f = g

(* With nothing left to do, a device nobody has is not one that a started  *)
(* qube was to get without a question, but for the ports named.            *)
Unserved(p) == /\ Exposes(p) /\ Holders(p) = {}
               /\ \E f \in Fronts : front[f] = "on" /\ ~(Wish(f, p, Modes) \subseteq {"ask"})
AutoAttached == (Handled /\ tasks = {}) =>
    \A p \in Ports : Unserved(p) => p \in excused \cup suspect \cup skipped

(* The same, with no port dropped because of another one of its list.      *)
AutoAttachedEach == (Handled /\ tasks = {}) =>
    \A p \in Ports : Unserved(p) => p \in excused \cup suspect

(* A started qube has a disk for each of its required assignments when it  *)
(* is created.                                                             *)
RequiredPresent == [][\A f \in Fronts : (front[f] = "checked" /\ front'[f] = "created") =>
    \A k \in Keys : mode[f][k] = "required" =>
        \E p \in Ports : Matches(k, p) /\ held'[f][p] # None]_vars
===========================================================================
