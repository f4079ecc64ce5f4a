--------------------------- MODULE MemoryBalance ---------------------------
(***************************************************************************)
(* The memory manager of the host (tools/qmemmand.py, qmemman/*.py): a     *)
(* thread that serves one client at a time, which asks for memory to start *)
(* a qube or for a qube to give back what it does not need, and a thread   *)
(* that watches xenstore and balances; GLOBAL_LOCK, held by a client until *)
(* it disconnects; the domains, which follow their targets in their own    *)
(* time.  Amounts are whole megabytes, factors are exact fractions.        *)
(***************************************************************************)
EXTENDS Integers, Sequences, FiniteSets, FiniteSetsExt

CONSTANTS
    Dom0, Qubes,        \* the domains there may be
    Total,              \* memory of the host
    MemMax,             \* [domain -> its static or hotplug maximum]
    Uses,               \* what a domain reports to use
    Sizes,              \* what a new qube asks for
    MIN_PREFMEM, DOM0_MEM_BOOST,
    XEN_FREE_MEM_LEFT, XEN_FREE_MEM_MIN,
    MIN_TOTAL_MEMORY_TRANSFER, MIN_MEM_CHANGE_WHEN_UNDER_PREF,
    CHECK_PERIOD, CHECK_DELTA, CHECK_MB_S, LAST_SECOND,
    Tries,              \* ntries of do_balance
    None,
    MaxRequests, MaxEvents      \* bounds: MaxEvents of reports and ends

Doms == {Dom0} \cup Qubes

ASSUME MemoryAssumption ==
    /\ IsFiniteSet(Qubes) /\ None \notin Int
    /\ Total \in Nat /\ MemMax \in [Doms -> Nat \ {0}]
    /\ Uses \subseteq Nat /\ Sizes \subseteq Nat
    /\ MIN_PREFMEM \in Nat \ {0} /\ DOM0_MEM_BOOST \in Nat \ {0}
    /\ XEN_FREE_MEM_LEFT \in Nat /\ XEN_FREE_MEM_MIN \in 0..XEN_FREE_MEM_LEFT

VARIABLES
    alive, current, target,     \* Xen: its domains, their memory and targets
    store,      \* memory/target in xenstore, as a new DomainState reads it
    meminfo,    \* memory/meminfo in xenstore
    known,      \* dom_dict.keys()
    dom,        \* its DomainStates
    lock,       \* holder of GLOBAL_LOCK: "free", "client", "watch"
    force_refresh_domain_list,
    client,     \* the request being served
    reserved,   \* granted and not used yet
    watch,      \* what the watcher does
    pending,    \* watches that fired
    unseen,     \* history: granted by a stale domain list
    lent,       \* history: a target raised by a stale measure
    requests, events

xen == <<alive, current, target, store, meminfo>>
daemon == <<known, dom, force_refresh_domain_list>>
memoryVars == <<xen, daemon, lock, client, reserved, watch, pending, unseen, lent, requests, events>>

NewState == [cur |-> 0, act |-> None, last |-> 0, used |-> None, no_progress |-> FALSE]
Idle == [stage |-> "idle"]

(* The sum of f[x] for all x of a finite set S.                            *)
Sum(f, S) ==
    LET sum[T \in SUBSET S] ==
            IF T = {} THEN 0
            ELSE LET x == CHOOSE x \in T : TRUE IN f[x] + sum[T \ {x}]
    IN  sum[S]

Free == Total - Sum(current, alive)
Claim(d) == Max({0, target[d] - current[d]})
Happens == events < MaxEvents /\ events' = events + 1 /\ UNCHANGED requests
Claims == Sum([d \in alive |-> Claim(d)], alive)
--------------------------------------------------------------------------
(* algo.py, for the domain states r                                        *)
pref_mem(r, d) ==
    LET used == (r[d].used * 13) \div 10
    IN  IF d = Dom0 THEN Min({used + DOM0_MEM_BOOST, MemMax[d]})
        ELSE Max({Min({used, MemMax[d]}), MIN_PREFMEM})

needed_mem(r, d) == pref_mem(r, d) - r[d].act

Counted(r) == {d \in known : r[d].used # None /\ ~r[d].no_progress}
Prefs(r, D) == Sum([d \in D |-> pref_mem(r, d)], D)
Spare(r, D) == Sum([d \in D |-> -needed_mem(r, d)], D)

\* A list of requests: the targets, and who is served first.
List(f, first) == [to |-> f, first |-> first]
NoTargets == [d \in {} |-> 0]

balloon(r, size) ==
    LET donors == {d \in Counted(r) : needed_mem(r, d) < 0}
        avail == Spare(r, donors)
    IN  IF avail < size THEN NoTargets
        ELSE [d \in donors |->
                (r[d].act * 100 * avail + needed_mem(r, d) * size * 105) \div (100 * avail)]

\* A round of the while loop of balance_when_enough_mem(); one that fills no
\* domain is the last.
Round(s) ==
    LET t == s.to
        bonus == (s.left * 999) \div (s.open * 1000)
        under == {d \in DOMAIN t : t[d] < MemMax[d]}
        full == {d \in under : t[d] + bonus >= MemMax[d]}
    IN  [to |-> [d \in DOMAIN t |-> IF d \in full THEN MemMax[d]
                                   ELSE IF d \in under THEN t[d] + bonus ELSE t[d]],
         left |-> Sum([d \in full |-> t[d] + bonus - MemMax[d]], full),
         open |-> s.open - Cardinality(full)]

Spread(to, left, open) ==
    LET rounds[i \in 0..(open + 1)] ==
            IF i = 0 THEN [to |-> to, left |-> left, open |-> open]
            ELSE LET s == rounds[i - 1]
                 IN  IF s.left <= 0 \/ s.open <= 0 THEN s ELSE Round(s)
    IN  rounds[open + 1].to

balance_when_enough_mem(r, available) ==
    LET D == Counted(r)
        share == [d \in D |-> (999 * ((pref_mem(r, d) * (Prefs(r, D) + available)) \div Prefs(r, D))) \div 1000]
        over == {d \in D : share[d] > MemMax[d]}
        to == Spread([d \in D |-> Min({share[d], MemMax[d]})],
                     Sum([d \in over |-> share[d] - MemMax[d]], over),
                     Cardinality(D \ over))
    IN  List(to, {d \in D : to[d] < r[d].act})

balance_when_low_on_mem(r, free, donors, acceptors) ==
    LET gives == {d \in donors : -needed_mem(r, d) >= 10}
        squeezed == free - Spare(r, gives)
        total == Prefs(r, acceptors)
        gets(d) == Min({(999 * ((r[d].act * total + pref_mem(r, d) * squeezed) \div total)) \div 1000,
                        MemMax[d]})
    IN  List([d \in gives \cup (IF squeezed < 0 THEN {} ELSE acceptors) |->
                IF d \in gives THEN pref_mem(r, d) ELSE gets(d)], gives)

balance(r, free) ==         \* mem_info() and balance()
    LET D == Counted(r)
        donors == {d \in D : needed_mem(r, d) < 0 \/ r[d].act >= MemMax[d]}
        available == free + Spare(r, D)
    IN  IF available > 0 THEN balance_when_enough_mem(r, available)
        ELSE balance_when_low_on_mem(r, free, donors, D \ donors)
--------------------------------------------------------------------------
(* systemstate.py *)
Unclaimed_Ignored(r) == 0
Unclaimed(r) == Sum([d \in known |-> Max({0, r[d].last - r[d].cur})], known)
get_free_xen_mem(r) == Free - Unclaimed(r)

refresh_mem_actual(r, D) == [d \in Doms |->
    IF d \in known \cap alive \cap D
    THEN [r[d] EXCEPT !.cur = current[d], !.act = Max({current[d], r[d].last})]
    ELSE r[d]]

clear_outdated_error_markers(r) == [d \in Doms |->
    IF /\ d \in known /\ r[d].used # None
       /\ \/ r[d].act <= r[d].last + XEN_FREE_MEM_LEFT \div 2
          \/ needed_mem(r, d) > 0
    THEN [r[d] EXCEPT !.no_progress = FALSE] ELSE r[d]]

\* domain_set_target_mem() fails for a domain that is gone.
mem_set(t, r) ==
    /\ dom' = [d \in Doms |-> IF d \in DOMAIN t THEN [r[d] EXCEPT !.last = t[d]] ELSE r[d]]
    /\ target' = [d \in Doms |-> IF d \in DOMAIN t \cap alive THEN t[d] ELSE target[d]]
    /\ store' = [d \in Doms |-> IF d \in DOMAIN t \cap alive THEN t[d] - 16 ELSE store[d]]
    /\ UNCHANGED <<alive, current, meminfo>>

is_balance_req_significant(r, to, free) ==
    LET change(d) == to[d] - r[d].last
        moved == Sum([d \in DOMAIN to |-> Max({change(d), -change(d)})], DOMAIN to)
        off == free - XEN_FREE_MEM_LEFT
    IN  \/ -off > MIN_MEM_CHANGE_WHEN_UNDER_PREF
        \/ \E d \in DOMAIN to : /\ 0 < r[d].last /\ r[d].last < pref_mem(r, d)
                                /\ change(d) > MIN_MEM_CHANGE_WHEN_UNDER_PREF
        \/ moved + Max({off, -off}) > MIN_TOTAL_MEMORY_TRANSFER
--------------------------------------------------------------------------
(* QMemmanReqHandler.handle() *)
\* A client whose loop runs: for a new qube, or for one that gives back.
Balloons(size, niter, ring, prev) ==
    [stage |-> "loop", kind |-> "balloon", size |-> size, niter |-> niter, ring |-> ring, prev |-> prev]
GivesBack(d, niter, ring, want) ==
    [stage |-> "loop", kind |-> "set_mem", size |-> d, niter |-> niter, ring |-> ring, want |-> want]

Request(kind, size) ==
    /\ client = Idle /\ requests < MaxRequests
    /\ requests' = requests + 1
    /\ client' = [stage |-> "waits", kind |-> kind, size |-> size]
    /\ UNCHANGED <<xen, daemon, lock, reserved, watch, pending, unseen, lent, events>>

\* A domain that ended before it was measured: mem_actual is None, and an
\* assertion or the arithmetic fails.
Unmeasured(r, D) == \E d \in known \cap D : r[d].used # None /\ r[d].act = None

Raises == client' = Idle    \* the lock is released, the client told nothing

Serve ==                    \* the lock, and do_balloon() up to its loop
    /\ client.stage = "waits" /\ lock = "free"
    /\ IF client.kind = "balloon"
       THEN /\ dom' = [d \in Doms |-> [dom[d] EXCEPT !.no_progress = FALSE]]
            /\ client' = Balloons(client.size, 0, <<>>, NoTargets)
       ELSE IF client.size \notin known \/ Unmeasured(dom, {client.size})
       THEN Raises /\ UNCHANGED dom
       ELSE /\ dom' = [dom EXCEPT ![client.size].no_progress = FALSE]
            /\ client' = IF dom[client.size].used = None THEN [stage |-> "answered"]
                         ELSE GivesBack(client.size, 0, <<>>, pref_mem(dom, client.size))
    /\ lock' = IF client' = Idle THEN "free" ELSE "client"
    /\ UNCHANGED <<xen, known, force_refresh_domain_list, reserved, watch, pending, unseen, lent, requests, events>>

Fails == /\ client' = [stage |-> "answered"]
         /\ UNCHANGED <<reserved, unseen>>

do_balloon ==               \* one round of its loop, up to the sleep
    /\ client.stage = "loop" /\ client.kind = "balloon"
    /\ LET fresh == refresh_mem_actual(dom, Doms)
           free == get_free_xen_mem(fresh)
           grants == free >= client.size + XEN_FREE_MEM_MIN
           stuck == {d \in DOMAIN client.prev : client.prev[d] = fresh[d].act}
           r == [d \in Doms |-> IF d \in stuck THEN [fresh[d] EXCEPT !.no_progress = TRUE] ELSE fresh[d]]
           to == balloon(r, client.size + XEN_FREE_MEM_LEFT - free)
           slow == client.niter >= CHECK_PERIOD /\ free < Head(client.ring) + CHECK_DELTA
           raises == Unmeasured(r, {d \in Doms : ~r[d].no_progress})
       IN \/ /\ grants  \* inhibit_balloon_up(): who was measured has its last target
             /\ dom' = fresh
             /\ client' = [stage |-> "granted"]
             /\ reserved' = client.size
             /\ unseen' = (unseen \/ ~(alive \subseteq known))
             /\ UNCHANGED <<xen, lock>>
          \/ /\ ~grants /\ slow
             /\ dom' = fresh /\ Fails /\ UNCHANGED <<xen, lock>>
          \/ /\ ~grants /\ ~slow /\ raises
             /\ dom' = r /\ Raises /\ lock' = "free"
             /\ UNCHANGED <<xen, reserved, unseen>>
          \/ /\ ~grants /\ ~slow /\ ~raises /\ to = NoTargets
             /\ dom' = r /\ Fails /\ UNCHANGED <<xen, lock>>
          \/ /\ ~grants /\ ~slow /\ ~raises /\ to # NoTargets
             /\ mem_set(to, r)
             /\ client' = Balloons(client.size, client.niter + 1,
                    Append(IF Len(client.ring) = CHECK_PERIOD THEN Tail(client.ring) ELSE client.ring, free),
                    [d \in DOMAIN to |-> r[d].act])
             /\ UNCHANGED <<reserved, unseen, lock>>
    /\ UNCHANGED <<known, force_refresh_domain_list, watch, pending, lent, requests, events>>

do_balloon_dom ==           \* one round of its loop, for one domain
    /\ client.stage = "loop" /\ client.kind = "set_mem"
    /\ LET d == client.size
           r == refresh_mem_actual(dom, {d})
           want == IF client.niter > 0 /\ client.niter % 10 = 0 THEN pref_mem(r, d) ELSE client.want
           ring == Append(IF Len(client.ring) = LAST_SECOND THEN Tail(client.ring) ELSE client.ring, r[d].act)
       IN \/ /\ \/ r[d].act * 10 <= want * 11
                \/ client.niter >= CHECK_PERIOD /\ Head(ring) - r[d].act < CHECK_MB_S
             /\ dom' = r /\ client' = [stage |-> "answered"] /\ UNCHANGED xen
          \/ /\ r[d].act * 10 > want * 11
             /\ client.niter < CHECK_PERIOD \/ Head(ring) - r[d].act >= CHECK_MB_S
             /\ mem_set([x \in {d} |-> want], r)
             /\ client' = GivesBack(d, client.niter + 1, ring, want)
    /\ UNCHANGED <<known, force_refresh_domain_list, lock, reserved, watch, pending, unseen, lent, requests, events>>

\* The client builds its domain in what was granted; some of it may be used later.
CreateDomain(d) ==
    /\ client.stage = "granted" /\ reserved > 0
    /\ d \notin alive /\ current[d] = None
    /\ alive' = alive \cup {d}
    /\ \E used \in {reserved \div 2, reserved} : current' = [current EXCEPT ![d] = used]
    /\ target' = [target EXCEPT ![d] = reserved]
    /\ store' = [store EXCEPT ![d] = reserved]
    /\ reserved' = 0
    /\ pending' = pending \cup {"list"}
    /\ UNCHANGED <<meminfo, daemon, lock, client, watch, unseen, lent, requests, events>>

Disconnect ==
    /\ client.stage \in {"granted", "answered"}
    /\ client' = Idle /\ reserved' = 0 /\ lock' = "free"
    /\ force_refresh_domain_list' = TRUE
    /\ UNCHANGED <<xen, known, dom, watch, pending, unseen, lent, requests, events>>
--------------------------------------------------------------------------
(* XSWatcher *)
Take(e) ==                  \* read_watch(); meminfo is read before the lock
    /\ watch = Idle /\ e \in pending
    /\ pending' = pending \ {e}
    /\ watch' = IF e \in Doms /\ meminfo[e] = None THEN Idle
                ELSE [stage |-> "waits", of |-> e, info |-> IF e \in Doms THEN meminfo[e] ELSE None]
    /\ UNCHANGED <<xen, daemon, lock, client, reserved, unseen, lent, requests, events>>

\* The domain states after domain_list_changed(); a new one has its watch set.
Updated == [d \in Doms |-> IF d \in alive \ known THEN [NewState EXCEPT !.last = store[d]]
                          ELSE IF d \in alive THEN dom[d] ELSE NewState]

Release == lock' = "free" /\ watch' = Idle

\* The loop of do_balance(): the list, the domain it waits at, and who is done.
Sets(stage, list, at, tries, done, prev) ==
    [stage |-> stage, list |-> list, at |-> at, tries |-> tries, done |-> done, prev |-> prev]

\* do_balance() up to its first request.
do_balance(r0) ==
    LET r == clear_outdated_error_markers(r0)
        free == get_free_xen_mem(r)
        list == balance(r, free - XEN_FREE_MEM_LEFT)
    IN  IF Unmeasured(r0, Doms) THEN Release /\ dom' = r0
        ELSE
        /\ dom' = r
        /\ IF is_balance_req_significant(r, list.to, free) /\ list.to # NoTargets
           THEN /\ lock' = "watch"
                /\ watch' = Sets("sets", list, None, Tries, {}, [d \in known |-> r[d].act])
           ELSE Release

Done == /\ Release
        /\ UNCHANGED dom

Refreshes == watch.of = "list" \/ force_refresh_domain_list

RefreshList ==              \* the lock is got with a list to refresh
    /\ watch.stage = "waits" /\ lock = "free" /\ Refreshes
    /\ lock' = "watch"
    /\ known' = alive /\ dom' = Updated
    /\ watch' = [stage |-> "handles", of |-> watch.of, info |-> watch.info]
    /\ pending' = pending \cup (alive \ known)
    /\ force_refresh_domain_list' = (force_refresh_domain_list /\ watch.of = "list")
    /\ UNCHANGED <<xen, client, reserved, unseen, lent, requests, events>>

Handle ==                   \* domain_list_changed(), meminfo_changed()
    /\ \/ watch.stage = "handles"
       \/ watch.stage = "waits" /\ lock = "free" /\ ~Refreshes
    /\ IF watch.of = "list" THEN do_balance(refresh_mem_actual(dom, Doms))
       ELSE IF watch.of \in known
       THEN do_balance(refresh_mem_actual([dom EXCEPT ![watch.of].used = watch.info], Doms))
       ELSE Done
    /\ UNCHANGED <<xen, known, force_refresh_domain_list, client, reserved, pending, unseen, lent, requests, events>>

Left == DOMAIN watch.list.to \ watch.done
Turn(d) == /\ watch.stage = "sets" /\ d \in Left
           /\ watch.at \in {None, d}
           /\ d \in watch.list.first \/ Left \cap watch.list.first = {}

EnoughFor(r, d) == 10 * (get_free_xen_mem(r) - (watch.list.to[d] - r[d].act)) >= 9 * XEN_FREE_MEM_LEFT
Enough(d) == EnoughFor(dom, d)

SetTarget(d) ==
    /\ Turn(d) /\ Enough(d)
    /\ mem_set([x \in {d} |-> watch.list.to[d]], dom)
    /\ IF Left = {d} THEN Release
       ELSE watch' = Sets("sets", watch.list, None, Tries, watch.done \cup {d}, watch.prev)
            /\ UNCHANGED lock
    /\ lent' = (lent \/ ~EnoughFor(refresh_mem_actual(dom, Doms), d))
    /\ UNCHANGED <<known, force_refresh_domain_list, client, reserved, pending, unseen, requests, events>>

WaitForDonors(d) ==
    /\ Turn(d) /\ ~Enough(d)
    /\ watch' = Sets("sleeps", watch.list, d, watch.tries, watch.done, watch.prev)
    /\ UNCHANGED <<xen, daemon, lock, client, reserved, pending, unseen, lent, requests, events>>

\* debug_stuck_balance(): who was asked before and did not react.
Stuck(r) == {d \in watch.done : /\ 4 * (r[d].act - r[d].last) > XEN_FREE_MEM_LEFT
                                /\ watch.prev[d] = r[d].act}

WakeUp ==
    /\ watch.stage = "sleeps"
    /\ LET r == refresh_mem_actual(dom, Doms)
           d == watch.at
           marked == [x \in Doms |-> IF x \in Stuck(r) THEN [r[x] EXCEPT !.no_progress = TRUE] ELSE r[x]]
       IN \/ /\ watch.tries > 1
             /\ dom' = r
             /\ watch' = Sets("sets", watch.list, d, watch.tries - 1, watch.done, watch.prev)
             /\ UNCHANGED <<xen, lock>>
          \/ /\ watch.tries <= 1
             /\ mem_set([x \in {d} |-> get_free_xen_mem(r) + r[d].act - XEN_FREE_MEM_LEFT], marked)
             /\ Release
    /\ UNCHANGED <<known, force_refresh_domain_list, client, reserved, pending, unseen, lent, requests, events>>
--------------------------------------------------------------------------
(* The domains *)
Follow(d) ==                \* its balloon driver, as far as Xen has memory
    /\ d \in alive /\ current[d] # target[d]
    /\ target[d] > 0 /\ Claim(d) <= Free
    /\ current' = [current EXCEPT ![d] = target[d]]
    /\ UNCHANGED <<alive, target, store, meminfo, daemon, lock, client, reserved, watch, pending, unseen, lent, requests, events>>

Report(d, used) ==
    /\ d \in alive /\ Happens
    /\ used # meminfo[d] /\ used < current[d]
    /\ meminfo' = [meminfo EXCEPT ![d] = used]
    /\ pending' = IF d \in known THEN pending \cup {d} ELSE pending
    /\ UNCHANGED <<alive, current, target, store, daemon, lock, client, reserved, watch, unseen, lent>>

Die(d) ==
    /\ d \in alive \ {Dom0} /\ Happens
    /\ alive' = alive \ {d}
    /\ pending' = pending \cup {"list"}
    /\ UNCHANGED <<current, target, store, meminfo, daemon, lock, client, reserved, watch, unseen, lent>>
--------------------------------------------------------------------------
MemoryInit ==                     \* the daemon starts beside running domains
    /\ alive \in SUBSET Doms /\ Dom0 \in alive
    /\ target \in [Doms -> Sizes \cup {None}]
    /\ \A d \in Doms : target[d] = None <=> d \notin alive
    /\ current = target
    /\ Free >= XEN_FREE_MEM_MIN
    /\ store \in {target, [d \in Doms |-> IF d \in alive THEN target[d] - 16 ELSE None]}
    /\ meminfo \in [Doms -> Uses \cup {None}]
    /\ \A d \in Doms : d \notin alive => meminfo[d] = None
    /\ known = {} /\ dom = [d \in Doms |-> NewState]
    /\ lock = "free" /\ force_refresh_domain_list = FALSE
    /\ client = Idle /\ reserved = 0 /\ watch = Idle
    /\ pending = {"list"} /\ unseen = FALSE /\ lent = FALSE
    /\ requests = 0 /\ events = 0

MemoryNext ==
    \/ \E n \in Sizes : Request("balloon", n)
    \/ \E d \in Qubes : Request("set_mem", d)
    \/ Serve \/ do_balloon \/ do_balloon_dom
    \/ \E d \in Qubes : CreateDomain(d) \/ Die(d)
    \/ Disconnect
    \/ \E e \in Doms \cup {"list"} : Take(e)
    \/ RefreshList \/ Handle
    \/ \E d \in Doms : SetTarget(d) \/ WaitForDonors(d) \/ Follow(d)
    \/ WakeUp
    \/ \E d \in Doms, used \in Uses : Report(d, used)

MemorySpec == MemoryInit /\ [][MemoryNext]_memoryVars
--------------------------------------------------------------------------
(* Xen has the memory that every domain may still claim and that a client  *)
(* was granted, unless a grant was made by a stale domain list or a target *)
(* raised by a stale measure.                                              *)
Backed == ~(unseen \/ lent) => Claims + reserved <= Free

(* balance() deals out no more than is free beyond XEN_FREE_MEM_LEFT, however *)
(* its weights are rounded and whatever is over in its rounds, or only lowers. *)
BalanceIsCovered ==
    Handle /\ watch'.stage = "sets" =>
        LET to == watch'.list.to
            more == [d \in DOMAIN to |-> to[d] - dom'[d].act]
        IN  \/ \A d \in DOMAIN to : more[d] <= 0
            \/ Sum(more, DOMAIN to) <= get_free_xen_mem(dom)' - XEN_FREE_MEM_LEFT

(* balloon() asks its donors for all that a request misses, or asks nobody.   *)
AsksForAll ==
    do_balloon /\ client'.stage = "loop" =>
        LET had == client'.prev
            missing == client.size + XEN_FREE_MEM_LEFT - get_free_xen_mem(refresh_mem_actual(dom, Doms))
        IN  Sum([d \in DOMAIN had |-> had[d] - dom'[d].last], DOMAIN had) >= missing

(* The inductive invariant: what both threads know of Xen, which the lock  *)
(* makes them know in turn.                                                *)
IsTargets(t) == DOMAIN t \subseteq known /\ t \in [DOMAIN t -> Int]

States == [cur : Int, act : Nat \cup {None}, last : Int, used : Nat \cup {None},
           no_progress : BOOLEAN]

(* Types; Xen's numbers of a domain are there while it lives.             *)
MemoryTypeOK ==
    /\ alive \subseteq Doms /\ known \subseteq Doms
    /\ current \in [Doms -> Nat \cup {None}]
    /\ target \in [Doms -> Int \cup {None}] /\ store \in [Doms -> Int \cup {None}]
    /\ \A d \in alive : None \notin {current[d], target[d], store[d]}
    /\ \A d \in known : current[d] # None
    /\ meminfo \in [Doms -> Nat \cup {None}]
    /\ dom \in [Doms -> States]
    /\ reserved \in Nat

(* Whoever holds the lock; a grant is only used by the client that got it. *)
ClientInv ==
    /\ client.stage \in {"idle", "waits", "loop", "granted", "answered"}
    /\ client.stage \in {"waits", "loop"} => client.kind \in {"balloon", "set_mem"}
    /\ client.stage \in {"waits", "loop"} /\ client.kind = "balloon" => client.size \in Nat
    /\ client.stage = "loop" /\ client.kind = "set_mem" =>
           client.size \in known /\ client.want \in Int /\ dom[client.size].used # None
    /\ client.stage \in {"loop", "granted", "answered"} <=> lock = "client"
    /\ reserved # 0 => client.stage = "granted"

(* What is balanced is what the list of domains names, and they are all.   *)
WatchInv ==
    /\ watch.stage \in {"idle", "waits", "handles", "sets", "sleeps"}
    /\ watch.stage \in {"waits", "handles"} /\ watch.of \in Doms => watch.info \in Nat
    /\ watch.stage \in {"sets", "sleeps"} =>
           IsTargets(watch.list.to) /\ \A d \in DOMAIN watch.list.to : dom[d].act # None
    /\ watch.stage = "sleeps" => watch.at \in DOMAIN watch.list.to
    /\ watch.stage \in {"handles", "sets", "sleeps"} <=> lock = "watch"
    /\ lock = "watch" => alive \subseteq known

(* A new domain is unknown only until the next event is handled.           *)
FreshInv ==
    ~force_refresh_domain_list /\ client.stage \notin {"granted", "answered"} =>
        alive \subseteq known \/ known = {}

(* The last target is the one Xen has, or that was reached from below.     *)
HeardInv ==
    \A d \in alive :
        LET last == IF d \in known THEN dom[d].last ELSE store[d]
        IN  last = target[d] \/ (last <= target[d] /\ target[d] = current[d])

(* All of it, with what it is for.                                         *)
MemoryInv == MemoryTypeOK /\ ClientInv /\ WatchInv /\ FreshInv /\ HeardInv /\ Backed
===========================================================================
