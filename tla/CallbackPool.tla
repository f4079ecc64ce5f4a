---------------------------- MODULE CallbackPool ----------------------------
(* A pool of storage/callback.py: commands of the user run around the calls  *)
(* of another pool's driver, and the storage is made ready by the command    *)
(* pre_sinit when something first uses it after qubesd has started.          *)
EXTENDS Naturals, Sequences, FiniteSets

CONSTANTS Tasks,        \* calls of volumes of the pool
          Operations,   \* a subset of DOMAIN Around
          NoTask,       \* nobody holds the lock
          MaxCalls, MaxRestarts

ASSUME CallbackAssumption == NoTask \notin Tasks

VARIABLES
    late,       \* the configuration has a pre_sinit command
    pool,       \* "none", "adding" (admin.pool.Add) or "listed"
    requires_init,
    lock,       \* who holds _cb_init_lock
    ready,      \* external: the storage is mounted, decrypted, ...
    method,     \* the method that each task runs
    step,       \* the step it is at
    inits,      \* history: successful pre_sinit since qubesd has started
    touched,    \* history: how the driver was called for storage not ready
    calls, restarts

poolVars == <<late, pool, requires_init, lock, ready, method, step, inits, touched, calls, restarts>>

(* The callbacks of each method.                                           *)
Around == [create |-> {"pre", "post"}, remove |-> {"post"}, resize |-> {"pre"},
           start |-> {"pre", "post"}, stop |-> {"post"}, import_data |-> {"pre"},
           import_data_end |-> {"post"}, import_volume |-> {"pre", "post"},
           export |-> {"pre"}, export_end |-> {"post"}, verify |-> {}, revert |-> {}]

PoolInit ==
    /\ late \in BOOLEAN
    /\ pool = "none" /\ requires_init = FALSE /\ lock = NoTask
    /\ ready = ~late
    /\ method = [t \in Tasks |-> "verify"] /\ step = [t \in Tasks |-> "idle"]
    /\ inits = 0 /\ touched = {} /\ calls = 0 /\ restarts = 0

Others == UNCHANGED <<late, pool, calls, restarts>>

(* The driver is called, in one of the three ways there are.               *)
Ways == {"method", "query", "attribute"}

Touch(way) == touched' = IF ready THEN touched ELSE touched \cup {way}

To(t, p) == step' = [step EXCEPT ![t] = p]

----------------------------------------------------------------------------
(* The pool.                                                               *)

(* admin.pool.Add: __init__(), then setup(), which is assumed to include   *)
(* the initialization and so needs no pre_sinit.                           *)
Add ==
    /\ pool = "none" /\ pool' = "adding" /\ requires_init' = FALSE
    /\ UNCHANGED <<late, lock, ready, method, step, inits, touched, calls, restarts>>

(* pre_setup and the driver's setup(); the object is dropped when one fails*)
setup ==
    /\ pool = "adding"
    /\ \/ pool' = "listed" /\ ready' = TRUE
       \/ pool' = "none" /\ UNCHANGED ready
    /\ UNCHANGED <<late, requires_init, lock, method, step, inits, touched, calls, restarts>>

(* remove_pool() needs that no volume is left, and never calls destroy().  *)
Remove ==
    /\ pool = "listed" /\ \A t \in Tasks : step[t] = "idle"
    /\ pool' = "none"
    /\ UNCHANGED <<late, requires_init, lock, ready, method, step, inits, touched, calls, restarts>>

----------------------------------------------------------------------------
(* A method of CallbackVolume.                                             *)

AfterInit(o) == IF "pre" \in Around[o] THEN "pre" ELSE "impl"

(* _assert_initialized(): the lock is only taken when it seems necessary.  *)
Call(t, o) ==
    /\ pool = "listed" /\ step[t] = "idle" /\ calls < MaxCalls
    /\ calls' = calls + 1 /\ method' = [method EXCEPT ![t] = o]
    /\ To(t, IF requires_init THEN "lock" ELSE AfterInit(o))
    /\ UNCHANGED <<late, pool, requires_init, lock, ready, inits, touched, restarts>>

(* _init() looks again when it has the lock.  "A_B" is A with a mistake.   *)
Lock_Unchecked(t) ==
    /\ step[t] = "lock" /\ lock = NoTask
    /\ lock' = t /\ To(t, "sinit")
    /\ UNCHANGED <<requires_init, ready, method, inits, touched>> /\ Others

Lock(t) ==
    /\ step[t] = "lock" /\ lock = NoTask
    /\ IF requires_init THEN lock' = t /\ To(t, "sinit")
       ELSE UNCHANGED lock /\ To(t, AfterInit(method[t]))
    /\ UNCHANGED <<requires_init, ready, method, inits, touched>> /\ Others

(* The command pre_sinit ends; only its success is remembered.             *)
SinitEnds(t) ==
    /\ step[t] = "sinit" /\ lock' = NoTask
    /\ \/ /\ requires_init' = FALSE /\ ready' = TRUE /\ inits' = inits + 1
          /\ To(t, AfterInit(method[t]))
       \/ To(t, "idle") /\ UNCHANGED <<requires_init, ready, inits>>
    /\ UNCHANGED <<method, touched>> /\ Others

(* A command with the output SIGNAL_setup runs the driver's setup().       *)
Callback(t, p, next) ==
    /\ step[t] = p
    /\ \/ To(t, next) /\ ready' \in {ready, TRUE}
       \/ To(t, "idle") /\ UNCHANGED ready        \* CalledProcessError
    /\ UNCHANGED <<requires_init, lock, method, inits, touched>> /\ Others

Driver(t) ==
    /\ step[t] = "impl" /\ Touch("method")
    /\ \/ To(t, IF "post" \in Around[method[t]] THEN "post" ELSE "idle")
       \/ To(t, "idle")
    /\ UNCHANGED <<requires_init, lock, ready, method, inits>> /\ Others

(* is_dirty(), is_outdated() and block_device() of a volume, included_in(), *)
(* size and usage of the pool: without an initialization they answer False *)
(* or None and leave the driver alone.                                     *)
Query ==
    /\ pool = "listed" /\ ~requires_init
    /\ Touch("query")
    /\ UNCHANGED <<late, pool, requires_init, lock, ready, method, step, inits, calls, restarts>>

(* What is passed on without a look at requires_init: volumes and          *)
(* get_volume() of the pool; revisions, size and usage of a volume.        *)
Peek ==
    /\ pool = "listed"
    /\ Touch("attribute")
    /\ UNCHANGED <<late, pool, requires_init, lock, ready, method, step, inits, calls, restarts>>

(* qubesd, or the host, starts again; a pool not yet listed was not saved. *)
PoolRestart ==
    /\ restarts < MaxRestarts /\ restarts' = restarts + 1
    /\ ready' \in {ready, ~late}
    /\ pool' = (IF pool = "listed" THEN "listed" ELSE "none")
    /\ requires_init' = late
    /\ lock' = NoTask /\ step' = [t \in Tasks |-> "idle"] /\ inits' = 0
    /\ UNCHANGED <<late, method, touched, calls>>

PoolNext ==
    \/ Add \/ setup \/ Remove \/ Query \/ Peek \/ PoolRestart
    \/ \E t \in Tasks :
          \/ \E o \in Operations : Call(t, o)
          \/ Lock(t) \/ SinitEnds(t) \/ Driver(t)
          \/ Callback(t, "pre", "impl") \/ Callback(t, "post", "idle")

PoolSpec == PoolInit /\ [][PoolNext]_poolVars

----------------------------------------------------------------------------
(* Properties.                                                             *)

(* No method of the driver runs, and none of the queries that look first   *)
(* reaches it, before its storage is ready, whichever calls come first and *)
(* overlap, fail, or follow a restart; and pre_sinit does not run again    *)
(* once it has succeeded, nor twice at a time ("Lock ensuring that late    *)
(* storage initialization is only run exactly once").  Excepted are the    *)
(* attributes that are passed on at any time (Peek).                       *)
InitializedOnce ==
    /\ touched \subseteq {"attribute"}
    /\ inits <= 1
    /\ Cardinality({t \in Tasks : step[t] = "sinit"}) <= 1
    /\ (inits = 1 => \A t \in Tasks : step[t] # "sinit")

(* The inductive invariant: who runs pre_sinit holds the lock and is the   *)
(* first to succeed, and whoever is past it finds the storage ready.       *)
CallbackInv ==
    /\ step \in [Tasks -> {"idle", "lock", "sinit", "pre", "impl", "post"}]
    /\ late \in BOOLEAN /\ requires_init \in BOOLEAN /\ ready \in BOOLEAN
    /\ inits \in {0, 1} /\ touched \subseteq {"attribute"}
    /\ requires_init => inits = 0
    /\ ~late => ready
    /\ pool = "listed" /\ ~requires_init => ready
    /\ \A t \in Tasks :
        /\ step[t] # "idle" => pool = "listed"
        /\ step[t] = "sinit" => lock = t /\ requires_init
        /\ step[t] \in {"pre", "impl", "post"} => ready
=============================================================================
