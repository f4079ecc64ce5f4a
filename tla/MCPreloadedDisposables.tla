----------------------- MODULE MCPreloadedDisposables -----------------------
(* Instances of PreloadedDisposables for TLC.                              *)
EXTENDS PreloadedDisposables, TLC

CONSTANTS u2, t1

VARIABLE kind   \* "restart": two users, qubesd restarts; "shared": below

Restarting == INSTANCE PreloadedDisposables WITH MaxMake <- 1

(* One user and admin.vm.Unpause, two preloading tasks at once, failures.  *)
Shared == INSTANCE PreloadedDisposables
    WITH MaxRestarts <- 0, Failures <- TRUE, CreateMayFail <- TRUE,
         NegativeDelay <- TRUE

MCInit == kind \in {"restart", "shared"} /\ Init

MCNext ==
    \/ kind = "restart" /\ Restarting!Next /\ pc'[t1] = "idle"
       /\ UNCHANGED kind
    \/ kind = "shared" /\ Shared!Next /\ pc'[u2] = "idle"
       /\ UNCHANGED kind

MCSpec == MCInit /\ [][MCNext]_<<vars, kind>>

(* The fair behaviours of the run of liveness.                             *)
LiveNext == Next /\ UNCHANGED kind

LiveInit == kind = "restart" /\ Init

LiveSpec == LiveInit /\ [][LiveNext]_<<vars, kind>> /\ Fairness

Symmetry == Permutations(Qubes) \cup Permutations(Users)
=============================================================================
