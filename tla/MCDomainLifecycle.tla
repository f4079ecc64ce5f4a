------------------------- MODULE MCDomainLifecycle -------------------------
(* Instances of DomainLifecycle for TLC: an ordinary qube, and one that is *)
(* a disposable whose creation may also fail after the domain exists.      *)
EXTENDS DomainLifecycle, TLC

VARIABLE kind   \* "app" or "late"

Late == INSTANCE DomainLifecycle
            WITH Disposable <- TRUE, CreateMayFailLate <- TRUE

MCInit == kind \in {"app", "late"} /\ Init

MCNext ==
    \/ kind = "app" /\ Next /\ UNCHANGED kind
    \/ kind = "late" /\ Late!Next /\ UNCHANGED kind

MCSpec == MCInit /\ [][MCNext]_<<vars, kind>>

(* The fairness of DomainLifecycle for an ordinary qube and a disposable.  *)
Disp == INSTANCE DomainLifecycle WITH Disposable <- TRUE, MaxDrops <- 0

Either(A, B) ==
    /\ (kind = "app" /\ A) \/ (kind = "disposable" /\ B)
    /\ UNCHANGED kind

MCFairness ==
    /\ WF_<<vars, kind>>(Either(DyingEnds, DyingEnds))
    /\ WF_<<vars, kind>>(Either(DeliverStopped, DeliverStopped))
    /\ WF_<<vars, kind>>(Either(Reconnect, Reconnect))
    /\ WF_<<vars, kind>>(Either(CoroBegin \/ CoroDyingOver,
                                Disp!CoroBegin \/ Disp!CoroDyingOver))
    /\ WF_<<vars, kind>>(Either(
           \/ StoppedHandlersDone \/ ShutdownHandlersDone \/ AutoCleanup
           \/ AutoCleanupDone \/ HandlerFails \/ AutoCleanupFails,
           \/ Disp!StoppedHandlersDone \/ Disp!ShutdownHandlersDone
           \/ Disp!AutoCleanup \/ Disp!AutoCleanupDone
           \/ Disp!HandlerFails \/ Disp!AutoCleanupFails))
    /\ WF_<<vars, kind>>(Either(BootCheck \/ BootStorageStopped,
                                Disp!BootCheck \/ Disp!BootStorageStopped))
    /\ \A t \in Tasks :
        /\ WF_<<vars, kind>>(Either(Resumes(t), Disp!Resumes(t)))
        /\ SF_<<vars, kind>>(Either(TakesLock(t), Disp!TakesLock(t)))

FairNext ==
    \/ kind = "app" /\ Next /\ UNCHANGED kind
    \/ kind = "disposable" /\ Disp!Next /\ UNCHANGED kind

MCFairInit == kind \in {"app", "disposable"} /\ Init

MCFairSpec ==
    MCFairInit /\ [][FairNext]_<<vars, kind>> /\ MCFairness

Symmetry == Permutations(Tasks)
=============================================================================
