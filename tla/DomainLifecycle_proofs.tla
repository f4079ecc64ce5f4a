----------------------- MODULE DomainLifecycle_proofs -----------------------
(***************************************************************************)
(* Proofs about DomainLifecycle: LifecycleInv is inductive, and the safety *)
(* properties follow from it, for every set of tasks and every bound.      *)
(***************************************************************************)
EXTENDS DomainLifecycle, TLAPS

---------------------------------------------------------------------------
(* Typing.                                                                 *)

(* However a domain ends, the libvirt side keeps its type.                 *)
LEMMA DomainEndsType ==
  ASSUME DomainType, DomainEnds
  PROVE  DomainType'
<1>1. ASSUME NEW p \in {"Halted", "Dying"}, NEW tell \in BOOLEAN, GoDown(p, tell)
      PROVE  DomainType'
  <2>1. power' \in {"Halted", "Paused", "Running", "Dying"}
    BY <1>1 DEF GoDown
  <2>2. run' \in 0..MaxRuns /\ conn' \in BOOLEAN
    BY <1>1 DEF GoDown, DomainType
  <2>3. emitted' \in BOOLEAN
    BY <1>1 DEF GoDown
  <2>4. evq' \in Nat
    BY <1>1 DEF GoDown, DomainType
  <2> QED
    BY <2>1, <2>2, <2>3, <2>4 DEF DomainType
<1> QED
  BY <1>1 DEF DomainEnds

(* destroy() only ever takes a live domain down.                           *)
LEMMA DestroyPower ==
  ASSUME Destroy
  PROVE  power' = power \/ (Alive /\ power' \in {"Dying", "Halted"})
<1>1. DomainEnds => power' \in {"Dying", "Halted"}
  BY DEF DomainEnds, GoDown
<1>2. CASE Alive
  BY <1>1, <1>2 DEF Destroy
<1>3. CASE ~Alive
  BY <1>3 DEF Destroy, domainVars
<1> QED
  BY <1>2, <1>3

(* So does the creation of a domain.                                       *)
LEMMA CreateDomainType ==
  ASSUME DomainType, CreateDomain
  PROVE  DomainType'
<1>1. run' \in 0..MaxRuns
  BY BoundsAreNaturals DEF DomainType, CreateDomain
<1>2. emitted' \in BOOLEAN /\ conn' \in BOOLEAN /\ evq' \in Nat
  BY DEF DomainType, CreateDomain
<1> QED
  BY <1>1, <1>2 DEF DomainType, CreateDomain

(* And the attempt to kill it, wherever kill() is called from.             *)
LEMMA TryKillType ==
  ASSUME DomainType, NEW t, NEW await, NEW notStarted,
         TryKill(t, await, notStarted)
  PROVE  DomainType'
<1>1. CASE DomainEnds
  BY <1>1, DomainEndsType
<1>2. CASE UNCHANGED domainVars
  BY <1>2 DEF domainVars, DomainType
<1> QED
  BY <1>1, <1>2 DEF TryKill, Destroy

LEMMA DomainTypeStep ==
  ASSUME LifecycleInv, [Next]_vars
  PROVE  DomainType'
<1> USE DEF LifecycleInv, TypeOK, DomainType, domainVars, stopVars, waitVars,
         diskVars, envVars, histVars
<1>1. CASE GuestStops
  BY <1>1, DomainEndsType DEF GuestStops
<1>2. CASE DyingEnds
  BY <1>2 DEF DyingEnds, GoDown
<1>3. CASE ConnectionLost
  BY <1>3 DEF ConnectionLost
<1>4. CASE DeliverStopped
  BY <1>4 DEF DeliverStopped, ReadEvent, OnLibvirtDomainStopped,
       AcceptsStopped
<1>5. CASE Reconnect
  BY <1>5 DEF Reconnect, CatchUp, OnLibvirtDomainStopped, AcceptsStopped,
       Active
<1>6. CASE CoroBegin
  BY <1>6 DEF CoroBegin, StopLockFree, FireStopped
<1>7. CASE CoroDyingOver
  BY <1>7 DEF CoroDyingOver, FireStopped
<1>8. CASE StoppedHandlersDone
  BY <1>8 DEF StoppedHandlersDone
<1>9. CASE ShutdownHandlersDone
  BY <1>9 DEF ShutdownHandlersDone, FinishHandling, Outcome, AfterEnsure,
       FailedEnsure
<1>10. CASE AutoCleanup
  BY <1>10 DEF AutoCleanup, Active
<1>11. CASE AutoCleanupDone
  BY <1>11 DEF AutoCleanupDone, FinishHandling, Outcome, AfterEnsure,
       FailedEnsure
<1>12. CASE HandlerFails
  BY <1>12 DEF HandlerFails, FinishHandling, Outcome, AfterEnsure,
       FailedEnsure
<1>13. CASE AutoCleanupFails
  BY <1>13 DEF AutoCleanupFails, FinishHandling, Outcome, AfterEnsure,
       FailedEnsure
<1>14. CASE Restart
  BY <1>14 DEF Restart, Active
<1>15. CASE BootCheck
  BY <1>15 DEF BootCheck, Active
<1>16. CASE BootStorageStopped
  BY <1>16 DEF BootStorageStopped, UnlessRemoved, Verify
<1>17. CASE SaveStore
  BY <1>17 DEF SaveStore
<1>18. ASSUME NEW t \in Tasks, StartRequest(t)  PROVE DomainType'
  BY <1>18 DEF StartRequest, Request, Goto
<1>19. ASSUME NEW t \in Tasks, RemoveRequest(t)  PROVE DomainType'
  BY <1>19 DEF RemoveRequest, Request, Goto
<1>20. ASSUME NEW t \in Tasks, Kill(t)  PROVE DomainType'
  BY <1>20, TryKillType DEF Kill
<1>21. ASSUME NEW t \in Tasks, Shutdown(t)  PROVE DomainType'
  BY <1>21 DEF Shutdown, Request, Goto
<1>22. ASSUME NEW t \in Tasks, Pause(t)  PROVE DomainType'
  BY <1>22 DEF Pause, Request, Goto
<1>23. ASSUME NEW t \in Tasks, Unpause(t)  PROVE DomainType'
  BY <1>23 DEF Unpause, Request, Goto
<1>24. ASSUME NEW t \in Tasks, StartEnter(t)  PROVE DomainType'
  BY <1>24 DEF StartEnter, StartLockFree, MayStart, Active, Goto
<1>25. ASSUME NEW t \in Tasks, RemoveEnter(t)  PROVE DomainType'
  BY <1>25 DEF RemoveEnter, StartLockFree, MayRemove, Active, RemoveFromDisk,
       Goto
<1>26. ASSUME NEW t \in Tasks, EnsureBegin(t)  PROVE DomainType'
  BY <1>26 DEF EnsureBegin, StopLockFree, CancelStopTask, FireStopped,
       AfterEnsure, Goto
<1>27. ASSUME NEW t \in Tasks, PreStart(t)  PROVE DomainType'
  BY <1>27 DEF PreStart, Verify, Goto
<1>28. ASSUME NEW t \in Tasks, StorageStart(t)  PROVE DomainType'
  BY <1>28 DEF StorageStart, UnlessRemoved, Verify, Goto
<1>29. ASSUME NEW t \in Tasks, SpawnOk(t)  PROVE DomainType'
  BY <1>29, CreateDomainType DEF SpawnOk
<1>30. ASSUME NEW t \in Tasks, SpawnFails(t)  PROVE DomainType'
  BY <1>30 DEF SpawnFails, Goto
<1>31. ASSUME NEW t \in Tasks, SpawnFailsLate(t)  PROVE DomainType'
  BY <1>31, CreateDomainType DEF SpawnFailsLate
<1>32. ASSUME NEW t \in Tasks, SpawnUndo(t)  PROVE DomainType'
  BY <1>32 DEF SpawnUndo, UnlessRemoved, Verify, Goto
<1>33. ASSUME NEW t \in Tasks, BootResume(t)  PROVE DomainType'
  BY <1>33 DEF BootResume, Alive, Goto
<1>34. ASSUME NEW t \in Tasks, BootFails(t)  PROVE DomainType'
  BY <1>34 DEF BootFails, Goto
<1>35. ASSUME NEW t \in Tasks, StartDone(t)  PROVE DomainType'
  BY <1>35 DEF StartDone, Goto
<1>36. ASSUME NEW t \in Tasks, BootKill(t)  PROVE DomainType'
  BY <1>36, TryKillType DEF BootKill
<1>37. ASSUME NEW t \in Tasks, BootKilled(t)  PROVE DomainType'
  BY <1>37 DEF BootKilled, ForgetWaiter, Goto
<1>38. ASSUME NEW t \in Tasks, StartFailed(t)  PROVE DomainType'
  BY <1>38 DEF StartFailed, Goto
<1>39. ASSUME NEW t \in Tasks, StartFailedCleanup(t)  PROVE DomainType'
  BY <1>39, TryKillType DEF StartFailedCleanup, ForcedCleanup
<1>52. ASSUME NEW t \in Tasks, StartRefused(t)  PROVE DomainType'
  BY <1>52, TryKillType DEF StartRefused, Request, ForcedCleanup
<1>40. ASSUME NEW t \in Tasks, CleanupKilled(t)  PROVE DomainType'
  BY <1>40 DEF CleanupKilled, ForgetWaiter, Goto
<1>41. ASSUME NEW t \in Tasks, CleanupStorageDone(t)  PROVE DomainType'
  BY <1>41 DEF CleanupStorageDone, Goto
<1>42. ASSUME NEW t \in Tasks, RemoveStorageDone(t)  PROVE DomainType'
  BY <1>42 DEF RemoveStorageDone, Goto
<1>43. ASSUME NEW t \in Tasks, RemoveEnd(t)  PROVE DomainType'
  BY <1>43 DEF RemoveEnd, Goto
<1>44. ASSUME NEW t \in Tasks, Killed(t)  PROVE DomainType'
  BY <1>44 DEF Killed, ForgetWaiter, Goto
<1>45. ASSUME NEW t \in Tasks, ShutdownPre(t)  PROVE DomainType'
  <2>1. CASE DomainEnds
    BY <2>1, DomainEndsType
  <2>2. CASE UNCHANGED domainVars
    BY <2>2
  <2> QED
    BY <1>45, <2>1, <2>2 DEF ShutdownPre, Destroy
<1>46. ASSUME NEW t \in Tasks, ShutdownCmdDone(t)  PROVE DomainType'
  BY <1>46 DEF ShutdownCmdDone, ForgetWaiter, Alive, Goto
<1>47. ASSUME NEW t \in Tasks, ShutdownEnd(t)  PROVE DomainType'
  BY <1>47 DEF ShutdownEnd, ForgetWaiter, Goto
<1>48. ASSUME NEW t \in Tasks, ShutdownTimesOut(t)  PROVE DomainType'
  BY <1>48 DEF ShutdownTimesOut, Goto
<1>49. ASSUME NEW t \in Tasks, PauseDone(t)  PROVE DomainType'
  BY <1>49 DEF PauseDone, Goto
<1>50. ASSUME NEW t \in Tasks, UnpauseDone(t)  PROVE DomainType'
  BY <1>50 DEF UnpauseDone, Goto
<1>51. CASE UNCHANGED vars
  BY <1>51 DEF vars
<1> QED
  BY <1>1, <1>2, <1>3, <1>4, <1>5, <1>6, <1>7, <1>8, <1>9, <1>10, <1>11, <1>12,
     <1>13, <1>14, <1>15, <1>16, <1>17, <1>18, <1>19, <1>20, <1>21, <1>22, <1>23, <1>24,
     <1>25, <1>26, <1>27, <1>28, <1>29, <1>30, <1>31, <1>32, <1>33, <1>34, <1>35, <1>36,
     <1>37, <1>38, <1>39, <1>40, <1>41, <1>42, <1>43, <1>44, <1>45, <1>46, <1>47, <1>48,
     <1>49, <1>50, <1>51, <1>52
     DEF Next, Libvirt, Qubesd, Requests, TakesLock, Resumes

(* The stop flags, the lock and the coroutine keep their types.             *)
LEMMA StopTypeStep ==
  ASSUME LifecycleInv, [Next]_vars
  PROVE  StopType'
<1> USE OwnersDistinct DEF LifecycleInv, TypeOK, StopType, TaskType,
         StopLockInv, Owners, domainVars, stopVars, waitVars, diskVars,
         envVars, histVars
<1>1. CASE GuestStops
  BY <1>1 DEF GuestStops, DomainEnds, GoDown, Alive
<1>2. CASE DyingEnds
  BY <1>2 DEF DyingEnds, GoDown
<1>3. CASE ConnectionLost
  BY <1>3 DEF ConnectionLost
<1>4. CASE DeliverStopped
  BY <1>4 DEF DeliverStopped, ReadEvent, OnLibvirtDomainStopped,
       AcceptsStopped
<1>5. CASE Reconnect
  BY <1>5 DEF Reconnect, CatchUp, OnLibvirtDomainStopped, AcceptsStopped,
       Active
<1>6. CASE CoroBegin
  BY <1>6 DEF CoroBegin, StopLockFree, FireStopped
<1>7. CASE CoroDyingOver
  BY <1>7 DEF CoroDyingOver, FireStopped
<1>8. CASE StoppedHandlersDone
  BY <1>8 DEF StoppedHandlersDone
<1>9. CASE ShutdownHandlersDone
  BY <1>9 DEF ShutdownHandlersDone, FinishHandling, Outcome, AfterEnsure,
       FailedEnsure
<1>10. CASE AutoCleanup
  BY <1>10 DEF AutoCleanup, Active
<1>11. CASE AutoCleanupDone
  BY <1>11 DEF AutoCleanupDone, FinishHandling, Outcome, AfterEnsure,
       FailedEnsure
<1>12. CASE HandlerFails
  BY <1>12 DEF HandlerFails, FinishHandling, Outcome, AfterEnsure,
       FailedEnsure
<1>13. CASE AutoCleanupFails
  BY <1>13 DEF AutoCleanupFails, FinishHandling, Outcome, AfterEnsure,
       FailedEnsure
<1>14. CASE Restart
  BY <1>14 DEF Restart, Active
<1>15. CASE BootCheck
  BY <1>15 DEF BootCheck, Active
<1>16. CASE BootStorageStopped
  BY <1>16 DEF BootStorageStopped, UnlessRemoved, Verify
<1>17. CASE SaveStore
  BY <1>17 DEF SaveStore
<1>18. ASSUME NEW t \in Tasks, StartRequest(t)  PROVE StopType'
  BY <1>18 DEF StartRequest, Request, Goto
<1>19. ASSUME NEW t \in Tasks, RemoveRequest(t)  PROVE StopType'
  BY <1>19 DEF RemoveRequest, Request, Goto
<1>20. ASSUME NEW t \in Tasks, Kill(t)  PROVE StopType'
  BY <1>20 DEF Kill, Request, TryKill, CaptureWaiter, Destroy, DomainEnds,
       GoDown, Active, Alive, Goto
<1>21. ASSUME NEW t \in Tasks, Shutdown(t)  PROVE StopType'
  BY <1>21 DEF Shutdown, Request, Goto
<1>22. ASSUME NEW t \in Tasks, Pause(t)  PROVE StopType'
  BY <1>22 DEF Pause, Request, Goto
<1>23. ASSUME NEW t \in Tasks, Unpause(t)  PROVE StopType'
  BY <1>23 DEF Unpause, Request, Goto
<1>24. ASSUME NEW t \in Tasks, StartEnter(t)  PROVE StopType'
  BY <1>24 DEF StartEnter, StartLockFree, MayStart, Active, Goto
<1>25. ASSUME NEW t \in Tasks, RemoveEnter(t)  PROVE StopType'
  BY <1>25 DEF RemoveEnter, StartLockFree, MayRemove, Active, RemoveFromDisk,
       Goto
<1>26. ASSUME NEW t \in Tasks, EnsureBegin(t)  PROVE StopType'
  BY <1>26 DEF EnsureBegin, StopLockFree, CancelStopTask, FireStopped,
       AfterEnsure, Goto
<1>27. ASSUME NEW t \in Tasks, PreStart(t)  PROVE StopType'
  BY <1>27 DEF PreStart, Verify, Goto
<1>28. ASSUME NEW t \in Tasks, StorageStart(t)  PROVE StopType'
  BY <1>28 DEF StorageStart, UnlessRemoved, Verify, Goto
<1>29. ASSUME NEW t \in Tasks, SpawnOk(t)  PROVE StopType'
  BY <1>29 DEF SpawnOk, CreateDomain, AcceptStops, Goto
<1>30. ASSUME NEW t \in Tasks, SpawnFails(t)  PROVE StopType'
  BY <1>30 DEF SpawnFails, Goto
<1>31. ASSUME NEW t \in Tasks, SpawnFailsLate(t)  PROVE StopType'
  BY <1>31 DEF SpawnFailsLate, CreateDomain, Goto
<1>32. ASSUME NEW t \in Tasks, SpawnUndo(t)  PROVE StopType'
  BY <1>32 DEF SpawnUndo, UnlessRemoved, Verify, Goto
<1>33. ASSUME NEW t \in Tasks, BootResume(t)  PROVE StopType'
  BY <1>33 DEF BootResume, Alive, Goto
<1>34. ASSUME NEW t \in Tasks, BootFails(t)  PROVE StopType'
  BY <1>34 DEF BootFails, Goto
<1>35. ASSUME NEW t \in Tasks, StartDone(t)  PROVE StopType'
  BY <1>35 DEF StartDone, Goto
<1>36. ASSUME NEW t \in Tasks, BootKill(t)  PROVE StopType'
  BY <1>36 DEF BootKill, TryKill, CaptureWaiter, Destroy, DomainEnds, GoDown,
       Active, Alive, Goto
<1>37. ASSUME NEW t \in Tasks, BootKilled(t)  PROVE StopType'
  BY <1>37 DEF BootKilled, ForgetWaiter, Goto
<1>38. ASSUME NEW t \in Tasks, StartFailed(t)  PROVE StopType'
  BY <1>38 DEF StartFailed, Goto
<1>39. ASSUME NEW t \in Tasks, StartFailedCleanup(t)  PROVE StopType'
  BY <1>39 DEF StartFailedCleanup, ForcedCleanup, TryKill, CaptureWaiter, Destroy,
       DomainEnds, GoDown, Active, Alive, RemoveFromDisk, Goto
<1>52. ASSUME NEW t \in Tasks, StartRefused(t)  PROVE StopType'
  BY <1>52 DEF StartRefused, Request, ForcedCleanup, TryKill, CaptureWaiter, Destroy,
       DomainEnds, GoDown, Active, Alive, RemoveFromDisk, Goto
<1>40. ASSUME NEW t \in Tasks, CleanupKilled(t)  PROVE StopType'
  BY <1>40 DEF CleanupKilled, ForgetWaiter, Goto
<1>41. ASSUME NEW t \in Tasks, CleanupStorageDone(t)  PROVE StopType'
  BY <1>41 DEF CleanupStorageDone, Goto
<1>42. ASSUME NEW t \in Tasks, RemoveStorageDone(t)  PROVE StopType'
  BY <1>42 DEF RemoveStorageDone, Goto
<1>43. ASSUME NEW t \in Tasks, RemoveEnd(t)  PROVE StopType'
  BY <1>43 DEF RemoveEnd, Goto
<1>44. ASSUME NEW t \in Tasks, Killed(t)  PROVE StopType'
  BY <1>44 DEF Killed, ForgetWaiter, Goto
<1>45. ASSUME NEW t \in Tasks, ShutdownPre(t)  PROVE StopType'
  BY <1>45 DEF ShutdownPre, CaptureWaiter, Destroy, DomainEnds, GoDown, Alive,
       Active, Goto
<1>46. ASSUME NEW t \in Tasks, ShutdownCmdDone(t)  PROVE StopType'
  BY <1>46 DEF ShutdownCmdDone, ForgetWaiter, Alive, Goto
<1>47. ASSUME NEW t \in Tasks, ShutdownEnd(t)  PROVE StopType'
  BY <1>47 DEF ShutdownEnd, ForgetWaiter, Goto
<1>48. ASSUME NEW t \in Tasks, ShutdownTimesOut(t)  PROVE StopType'
  BY <1>48 DEF ShutdownTimesOut, Goto
<1>49. ASSUME NEW t \in Tasks, PauseDone(t)  PROVE StopType'
  BY <1>49 DEF PauseDone, Goto
<1>50. ASSUME NEW t \in Tasks, UnpauseDone(t)  PROVE StopType'
  BY <1>50 DEF UnpauseDone, Goto
<1>51. CASE UNCHANGED vars
  BY <1>51 DEF vars
<1> QED
  BY <1>1, <1>2, <1>3, <1>4, <1>5, <1>6, <1>7, <1>8, <1>9, <1>10, <1>11, <1>12,
     <1>13, <1>14, <1>15, <1>16, <1>17, <1>18, <1>19, <1>20, <1>21, <1>22, <1>23, <1>24,
     <1>25, <1>26, <1>27, <1>28, <1>29, <1>30, <1>31, <1>32, <1>33, <1>34, <1>35, <1>36,
     <1>37, <1>38, <1>39, <1>40, <1>41, <1>42, <1>43, <1>44, <1>45, <1>46, <1>47, <1>48,
     <1>49, <1>50, <1>51, <1>52
     DEF Next, Libvirt, Qubesd, Requests, TakesLock, Resumes

(* So do the waiter and the futures the tasks hold.                        *)
LEMMA WaitTypeStep ==
  ASSUME LifecycleInv, [Next]_vars
  PROVE  WaitType'
<1> USE BoundsAreNaturals DEF LifecycleInv, TypeOK, WaitType, DomainType,
         domainVars, stopVars, waitVars, diskVars, envVars, histVars
<1>1. CASE GuestStops
  BY <1>1 DEF GuestStops, DomainEnds, GoDown, Alive
<1>2. CASE DyingEnds
  BY <1>2 DEF DyingEnds, GoDown
<1>3. CASE ConnectionLost
  BY <1>3 DEF ConnectionLost
<1>4. CASE DeliverStopped
  BY <1>4 DEF DeliverStopped, ReadEvent, OnLibvirtDomainStopped,
       AcceptsStopped
<1>5. CASE Reconnect
  BY <1>5 DEF Reconnect, CatchUp, OnLibvirtDomainStopped, AcceptsStopped,
       Active
<1>6. CASE CoroBegin
  BY <1>6 DEF CoroBegin, StopLockFree, FireStopped
<1>7. CASE CoroDyingOver
  BY <1>7 DEF CoroDyingOver, FireStopped
<1>8. CASE StoppedHandlersDone
  BY <1>8 DEF StoppedHandlersDone
<1>9. CASE ShutdownHandlersDone
  BY <1>9 DEF ShutdownHandlersDone, FinishHandling, Outcome, AfterEnsure,
       FailedEnsure
<1>10. CASE AutoCleanup
  BY <1>10 DEF AutoCleanup, Active
<1>11. CASE AutoCleanupDone
  BY <1>11 DEF AutoCleanupDone, FinishHandling, Outcome, AfterEnsure,
       FailedEnsure
<1>12. CASE HandlerFails
  BY <1>12 DEF HandlerFails, FinishHandling, Outcome, AfterEnsure,
       FailedEnsure
<1>13. CASE AutoCleanupFails
  BY <1>13 DEF AutoCleanupFails, FinishHandling, Outcome, AfterEnsure,
       FailedEnsure
<1>14. CASE Restart
  BY <1>14 DEF Restart, Active
<1>15. CASE BootCheck
  BY <1>15 DEF BootCheck, Active
<1>16. CASE BootStorageStopped
  BY <1>16 DEF BootStorageStopped, UnlessRemoved, Verify
<1>17. CASE SaveStore
  BY <1>17 DEF SaveStore
<1>18. ASSUME NEW t \in Tasks, StartRequest(t)  PROVE WaitType'
  BY <1>18 DEF StartRequest, Request, Goto
<1>19. ASSUME NEW t \in Tasks, RemoveRequest(t)  PROVE WaitType'
  BY <1>19 DEF RemoveRequest, Request, Goto
<1>20. ASSUME NEW t \in Tasks, Kill(t)  PROVE WaitType'
  BY <1>20 DEF Kill, Request, TryKill, CaptureWaiter, Destroy, DomainEnds,
       GoDown, Active, Alive, Goto
<1>21. ASSUME NEW t \in Tasks, Shutdown(t)  PROVE WaitType'
  BY <1>21 DEF Shutdown, Request, Goto
<1>22. ASSUME NEW t \in Tasks, Pause(t)  PROVE WaitType'
  BY <1>22 DEF Pause, Request, Goto
<1>23. ASSUME NEW t \in Tasks, Unpause(t)  PROVE WaitType'
  BY <1>23 DEF Unpause, Request, Goto
<1>24. ASSUME NEW t \in Tasks, StartEnter(t)  PROVE WaitType'
  BY <1>24 DEF StartEnter, StartLockFree, MayStart, Active, Goto
<1>25. ASSUME NEW t \in Tasks, RemoveEnter(t)  PROVE WaitType'
  BY <1>25 DEF RemoveEnter, StartLockFree, MayRemove, Active, RemoveFromDisk,
       Goto
<1>26. ASSUME NEW t \in Tasks, EnsureBegin(t)  PROVE WaitType'
  BY <1>26 DEF EnsureBegin, StopLockFree, CancelStopTask, FireStopped,
       AfterEnsure, Goto
<1>27. ASSUME NEW t \in Tasks, PreStart(t)  PROVE WaitType'
  BY <1>27 DEF PreStart, Verify, Goto
<1>28. ASSUME NEW t \in Tasks, StorageStart(t)  PROVE WaitType'
  BY <1>28 DEF StorageStart, UnlessRemoved, Verify, Goto
<1>29. ASSUME NEW t \in Tasks, SpawnOk(t)  PROVE WaitType'
  BY <1>29 DEF SpawnOk, CreateDomain, AcceptStops, Goto
<1>30. ASSUME NEW t \in Tasks, SpawnFails(t)  PROVE WaitType'
  BY <1>30 DEF SpawnFails, Goto
<1>31. ASSUME NEW t \in Tasks, SpawnFailsLate(t)  PROVE WaitType'
  BY <1>31 DEF SpawnFailsLate, CreateDomain, Goto
<1>32. ASSUME NEW t \in Tasks, SpawnUndo(t)  PROVE WaitType'
  BY <1>32 DEF SpawnUndo, UnlessRemoved, Verify, Goto
<1>33. ASSUME NEW t \in Tasks, BootResume(t)  PROVE WaitType'
  BY <1>33 DEF BootResume, Alive, Goto
<1>34. ASSUME NEW t \in Tasks, BootFails(t)  PROVE WaitType'
  BY <1>34 DEF BootFails, Goto
<1>35. ASSUME NEW t \in Tasks, StartDone(t)  PROVE WaitType'
  BY <1>35 DEF StartDone, Goto
<1>36. ASSUME NEW t \in Tasks, BootKill(t)  PROVE WaitType'
  BY <1>36 DEF BootKill, TryKill, CaptureWaiter, Destroy, DomainEnds, GoDown,
       Active, Alive, Goto
<1>37. ASSUME NEW t \in Tasks, BootKilled(t)  PROVE WaitType'
  BY <1>37 DEF BootKilled, ForgetWaiter, Goto
<1>38. ASSUME NEW t \in Tasks, StartFailed(t)  PROVE WaitType'
  BY <1>38 DEF StartFailed, Goto
<1>39. ASSUME NEW t \in Tasks, StartFailedCleanup(t)  PROVE WaitType'
  BY <1>39 DEF StartFailedCleanup, ForcedCleanup, TryKill, CaptureWaiter, Destroy,
       DomainEnds, GoDown, Active, Alive, RemoveFromDisk, Goto
<1>52. ASSUME NEW t \in Tasks, StartRefused(t)  PROVE WaitType'
  BY <1>52 DEF StartRefused, Request, ForcedCleanup, TryKill, CaptureWaiter, Destroy,
       DomainEnds, GoDown, Active, Alive, RemoveFromDisk, Goto
<1>40. ASSUME NEW t \in Tasks, CleanupKilled(t)  PROVE WaitType'
  BY <1>40 DEF CleanupKilled, ForgetWaiter, Goto
<1>41. ASSUME NEW t \in Tasks, CleanupStorageDone(t)  PROVE WaitType'
  BY <1>41 DEF CleanupStorageDone, Goto
<1>42. ASSUME NEW t \in Tasks, RemoveStorageDone(t)  PROVE WaitType'
  BY <1>42 DEF RemoveStorageDone, Goto
<1>43. ASSUME NEW t \in Tasks, RemoveEnd(t)  PROVE WaitType'
  BY <1>43 DEF RemoveEnd, Goto
<1>44. ASSUME NEW t \in Tasks, Killed(t)  PROVE WaitType'
  BY <1>44 DEF Killed, ForgetWaiter, Goto
<1>45. ASSUME NEW t \in Tasks, ShutdownPre(t)  PROVE WaitType'
  <2>1. CASE CaptureWaiter(t)
    BY <2>1 DEF CaptureWaiter, Active
  <2>2. CASE UNCHANGED waitVars
    BY <2>2
  <2> QED
    BY <1>45, <2>1, <2>2 DEF ShutdownPre
<1>46. ASSUME NEW t \in Tasks, ShutdownCmdDone(t)  PROVE WaitType'
  BY <1>46 DEF ShutdownCmdDone, ForgetWaiter, Alive, Goto
<1>47. ASSUME NEW t \in Tasks, ShutdownEnd(t)  PROVE WaitType'
  BY <1>47 DEF ShutdownEnd, ForgetWaiter, Goto
<1>48. ASSUME NEW t \in Tasks, ShutdownTimesOut(t)  PROVE WaitType'
  BY <1>48 DEF ShutdownTimesOut, Goto
<1>49. ASSUME NEW t \in Tasks, PauseDone(t)  PROVE WaitType'
  BY <1>49 DEF PauseDone, Goto
<1>50. ASSUME NEW t \in Tasks, UnpauseDone(t)  PROVE WaitType'
  BY <1>50 DEF UnpauseDone, Goto
<1>51. CASE UNCHANGED vars
  BY <1>51 DEF vars
<1> QED
  BY <1>1, <1>2, <1>3, <1>4, <1>5, <1>6, <1>7, <1>8, <1>9, <1>10, <1>11, <1>12,
     <1>13, <1>14, <1>15, <1>16, <1>17, <1>18, <1>19, <1>20, <1>21, <1>22, <1>23, <1>24,
     <1>25, <1>26, <1>27, <1>28, <1>29, <1>30, <1>31, <1>32, <1>33, <1>34, <1>35, <1>36,
     <1>37, <1>38, <1>39, <1>40, <1>41, <1>42, <1>43, <1>44, <1>45, <1>46, <1>47, <1>48,
     <1>49, <1>50, <1>51, <1>52
     DEF Next, Libvirt, Qubesd, Requests, TakesLock, Resumes

(* So do the startup lock and the points where the tasks are suspended.    *)
LEMMA TaskTypeStep ==
  ASSUME LifecycleInv, [Next]_vars
  PROVE  TaskType'
<1> USE OwnersDistinct DEF LifecycleInv, TypeOK, TaskType, StopType,
         StopLockInv, Owners, Pcs, StartHoldPcs, RemoveHoldPcs, OtherPcs,
         EnsurePcs, domainVars, stopVars, waitVars, diskVars, envVars,
         histVars
<1>1. CASE GuestStops
  BY <1>1 DEF GuestStops, DomainEnds, GoDown, Alive
<1>2. CASE DyingEnds
  BY <1>2 DEF DyingEnds, GoDown
<1>3. CASE ConnectionLost
  BY <1>3 DEF ConnectionLost
<1>4. CASE DeliverStopped
  BY <1>4 DEF DeliverStopped, ReadEvent, OnLibvirtDomainStopped,
       AcceptsStopped
<1>5. CASE Reconnect
  BY <1>5 DEF Reconnect, CatchUp, OnLibvirtDomainStopped, AcceptsStopped,
       Active
<1>6. CASE CoroBegin
  BY <1>6 DEF CoroBegin, StopLockFree, FireStopped
<1>7. CASE CoroDyingOver
  BY <1>7 DEF CoroDyingOver, FireStopped
<1>8. CASE StoppedHandlersDone
  BY <1>8 DEF StoppedHandlersDone
<1>9. CASE ShutdownHandlersDone
  BY <1>9 DEF ShutdownHandlersDone, FinishHandling, Outcome, AfterEnsure,
       FailedEnsure
<1>10. CASE AutoCleanup
  BY <1>10 DEF AutoCleanup, Active
<1>11. CASE AutoCleanupDone
  BY <1>11 DEF AutoCleanupDone, FinishHandling, Outcome, AfterEnsure,
       FailedEnsure
<1>12. CASE HandlerFails
  BY <1>12 DEF HandlerFails, FinishHandling, Outcome, AfterEnsure,
       FailedEnsure
<1>13. CASE AutoCleanupFails
  BY <1>13 DEF AutoCleanupFails, FinishHandling, Outcome, AfterEnsure,
       FailedEnsure
<1>14. CASE Restart
  BY <1>14 DEF Restart, Active
<1>15. CASE BootCheck
  BY <1>15 DEF BootCheck, Active
<1>16. CASE BootStorageStopped
  BY <1>16 DEF BootStorageStopped, UnlessRemoved, Verify
<1>17. CASE SaveStore
  BY <1>17 DEF SaveStore
<1>18. ASSUME NEW t \in Tasks, StartRequest(t)  PROVE TaskType'
  BY <1>18 DEF StartRequest, Request, Goto
<1>19. ASSUME NEW t \in Tasks, RemoveRequest(t)  PROVE TaskType'
  BY <1>19 DEF RemoveRequest, Request, Goto
<1>20. ASSUME NEW t \in Tasks, Kill(t)  PROVE TaskType'
  BY <1>20 DEF Kill, Request, TryKill, CaptureWaiter, Destroy, DomainEnds,
       GoDown, Active, Alive, Goto
<1>21. ASSUME NEW t \in Tasks, Shutdown(t)  PROVE TaskType'
  BY <1>21 DEF Shutdown, Request, Goto
<1>22. ASSUME NEW t \in Tasks, Pause(t)  PROVE TaskType'
  BY <1>22 DEF Pause, Request, Goto
<1>23. ASSUME NEW t \in Tasks, Unpause(t)  PROVE TaskType'
  BY <1>23 DEF Unpause, Request, Goto
<1>24. ASSUME NEW t \in Tasks, StartEnter(t)  PROVE TaskType'
  BY <1>24 DEF StartEnter, StartLockFree, MayStart, Active, Goto
<1>25. ASSUME NEW t \in Tasks, RemoveEnter(t)  PROVE TaskType'
  BY <1>25 DEF RemoveEnter, StartLockFree, MayRemove, Active, RemoveFromDisk,
       Goto
<1>26. ASSUME NEW t \in Tasks, EnsureBegin(t)  PROVE TaskType'
  BY <1>26 DEF EnsureBegin, StopLockFree, CancelStopTask, FireStopped,
       AfterEnsure, Goto
<1>27. ASSUME NEW t \in Tasks, PreStart(t)  PROVE TaskType'
  BY <1>27 DEF PreStart, Verify, Goto
<1>28. ASSUME NEW t \in Tasks, StorageStart(t)  PROVE TaskType'
  BY <1>28 DEF StorageStart, UnlessRemoved, Verify, Goto
<1>29. ASSUME NEW t \in Tasks, SpawnOk(t)  PROVE TaskType'
  BY <1>29 DEF SpawnOk, CreateDomain, AcceptStops, Goto
<1>30. ASSUME NEW t \in Tasks, SpawnFails(t)  PROVE TaskType'
  BY <1>30 DEF SpawnFails, Goto
<1>31. ASSUME NEW t \in Tasks, SpawnFailsLate(t)  PROVE TaskType'
  BY <1>31 DEF SpawnFailsLate, CreateDomain, Goto
<1>32. ASSUME NEW t \in Tasks, SpawnUndo(t)  PROVE TaskType'
  BY <1>32 DEF SpawnUndo, UnlessRemoved, Verify, Goto
<1>33. ASSUME NEW t \in Tasks, BootResume(t)  PROVE TaskType'
  BY <1>33 DEF BootResume, Alive, Goto
<1>34. ASSUME NEW t \in Tasks, BootFails(t)  PROVE TaskType'
  BY <1>34 DEF BootFails, Goto
<1>35. ASSUME NEW t \in Tasks, StartDone(t)  PROVE TaskType'
  BY <1>35 DEF StartDone, Goto
<1>36. ASSUME NEW t \in Tasks, BootKill(t)  PROVE TaskType'
  BY <1>36 DEF BootKill, TryKill, CaptureWaiter, Destroy, DomainEnds, GoDown,
       Active, Alive, Goto
<1>37. ASSUME NEW t \in Tasks, BootKilled(t)  PROVE TaskType'
  BY <1>37 DEF BootKilled, ForgetWaiter, Goto
<1>38. ASSUME NEW t \in Tasks, StartFailed(t)  PROVE TaskType'
  BY <1>38 DEF StartFailed, Goto
<1>39. ASSUME NEW t \in Tasks, StartFailedCleanup(t)  PROVE TaskType'
  BY <1>39 DEF StartFailedCleanup, ForcedCleanup, TryKill, CaptureWaiter, Destroy,
       DomainEnds, GoDown, Active, Alive, RemoveFromDisk, Goto
<1>52. ASSUME NEW t \in Tasks, StartRefused(t)  PROVE TaskType'
  BY <1>52 DEF StartRefused, Request, ForcedCleanup, TryKill, CaptureWaiter, Destroy,
       DomainEnds, GoDown, Active, Alive, RemoveFromDisk, Goto
<1>40. ASSUME NEW t \in Tasks, CleanupKilled(t)  PROVE TaskType'
  BY <1>40 DEF CleanupKilled, ForgetWaiter, Goto
<1>41. ASSUME NEW t \in Tasks, CleanupStorageDone(t)  PROVE TaskType'
  BY <1>41 DEF CleanupStorageDone, Goto
<1>42. ASSUME NEW t \in Tasks, RemoveStorageDone(t)  PROVE TaskType'
  BY <1>42 DEF RemoveStorageDone, Goto
<1>43. ASSUME NEW t \in Tasks, RemoveEnd(t)  PROVE TaskType'
  BY <1>43 DEF RemoveEnd, Goto
<1>44. ASSUME NEW t \in Tasks, Killed(t)  PROVE TaskType'
  BY <1>44 DEF Killed, ForgetWaiter, Goto
<1>45. ASSUME NEW t \in Tasks, ShutdownPre(t)  PROVE TaskType'
  BY <1>45 DEF ShutdownPre, CaptureWaiter, Destroy, DomainEnds, GoDown, Alive,
       Active, Goto
<1>46. ASSUME NEW t \in Tasks, ShutdownCmdDone(t)  PROVE TaskType'
  BY <1>46 DEF ShutdownCmdDone, ForgetWaiter, Alive, Goto
<1>47. ASSUME NEW t \in Tasks, ShutdownEnd(t)  PROVE TaskType'
  BY <1>47 DEF ShutdownEnd, ForgetWaiter, Goto
<1>48. ASSUME NEW t \in Tasks, ShutdownTimesOut(t)  PROVE TaskType'
  BY <1>48 DEF ShutdownTimesOut, Goto
<1>49. ASSUME NEW t \in Tasks, PauseDone(t)  PROVE TaskType'
  BY <1>49 DEF PauseDone, Goto
<1>50. ASSUME NEW t \in Tasks, UnpauseDone(t)  PROVE TaskType'
  BY <1>50 DEF UnpauseDone, Goto
<1>51. CASE UNCHANGED vars
  BY <1>51 DEF vars
<1> QED
  BY <1>1, <1>2, <1>3, <1>4, <1>5, <1>6, <1>7, <1>8, <1>9, <1>10, <1>11, <1>12,
     <1>13, <1>14, <1>15, <1>16, <1>17, <1>18, <1>19, <1>20, <1>21, <1>22, <1>23, <1>24,
     <1>25, <1>26, <1>27, <1>28, <1>29, <1>30, <1>31, <1>32, <1>33, <1>34, <1>35, <1>36,
     <1>37, <1>38, <1>39, <1>40, <1>41, <1>42, <1>43, <1>44, <1>45, <1>46, <1>47, <1>48,
     <1>49, <1>50, <1>51, <1>52
     DEF Next, Libvirt, Qubesd, Requests, TakesLock, Resumes

(* So do the volumes, the environment and the histories.                   *)
LEMMA RestTypeStep ==
  ASSUME LifecycleInv, [Next]_vars
  PROVE  (DiskType /\ EnvType /\ HistType)'
<1> USE BoundsAreNaturals DEF LifecycleInv, TypeOK, DiskType, EnvType,
         HistType, DomainType, Runs, domainVars, stopVars, waitVars, diskVars,
         envVars, histVars
<1>1. CASE GuestStops
  BY <1>1 DEF GuestStops, DomainEnds, GoDown, Alive
<1>2. CASE DyingEnds
  BY <1>2 DEF DyingEnds, GoDown
<1>3. CASE ConnectionLost
  BY <1>3 DEF ConnectionLost
<1>4. CASE DeliverStopped
  BY <1>4 DEF DeliverStopped, ReadEvent, OnLibvirtDomainStopped,
       AcceptsStopped
<1>5. CASE Reconnect
  BY <1>5 DEF Reconnect, CatchUp, OnLibvirtDomainStopped, AcceptsStopped,
       Active
<1>6. CASE CoroBegin
  BY <1>6 DEF CoroBegin, StopLockFree, FireStopped
<1>7. CASE CoroDyingOver
  BY <1>7 DEF CoroDyingOver, FireStopped
<1>8. CASE StoppedHandlersDone
  BY <1>8 DEF StoppedHandlersDone
<1>9. CASE ShutdownHandlersDone
  BY <1>9 DEF ShutdownHandlersDone, FinishHandling, Outcome, AfterEnsure,
       FailedEnsure
<1>10. CASE AutoCleanup
  BY <1>10 DEF AutoCleanup, Active
<1>11. CASE AutoCleanupDone
  BY <1>11 DEF AutoCleanupDone, FinishHandling, Outcome, AfterEnsure,
       FailedEnsure
<1>12. CASE HandlerFails
  BY <1>12 DEF HandlerFails, FinishHandling, Outcome, AfterEnsure,
       FailedEnsure
<1>13. CASE AutoCleanupFails
  BY <1>13 DEF AutoCleanupFails, FinishHandling, Outcome, AfterEnsure,
       FailedEnsure
<1>14. CASE Restart
  BY <1>14 DEF Restart, Active
<1>15. CASE BootCheck
  BY <1>15 DEF BootCheck, Active
<1>16. CASE BootStorageStopped
  BY <1>16 DEF BootStorageStopped, UnlessRemoved, Verify
<1>17. CASE SaveStore
  BY <1>17 DEF SaveStore
<1>18. ASSUME NEW t \in Tasks, StartRequest(t)  PROVE (DiskType /\ EnvType /\ HistType)'
  BY <1>18 DEF StartRequest, Request, Goto
<1>19. ASSUME NEW t \in Tasks, RemoveRequest(t)  PROVE (DiskType /\ EnvType /\ HistType)'
  BY <1>19 DEF RemoveRequest, Request, Goto
<1>20. ASSUME NEW t \in Tasks, Kill(t)  PROVE (DiskType /\ EnvType /\ HistType)'
  BY <1>20 DEF Kill, Request, TryKill, CaptureWaiter, Destroy, DomainEnds,
       GoDown, Active, Alive, Goto
<1>21. ASSUME NEW t \in Tasks, Shutdown(t)  PROVE (DiskType /\ EnvType /\ HistType)'
  BY <1>21 DEF Shutdown, Request, Goto
<1>22. ASSUME NEW t \in Tasks, Pause(t)  PROVE (DiskType /\ EnvType /\ HistType)'
  BY <1>22 DEF Pause, Request, Goto
<1>23. ASSUME NEW t \in Tasks, Unpause(t)  PROVE (DiskType /\ EnvType /\ HistType)'
  BY <1>23 DEF Unpause, Request, Goto
<1>24. ASSUME NEW t \in Tasks, StartEnter(t)  PROVE (DiskType /\ EnvType /\ HistType)'
  BY <1>24 DEF StartEnter, StartLockFree, MayStart, Active, Goto
<1>25. ASSUME NEW t \in Tasks, RemoveEnter(t)  PROVE (DiskType /\ EnvType /\ HistType)'
  BY <1>25 DEF RemoveEnter, StartLockFree, MayRemove, Active, RemoveFromDisk,
       Goto
<1>26. ASSUME NEW t \in Tasks, EnsureBegin(t)  PROVE (DiskType /\ EnvType /\ HistType)'
  BY <1>26 DEF EnsureBegin, StopLockFree, CancelStopTask, FireStopped,
       AfterEnsure, Goto
<1>27. ASSUME NEW t \in Tasks, PreStart(t)  PROVE (DiskType /\ EnvType /\ HistType)'
  BY <1>27 DEF PreStart, Verify, Goto
<1>28. ASSUME NEW t \in Tasks, StorageStart(t)  PROVE (DiskType /\ EnvType /\ HistType)'
  BY <1>28 DEF StorageStart, UnlessRemoved, Verify, Goto
<1>29. ASSUME NEW t \in Tasks, SpawnOk(t)  PROVE (DiskType /\ EnvType /\ HistType)'
  BY <1>29 DEF SpawnOk, CreateDomain, AcceptStops, Goto
<1>30. ASSUME NEW t \in Tasks, SpawnFails(t)  PROVE (DiskType /\ EnvType /\ HistType)'
  BY <1>30 DEF SpawnFails, Goto
<1>31. ASSUME NEW t \in Tasks, SpawnFailsLate(t)  PROVE (DiskType /\ EnvType /\ HistType)'
  BY <1>31 DEF SpawnFailsLate, CreateDomain, Goto
<1>32. ASSUME NEW t \in Tasks, SpawnUndo(t)  PROVE (DiskType /\ EnvType /\ HistType)'
  BY <1>32 DEF SpawnUndo, UnlessRemoved, Verify, Goto
<1>33. ASSUME NEW t \in Tasks, BootResume(t)  PROVE (DiskType /\ EnvType /\ HistType)'
  BY <1>33 DEF BootResume, Alive, Goto
<1>34. ASSUME NEW t \in Tasks, BootFails(t)  PROVE (DiskType /\ EnvType /\ HistType)'
  BY <1>34 DEF BootFails, Goto
<1>35. ASSUME NEW t \in Tasks, StartDone(t)  PROVE (DiskType /\ EnvType /\ HistType)'
  BY <1>35 DEF StartDone, Goto
<1>36. ASSUME NEW t \in Tasks, BootKill(t)  PROVE (DiskType /\ EnvType /\ HistType)'
  BY <1>36 DEF BootKill, TryKill, CaptureWaiter, Destroy, DomainEnds, GoDown,
       Active, Alive, Goto
<1>37. ASSUME NEW t \in Tasks, BootKilled(t)  PROVE (DiskType /\ EnvType /\ HistType)'
  BY <1>37 DEF BootKilled, ForgetWaiter, Goto
<1>38. ASSUME NEW t \in Tasks, StartFailed(t)  PROVE (DiskType /\ EnvType /\ HistType)'
  BY <1>38 DEF StartFailed, Goto
<1>39. ASSUME NEW t \in Tasks, StartFailedCleanup(t)  PROVE (DiskType /\ EnvType /\ HistType)'
  BY <1>39 DEF StartFailedCleanup, ForcedCleanup, TryKill, CaptureWaiter, Destroy,
       DomainEnds, GoDown, Active, Alive, RemoveFromDisk, Goto
<1>52. ASSUME NEW t \in Tasks, StartRefused(t)  PROVE (DiskType /\ EnvType /\ HistType)'
  BY <1>52 DEF StartRefused, Request, ForcedCleanup, TryKill, CaptureWaiter, Destroy,
       DomainEnds, GoDown, Active, Alive, RemoveFromDisk, Goto
<1>40. ASSUME NEW t \in Tasks, CleanupKilled(t)  PROVE (DiskType /\ EnvType /\ HistType)'
  BY <1>40 DEF CleanupKilled, ForgetWaiter, Goto
<1>41. ASSUME NEW t \in Tasks, CleanupStorageDone(t)  PROVE (DiskType /\ EnvType /\ HistType)'
  BY <1>41 DEF CleanupStorageDone, Goto
<1>42. ASSUME NEW t \in Tasks, RemoveStorageDone(t)  PROVE (DiskType /\ EnvType /\ HistType)'
  BY <1>42 DEF RemoveStorageDone, Goto
<1>43. ASSUME NEW t \in Tasks, RemoveEnd(t)  PROVE (DiskType /\ EnvType /\ HistType)'
  BY <1>43 DEF RemoveEnd, Goto
<1>44. ASSUME NEW t \in Tasks, Killed(t)  PROVE (DiskType /\ EnvType /\ HistType)'
  BY <1>44 DEF Killed, ForgetWaiter, Goto
<1>45. ASSUME NEW t \in Tasks, ShutdownPre(t)  PROVE (DiskType /\ EnvType /\ HistType)'
  BY <1>45 DEF ShutdownPre, CaptureWaiter, Destroy, DomainEnds, GoDown, Alive,
       Active, Goto
<1>46. ASSUME NEW t \in Tasks, ShutdownCmdDone(t)  PROVE (DiskType /\ EnvType /\ HistType)'
  BY <1>46 DEF ShutdownCmdDone, ForgetWaiter, Alive, Goto
<1>47. ASSUME NEW t \in Tasks, ShutdownEnd(t)  PROVE (DiskType /\ EnvType /\ HistType)'
  BY <1>47 DEF ShutdownEnd, ForgetWaiter, Goto
<1>48. ASSUME NEW t \in Tasks, ShutdownTimesOut(t)  PROVE (DiskType /\ EnvType /\ HistType)'
  BY <1>48 DEF ShutdownTimesOut, Goto
<1>49. ASSUME NEW t \in Tasks, PauseDone(t)  PROVE (DiskType /\ EnvType /\ HistType)'
  BY <1>49 DEF PauseDone, Goto
<1>50. ASSUME NEW t \in Tasks, UnpauseDone(t)  PROVE (DiskType /\ EnvType /\ HistType)'
  BY <1>50 DEF UnpauseDone, Goto
<1>51. CASE UNCHANGED vars
  BY <1>51 DEF vars
<1> QED
  BY <1>1, <1>2, <1>3, <1>4, <1>5, <1>6, <1>7, <1>8, <1>9, <1>10, <1>11, <1>12,
     <1>13, <1>14, <1>15, <1>16, <1>17, <1>18, <1>19, <1>20, <1>21, <1>22, <1>23, <1>24,
     <1>25, <1>26, <1>27, <1>28, <1>29, <1>30, <1>31, <1>32, <1>33, <1>34, <1>35, <1>36,
     <1>37, <1>38, <1>39, <1>40, <1>41, <1>42, <1>43, <1>44, <1>45, <1>46, <1>47, <1>48,
     <1>49, <1>50, <1>51, <1>52
     DEF Next, Libvirt, Qubesd, Requests, TakesLock, Resumes

---------------------------------------------------------------------------
(* The parts of the inductive invariant, one at a time.                    *)

(* startup_lock stays exclusive.                                           *)
LEMMA StartLockStep ==
  ASSUME LifecycleInv, [Next]_vars
  PROVE  StartLockInv'
<1> USE OwnersDistinct DEF LifecycleInv, TypeOK, TaskType, StopType,
         StartLockInv, StopLockInv, Owners, Pcs, StartHoldPcs, RemoveHoldPcs,
         OtherPcs, EnsurePcs, domainVars, stopVars, waitVars, diskVars,
         envVars, histVars
<1>1. CASE GuestStops
  BY <1>1 DEF GuestStops, DomainEnds, GoDown, Alive
<1>2. CASE DyingEnds
  BY <1>2 DEF DyingEnds, GoDown
<1>3. CASE ConnectionLost
  BY <1>3 DEF ConnectionLost
<1>4. CASE DeliverStopped
  BY <1>4 DEF DeliverStopped, ReadEvent, OnLibvirtDomainStopped,
       AcceptsStopped
<1>5. CASE Reconnect
  BY <1>5 DEF Reconnect, CatchUp, OnLibvirtDomainStopped, AcceptsStopped,
       Active
<1>6. CASE CoroBegin
  BY <1>6 DEF CoroBegin, StopLockFree, FireStopped
<1>7. CASE CoroDyingOver
  BY <1>7 DEF CoroDyingOver, FireStopped
<1>8. CASE StoppedHandlersDone
  BY <1>8 DEF StoppedHandlersDone
<1>9. CASE ShutdownHandlersDone
  BY <1>9 DEF ShutdownHandlersDone, FinishHandling, Outcome, AfterEnsure,
       FailedEnsure
<1>10. CASE AutoCleanup
  BY <1>10 DEF AutoCleanup, Active
<1>11. CASE AutoCleanupDone
  BY <1>11 DEF AutoCleanupDone, FinishHandling, Outcome, AfterEnsure,
       FailedEnsure
<1>12. CASE HandlerFails
  BY <1>12 DEF HandlerFails, FinishHandling, Outcome, AfterEnsure,
       FailedEnsure
<1>13. CASE AutoCleanupFails
  BY <1>13 DEF AutoCleanupFails, FinishHandling, Outcome, AfterEnsure,
       FailedEnsure
<1>14. CASE Restart
  BY <1>14 DEF Restart, Active
<1>15. CASE BootCheck
  BY <1>15 DEF BootCheck, Active
<1>16. CASE BootStorageStopped
  BY <1>16 DEF BootStorageStopped, UnlessRemoved, Verify
<1>17. CASE SaveStore
  BY <1>17 DEF SaveStore
<1>18. ASSUME NEW t \in Tasks, StartRequest(t)  PROVE StartLockInv'
  BY <1>18 DEF StartRequest, Request, Goto
<1>19. ASSUME NEW t \in Tasks, RemoveRequest(t)  PROVE StartLockInv'
  BY <1>19 DEF RemoveRequest, Request, Goto
<1>20. ASSUME NEW t \in Tasks, Kill(t)  PROVE StartLockInv'
  BY <1>20 DEF Kill, TryKill, Request, Goto
<1>21. ASSUME NEW t \in Tasks, Shutdown(t)  PROVE StartLockInv'
  BY <1>21 DEF Shutdown, Request, Goto
<1>22. ASSUME NEW t \in Tasks, Pause(t)  PROVE StartLockInv'
  BY <1>22 DEF Pause, Request, Goto
<1>23. ASSUME NEW t \in Tasks, Unpause(t)  PROVE StartLockInv'
  BY <1>23 DEF Unpause, Request, Goto
<1>24. ASSUME NEW t \in Tasks, StartEnter(t)  PROVE StartLockInv'
  BY <1>24 DEF StartEnter, StartLockFree, MayStart, Active, Goto
<1>25. ASSUME NEW t \in Tasks, RemoveEnter(t)  PROVE StartLockInv'
  BY <1>25 DEF RemoveEnter, StartLockFree, MayRemove, Active, RemoveFromDisk,
       Goto
<1>26. ASSUME NEW t \in Tasks, EnsureBegin(t)  PROVE StartLockInv'
  BY <1>26 DEF EnsureBegin, StopLockFree, CancelStopTask, FireStopped,
       AfterEnsure, Goto
<1>27. ASSUME NEW t \in Tasks, PreStart(t)  PROVE StartLockInv'
  BY <1>27 DEF PreStart, Verify, Goto
<1>28. ASSUME NEW t \in Tasks, StorageStart(t)  PROVE StartLockInv'
  BY <1>28 DEF StorageStart, UnlessRemoved, Verify, Goto
<1>29. ASSUME NEW t \in Tasks, SpawnOk(t)  PROVE StartLockInv'
  BY <1>29 DEF SpawnOk, CreateDomain, AcceptStops, Goto
<1>30. ASSUME NEW t \in Tasks, SpawnFails(t)  PROVE StartLockInv'
  BY <1>30 DEF SpawnFails, Goto
<1>31. ASSUME NEW t \in Tasks, SpawnFailsLate(t)  PROVE StartLockInv'
  BY <1>31 DEF SpawnFailsLate, CreateDomain, Goto
<1>32. ASSUME NEW t \in Tasks, SpawnUndo(t)  PROVE StartLockInv'
  BY <1>32 DEF SpawnUndo, UnlessRemoved, Verify, Goto
<1>33. ASSUME NEW t \in Tasks, BootResume(t)  PROVE StartLockInv'
  BY <1>33 DEF BootResume, Alive, Goto
<1>34. ASSUME NEW t \in Tasks, BootFails(t)  PROVE StartLockInv'
  BY <1>34 DEF BootFails, Goto
<1>35. ASSUME NEW t \in Tasks, StartDone(t)  PROVE StartLockInv'
  BY <1>35 DEF StartDone, Goto
<1>36. ASSUME NEW t \in Tasks, BootKill(t)  PROVE StartLockInv'
  BY <1>36 DEF BootKill, TryKill, Goto
<1>37. ASSUME NEW t \in Tasks, BootKilled(t)  PROVE StartLockInv'
  BY <1>37 DEF BootKilled, ForgetWaiter, Goto
<1>38. ASSUME NEW t \in Tasks, StartFailed(t)  PROVE StartLockInv'
  BY <1>38 DEF StartFailed, Goto
<1>39. ASSUME NEW t \in Tasks, StartFailedCleanup(t)  PROVE StartLockInv'
  <2>1. \A u \in Tasks : pc[u] \in StartHoldPcs \cup RemoveHoldPcs => u = t
    BY <1>39 DEF StartFailedCleanup
  <2>2. \E p \in {"cleanup_kill", "idle", "cleanup_ensure", "cleanup_storage"} :
           pc' = [pc EXCEPT ![t] = p]
    BY <1>39 DEF StartFailedCleanup, ForcedCleanup, TryKill, RemoveFromDisk, Goto
  <2> QED
    BY <2>1, <2>2
<1>52. ASSUME NEW t \in Tasks, StartRefused(t)  PROVE StartLockInv'
  BY <1>52 DEF StartRefused, Request, ForcedCleanup, TryKill, RemoveFromDisk, Goto
<1>40. ASSUME NEW t \in Tasks, CleanupKilled(t)  PROVE StartLockInv'
  BY <1>40 DEF CleanupKilled, ForgetWaiter, Goto
<1>41. ASSUME NEW t \in Tasks, CleanupStorageDone(t)  PROVE StartLockInv'
  BY <1>41 DEF CleanupStorageDone, Goto
<1>42. ASSUME NEW t \in Tasks, RemoveStorageDone(t)  PROVE StartLockInv'
  BY <1>42 DEF RemoveStorageDone, Goto
<1>43. ASSUME NEW t \in Tasks, RemoveEnd(t)  PROVE StartLockInv'
  BY <1>43 DEF RemoveEnd, Goto
<1>44. ASSUME NEW t \in Tasks, Killed(t)  PROVE StartLockInv'
  BY <1>44 DEF Killed, ForgetWaiter, Goto
<1>45. ASSUME NEW t \in Tasks, ShutdownPre(t)  PROVE StartLockInv'
  BY <1>45 DEF ShutdownPre, Goto
<1>46. ASSUME NEW t \in Tasks, ShutdownCmdDone(t)  PROVE StartLockInv'
  BY <1>46 DEF ShutdownCmdDone, ForgetWaiter, Alive, Goto
<1>47. ASSUME NEW t \in Tasks, ShutdownEnd(t)  PROVE StartLockInv'
  BY <1>47 DEF ShutdownEnd, ForgetWaiter, Goto
<1>48. ASSUME NEW t \in Tasks, ShutdownTimesOut(t)  PROVE StartLockInv'
  BY <1>48 DEF ShutdownTimesOut, Goto
<1>49. ASSUME NEW t \in Tasks, PauseDone(t)  PROVE StartLockInv'
  BY <1>49 DEF PauseDone, Goto
<1>50. ASSUME NEW t \in Tasks, UnpauseDone(t)  PROVE StartLockInv'
  BY <1>50 DEF UnpauseDone, Goto
<1>51. CASE UNCHANGED vars
  BY <1>51 DEF vars
<1> QED
  BY <1>1, <1>2, <1>3, <1>4, <1>5, <1>6, <1>7, <1>8, <1>9, <1>10, <1>11, <1>12,
     <1>13, <1>14, <1>15, <1>16, <1>17, <1>18, <1>19, <1>20, <1>21, <1>22, <1>23, <1>24,
     <1>25, <1>26, <1>27, <1>28, <1>29, <1>30, <1>31, <1>32, <1>33, <1>34, <1>35, <1>36,
     <1>37, <1>38, <1>39, <1>40, <1>41, <1>42, <1>43, <1>44, <1>45, <1>46, <1>47, <1>48,
     <1>49, <1>50, <1>51, <1>52
     DEF Next, Libvirt, Qubesd, Requests, TakesLock, Resumes

(* The holder of _domain_stopped_lock stays the one that dispatches.       *)
LEMMA StopLockStep ==
  ASSUME LifecycleInv, [Next]_vars
  PROVE  StopLockInv'
<1> USE OwnersDistinct DEF LifecycleInv, TypeOK, TaskType, StopType,
         StopLockInv, StopFlagsInv, PcInv, PreCreatePcs, Owners, Pcs,
         StartHoldPcs, RemoveHoldPcs, OtherPcs, EnsurePcs, domainVars,
         stopVars, waitVars, diskVars, envVars, histVars
<1>1. CASE GuestStops
  BY <1>1 DEF GuestStops, DomainEnds, GoDown, Alive
<1>2. CASE DyingEnds
  BY <1>2 DEF DyingEnds, GoDown
<1>3. CASE ConnectionLost
  BY <1>3 DEF ConnectionLost
<1>4. CASE DeliverStopped
  BY <1>4 DEF DeliverStopped, ReadEvent, OnLibvirtDomainStopped,
       AcceptsStopped
<1>5. CASE Reconnect
  BY <1>5 DEF Reconnect, CatchUp, OnLibvirtDomainStopped, AcceptsStopped,
       Active
<1>6. CASE CoroBegin
  BY <1>6 DEF CoroBegin, StopLockFree, FireStopped
<1>7. CASE CoroDyingOver
  BY <1>7 DEF CoroDyingOver, FireStopped
<1>8. CASE StoppedHandlersDone
  BY <1>8 DEF StoppedHandlersDone
<1>9. CASE ShutdownHandlersDone
  BY <1>9 DEF ShutdownHandlersDone, FinishHandling, Outcome, AfterEnsure,
       FailedEnsure
<1>10. CASE AutoCleanup
  BY <1>10 DEF AutoCleanup, Active
<1>11. CASE AutoCleanupDone
  BY <1>11 DEF AutoCleanupDone, FinishHandling, Outcome, AfterEnsure,
       FailedEnsure
<1>12. CASE HandlerFails
  BY <1>12 DEF HandlerFails, FinishHandling, Outcome, AfterEnsure,
       FailedEnsure
<1>13. CASE AutoCleanupFails
  BY <1>13 DEF AutoCleanupFails, FinishHandling, Outcome, AfterEnsure,
       FailedEnsure
<1>14. CASE Restart
  BY <1>14 DEF Restart, Active
<1>15. CASE BootCheck
  BY <1>15 DEF BootCheck, Active
<1>16. CASE BootStorageStopped
  BY <1>16 DEF BootStorageStopped, UnlessRemoved, Verify
<1>17. CASE SaveStore
  BY <1>17 DEF SaveStore
<1>18. ASSUME NEW t \in Tasks, StartRequest(t)  PROVE StopLockInv'
  BY <1>18 DEF StartRequest, Request, Goto
<1>19. ASSUME NEW t \in Tasks, RemoveRequest(t)  PROVE StopLockInv'
  BY <1>19 DEF RemoveRequest, Request, Goto
<1>20. ASSUME NEW t \in Tasks, Kill(t)  PROVE StopLockInv'
  BY <1>20 DEF Kill, TryKill, Request, Goto
<1>21. ASSUME NEW t \in Tasks, Shutdown(t)  PROVE StopLockInv'
  BY <1>21 DEF Shutdown, Request, Goto
<1>22. ASSUME NEW t \in Tasks, Pause(t)  PROVE StopLockInv'
  BY <1>22 DEF Pause, Request, Goto
<1>23. ASSUME NEW t \in Tasks, Unpause(t)  PROVE StopLockInv'
  BY <1>23 DEF Unpause, Request, Goto
<1>24. ASSUME NEW t \in Tasks, StartEnter(t)  PROVE StopLockInv'
  BY <1>24 DEF StartEnter, StartLockFree, MayStart, Active, Goto
<1>25. ASSUME NEW t \in Tasks, RemoveEnter(t)  PROVE StopLockInv'
  BY <1>25 DEF RemoveEnter, StartLockFree, MayRemove, Active, RemoveFromDisk,
       Goto
<1>26. ASSUME NEW t \in Tasks, EnsureBegin(t)  PROVE StopLockInv'
  BY <1>26 DEF EnsureBegin, StopLockFree, CancelStopTask, FireStopped,
       AfterEnsure, Goto
<1>27. ASSUME NEW t \in Tasks, PreStart(t)  PROVE StopLockInv'
  BY <1>27 DEF PreStart, Verify, Goto
<1>28. ASSUME NEW t \in Tasks, StorageStart(t)  PROVE StopLockInv'
  BY <1>28 DEF StorageStart, UnlessRemoved, Verify, Goto
<1>29. ASSUME NEW t \in Tasks, SpawnOk(t)  PROVE StopLockInv'
  BY <1>29 DEF SpawnOk, CreateDomain, AcceptStops, Goto
<1>30. ASSUME NEW t \in Tasks, SpawnFails(t)  PROVE StopLockInv'
  BY <1>30 DEF SpawnFails, Goto
<1>31. ASSUME NEW t \in Tasks, SpawnFailsLate(t)  PROVE StopLockInv'
  BY <1>31 DEF SpawnFailsLate, CreateDomain, Goto
<1>32. ASSUME NEW t \in Tasks, SpawnUndo(t)  PROVE StopLockInv'
  BY <1>32 DEF SpawnUndo, UnlessRemoved, Verify, Goto
<1>33. ASSUME NEW t \in Tasks, BootResume(t)  PROVE StopLockInv'
  BY <1>33 DEF BootResume, Alive, Goto
<1>34. ASSUME NEW t \in Tasks, BootFails(t)  PROVE StopLockInv'
  BY <1>34 DEF BootFails, Goto
<1>35. ASSUME NEW t \in Tasks, StartDone(t)  PROVE StopLockInv'
  BY <1>35 DEF StartDone, Goto
<1>36. ASSUME NEW t \in Tasks, BootKill(t)  PROVE StopLockInv'
  BY <1>36 DEF BootKill, TryKill, Goto
<1>37. ASSUME NEW t \in Tasks, BootKilled(t)  PROVE StopLockInv'
  BY <1>37 DEF BootKilled, ForgetWaiter, Goto
<1>38. ASSUME NEW t \in Tasks, StartFailed(t)  PROVE StopLockInv'
  BY <1>38 DEF StartFailed, Goto
<1>39. ASSUME NEW t \in Tasks, StartFailedCleanup(t)  PROVE StopLockInv'
  BY <1>39 DEF StartFailedCleanup, ForcedCleanup, TryKill, RemoveFromDisk, Goto
<1>52. ASSUME NEW t \in Tasks, StartRefused(t)  PROVE StopLockInv'
  BY <1>52 DEF StartRefused, Request, ForcedCleanup, TryKill, RemoveFromDisk, Goto
<1>40. ASSUME NEW t \in Tasks, CleanupKilled(t)  PROVE StopLockInv'
  BY <1>40 DEF CleanupKilled, ForgetWaiter, Goto
<1>41. ASSUME NEW t \in Tasks, CleanupStorageDone(t)  PROVE StopLockInv'
  BY <1>41 DEF CleanupStorageDone, Goto
<1>42. ASSUME NEW t \in Tasks, RemoveStorageDone(t)  PROVE StopLockInv'
  BY <1>42 DEF RemoveStorageDone, Goto
<1>43. ASSUME NEW t \in Tasks, RemoveEnd(t)  PROVE StopLockInv'
  BY <1>43 DEF RemoveEnd, Goto
<1>44. ASSUME NEW t \in Tasks, Killed(t)  PROVE StopLockInv'
  BY <1>44 DEF Killed, ForgetWaiter, Goto
<1>45. ASSUME NEW t \in Tasks, ShutdownPre(t)  PROVE StopLockInv'
  BY <1>45 DEF ShutdownPre, Goto
<1>46. ASSUME NEW t \in Tasks, ShutdownCmdDone(t)  PROVE StopLockInv'
  BY <1>46 DEF ShutdownCmdDone, ForgetWaiter, Alive, Goto
<1>47. ASSUME NEW t \in Tasks, ShutdownEnd(t)  PROVE StopLockInv'
  BY <1>47 DEF ShutdownEnd, ForgetWaiter, Goto
<1>48. ASSUME NEW t \in Tasks, ShutdownTimesOut(t)  PROVE StopLockInv'
  BY <1>48 DEF ShutdownTimesOut, Goto
<1>49. ASSUME NEW t \in Tasks, PauseDone(t)  PROVE StopLockInv'
  BY <1>49 DEF PauseDone, Goto
<1>50. ASSUME NEW t \in Tasks, UnpauseDone(t)  PROVE StopLockInv'
  BY <1>50 DEF UnpauseDone, Goto
<1>51. CASE UNCHANGED vars
  BY <1>51 DEF vars
<1> QED
  BY <1>1, <1>2, <1>3, <1>4, <1>5, <1>6, <1>7, <1>8, <1>9, <1>10, <1>11, <1>12,
     <1>13, <1>14, <1>15, <1>16, <1>17, <1>18, <1>19, <1>20, <1>21, <1>22, <1>23, <1>24,
     <1>25, <1>26, <1>27, <1>28, <1>29, <1>30, <1>31, <1>32, <1>33, <1>34, <1>35, <1>36,
     <1>37, <1>38, <1>39, <1>40, <1>41, <1>42, <1>43, <1>44, <1>45, <1>46, <1>47, <1>48,
     <1>49, <1>50, <1>51, <1>52
     DEF Next, Libvirt, Qubesd, Requests, TakesLock, Resumes

(* A stop is received before it is handled, and handled once.              *)
LEMMA StopFlagsStep ==
  ASSUME LifecycleInv, [Next]_vars
  PROVE  StopFlagsInv'
<1> USE OwnersDistinct DEF LifecycleInv, TypeOK, TaskType, StopType,
         StopLockInv, StopFlagsInv, PcInv, PreCreatePcs, Owners, domainVars,
         stopVars, waitVars, diskVars, envVars, histVars
<1>1. CASE GuestStops
  BY <1>1 DEF GuestStops, DomainEnds, GoDown, Alive
<1>2. CASE DyingEnds
  BY <1>2 DEF DyingEnds, GoDown
<1>3. CASE ConnectionLost
  BY <1>3 DEF ConnectionLost
<1>4. CASE DeliverStopped
  BY <1>4 DEF DeliverStopped, ReadEvent, OnLibvirtDomainStopped,
       AcceptsStopped
<1>5. CASE Reconnect
  BY <1>5 DEF Reconnect, CatchUp, OnLibvirtDomainStopped, AcceptsStopped,
       Active
<1>6. CASE CoroBegin
  BY <1>6 DEF CoroBegin, StopLockFree, FireStopped
<1>7. CASE CoroDyingOver
  BY <1>7 DEF CoroDyingOver, FireStopped
<1>8. CASE StoppedHandlersDone
  BY <1>8 DEF StoppedHandlersDone
<1>9. CASE ShutdownHandlersDone
  BY <1>9 DEF ShutdownHandlersDone, FinishHandling, Outcome, AfterEnsure,
       FailedEnsure
<1>10. CASE AutoCleanup
  BY <1>10 DEF AutoCleanup, Active
<1>11. CASE AutoCleanupDone
  BY <1>11 DEF AutoCleanupDone, FinishHandling, Outcome, AfterEnsure,
       FailedEnsure
<1>12. CASE HandlerFails
  BY <1>12 DEF HandlerFails, FinishHandling, Outcome, AfterEnsure,
       FailedEnsure
<1>13. CASE AutoCleanupFails
  BY <1>13 DEF AutoCleanupFails, FinishHandling, Outcome, AfterEnsure,
       FailedEnsure
<1>14. CASE Restart
  BY <1>14 DEF Restart, Active
<1>15. CASE BootCheck
  BY <1>15 DEF BootCheck, Active
<1>16. CASE BootStorageStopped
  BY <1>16 DEF BootStorageStopped, UnlessRemoved, Verify
<1>17. CASE SaveStore
  BY <1>17 DEF SaveStore
<1>18. ASSUME NEW t \in Tasks, StartRequest(t)  PROVE StopFlagsInv'
  BY <1>18 DEF StartRequest, Request, Goto
<1>19. ASSUME NEW t \in Tasks, RemoveRequest(t)  PROVE StopFlagsInv'
  BY <1>19 DEF RemoveRequest, Request, Goto
<1>20. ASSUME NEW t \in Tasks, Kill(t)  PROVE StopFlagsInv'
  BY <1>20 DEF Kill, Request, TryKill, CaptureWaiter, Destroy, DomainEnds,
       GoDown, Active, Alive, Goto
<1>21. ASSUME NEW t \in Tasks, Shutdown(t)  PROVE StopFlagsInv'
  BY <1>21 DEF Shutdown, Request, Goto
<1>22. ASSUME NEW t \in Tasks, Pause(t)  PROVE StopFlagsInv'
  BY <1>22 DEF Pause, Request, Goto
<1>23. ASSUME NEW t \in Tasks, Unpause(t)  PROVE StopFlagsInv'
  BY <1>23 DEF Unpause, Request, Goto
<1>24. ASSUME NEW t \in Tasks, StartEnter(t)  PROVE StopFlagsInv'
  BY <1>24 DEF StartEnter, StartLockFree, MayStart, Active, Goto
<1>25. ASSUME NEW t \in Tasks, RemoveEnter(t)  PROVE StopFlagsInv'
  BY <1>25 DEF RemoveEnter, StartLockFree, MayRemove, Active, RemoveFromDisk,
       Goto
<1>26. ASSUME NEW t \in Tasks, EnsureBegin(t)  PROVE StopFlagsInv'
  BY <1>26 DEF EnsureBegin, StopLockFree, CancelStopTask, FireStopped,
       AfterEnsure, Goto
<1>27. ASSUME NEW t \in Tasks, PreStart(t)  PROVE StopFlagsInv'
  BY <1>27 DEF PreStart, Verify, Goto
<1>28. ASSUME NEW t \in Tasks, StorageStart(t)  PROVE StopFlagsInv'
  BY <1>28 DEF StorageStart, UnlessRemoved, Verify, Goto
<1>29. ASSUME NEW t \in Tasks, SpawnOk(t)  PROVE StopFlagsInv'
  BY <1>29 DEF SpawnOk, CreateDomain, AcceptStops, Goto
<1>30. ASSUME NEW t \in Tasks, SpawnFails(t)  PROVE StopFlagsInv'
  BY <1>30 DEF SpawnFails, Goto
<1>31. ASSUME NEW t \in Tasks, SpawnFailsLate(t)  PROVE StopFlagsInv'
  BY <1>31 DEF SpawnFailsLate, CreateDomain, Goto
<1>32. ASSUME NEW t \in Tasks, SpawnUndo(t)  PROVE StopFlagsInv'
  BY <1>32 DEF SpawnUndo, UnlessRemoved, Verify, Goto
<1>33. ASSUME NEW t \in Tasks, BootResume(t)  PROVE StopFlagsInv'
  BY <1>33 DEF BootResume, Alive, Goto
<1>34. ASSUME NEW t \in Tasks, BootFails(t)  PROVE StopFlagsInv'
  BY <1>34 DEF BootFails, Goto
<1>35. ASSUME NEW t \in Tasks, StartDone(t)  PROVE StopFlagsInv'
  BY <1>35 DEF StartDone, Goto
<1>36. ASSUME NEW t \in Tasks, BootKill(t)  PROVE StopFlagsInv'
  BY <1>36 DEF BootKill, TryKill, CaptureWaiter, Destroy, DomainEnds, GoDown,
       Active, Alive, Goto
<1>37. ASSUME NEW t \in Tasks, BootKilled(t)  PROVE StopFlagsInv'
  BY <1>37 DEF BootKilled, ForgetWaiter, Goto
<1>38. ASSUME NEW t \in Tasks, StartFailed(t)  PROVE StopFlagsInv'
  BY <1>38 DEF StartFailed, Goto
<1>39. ASSUME NEW t \in Tasks, StartFailedCleanup(t)  PROVE StopFlagsInv'
  BY <1>39 DEF StartFailedCleanup, ForcedCleanup, TryKill, CaptureWaiter, Destroy,
       DomainEnds, GoDown, Active, Alive, RemoveFromDisk, Goto
<1>52. ASSUME NEW t \in Tasks, StartRefused(t)  PROVE StopFlagsInv'
  BY <1>52 DEF StartRefused, Request, ForcedCleanup, TryKill, CaptureWaiter, Destroy,
       DomainEnds, GoDown, Active, Alive, RemoveFromDisk, Goto
<1>40. ASSUME NEW t \in Tasks, CleanupKilled(t)  PROVE StopFlagsInv'
  BY <1>40 DEF CleanupKilled, ForgetWaiter, Goto
<1>41. ASSUME NEW t \in Tasks, CleanupStorageDone(t)  PROVE StopFlagsInv'
  BY <1>41 DEF CleanupStorageDone, Goto
<1>42. ASSUME NEW t \in Tasks, RemoveStorageDone(t)  PROVE StopFlagsInv'
  BY <1>42 DEF RemoveStorageDone, Goto
<1>43. ASSUME NEW t \in Tasks, RemoveEnd(t)  PROVE StopFlagsInv'
  BY <1>43 DEF RemoveEnd, Goto
<1>44. ASSUME NEW t \in Tasks, Killed(t)  PROVE StopFlagsInv'
  BY <1>44 DEF Killed, ForgetWaiter, Goto
<1>45. ASSUME NEW t \in Tasks, ShutdownPre(t)  PROVE StopFlagsInv'
  BY <1>45 DEF ShutdownPre, CaptureWaiter, Destroy, DomainEnds, GoDown, Alive,
       Active, Goto
<1>46. ASSUME NEW t \in Tasks, ShutdownCmdDone(t)  PROVE StopFlagsInv'
  BY <1>46 DEF ShutdownCmdDone, ForgetWaiter, Alive, Goto
<1>47. ASSUME NEW t \in Tasks, ShutdownEnd(t)  PROVE StopFlagsInv'
  BY <1>47 DEF ShutdownEnd, ForgetWaiter, Goto
<1>48. ASSUME NEW t \in Tasks, ShutdownTimesOut(t)  PROVE StopFlagsInv'
  BY <1>48 DEF ShutdownTimesOut, Goto
<1>49. ASSUME NEW t \in Tasks, PauseDone(t)  PROVE StopFlagsInv'
  BY <1>49 DEF PauseDone, Goto
<1>50. ASSUME NEW t \in Tasks, UnpauseDone(t)  PROVE StopFlagsInv'
  BY <1>50 DEF UnpauseDone, Goto
<1>51. CASE UNCHANGED vars
  BY <1>51 DEF vars
<1> QED
  BY <1>1, <1>2, <1>3, <1>4, <1>5, <1>6, <1>7, <1>8, <1>9, <1>10, <1>11, <1>12,
     <1>13, <1>14, <1>15, <1>16, <1>17, <1>18, <1>19, <1>20, <1>21, <1>22, <1>23, <1>24,
     <1>25, <1>26, <1>27, <1>28, <1>29, <1>30, <1>31, <1>32, <1>33, <1>34, <1>35, <1>36,
     <1>37, <1>38, <1>39, <1>40, <1>41, <1>42, <1>43, <1>44, <1>45, <1>46, <1>47, <1>48,
     <1>49, <1>50, <1>51, <1>52
     DEF Next, Libvirt, Qubesd, Requests, TakesLock, Resumes

(* Nothing that needs the domain to be down meets a live one.              *)
LEMMA DownStep ==
  ASSUME LifecycleInv, [Next]_vars
  PROVE  DownInv'
<1> USE OwnersDistinct DEF LifecycleInv, TypeOK, DomainType, StopType,
         TaskType, DiskType, EnvType, DownInv, PcInv, StopFlagsInv,
         StopLockInv, StartLockInv, Alive, PreCreatePcs, RemovingPcs, Owners,
         Pcs, StartHoldPcs, RemoveHoldPcs, OtherPcs, EnsurePcs, domainVars,
         stopVars, waitVars, diskVars, envVars, histVars
<1>1. CASE GuestStops
  BY <1>1 DEF GuestStops, DomainEnds, GoDown, Alive
<1>2. CASE DyingEnds
  BY <1>2 DEF DyingEnds, GoDown
<1>3. CASE ConnectionLost
  BY <1>3 DEF ConnectionLost
<1>4. CASE DeliverStopped
  BY <1>4 DEF DeliverStopped, ReadEvent, OnLibvirtDomainStopped,
       AcceptsStopped
<1>5. CASE Reconnect
  BY <1>5 DEF Reconnect, CatchUp, OnLibvirtDomainStopped, AcceptsStopped,
       Active
<1>6. CASE CoroBegin
  BY <1>6 DEF CoroBegin, StopLockFree, FireStopped
<1>7. CASE CoroDyingOver
  BY <1>7 DEF CoroDyingOver, FireStopped
<1>8. CASE StoppedHandlersDone
  BY <1>8 DEF StoppedHandlersDone
<1>9. CASE ShutdownHandlersDone
  BY <1>9 DEF ShutdownHandlersDone, FinishHandling, Outcome, AfterEnsure,
       FailedEnsure
<1>10. CASE AutoCleanup
  BY <1>10 DEF AutoCleanup, Active
<1>11. CASE AutoCleanupDone
  BY <1>11 DEF AutoCleanupDone, FinishHandling, Outcome, AfterEnsure,
       FailedEnsure
<1>12. CASE HandlerFails
  BY <1>12 DEF HandlerFails, FinishHandling, Outcome, AfterEnsure,
       FailedEnsure
<1>13. CASE AutoCleanupFails
  BY <1>13 DEF AutoCleanupFails, FinishHandling, Outcome, AfterEnsure,
       FailedEnsure
<1>14. CASE Restart
  BY <1>14 DEF Restart, Active
<1>15. CASE BootCheck
  BY <1>15 DEF BootCheck, Active
<1>16. CASE BootStorageStopped
  BY <1>16 DEF BootStorageStopped, UnlessRemoved, Verify
<1>17. CASE SaveStore
  BY <1>17 DEF SaveStore
<1>18. ASSUME NEW t \in Tasks, StartRequest(t)  PROVE DownInv'
  BY <1>18 DEF StartRequest, Request, Goto
<1>19. ASSUME NEW t \in Tasks, RemoveRequest(t)  PROVE DownInv'
  BY <1>19 DEF RemoveRequest, Request, Goto
<1>20. ASSUME NEW t \in Tasks, Kill(t)  PROVE DownInv'
  BY <1>20 DEF Kill, Request, TryKill, CaptureWaiter, Destroy, DomainEnds,
       GoDown, Active, Alive, Goto
<1>21. ASSUME NEW t \in Tasks, Shutdown(t)  PROVE DownInv'
  BY <1>21 DEF Shutdown, Request, Goto
<1>22. ASSUME NEW t \in Tasks, Pause(t)  PROVE DownInv'
  BY <1>22 DEF Pause, Request, Goto
<1>23. ASSUME NEW t \in Tasks, Unpause(t)  PROVE DownInv'
  BY <1>23 DEF Unpause, Request, Goto
<1>24. ASSUME NEW t \in Tasks, StartEnter(t)  PROVE DownInv'
  BY <1>24 DEF StartEnter, StartLockFree, MayStart, Active, Goto
<1>25. ASSUME NEW t \in Tasks, RemoveEnter(t)  PROVE DownInv'
  BY <1>25 DEF RemoveEnter, StartLockFree, MayRemove, Active, RemoveFromDisk,
       Goto
<1>26. ASSUME NEW t \in Tasks, EnsureBegin(t)  PROVE DownInv'
  BY <1>26 DEF EnsureBegin, StopLockFree, CancelStopTask, FireStopped,
       AfterEnsure, Goto
<1>27. ASSUME NEW t \in Tasks, PreStart(t)  PROVE DownInv'
  BY <1>27 DEF PreStart, Verify, Goto
<1>28. ASSUME NEW t \in Tasks, StorageStart(t)  PROVE DownInv'
  BY <1>28 DEF StorageStart, UnlessRemoved, Verify, Goto
<1>29. ASSUME NEW t \in Tasks, SpawnOk(t)  PROVE DownInv'
  BY <1>29 DEF SpawnOk, CreateDomain, AcceptStops, Goto
<1>30. ASSUME NEW t \in Tasks, SpawnFails(t)  PROVE DownInv'
  BY <1>30 DEF SpawnFails, Goto
<1>31. ASSUME NEW t \in Tasks, SpawnFailsLate(t)  PROVE DownInv'
  BY <1>31 DEF SpawnFailsLate, CreateDomain, Goto
<1>32. ASSUME NEW t \in Tasks, SpawnUndo(t)  PROVE DownInv'
  BY <1>32 DEF SpawnUndo, UnlessRemoved, Verify, Goto
<1>33. ASSUME NEW t \in Tasks, BootResume(t)  PROVE DownInv'
  BY <1>33 DEF BootResume, Alive, Goto
<1>34. ASSUME NEW t \in Tasks, BootFails(t)  PROVE DownInv'
  BY <1>34 DEF BootFails, Goto
<1>35. ASSUME NEW t \in Tasks, StartDone(t)  PROVE DownInv'
  BY <1>35 DEF StartDone, Goto
<1>36. ASSUME NEW t \in Tasks, BootKill(t)  PROVE DownInv'
  BY <1>36 DEF BootKill, TryKill, CaptureWaiter, Destroy, DomainEnds, GoDown,
       Active, Alive, Goto
<1>37. ASSUME NEW t \in Tasks, BootKilled(t)  PROVE DownInv'
  BY <1>37 DEF BootKilled, ForgetWaiter, Goto
<1>38. ASSUME NEW t \in Tasks, StartFailed(t)  PROVE DownInv'
  BY <1>38 DEF StartFailed, Goto
<1>39. ASSUME NEW t \in Tasks, StartFailedCleanup(t)  PROVE DownInv'
  <2>1. CASE inDomains /\ Active
    <3>1. power' = power \/ (Alive /\ power' \in {"Dying", "Halted"})
      BY <1>39, <2>1, DestroyPower DEF StartFailedCleanup, ForcedCleanup, TryKill
    <3>2. inDomains' /\ boot' = boot /\ saved' = saved /\ handling' = handling
      BY <1>39, <2>1 DEF StartFailedCleanup, ForcedCleanup
    <3>3. stopTask' = stopTask /\ boot = "none"
      BY <1>39 DEF StartFailedCleanup, ForcedCleanup
    <3> QED
      BY <2>1, <3>1, <3>2, <3>3 DEF Active
  <2>2. CASE inDomains /\ ~Active
    <3>1. power' = power /\ boot' = boot /\ handling' = handling
      BY <1>39, <2>2 DEF StartFailedCleanup, ForcedCleanup
    <3>2. stopTask' = stopTask /\ boot = "none" /\ ~inDomains' /\ power = "Halted"
      BY <1>39, <2>2 DEF StartFailedCleanup, ForcedCleanup, Active
    <3> QED
      BY <3>1, <3>2
  <2>3. CASE ~inDomains
    <3>1. UNCHANGED <<power, boot, handling, stopTask, inDomains, saved, overrun>> /\ boot = "none"
      BY <1>39, <2>3 DEF StartFailedCleanup, ForcedCleanup
    <3> QED
      BY <2>3, <3>1
  <2> QED
    BY <2>1, <2>2, <2>3
<1>52. ASSUME NEW t \in Tasks, StartRefused(t)  PROVE DownInv'
  <2>1. CASE inDomains /\ Active
    <3>1. power' = power \/ (Alive /\ power' \in {"Dying", "Halted"})
      BY <1>52, <2>1, DestroyPower DEF StartRefused, Request, ForcedCleanup, TryKill
    <3>2. inDomains' /\ boot' = boot /\ saved' = saved /\ handling' = handling
      BY <1>52, <2>1 DEF StartRefused, Request, ForcedCleanup
    <3>3. stopTask' = stopTask /\ boot = "none"
      BY <1>52 DEF StartRefused, Request, ForcedCleanup
    <3> QED
      BY <2>1, <3>1, <3>2, <3>3 DEF Active
  <2>2. CASE inDomains /\ ~Active
    <3>1. power' = power /\ boot' = boot /\ handling' = handling
      BY <1>52, <2>2 DEF StartRefused, Request, ForcedCleanup
    <3>2. stopTask' = stopTask /\ boot = "none" /\ ~inDomains' /\ power = "Halted"
      BY <1>52, <2>2 DEF StartRefused, Request, ForcedCleanup, Active
    <3> QED
      BY <3>1, <3>2
  <2>3. CASE ~inDomains
    <3>1. UNCHANGED <<power, boot, handling, stopTask, inDomains, saved, overrun>> /\ boot = "none"
      BY <1>52, <2>3 DEF StartRefused, Request, ForcedCleanup
    <3> QED
      BY <2>3, <3>1
  <2> QED
    BY <2>1, <2>2, <2>3
<1>40. ASSUME NEW t \in Tasks, CleanupKilled(t)  PROVE DownInv'
  BY <1>40 DEF CleanupKilled, ForgetWaiter, Goto
<1>41. ASSUME NEW t \in Tasks, CleanupStorageDone(t)  PROVE DownInv'
  BY <1>41 DEF CleanupStorageDone, Goto
<1>42. ASSUME NEW t \in Tasks, RemoveStorageDone(t)  PROVE DownInv'
  BY <1>42 DEF RemoveStorageDone, Goto
<1>43. ASSUME NEW t \in Tasks, RemoveEnd(t)  PROVE DownInv'
  BY <1>43 DEF RemoveEnd, Goto
<1>44. ASSUME NEW t \in Tasks, Killed(t)  PROVE DownInv'
  BY <1>44 DEF Killed, ForgetWaiter, Goto
<1>45. ASSUME NEW t \in Tasks, ShutdownPre(t)  PROVE DownInv'
  BY <1>45 DEF ShutdownPre, CaptureWaiter, Destroy, DomainEnds, GoDown, Alive,
       Active, Goto
<1>46. ASSUME NEW t \in Tasks, ShutdownCmdDone(t)  PROVE DownInv'
  BY <1>46 DEF ShutdownCmdDone, ForgetWaiter, Alive, Goto
<1>47. ASSUME NEW t \in Tasks, ShutdownEnd(t)  PROVE DownInv'
  BY <1>47 DEF ShutdownEnd, ForgetWaiter, Goto
<1>48. ASSUME NEW t \in Tasks, ShutdownTimesOut(t)  PROVE DownInv'
  BY <1>48 DEF ShutdownTimesOut, Goto
<1>49. ASSUME NEW t \in Tasks, PauseDone(t)  PROVE DownInv'
  BY <1>49 DEF PauseDone, Goto
<1>50. ASSUME NEW t \in Tasks, UnpauseDone(t)  PROVE DownInv'
  BY <1>50 DEF UnpauseDone, Goto
<1>51. CASE UNCHANGED vars
  BY <1>51 DEF vars
<1> QED
  BY <1>1, <1>2, <1>3, <1>4, <1>5, <1>6, <1>7, <1>8, <1>9, <1>10, <1>11, <1>12,
     <1>13, <1>14, <1>15, <1>16, <1>17, <1>18, <1>19, <1>20, <1>21, <1>22, <1>23, <1>24,
     <1>25, <1>26, <1>27, <1>28, <1>29, <1>30, <1>31, <1>32, <1>33, <1>34, <1>35, <1>36,
     <1>37, <1>38, <1>39, <1>40, <1>41, <1>42, <1>43, <1>44, <1>45, <1>46, <1>47, <1>48,
     <1>49, <1>50, <1>51, <1>52
     DEF Next, Libvirt, Qubesd, Requests, TakesLock, Resumes

(* What a suspended start() or removal relies on is not taken from it.     *)
LEMMA PcStep ==
  ASSUME LifecycleInv, [Next]_vars
  PROVE  PcInv'
<1> USE OwnersDistinct DEF LifecycleInv, TypeOK, DomainType, StopType,
         TaskType, DiskType, DownInv, PcInv, StopFlagsInv, StopLockInv,
         StartLockInv, Alive, PreCreatePcs, RemovingPcs, Owners, Pcs,
         StartHoldPcs, RemoveHoldPcs, OtherPcs, EnsurePcs, domainVars,
         stopVars, waitVars, diskVars, envVars, histVars
<1>1. CASE GuestStops
  BY <1>1 DEF GuestStops, DomainEnds, GoDown, Alive
<1>2. CASE DyingEnds
  BY <1>2 DEF DyingEnds, GoDown
<1>3. CASE ConnectionLost
  BY <1>3 DEF ConnectionLost
<1>4. CASE DeliverStopped
  BY <1>4 DEF DeliverStopped, ReadEvent, OnLibvirtDomainStopped,
       AcceptsStopped
<1>5. CASE Reconnect
  BY <1>5 DEF Reconnect, CatchUp, OnLibvirtDomainStopped, AcceptsStopped,
       Active
<1>6. CASE CoroBegin
  BY <1>6 DEF CoroBegin, StopLockFree, FireStopped
<1>7. CASE CoroDyingOver
  BY <1>7 DEF CoroDyingOver, FireStopped
<1>8. CASE StoppedHandlersDone
  BY <1>8 DEF StoppedHandlersDone
<1>9. CASE ShutdownHandlersDone
  BY <1>9 DEF ShutdownHandlersDone, FinishHandling, Outcome, AfterEnsure,
       FailedEnsure
<1>10. CASE AutoCleanup
  BY <1>10 DEF AutoCleanup, Active
<1>11. CASE AutoCleanupDone
  BY <1>11 DEF AutoCleanupDone, FinishHandling, Outcome, AfterEnsure,
       FailedEnsure
<1>12. CASE HandlerFails
  BY <1>12 DEF HandlerFails, FinishHandling, Outcome, AfterEnsure,
       FailedEnsure
<1>13. CASE AutoCleanupFails
  BY <1>13 DEF AutoCleanupFails, FinishHandling, Outcome, AfterEnsure,
       FailedEnsure
<1>14. CASE Restart
  BY <1>14 DEF Restart, Active
<1>15. CASE BootCheck
  BY <1>15 DEF BootCheck, Active
<1>16. CASE BootStorageStopped
  BY <1>16 DEF BootStorageStopped, UnlessRemoved, Verify
<1>17. CASE SaveStore
  BY <1>17 DEF SaveStore
<1>18. ASSUME NEW t \in Tasks, StartRequest(t)  PROVE PcInv'
  BY <1>18 DEF StartRequest, Request, Goto
<1>19. ASSUME NEW t \in Tasks, RemoveRequest(t)  PROVE PcInv'
  BY <1>19 DEF RemoveRequest, Request, Goto
<1>20. ASSUME NEW t \in Tasks, Kill(t)  PROVE PcInv'
  <2>1. pc' = [pc EXCEPT ![t] = "kill_wait"] \/ pc' = [pc EXCEPT ![t] = "idle"]
    BY <1>20 DEF Kill, TryKill, Goto
  <2>2. power' = power \/ (Alive /\ power' \in {"Dying", "Halted"})
    BY <1>20, DestroyPower DEF Kill, TryKill
  <2> QED
    BY <1>20, <2>1, <2>2 DEF Kill
<1>21. ASSUME NEW t \in Tasks, Shutdown(t)  PROVE PcInv'
  BY <1>21 DEF Shutdown, Request, Goto
<1>22. ASSUME NEW t \in Tasks, Pause(t)  PROVE PcInv'
  BY <1>22 DEF Pause, Request, Goto
<1>23. ASSUME NEW t \in Tasks, Unpause(t)  PROVE PcInv'
  BY <1>23 DEF Unpause, Request, Goto
<1>24. ASSUME NEW t \in Tasks, StartEnter(t)  PROVE PcInv'
  BY <1>24 DEF StartEnter, StartLockFree, MayStart, Active, Goto
<1>25. ASSUME NEW t \in Tasks, RemoveEnter(t)  PROVE PcInv'
  BY <1>25 DEF RemoveEnter, StartLockFree, MayRemove, Active, RemoveFromDisk,
       Goto
<1>26. ASSUME NEW t \in Tasks, EnsureBegin(t)  PROVE PcInv'
  BY <1>26 DEF EnsureBegin, StopLockFree, CancelStopTask, FireStopped,
       AfterEnsure, Goto
<1>27. ASSUME NEW t \in Tasks, PreStart(t)  PROVE PcInv'
  BY <1>27 DEF PreStart, Verify, Goto
<1>28. ASSUME NEW t \in Tasks, StorageStart(t)  PROVE PcInv'
  BY <1>28 DEF StorageStart, UnlessRemoved, Verify, Goto
<1>29. ASSUME NEW t \in Tasks, SpawnOk(t)  PROVE PcInv'
  BY <1>29 DEF SpawnOk, CreateDomain, AcceptStops, Goto
<1>30. ASSUME NEW t \in Tasks, SpawnFails(t)  PROVE PcInv'
  BY <1>30 DEF SpawnFails, Goto
<1>31. ASSUME NEW t \in Tasks, SpawnFailsLate(t)  PROVE PcInv'
  BY <1>31 DEF SpawnFailsLate, CreateDomain, Goto
<1>32. ASSUME NEW t \in Tasks, SpawnUndo(t)  PROVE PcInv'
  BY <1>32 DEF SpawnUndo, UnlessRemoved, Verify, Goto
<1>33. ASSUME NEW t \in Tasks, BootResume(t)  PROVE PcInv'
  BY <1>33 DEF BootResume, Alive, Goto
<1>34. ASSUME NEW t \in Tasks, BootFails(t)  PROVE PcInv'
  BY <1>34 DEF BootFails, Goto
<1>35. ASSUME NEW t \in Tasks, StartDone(t)  PROVE PcInv'
  BY <1>35 DEF StartDone, Goto
<1>36. ASSUME NEW t \in Tasks, BootKill(t)  PROVE PcInv'
  <2>1. pc' = [pc EXCEPT ![t] = "boot_kill"] \/ pc' = [pc EXCEPT ![t] = "start_failed"]
    BY <1>36 DEF BootKill, TryKill, Goto
  <2>2. power' = power \/ (Alive /\ power' \in {"Dying", "Halted"})
    BY <1>36, DestroyPower DEF BootKill, TryKill
  <2> QED
    BY <1>36, <2>1, <2>2 DEF BootKill
<1>37. ASSUME NEW t \in Tasks, BootKilled(t)  PROVE PcInv'
  BY <1>37 DEF BootKilled, ForgetWaiter, Goto
<1>38. ASSUME NEW t \in Tasks, StartFailed(t)  PROVE PcInv'
  BY <1>38 DEF StartFailed, Goto
<1>39. ASSUME NEW t \in Tasks, StartFailedCleanup(t)  PROVE PcInv'
  <2>1. startLock = t
    BY <1>39 DEF StartFailedCleanup, ForcedCleanup
  <2>2. CASE inDomains /\ Active
    <3>1. pc' = [pc EXCEPT ![t] = "cleanup_kill"] \/ pc' = [pc EXCEPT ![t] = "idle"]
      BY <1>39, <2>2 DEF StartFailedCleanup, ForcedCleanup, TryKill, Goto
    <3>2. power' = power \/ (Alive /\ power' \in {"Dying", "Halted"})
      BY <1>39, <2>2, DestroyPower DEF StartFailedCleanup, ForcedCleanup, TryKill
    <3> QED
      BY <1>39, <2>1, <2>2, <3>1, <3>2 DEF StartFailedCleanup, ForcedCleanup
  <2>3. CASE ~(inDomains /\ Active)
    <3>1. \A u \in Tasks \ {t} : pc[u] \notin StartHoldPcs \cup RemoveHoldPcs
      BY <2>1
    <3>2. \E p \in {"idle", "cleanup_ensure", "cleanup_storage"} :
             /\ pc' = [pc EXCEPT ![t] = p]
             /\ p # "idle" => inDomains' = FALSE /\ power = "Halted"
             /\ inDomains' = inDomains \/ inDomains' = FALSE
      BY <1>39, <2>3 DEF StartFailedCleanup, ForcedCleanup, RemoveFromDisk, Active, Goto
    <3>3. UNCHANGED <<power, handled, handling, storage>>
      BY <1>39, <2>3 DEF StartFailedCleanup, ForcedCleanup
    <3> QED
      BY <3>1, <3>2, <3>3
  <2> QED
    BY <2>2, <2>3
<1>52. ASSUME NEW t \in Tasks, StartRefused(t)  PROVE PcInv'
  <2>1. CASE inDomains /\ Active
    <3>1. pc' = [pc EXCEPT ![t] = "cleanup_kill"] \/ pc' = [pc EXCEPT ![t] = "idle"]
      BY <1>52, <2>1 DEF StartRefused, ForcedCleanup, TryKill, Goto
    <3>2. power' = power \/ (Alive /\ power' \in {"Dying", "Halted"})
      BY <1>52, <2>1, DestroyPower DEF StartRefused, ForcedCleanup, TryKill
    <3>3. UNCHANGED <<inDomains, overrun, handled, handling, storage>>
      BY <1>52, <2>1 DEF StartRefused, ForcedCleanup
    <3> QED
      BY <2>1, <3>1, <3>2, <3>3
  <2>2. CASE inDomains /\ ~Active
    <3>1. /\ pc' = [pc EXCEPT ![t] = IF handled THEN "cleanup_storage" ELSE "cleanup_ensure"]
          /\ inDomains' = FALSE /\ power = "Halted"
          /\ UNCHANGED <<power, handled, handling, storage>>
      BY <1>52, <2>2 DEF StartRefused, ForcedCleanup, RemoveFromDisk, Goto, Active
    <3>2. pc[t] = "idle" /\ overrun' =
            (overrun \/ \E u \in Tasks \ {t} : pc[u] \in BeforeCreatePcs)
      BY <1>52, <2>2 DEF StartRefused, ForcedCleanup, Request
    <3> QED
      BY <3>1, <3>2 DEF BeforeCreatePcs
  <2>3. CASE ~inDomains
    BY <1>52, <2>3 DEF StartRefused, Request
  <2> QED
    BY <2>1, <2>2, <2>3
<1>40. ASSUME NEW t \in Tasks, CleanupKilled(t)  PROVE PcInv'
  BY <1>40 DEF CleanupKilled, ForgetWaiter, Goto
<1>41. ASSUME NEW t \in Tasks, CleanupStorageDone(t)  PROVE PcInv'
  BY <1>41 DEF CleanupStorageDone, Goto
<1>42. ASSUME NEW t \in Tasks, RemoveStorageDone(t)  PROVE PcInv'
  BY <1>42 DEF RemoveStorageDone, Goto
<1>43. ASSUME NEW t \in Tasks, RemoveEnd(t)  PROVE PcInv'
  BY <1>43 DEF RemoveEnd, Goto
<1>44. ASSUME NEW t \in Tasks, Killed(t)  PROVE PcInv'
  BY <1>44 DEF Killed, ForgetWaiter, Goto
<1>45. ASSUME NEW t \in Tasks, ShutdownPre(t)  PROVE PcInv'
  <2>1. pc' \in {[pc EXCEPT ![t] = x] : x \in {"idle", "shutdown_wait", "shutdown_cmd"}}
    BY <1>45 DEF ShutdownPre, Goto
  <2>2. power' = power \/ (Alive /\ power' \in {"Dying", "Halted"})
    BY <1>45, DestroyPower DEF ShutdownPre
  <2> QED
    BY <1>45, <2>1, <2>2 DEF ShutdownPre
<1>46. ASSUME NEW t \in Tasks, ShutdownCmdDone(t)  PROVE PcInv'
  BY <1>46 DEF ShutdownCmdDone, ForgetWaiter, Alive, Goto
<1>47. ASSUME NEW t \in Tasks, ShutdownEnd(t)  PROVE PcInv'
  BY <1>47 DEF ShutdownEnd, ForgetWaiter, Goto
<1>48. ASSUME NEW t \in Tasks, ShutdownTimesOut(t)  PROVE PcInv'
  BY <1>48 DEF ShutdownTimesOut, Goto
<1>49. ASSUME NEW t \in Tasks, PauseDone(t)  PROVE PcInv'
  BY <1>49 DEF PauseDone, Goto
<1>50. ASSUME NEW t \in Tasks, UnpauseDone(t)  PROVE PcInv'
  BY <1>50 DEF UnpauseDone, Goto
<1>51. CASE UNCHANGED vars
  BY <1>51 DEF vars
<1> QED
  BY <1>1, <1>2, <1>3, <1>4, <1>5, <1>6, <1>7, <1>8, <1>9, <1>10, <1>11, <1>12,
     <1>13, <1>14, <1>15, <1>16, <1>17, <1>18, <1>19, <1>20, <1>21, <1>22, <1>23, <1>24,
     <1>25, <1>26, <1>27, <1>28, <1>29, <1>30, <1>31, <1>32, <1>33, <1>34, <1>35, <1>36,
     <1>37, <1>38, <1>39, <1>40, <1>41, <1>42, <1>43, <1>44, <1>45, <1>46, <1>47, <1>48,
     <1>49, <1>50, <1>51, <1>52
     DEF Next, Libvirt, Qubesd, Requests, TakesLock, Resumes

---------------------------------------------------------------------------
(* The theorems.                                                           *)

LEMMA LifecycleInvInit == Init => LifecycleInv
<1>1. Init => TypeOK
  <2>1. Init => DomainType /\ StopType
    BY BoundsAreNaturals DEF Init, DomainType, StopType, Owners
  <2>3. Init => WaitType
    BY BoundsAreNaturals DEF Init, WaitType
  <2>4. Init => TaskType
    BY DEF Init, TaskType, Pcs, OtherPcs
  <2>2. Init => DiskType /\ EnvType
    BY BoundsAreNaturals DEF Init, DiskType, EnvType
  <2>5. Init => HistType
    <3>1. Init => fired \in [Runs -> Nat]
      BY DEF Init
    <3>3. Init => overrun \in BOOLEAN
      BY DEF Init
    <3>2. Init => finished \subseteq 0..MaxRuns /\ lost \subseteq 0..MaxRuns
      BY DEF Init
    <3> QED
      BY <3>1, <3>2, <3>3 DEF HistType
  <2> QED
    BY <2>1, <2>2, <2>3, <2>4, <2>5 DEF TypeOK
<1>2. Init => StartLockInv /\ StopLockInv /\ StopFlagsInv /\ DownInv
  BY OwnersDistinct
  DEF Init, StartLockInv, StopLockInv, StopFlagsInv, DownInv, StartHoldPcs,
      RemoveHoldPcs, Alive
<1>3. Init => PcInv
  BY DEF Init, PcInv, EnsurePcs, PreCreatePcs, RemovingPcs
<1> QED
  BY <1>1, <1>2, <1>3 DEF LifecycleInv

LEMMA LifecycleInvStep ==
  ASSUME LifecycleInv, [Next]_vars
  PROVE  LifecycleInv'
<1>1. TypeOK'
  BY DomainTypeStep, StopTypeStep, WaitTypeStep, TaskTypeStep, RestTypeStep
  DEF TypeOK
<1> QED
  BY <1>1, StartLockStep, StopLockStep, StopFlagsStep, DownStep, PcStep
  DEF LifecycleInv

(* The inductive invariant holds: whatever the number of callers, runs,    *)
(* restarts and connection losses, and whichever failures happen.          *)
THEOREM LifecycleInvariant == Spec => []LifecycleInv
  BY LifecycleInvInit, LifecycleInvStep, PTL DEF Spec

(* Every variable keeps its type.                                          *)
THEOREM TypeCorrect == Spec => []TypeOK
<1>1. LifecycleInv => TypeOK
  BY DEF LifecycleInv
<1> QED
  BY <1>1, LifecycleInvariant, PTL

(* The domain-stopped and domain-shutdown handlers never run on a live     *)
(* domain.                                                                 *)
THEOREM HandlersNeverOnLiveDomain == Spec => []HandlingOnlyWhenDown
<1>1. LifecycleInv => HandlingOnlyWhenDown
  BY DEF LifecycleInv, DownInv, HandlingOnlyWhenDown
<1> QED
  BY <1>1, LifecycleInvariant, PTL

(* The assertion of _domain_stopped_coro() never fails.                    *)
THEOREM AssertionHolds == Spec => []CoroAssertion
<1>1. LifecycleInv => CoroAssertion
  BY DEF LifecycleInv, StopFlagsInv, CoroAssertion
<1> QED
  BY <1>1, LifecycleInvariant, PTL

(* _ensure_shutdown_handled() is never called on a running qube.           *)
THEOREM EnsureCalledWhenDown == Spec => []EnsureOnlyWhenDown
<1>1. LifecycleInv => EnsureOnlyWhenDown
  BY DEF LifecycleInv, PcInv, DownInv, EnsureOnlyWhenDown, EnsurePcs, RemovingPcs
<1> QED
  BY <1>1, LifecycleInvariant, PTL

(* A qube outside app.domains has no libvirt domain, unless the forced     *)
(* cleanup of a refused start() unlisted it while another call's start()   *)
(* had still to create the domain.                                         *)
THEOREM RemovedIsDown == Spec => []RemovedStaysDown
<1>1. LifecycleInv => RemovedStaysDown
  BY DEF LifecycleInv, DownInv, RemovedStaysDown
<1> QED
  BY <1>1, LifecycleInvariant, PTL

(* While volumes are being started, nobody stops or removes them, but for  *)
(* a forced cleanup, which holds none of the locks that start() holds.     *)
THEOREM StorageStartIsExclusive == Spec => []StorageStartExclusive
<1>1. LifecycleInv => StorageStartExclusive
  BY DEF LifecycleInv, DownInv, PcInv, StorageStartExclusive, PreCreatePcs,
         RemovingPcs, TypeOK, EnvType
<1> QED
  BY <1>1, LifecycleInvariant, PTL

(* A new domain is created only for a qube whose previous run is handled,  *)
(* and which is listed or was unlisted by a forced cleanup under start().  *)
THEOREM StartsAfterHandled == Spec => StartAfterHandled
<1>1. ASSUME LifecycleInv, [Next]_vars
      PROVE  [run' # run => (inDomains \/ overrun) /\ handled /\ handling = "none"]_vars
  <2>1. ASSUME NEW t \in Tasks, SpawnOk(t) \/ SpawnFailsLate(t)
        PROVE  (inDomains \/ overrun) /\ handled /\ handling = "none"
    <3>1. pc[t] = "pre_spawn"
      BY <2>1 DEF SpawnOk, SpawnFailsLate
    <3> QED
      BY <1>1, <3>1 DEF LifecycleInv, PcInv, PreCreatePcs
  <2>2. (\E t \in Tasks : SpawnOk(t) \/ SpawnFailsLate(t)) \/ run' = run
    <3>1. CASE Libvirt \/ Qubesd \/ UNCHANGED vars
      BY <3>1 DEF Libvirt, Qubesd, vars,
        domainVars, GuestStops, DyingEnds, ConnectionLost, DeliverStopped,
        ReadEvent, Reconnect, CoroBegin, CoroDyingOver, StoppedHandlersDone,
        ShutdownHandlersDone, AutoCleanup, AutoCleanupDone, HandlerFails,
        AutoCleanupFails, FinishHandling, Restart, BootCheck,
        BootStorageStopped, SaveStore, DomainEnds, GoDown
    <3>2. ASSUME NEW t \in Tasks, Kill(t) \/ BootKill(t) \/ ShutdownPre(t)
                                  \/ StartFailedCleanup(t) \/ StartRefused(t)
          PROVE  run' = run
      BY <3>2 DEF Kill, BootKill, ShutdownPre, StartFailedCleanup, StartRefused,
        ForcedCleanup, TryKill, Destroy, DomainEnds, GoDown, domainVars
    <3>3. ASSUME NEW t \in Tasks, Requests(t) \/ TakesLock(t) \/ Resumes(t),
                 ~(Kill(t) \/ BootKill(t) \/ ShutdownPre(t)
                   \/ StartFailedCleanup(t) \/ StartRefused(t))
          PROVE  SpawnOk(t) \/ SpawnFailsLate(t) \/ run' = run
      BY <3>3 DEF Requests, TakesLock, Resumes, domainVars, StartRequest,
        RemoveRequest, Shutdown, Pause, Unpause, StartEnter, RemoveEnter,
        EnsureBegin, PreStart, StorageStart, SpawnFails, SpawnUndo, BootResume,
        BootFails, StartDone, BootKilled, StartFailed, CleanupKilled,
        CleanupStorageDone, RemoveStorageDone, RemoveEnd, Killed,
        ShutdownCmdDone, ShutdownEnd, ShutdownTimesOut, PauseDone, UnpauseDone
    <3> QED
      BY <1>1, <3>1, <3>2, <3>3 DEF Next
  <2> QED
    BY <2>1, <2>2
<1> QED
  BY <1>1, LifecycleInvariant, PTL DEF Spec, StartAfterHandled
---------------------------------------------------------------------------
(* The dispatches of each run, its volumes, and who waits for its end.     *)

LostInv == lost \subseteq 0..run

(* The domain of an unlisted qube is one that nobody will hear of.         *)
UnlistedInv == Active /\ ~inDomains => run \in lost

(* A domain has an end in front of it that nobody has dealt with.          *)
ActiveInv == Active /\ run \notin lost => ~handled \/ handling = "dying"

(* The dispatches of domain-stopped: none before the end of a run, one     *)
(* when it is dealt with, except in the runs of `lost`.                    *)
FiredInv ==
    /\ \A r \in Runs : fired[r] \in {0, 1} /\ (r > run => fired[r] = 0)
    /\ \A r \in Runs \ lost : r < run => fired[r] = 1
    /\ run \in Runs =>
          /\ ~handled \/ handling = "dying" \/ Active => fired[run] = 0
          /\ handled /\ handling # "dying" /\ run \notin lost => fired[run] = 1

(* The volumes are up from the end of storage.start() to the end of the    *)
(* domain.                                                                 *)
VolumesInv ==
    /\ Alive /\ run \notin lost => storage = "started"
    /\ \A t \in Tasks : /\ pc[t] = "storage_start" /\ inDomains => storage # "removed"
                        /\ pc[t] = "pre_spawn" /\ inDomains => storage = "started"
                        /\ pc[t] = "spawn_undo" => ~Alive \/ run \in lost

(* Who waits for the end of a run waits for the future that the end of its *)
(* dispatch resolves.                                                      *)
WaitInv ==
    \A t \in Tasks :
        /\ wres[t] = "pending" =>
              /\ waiter = "pending"
              /\ krun[t] \notin lost \cup {0} =>
                    krun[t] = run /\ (~handled \/ handling # "none")
        /\ wres[t] = "done" => krun[t] \in finished \cup lost \cup {0}

RunsInv == LostInv /\ UnlistedInv /\ ActiveInv /\ FiredInv /\ VolumesInv /\ WaitInv

\* What a step does to the run and its dispatch: it creates a domain, begins
\* or ends a dispatch, restarts qubesd, or else does not matter here.
Quiet == /\ UNCHANGED <<run, handled, fired, finished, lost>>
         /\ handling' = handling \/ {handling, handling'} \subseteq {"stopped", "shutdown", "cleaning"}
         /\ Active' => Active
         /\ Alive' => Alive

LEMMA DestroyQuiet ==
  ASSUME Destroy
  PROVE  UNCHANGED run /\ (Active' => Active) /\ (Alive' => Alive)
  BY DEF Destroy, DomainEnds, GoDown, domainVars, Active, Alive

LEMMA TryKillQuiet ==
  ASSUME NEW t, NEW await, NEW notStarted, TryKill(t, await, notStarted)
  PROVE  UNCHANGED run /\ (Active' => Active) /\ (Alive' => Alive)
  BY DestroyQuiet DEF TryKill, domainVars, Active, Alive

LEMMA QubesdKinds ==
  ASSUME Libvirt \/ Qubesd
  PROVE  \/ CoroBegin \/ CoroDyingOver \/ Restart
         \/ handling \notin {"none", "dying"} /\ \E ok \in BOOLEAN : FinishHandling(ok)
         \/ Quiet
<1> USE DEF Quiet, domainVars, stopVars, histVars, Active, Alive
<1>1. CASE GuestStops
  BY <1>1 DEF GuestStops, DomainEnds, GoDown
<1>2. CASE DyingEnds \/ ConnectionLost
  BY <1>2 DEF DyingEnds, ConnectionLost, GoDown
<1>3. CASE DeliverStopped \/ Reconnect
  BY <1>3 DEF DeliverStopped, ReadEvent, Reconnect, CatchUp, OnLibvirtDomainStopped
<1>4. CASE StoppedHandlersDone \/ AutoCleanup
  BY <1>4 DEF StoppedHandlersDone, AutoCleanup
<1>5. CASE ShutdownHandlersDone \/ AutoCleanupDone \/ HandlerFails \/ AutoCleanupFails
  BY <1>5 DEF ShutdownHandlersDone, AutoCleanupDone, HandlerFails, AutoCleanupFails
<1>6. CASE BootCheck \/ BootStorageStopped \/ SaveStore
  BY <1>6 DEF BootCheck, BootStorageStopped, SaveStore
<1> QED
  BY <1>1, <1>2, <1>3, <1>4, <1>5, <1>6 DEF Libvirt, Qubesd

LEMMA CallKinds ==
  ASSUME NEW t \in Tasks, Requests(t) \/ TakesLock(t) \/ Resumes(t)
  PROVE  SpawnOk(t) \/ SpawnFailsLate(t) \/ EnsureBegin(t) \/ Quiet
<1> USE DEF Quiet, domainVars, stopVars, histVars
<1>1. CASE Kill(t) \/ BootKill(t) \/ StartFailedCleanup(t) \/ StartRefused(t)
  BY <1>1, TryKillQuiet DEF Kill, BootKill, StartFailedCleanup, StartRefused, ForcedCleanup, Active, Alive
<1>2. CASE ShutdownPre(t)
  BY <1>2, DestroyQuiet DEF ShutdownPre, Active, Alive
<1>3. CASE BootResume(t) \/ PauseDone(t) \/ UnpauseDone(t)
  BY <1>3 DEF BootResume, PauseDone, UnpauseDone, Active, Alive
<1>4. CASE \/ StartRequest(t) \/ RemoveRequest(t) \/ Shutdown(t) \/ Pause(t) \/ Unpause(t)
           \/ StartEnter(t) \/ RemoveEnter(t) \/ PreStart(t) \/ StorageStart(t)
           \/ SpawnFails(t) \/ SpawnUndo(t) \/ BootFails(t) \/ StartDone(t)
           \/ BootKilled(t) \/ StartFailed(t) \/ CleanupKilled(t)
           \/ CleanupStorageDone(t) \/ RemoveStorageDone(t) \/ RemoveEnd(t)
           \/ Killed(t) \/ ShutdownCmdDone(t) \/ ShutdownEnd(t) \/ ShutdownTimesOut(t)
  <2>1. UNCHANGED <<domainVars, stopVars, histVars>>
    BY <1>4 DEF StartRequest, RemoveRequest, Shutdown, Pause, Unpause, StartEnter,
      RemoveEnter, PreStart, StorageStart, SpawnFails, SpawnUndo, BootFails,
      StartDone, BootKilled, StartFailed, CleanupKilled, CleanupStorageDone,
      RemoveStorageDone, RemoveEnd, Killed, ShutdownCmdDone, ShutdownEnd,
      ShutdownTimesOut
  <2> QED BY <2>1 DEF Active, Alive
<1> QED
  BY <1>1, <1>2, <1>3, <1>4 DEF Requests, TakesLock, Resumes

LEMMA StepKinds ==
  ASSUME [Next]_vars
  PROVE  \/ \E t \in Tasks : SpawnOk(t) \/ SpawnFailsLate(t) \/ EnsureBegin(t)
         \/ CoroBegin \/ CoroDyingOver \/ Restart
         \/ handling \notin {"none", "dying"} /\ \E ok \in BOOLEAN : FinishHandling(ok)
         \/ Quiet
<1>1. CASE UNCHANGED vars
  BY <1>1 DEF vars, Quiet, domainVars, stopVars, histVars, Active, Alive
<1> QED
  BY <1>1, QubesdKinds, CallKinds DEF Next

\* A qube leaves app.domains only while it has no domain.
LEMMA ListedKinds ==
  ASSUME LifecycleInv, [Next]_vars
  PROVE  \/ (inDomains' = inDomains /\ overrun' = overrun) \/ Restart
         \/ /\ Quiet /\ inDomains' = FALSE /\ ~Active /\ UNCHANGED power
            /\ overrun' \in {overrun, TRUE}
<1>1. CASE UNCHANGED vars
  BY <1>1 DEF vars, diskVars, histVars
<1>2. CASE Libvirt \/ Qubesd
  BY <1>2 DEF Libvirt, Qubesd, GuestStops, DyingEnds, ConnectionLost, DeliverStopped,
    Reconnect, CoroBegin, CoroDyingOver, StoppedHandlersDone, ShutdownHandlersDone,
    AutoCleanup, AutoCleanupDone, HandlerFails, AutoCleanupFails, FinishHandling,
    BootCheck, BootStorageStopped, SaveStore, Quiet, Active, Alive, domainVars, diskVars,
    histVars
<1>3. ASSUME NEW t \in Tasks, Requests(t) \/ TakesLock(t) \/ Resumes(t)
      PROVE  \/ inDomains' = inDomains /\ overrun' = overrun
             \/ /\ Quiet /\ inDomains' = FALSE /\ ~Active /\ UNCHANGED power
                /\ overrun' \in {overrun, TRUE}
  <2>1. CASE RemoveEnter(t) \/ StartFailedCleanup(t) \/ StartRefused(t)
    BY <2>1 DEF RemoveEnter, MayRemove, StartFailedCleanup, StartRefused, ForcedCleanup,
      Quiet, Active, Alive, domainVars, stopVars, histVars, LifecycleInv, TypeOK, HistType
  <2>2. CASE ~(RemoveEnter(t) \/ StartFailedCleanup(t) \/ StartRefused(t))
    BY <1>3, <2>2 DEF Requests, TakesLock, Resumes, StartRequest, RemoveRequest, Kill,
      Shutdown, Pause, Unpause, StartEnter, EnsureBegin, PreStart, StorageStart, SpawnOk,
      SpawnFails, SpawnFailsLate, SpawnUndo, BootResume, BootFails, StartDone, BootKill,
      BootKilled, StartFailed, CleanupKilled, CleanupStorageDone, RemoveStorageDone,
      RemoveEnd, Killed, ShutdownPre, ShutdownCmdDone, ShutdownEnd, ShutdownTimesOut,
      PauseDone, UnpauseDone, diskVars, histVars
  <2> QED BY <2>1, <2>2
<1> QED
  BY <1>1, <1>2, <1>3 DEF Next

\* UnlistedInv.
LEMMA UnlistedStep ==
  ASSUME LifecycleInv, LostInv, UnlistedInv, [Next]_vars
  PROVE  UnlistedInv'
<1> USE DEF UnlistedInv
<1>1. ASSUME NEW t \in Tasks, SpawnOk(t) \/ SpawnFailsLate(t) PROVE UnlistedInv'
  BY <1>1 DEF SpawnOk, SpawnFailsLate, CreateDomain, diskVars
<1>2. CASE Restart
  BY <1>2 DEF Restart, LifecycleInv, DownInv, Active
<1>3. CASE (\E t \in Tasks : EnsureBegin(t)) \/ CoroBegin \/ CoroDyingOver
  BY <1>3 DEF EnsureBegin, CoroBegin, CoroDyingOver, domainVars, diskVars, Active
<1>4. CASE /\ handling \notin {"none", "dying"} /\ (\E ok \in BOOLEAN : FinishHandling(ok))
           /\ ~Restart
  <2>1. UNCHANGED <<power, run, lost>>
    BY <1>4 DEF FinishHandling, domainVars
  <2>2. ~Active
    BY <1>4 DEF LifecycleInv, DownInv, TypeOK, StopType, Active
  <2> QED BY <2>1, <2>2 DEF Active
<1>5. CASE Quiet /\ ~Restart
  <2>1. UNCHANGED <<run, lost>> /\ (Active' => Active)
    BY <1>5 DEF Quiet
  <2>2. inDomains' = inDomains \/ (~Active /\ UNCHANGED power)
    BY <1>5, ListedKinds
  <2> QED BY <2>1, <2>2
<1> QED
  BY <1>1, <1>2, <1>3, <1>4, <1>5, StepKinds

\* LostInv, ActiveInv and FiredInv.
LEMMA RunStep ==
  ASSUME LifecycleInv, LostInv, UnlistedInv, ActiveInv, FiredInv, [Next]_vars
  PROVE  LostInv' /\ ActiveInv' /\ FiredInv'
<1> USE DEF LostInv, ActiveInv, FiredInv
<1>0. /\ run \in 0..MaxRuns /\ fired \in [Runs -> Nat] /\ MaxRuns \in Nat
      /\ handled \in BOOLEAN
  BY BoundsAreNaturals DEF LifecycleInv, TypeOK, DomainType, HistType, StopType
<1>1. ASSUME NEW t \in Tasks, SpawnOk(t) PROVE LostInv' /\ ActiveInv' /\ FiredInv'
  <2>1. power = "Halted" /\ handled /\ handling = "none"
    BY <1>1 DEF SpawnOk, LifecycleInv, PcInv, PreCreatePcs
  <2>2. /\ run' = run + 1 /\ run < MaxRuns /\ handled' = FALSE
        /\ lost' = lost \/ lost' = lost \cup {run + 1}
        /\ UNCHANGED <<handling, fired>>
    BY <1>1 DEF SpawnOk, CreateDomain, AcceptStops
  <2>3. CASE lost' = lost
    BY <1>0, <2>1, <2>2, <2>3 DEF Runs
  <2>4. CASE lost' = lost \cup {run + 1}
    BY <1>0, <2>1, <2>2, <2>4 DEF Runs
  <2> QED BY <2>2, <2>3, <2>4
<1>2. ASSUME NEW t \in Tasks, SpawnFailsLate(t) PROVE LostInv' /\ ActiveInv' /\ FiredInv'
  <2>1. power = "Halted" /\ handled /\ handling = "none"
    BY <1>2 DEF SpawnFailsLate, LifecycleInv, PcInv, PreCreatePcs
  <2>2. /\ run' = run + 1 /\ run < MaxRuns /\ lost' = lost \cup {run + 1}
        /\ UNCHANGED <<handled, handling, fired>>
    BY <1>2 DEF SpawnFailsLate, CreateDomain, stopVars
  <2> QED BY <1>0, <2>1, <2>2 DEF Runs
<1>3. CASE CoroBegin \/ CoroDyingOver \/ \E t \in Tasks : EnsureBegin(t)
  <2>1. /\ UNCHANGED <<run, power, lost>> /\ handled' = TRUE
        /\ power # "Paused" /\ power # "Running"
        /\ \/ handling' = "dying" /\ ~handled /\ fired' = fired
           \/ /\ handling' = "stopped" /\ power = "Halted" /\ FireStopped
              /\ ~handled \/ handling = "dying"
           \/ handled /\ handling # "dying" /\ power = "Halted" /\ UNCHANGED <<handling, fired>>
    <3>1. CASE CoroBegin
      BY <3>1 DEF CoroBegin, LifecycleInv, StopFlagsInv, DownInv, Alive, domainVars,
        TypeOK, DomainType
    <3>2. CASE CoroDyingOver
      BY <3>2 DEF CoroDyingOver, LifecycleInv, StopLockInv, DownInv, Alive, domainVars,
        TypeOK, DomainType
    <3>3. CASE \E t \in Tasks : EnsureBegin(t)
      BY <3>3 DEF EnsureBegin, LifecycleInv, StopLockInv, StopLockFree, PcInv, DownInv,
        EnsurePcs, RemovingPcs, domainVars
    <3> QED BY <1>3, <3>1, <3>2, <3>3
  <2>2. FireStopped => fired' = IF run \in Runs THEN [fired EXCEPT ![run] = fired[run] + 1]
                                ELSE fired
    BY DEF FireStopped
  <2> QED BY <1>0, <2>1, <2>2 DEF Runs, Active
<1>4. CASE Restart
  <2>1. ~saved /\ Active => run \in lost
    BY DEF LifecycleInv, DownInv, UnlistedInv
  <2>2. UNCHANGED <<run, power, fired>> /\ handling' = "none"
    BY <1>4 DEF Restart
  <2>3. CASE Active
    <3>1. (handled' = FALSE \/ run \in lost) /\ lost' = lost
      BY <1>4, <2>1, <2>3 DEF Restart
    <3>2. run \in Runs => fired[run] = 0 BY <2>3
    <3> QED BY <1>0, <2>2, <3>1, <3>2
  <2>4. CASE ~Active
    <3>1. lost' = lost \cup {run} /\ ~Active' /\ handled' = TRUE
      BY <1>4, <2>2, <2>4 DEF Restart, Active
    <3> QED BY <1>0, <2>2, <3>1
  <2> QED BY <2>3, <2>4
<1>5. CASE handling \notin {"none", "dying"} /\ \E ok \in BOOLEAN : FinishHandling(ok)
  <2>1. /\ UNCHANGED <<run, power, fired, lost, handled>> /\ handling' = "none"
    BY <1>5 DEF FinishHandling, domainVars
  <2> QED BY <1>0, <1>5, <2>1 DEF Active
<1>6. CASE Quiet
  BY <1>0, <1>6 DEF Quiet
<1> QED
  BY <1>1, <1>2, <1>3, <1>4, <1>5, <1>6, StepKinds

\* What a step does to the futures that callers wait for.
CapturesIt == \E t \in Tasks : CaptureWaiter(t)
DropsIt == \/ \E t \in Tasks : ForgetWaiter(t) \/ ShutdownTimesOut(t)
           \/ waiter' = (IF waiter = "none" THEN "pending" ELSE waiter) /\ UNCHANGED <<wres, krun>>

LEMMA TryKillWaits ==
  ASSUME NEW t \in Tasks, NEW await, NEW notStarted, TryKill(t, await, notStarted)
  PROVE  CapturesIt \/ DropsIt \/ UNCHANGED waitVars
  BY DEF TryKill, CapturesIt, DropsIt

LEMMA WaitKinds ==
  ASSUME [Next]_vars
  PROVE  \/ UNCHANGED waitVars \/ Restart
         \/ handling \notin {"none", "dying"} /\ \E ok \in BOOLEAN : FinishHandling(ok)
         \/ Quiet /\ (CapturesIt \/ DropsIt)
<1>1. CASE UNCHANGED vars
  BY <1>1 DEF vars
<1>2. CASE Libvirt \/ Qubesd
  BY <1>2 DEF Libvirt, Qubesd, GuestStops, DyingEnds, ConnectionLost, DeliverStopped,
    Reconnect, CoroBegin, CoroDyingOver, StoppedHandlersDone, ShutdownHandlersDone,
    AutoCleanup, AutoCleanupDone, HandlerFails, AutoCleanupFails, BootCheck,
    BootStorageStopped, SaveStore
<1>3. ASSUME NEW t \in Tasks, Requests(t) \/ TakesLock(t) \/ Resumes(t)
      PROVE  UNCHANGED waitVars \/ (Quiet /\ (CapturesIt \/ DropsIt))
  <2>1. SpawnOk(t) \/ SpawnFailsLate(t) \/ EnsureBegin(t) => UNCHANGED waitVars
    BY DEF SpawnOk, SpawnFailsLate, EnsureBegin
  <2>2. UNCHANGED waitVars \/ CapturesIt \/ DropsIt
    <3>1. CASE Kill(t) \/ BootKill(t) \/ StartFailedCleanup(t) \/ StartRefused(t)
      BY <3>1, TryKillWaits DEF Kill, BootKill, StartFailedCleanup, StartRefused, ForcedCleanup
    <3>2. CASE ShutdownPre(t)
      BY <3>2 DEF ShutdownPre, CapturesIt
    <3>3. CASE \/ BootKilled(t) \/ CleanupKilled(t) \/ Killed(t) \/ ShutdownCmdDone(t)
               \/ ShutdownEnd(t) \/ ShutdownTimesOut(t)
      BY <3>3 DEF BootKilled, CleanupKilled, Killed, ShutdownCmdDone, ShutdownEnd, DropsIt
    <3>4. CASE \/ StartRequest(t) \/ RemoveRequest(t) \/ Shutdown(t) \/ Pause(t) \/ Unpause(t)
               \/ StartEnter(t) \/ RemoveEnter(t) \/ PreStart(t) \/ StorageStart(t)
               \/ SpawnFails(t) \/ SpawnUndo(t) \/ BootResume(t) \/ BootFails(t)
               \/ StartDone(t) \/ StartFailed(t) \/ CleanupStorageDone(t)
               \/ RemoveStorageDone(t) \/ RemoveEnd(t) \/ PauseDone(t) \/ UnpauseDone(t)
      BY <3>4 DEF StartRequest, RemoveRequest, Shutdown, Pause, Unpause, StartEnter,
        RemoveEnter, PreStart, StorageStart, SpawnFails, SpawnUndo, BootResume,
        BootFails, StartDone, StartFailed, CleanupStorageDone, RemoveStorageDone,
        RemoveEnd, PauseDone, UnpauseDone
    <3> QED BY <1>3, <2>1, <3>1, <3>2, <3>3, <3>4 DEF Requests, TakesLock, Resumes
  <2> QED BY <1>3, <2>1, <2>2, CallKinds
<1> QED
  BY <1>1, <1>2, <1>3 DEF Next

LEMMA WaitStep ==
  ASSUME LifecycleInv, RunsInv, [Next]_vars
  PROVE  WaitInv'
<1> USE DEF WaitInv
<1>0. /\ WaitInv /\ wres \in [Tasks -> {"none", "pending", "done", "failed", "cancelled"}]
      /\ krun \in [Tasks -> 0..MaxRuns]
      /\ waiter \in {"none", "pending", "cancelled"}
  BY DEF RunsInv, LifecycleInv, TypeOK, WaitType
<1>1. CASE UNCHANGED waitVars /\ ~Restart
  <2>0. UNCHANGED <<waiter, wres, krun>> BY <1>1 DEF waitVars
  <2>1. ASSUME NEW t \in Tasks, SpawnOk(t) \/ SpawnFailsLate(t) PROVE WaitInv'
    <3>1. handled /\ handling = "none"
      BY <2>1 DEF SpawnOk, SpawnFailsLate, LifecycleInv, PcInv, PreCreatePcs
    <3>2. finished' = finished /\ lost \subseteq lost'
      BY <2>1 DEF SpawnOk, SpawnFailsLate, histVars
    <3> QED BY <1>0, <2>0, <3>1, <3>2
  <2>2. CASE CoroBegin \/ CoroDyingOver
    BY <1>0, <2>0, <2>2 DEF CoroBegin, CoroDyingOver, domainVars
  <2>3. ASSUME NEW t \in Tasks, EnsureBegin(t) PROVE WaitInv'
    <3>1. UNCHANGED <<run, finished, lost>> /\ handling = "none"
      BY <2>3 DEF EnsureBegin, StopLockFree, LifecycleInv, StopLockInv, domainVars
    <3>2. handling' # "none" \/ (handled /\ handled' = handled)
      BY <2>3 DEF EnsureBegin
    <3> QED BY <1>0, <2>0, <3>1, <3>2
  <2>4. CASE handling \notin {"none", "dying"} /\ \E ok \in BOOLEAN : FinishHandling(ok)
    <3>1. \A t \in Tasks : wres[t] # "pending"
      BY <1>0, <2>0, <2>4 DEF FinishHandling, Outcome
    <3>2. run' = run /\ lost' = lost /\ finished \subseteq finished'
      BY <2>4 DEF FinishHandling, domainVars
    <3> QED BY <1>0, <2>0, <3>1, <3>2
  <2>5. CASE Quiet
    BY <1>0, <2>0, <2>5 DEF Quiet
  <2> QED BY <1>1, <2>1, <2>2, <2>3, <2>4, <2>5, StepKinds
<1>2. CASE Restart
  BY <1>0, <1>2 DEF Restart
<1>3. CASE handling \notin {"none", "dying"} /\ \E ok \in BOOLEAN : FinishHandling(ok)
  <2> PICK ok \in BOOLEAN : FinishHandling(ok) BY <1>3
  <2>1. /\ krun' = krun /\ run' = run /\ lost' = lost
        /\ finished' = IF ok THEN finished \cup {run} ELSE finished
        /\ wres' = [t \in Tasks |-> IF waiter = "pending" /\ wres[t] = "pending"
                                    THEN Outcome(ok) ELSE wres[t]]
    BY DEF FinishHandling, domainVars
  <2> SUFFICES ASSUME NEW t \in Tasks
               PROVE  wres'[t] # "pending" /\
                      (wres'[t] = "done" => krun[t] \in finished' \cup lost \cup {0})
    BY <2>1
  <2>2. CASE wres[t] = "pending"
    BY <1>0, <2>1, <2>2 DEF Outcome
  <2>3. CASE wres[t] # "pending"
    BY <1>0, <2>1, <2>3
  <2> QED BY <2>2, <2>3
<1>4. CASE Quiet /\ CapturesIt
  <2> PICK t \in Tasks : CaptureWaiter(t) BY <1>4 DEF CapturesIt
  <2>1. \A u \in Tasks \ {t} : wres'[u] = wres[u] /\ krun'[u] = krun[u]
    BY <1>0 DEF CaptureWaiter
  <2>2. /\ waiter' = (IF waiter = "none" THEN "pending" ELSE waiter) /\ wres'[t] = waiter'
        /\ krun'[t] = (IF Active THEN run ELSE 0)
    BY <1>0 DEF CaptureWaiter
  <2>3. UNCHANGED <<run, handled, finished, lost>> /\ (handling = "none" <=> handling' = "none")
    BY <1>4 DEF Quiet
  <2>4. Active /\ run \notin lost => ~handled \/ handling # "none"
    BY DEF RunsInv, ActiveInv
  <2> QED BY <1>0, <2>1, <2>2, <2>3, <2>4
<1>5. CASE Quiet /\ DropsIt
  <2>1. UNCHANGED <<run, handled, finished, lost>> /\ (handling = "none" <=> handling' = "none")
    BY <1>5 DEF Quiet
  <2>2. ASSUME NEW t \in Tasks, ForgetWaiter(t) PROVE WaitInv'
    BY <1>0, <2>1, <2>2 DEF ForgetWaiter
  <2>3. ASSUME NEW t \in Tasks, ShutdownTimesOut(t) PROVE WaitInv'
    BY <1>0, <2>1, <2>3 DEF ShutdownTimesOut
  <2>4. CASE waiter' = (IF waiter = "none" THEN "pending" ELSE waiter) /\ UNCHANGED <<wres, krun>>
    BY <1>0, <2>1, <2>4
  <2> QED BY <1>5, <2>2, <2>3, <2>4 DEF DropsIt
<1> QED
  BY <1>1, <1>2, <1>3, <1>4, <1>5, WaitKinds

\* What a step does to the volumes: nothing, unless it is one of those that
\* start, stop or remove them, or take a task to a place that VolumesInv is
\* about.
Still == /\ UNCHANGED <<run, storage>> /\ lost \subseteq lost' /\ (Alive' => Alive)
         /\ \A t \in Tasks : pc'[t] \in {"storage_start", "pre_spawn", "spawn_undo"} =>
                              pc'[t] = pc[t] /\ (inDomains' => inDomains)

StorageSteps == \/ StoppedHandlersDone \/ AutoCleanupDone \/ AutoCleanupFails
                \/ BootStorageStopped
                \/ \E t \in Tasks : \/ PreStart(t) \/ StorageStart(t) \/ SpawnOk(t) \/ SpawnFailsLate(t)
                                    \/ SpawnFails(t) \/ SpawnUndo(t)
                                    \/ CleanupStorageDone(t) \/ RemoveStorageDone(t)

LEMMA EnsureLabels ==
  ASSUME NEW p \in EnsurePcs
  PROVE  /\ AfterEnsure(p) \notin {"storage_start", "pre_spawn", "spawn_undo"}
         /\ FailedEnsure(p) \notin {"storage_start", "pre_spawn", "spawn_undo"}
<1>1. CASE p = "start_ensure" BY <1>1 DEF AfterEnsure, FailedEnsure
<1>2. CASE p = "remove_ensure" BY <1>2 DEF AfterEnsure, FailedEnsure
<1>3. CASE p = "cleanup_ensure" BY <1>3 DEF AfterEnsure, FailedEnsure
<1> QED BY <1>1, <1>2, <1>3 DEF EnsurePcs

LEMMA FinishStill ==
  ASSUME LifecycleInv, NEW ok, FinishHandling(ok), UNCHANGED <<storage, inDomains>>
  PROVE  Still
<1>1. UNCHANGED <<run, lost, power>>
  BY DEF FinishHandling, domainVars
<1>2. \A t \in Tasks : pc'[t] = pc[t] \/ (pc[t] \in EnsurePcs
                          /\ (pc'[t] = AfterEnsure(pc[t]) \/ pc'[t] = FailedEnsure(pc[t])))
  BY DEF FinishHandling, LifecycleInv, StopLockInv
<1> QED
  BY <1>1, <1>2, EnsureLabels DEF Still, Alive

LEMMA VolumeKinds ==
  ASSUME LifecycleInv, [Next]_vars
  PROVE  StorageSteps \/ Still
<1>0. pc \in [Tasks -> Pcs]
  BY DEF LifecycleInv, TypeOK, TaskType
<1>1. CASE UNCHANGED vars
  BY <1>1 DEF vars, Still, domainVars, histVars, diskVars, Alive
<1>2. CASE Libvirt \/ Qubesd
  <2>1. CASE \/ GuestStops \/ DyingEnds \/ ConnectionLost \/ DeliverStopped \/ Reconnect
             \/ CoroBegin \/ CoroDyingOver \/ AutoCleanup \/ BootCheck \/ SaveStore
    BY <2>1 DEF GuestStops, DyingEnds, DomainEnds, GoDown, ConnectionLost, DeliverStopped,
      ReadEvent, Reconnect, CoroBegin, CoroDyingOver, AutoCleanup, BootCheck, SaveStore,
      Still, Alive, domainVars, diskVars, histVars
  <2>2. CASE ShutdownHandlersDone \/ HandlerFails
    <3>1. UNCHANGED <<storage, inDomains>> /\ \E ok \in BOOLEAN : FinishHandling(ok)
      BY <2>2 DEF ShutdownHandlersDone, HandlerFails, diskVars
    <3> QED BY <3>1, FinishStill
  <2>3. CASE Restart
    <3>1. UNCHANGED <<power, run, storage>> /\ lost \subseteq lost'
      BY <2>3 DEF Restart
    <3>2. \A t \in Tasks : pc'[t] = "idle"
      BY <2>3 DEF Restart
    <3> QED BY <3>1, <3>2 DEF Still, Alive
  <2> QED BY <1>2, <2>1, <2>2, <2>3 DEF Libvirt, Qubesd, StorageSteps
<1>3. ASSUME NEW t \in Tasks, Requests(t) \/ TakesLock(t) \/ Resumes(t)
      PROVE  StorageSteps \/ Still
  <2>1. CASE EnsureBegin(t)
    <3>1. UNCHANGED <<run, lost, power, storage, inDomains>>
      BY <2>1 DEF EnsureBegin, domainVars, diskVars
    <3>2. /\ \A u \in Tasks \ {t} : pc'[u] = pc[u]
          /\ pc'[t] = pc[t] \/ pc'[t] \in {"pre_start", "remove_storage", "cleanup_storage"}
      <4>1. CASE pc[t] = "start_ensure" BY <1>0, <2>1, <4>1 DEF EnsureBegin, AfterEnsure, Goto
      <4>2. CASE pc[t] = "remove_ensure" BY <1>0, <2>1, <4>2 DEF EnsureBegin, AfterEnsure, Goto
      <4>3. CASE pc[t] = "cleanup_ensure" BY <1>0, <2>1, <4>3 DEF EnsureBegin, AfterEnsure, Goto
      <4> QED BY <2>1, <4>1, <4>2, <4>3 DEF EnsureBegin, EnsurePcs
    <3> QED BY <3>1, <3>2 DEF Still, Alive
  <2>2. CASE Kill(t) \/ BootKill(t) \/ StartFailedCleanup(t) \/ StartRefused(t)
    <3>1. UNCHANGED <<run, lost, storage>> /\ (Alive' => Alive) /\ (inDomains' => inDomains)
      BY <2>2, TryKillQuiet
      DEF Kill, BootKill, StartFailedCleanup, StartRefused, ForcedCleanup, histVars, diskVars, domainVars, Alive
    <3>2. \E p \in {"kill_wait", "idle", "boot_kill", "start_failed", "cleanup_kill",
                   "cleanup_ensure", "cleanup_storage"} : Goto(t, p)
      BY <2>2 DEF Kill, BootKill, StartFailedCleanup, StartRefused, ForcedCleanup, TryKill, RemoveFromDisk
    <3> QED BY <1>0, <3>1, <3>2 DEF Goto, Still
  <2>3. CASE ShutdownPre(t)
    <3>1. UNCHANGED <<run, lost, storage>> /\ (Alive' => Alive) /\ (inDomains' => inDomains)
      BY <2>3, DestroyQuiet DEF ShutdownPre, histVars, diskVars, domainVars, Alive
    <3>2. \E p \in {"idle", "shutdown_wait", "shutdown_cmd"} : Goto(t, p)
      BY <2>3 DEF ShutdownPre
    <3> QED BY <1>0, <3>1, <3>2 DEF Goto, Still
  <2>4. CASE \/ StartRequest(t) \/ RemoveRequest(t) \/ Shutdown(t) \/ Pause(t) \/ Unpause(t)
             \/ StartEnter(t) \/ RemoveEnter(t) \/ BootResume(t)
             \/ BootFails(t) \/ StartDone(t) \/ BootKilled(t) \/ StartFailed(t)
             \/ CleanupKilled(t) \/ RemoveEnd(t) \/ Killed(t) \/ ShutdownCmdDone(t)
             \/ ShutdownEnd(t) \/ ShutdownTimesOut(t) \/ PauseDone(t) \/ UnpauseDone(t)
    <3>1. UNCHANGED <<run, lost, storage>> /\ (Alive' => Alive) /\ (inDomains' => inDomains)
      BY <2>4 DEF StartRequest, RemoveRequest, Shutdown, Pause, Unpause, StartEnter,
        RemoveEnter, BootResume, BootFails, StartDone, BootKilled, StartFailed,
        CleanupKilled, RemoveEnd, Killed, ShutdownCmdDone, ShutdownEnd, ShutdownTimesOut,
        PauseDone, UnpauseDone, domainVars, diskVars, histVars, Alive
    <3>2. \E p \in Pcs \ {"storage_start", "pre_spawn", "spawn_undo"} : Goto(t, p)
      BY <2>4 DEF StartRequest, RemoveRequest, Shutdown, Pause, Unpause, StartEnter,
        RemoveEnter, RemoveFromDisk, BootResume, BootFails, StartDone, BootKilled,
        StartFailed, CleanupKilled, RemoveEnd, Killed, ShutdownCmdDone, ShutdownEnd,
        ShutdownTimesOut, PauseDone, UnpauseDone, Pcs, StartHoldPcs, RemoveHoldPcs, OtherPcs
    <3> QED BY <1>0, <3>1, <3>2 DEF Goto, Still
  <2> QED BY <1>3, <2>1, <2>2, <2>3, <2>4 DEF Requests, TakesLock, Resumes, StorageSteps
<1> QED
  BY <1>1, <1>2, <1>3 DEF Next

LEMMA VolumesStep ==
  ASSUME LifecycleInv, RunsInv, [Next]_vars
  PROVE  VolumesInv'
<1> USE DEF VolumesInv
<1>0. /\ VolumesInv /\ LostInv /\ pc \in [Tasks -> Pcs] /\ run \in 0..MaxRuns
      /\ \A t \in Tasks, u \in Tasks : pc[t] \in StartHoldPcs /\ pc[u] \in StartHoldPcs => t = u
  BY DEF RunsInv, LifecycleInv, TypeOK, TaskType, DomainType, StartLockInv
\* Whoever is about to create the domain has nobody beside it.
<1>1. \A t \in Tasks : pc[t] \in {"pre_spawn", "storage_start"} => handling = "none" /\ boot = "none"
  BY DEF LifecycleInv, PcInv, PreCreatePcs, DownInv
<1>2. \A t \in Tasks : pc[t] \in {"cleanup_storage", "remove_storage"} =>
         ~inDomains /\ (Alive => run \in lost)
  BY DEF LifecycleInv, PcInv, RemovingPcs, RunsInv, UnlistedInv, Active, Alive
<1>3. CASE StoppedHandlersDone \/ AutoCleanupDone \/ AutoCleanupFails
  <2>1. handling \in {"stopped", "cleaning"} /\ UNCHANGED <<power, run, lost>>
    BY <1>3 DEF StoppedHandlersDone, AutoCleanupDone, AutoCleanupFails, FinishHandling,
      domainVars, histVars
  <2>2. ~Alive /\ ~Alive'
    BY <2>1 DEF LifecycleInv, DownInv, Alive
  <2>3. \A t \in Tasks : pc'[t] \notin {"storage_start", "pre_spawn"}
    <3>1. CASE StoppedHandlersDone
      BY <1>1, <2>1, <3>1 DEF StoppedHandlersDone
    <3>2. CASE AutoCleanupDone \/ AutoCleanupFails
      <4> SUFFICES ASSUME NEW t \in Tasks, pc'[t] \in {"storage_start", "pre_spawn"}
                   PROVE FALSE
        OBVIOUS
      <4>1. pc[t] \in {"storage_start", "pre_spawn"} \/ (pc[t] \in EnsurePcs
               /\ (pc'[t] = AfterEnsure(pc[t]) \/ pc'[t] = FailedEnsure(pc[t])))
        BY <3>2 DEF AutoCleanupDone, AutoCleanupFails, FinishHandling, LifecycleInv, StopLockInv
      <4> QED BY <1>1, <2>1, <4>1, EnsureLabels
    <3> QED BY <1>3, <3>1, <3>2
  <2> QED BY <2>2, <2>3
<1>4. CASE BootStorageStopped
  <2>1. UNCHANGED <<power, run, lost, pc>> /\ boot = "stopping"
    BY <1>4 DEF BootStorageStopped, domainVars, histVars
  <2>2. ~Alive' /\ \A t \in Tasks : pc'[t] = "idle"
    BY <2>1 DEF LifecycleInv, DownInv, Alive
  <2> QED BY <2>2
<1>10. ASSUME NEW t \in Tasks, PreStart(t) PROVE VolumesInv'
  <2>1. /\ UNCHANGED <<power, run, lost, storage, inDomains>>
        /\ \/ storage # "removed" /\ pc' = [pc EXCEPT ![t] = "storage_start"]
           \/ pc' = [pc EXCEPT ![t] = "start_failed"]
    BY <1>10 DEF PreStart, Verify, Goto, domainVars, diskVars, histVars
  <2> QED BY <1>0, <2>1 DEF Alive
<1>5. ASSUME NEW t \in Tasks, StorageStart(t) PROVE VolumesInv'
  <2>1. /\ UNCHANGED <<power, run, lost, inDomains>> /\ pc[t] = "storage_start"
        /\ \/ storage' = UnlessRemoved("started") /\ pc' = [pc EXCEPT ![t] = "pre_spawn"]
           \/ pc' = [pc EXCEPT ![t] = "start_failed"]
    BY <1>5 DEF StorageStart, Goto, domainVars, histVars
  <2>2. ~Alive /\ ~Alive'
    BY <2>1 DEF LifecycleInv, PcInv, PreCreatePcs, Alive
  <2>3. \A u \in Tasks \ {t} : pc'[u] \notin {"pre_spawn", "storage_start", "spawn_undo"}
    BY <1>0, <2>1 DEF StartHoldPcs
  <2>4. inDomains => storage # "removed"
    BY <1>0, <2>1
  <2> QED BY <1>0, <2>1, <2>2, <2>3, <2>4 DEF UnlessRemoved, Verify
<1>6. ASSUME NEW t \in Tasks, SpawnOk(t) \/ SpawnFailsLate(t) \/ SpawnFails(t) PROVE VolumesInv'
  <2>1. /\ pc[t] = "pre_spawn" /\ (inDomains => storage = "started")
        /\ UNCHANGED <<storage, inDomains>>
        /\ \E p \in {"boot", "spawn_undo"} : pc' = [pc EXCEPT ![t] = p]
    BY <1>0, <1>6 DEF SpawnOk, SpawnFailsLate, SpawnFails, Goto, diskVars
  <2>2. \A u \in Tasks \ {t} : pc'[u] \notin {"storage_start", "pre_spawn", "spawn_undo"}
    BY <1>0, <2>1 DEF StartHoldPcs
  <2>3. pc'[t] = "spawn_undo" => ~Alive' \/ run' \in lost'
    <3>1. CASE SpawnOk(t) BY <1>0, <3>1 DEF SpawnOk, Goto
    <3>2. CASE SpawnFailsLate(t) BY <3>2 DEF SpawnFailsLate, CreateDomain
    <3>3. CASE SpawnFails(t)
      BY <2>1, <3>3 DEF SpawnFails, domainVars, LifecycleInv, PcInv, PreCreatePcs, Alive
    <3> QED BY <1>6, <3>1, <3>2, <3>3
  <2>4. Alive' /\ run' \notin lost' => inDomains
    BY <2>1, <1>6 DEF SpawnOk, SpawnFailsLate, SpawnFails, CreateDomain, domainVars,
      LifecycleInv, PcInv, PreCreatePcs, Alive
  <2> QED BY <1>0, <2>1, <2>2, <2>3, <2>4
<1>7. ASSUME NEW t \in Tasks, SpawnUndo(t) PROVE VolumesInv'
  <2>1. /\ UNCHANGED <<power, run, lost>> /\ pc[t] = "spawn_undo"
        /\ pc' = [pc EXCEPT ![t] = "start_failed"]
    BY <1>7 DEF SpawnUndo, Goto, domainVars, histVars
  <2>2. \A u \in Tasks : pc'[u] \notin {"storage_start", "pre_spawn", "spawn_undo"}
    BY <1>0, <2>1 DEF StartHoldPcs
  <2> QED BY <1>0, <2>1, <2>2 DEF Alive
<1>8. ASSUME NEW t \in Tasks, CleanupStorageDone(t) \/ RemoveStorageDone(t) PROVE VolumesInv'
  <2>1. /\ UNCHANGED <<power, run, lost, inDomains>>
        /\ pc[t] \in {"cleanup_storage", "remove_storage"}
        /\ \E p \in {"idle", "remove_end"} : pc' = [pc EXCEPT ![t] = p]
    BY <1>8 DEF CleanupStorageDone, RemoveStorageDone, Goto, domainVars, histVars
  <2>2. ~inDomains' /\ (Alive' => run' \in lost')
    BY <1>2, <2>1 DEF Alive
  <2>3. \A u \in Tasks : pc'[u] = "spawn_undo" => pc[u] = "spawn_undo"
    BY <1>0, <2>1
  <2> QED BY <1>0, <2>1, <2>2, <2>3
<1>9. CASE Still
  BY <1>0, <1>9 DEF Still
<1> QED
  BY <1>3, <1>4, <1>5, <1>6, <1>7, <1>8, <1>9, <1>10, VolumeKinds DEF StorageSteps

LEMMA RunsInvInit == Init => RunsInv
  BY DEF Init, RunsInv, LostInv, UnlistedInv, ActiveInv, FiredInv, VolumesInv, WaitInv, Active,
    Alive, Runs

LEMMA RunsInvStep ==
  ASSUME LifecycleInv, RunsInv, [Next]_vars
  PROVE  RunsInv'
  BY UnlistedStep, RunStep, WaitStep, VolumesStep DEF RunsInv

\* RunsInv is inductive on top of LifecycleInv.
THEOREM RunsInvariant == Spec => []RunsInv
  BY RunsInvInit, RunsInvStep, LifecycleInvariant, PTL DEF Spec

(* domain-stopped is dispatched once for each run before the next one      *)
(* begins, and kill() and shutdown(wait=True) are answered only after the  *)
(* dispatch of the run that they were called on: _domain_stopped_coro()    *)
(* and _ensure_shutdown_handled() together.                                *)
THEOREM ShutdownsHandled == Spec => []ShutdownHandled
<1>1. LifecycleInv /\ RunsInv => ShutdownHandled
  <2> SUFFICES ASSUME LifecycleInv, RunsInv PROVE ShutdownHandled
    OBVIOUS
  <2>1. StoppedOncePerRun
    BY DEF RunsInv, FiredInv, StoppedOncePerRun
  <2>2. AnswerAfterShutdownHandled
    BY DEF RunsInv, WaitInv, AnswerAfterShutdownHandled
  <2> QED BY <2>1, <2>2 DEF ShutdownHandled
<1> QED
  BY <1>1, LifecycleInvariant, RunsInvariant, PTL

(* No volume of a live domain is stopped or removed, whoever starts, kills *)
(* and removes the qube at once, but after a start() that failed late or   *)
(* that went on for a qube which a forced cleanup had unlisted.            *)
THEOREM StorageStaysUp == Spec => []StorageUnderLiveDomain
<1>1. LifecycleInv /\ RunsInv => StorageUnderLiveDomain
  BY DEF LifecycleInv, DownInv, PcInv, RemovingPcs, RunsInv, UnlistedInv, VolumesInv,
    StorageUnderLiveDomain, Active, Alive
<1> QED
  BY <1>1, LifecycleInvariant, RunsInvariant, PTL

---------------------------------------------------------------------------
(* DomainLifecycle implements QubeRuns.                                    *)

Phase == IF Alive /\ run \notin lost THEN "up"
         ELSE IF handled /\ handling = "none" /\ power = "Halted"
         THEN "off" ELSE "ended"

\* The steps of QubeRuns, in the variables of DomainLifecycle.
LEMMA PromiseSteps ==
  ASSUME \/ /\ Phase = "off" /\ run < MaxRuns /\ run' = run + 1
            /\ UNCHANGED <<inDomains, overrun>>
            /\ \/ inDomains /\ Phase' = "up"
               \/ (inDomains \/ overrun) /\ Phase' = "ended"
         \/ Phase = "up" /\ Phase' = "ended" /\ UNCHANGED <<run, inDomains, overrun>>
         \/ Phase = "ended" /\ Phase' = "off" /\ UNCHANGED <<run, inDomains, overrun>>
         \/ /\ Phase # "up" /\ inDomains' = FALSE /\ Phase' = Phase /\ run' = run
            /\ overrun' \in {overrun, TRUE}
         \/ /\ Phase' = Phase \/ (Phase = "ended" /\ Phase' = "off")
            /\ inDomains' = inDomains \/ inDomains' = TRUE
            /\ overrun' = (overrun /\ ~inDomains')
            /\ run' = run
         \/ UNCHANGED <<run, inDomains, overrun>> /\ Phase' = Phase
  PROVE  [QubeLife!AbsNext]_(QubeLife!absVars)
  BY DEF QubeLife!AbsNext, QubeLife!Boot, QubeLife!Misfire, QubeLife!End, QubeLife!Handle,
    QubeLife!Remove, QubeLife!Restart, QubeLife!absVars, Phase

LEMMA PromiseStep ==
  ASSUME LifecycleInv, LifecycleInv', RunsInv, [Next]_vars
  PROVE  [QubeLife!AbsNext]_(QubeLife!absVars)
<1>0. /\ power \in {"Halted", "Paused", "Running", "Dying"}
      /\ power' \in {"Halted", "Paused", "Running", "Dying"}
      /\ run \in 0..MaxRuns /\ lost \subseteq 0..run
      /\ Alive /\ run \notin lost => ~handled \/ handling = "dying"
  BY DEF LifecycleInv, TypeOK, DomainType, RunsInv, LostInv, ActiveInv, Alive, Active
<1>1. ASSUME NEW t \in Tasks, SpawnOk(t) \/ SpawnFailsLate(t)
      PROVE  [QubeLife!AbsNext]_(QubeLife!absVars)
  <2>1. power = "Halted" /\ handled /\ handling = "none" /\ (inDomains \/ overrun)
    BY <1>1 DEF SpawnOk, SpawnFailsLate, LifecycleInv, PcInv, PreCreatePcs
  <2>2. Phase = "off" BY <2>1 DEF Phase, Alive
  <2>3. /\ run' = run + 1 /\ run < MaxRuns /\ power' = "Paused"
        /\ UNCHANGED <<inDomains, overrun>> /\ (~inDomains => run + 1 \in lost')
    <3>1. CASE SpawnOk(t)
      BY <3>1 DEF SpawnOk, CreateDomain, diskVars
    <3>2. CASE SpawnFailsLate(t)
      BY <3>2 DEF SpawnFailsLate, CreateDomain, diskVars
    <3> QED BY <1>1, <3>1, <3>2
  <2>4. CASE inDomains
    <3>0. power' = "Paused" BY <2>3
    <3>1. Phase' \in {"up", "ended"} BY <3>0 DEF Phase
    <3>2. CASE Phase' = "up" BY <2>2, <2>3, <2>4, <3>2, PromiseSteps
    <3>3. CASE Phase' = "ended" BY <2>2, <2>3, <2>4, <3>3, PromiseSteps
    <3> QED BY <3>1, <3>2, <3>3
  <2>5. CASE ~inDomains
    <3>1. run' \in lost' /\ power' = "Paused" BY <2>3, <2>5
    <3>2. Phase' = "ended" BY <3>1 DEF Phase
    <3> QED BY <2>1, <2>2, <2>3, <2>5, <3>2, PromiseSteps
  <2> QED BY <2>4, <2>5
<1>2. CASE CoroBegin \/ CoroDyingOver \/ \E t \in Tasks : EnsureBegin(t)
  <2>1. /\ UNCHANGED <<run, power, lost, inDomains, overrun>> /\ ~Alive
        /\ ~handled \/ handling # "none" \/ UNCHANGED <<handled, handling>>
        /\ handling' # "none" \/ UNCHANGED <<handled, handling>>
    <3>1. CASE CoroBegin
      BY <3>1 DEF CoroBegin, LifecycleInv, StopFlagsInv, DownInv, domainVars, diskVars
    <3>2. CASE CoroDyingOver
      BY <3>2 DEF CoroDyingOver, LifecycleInv, DownInv, domainVars, diskVars
    <3>3. CASE \E t \in Tasks : EnsureBegin(t)
      BY <3>3 DEF EnsureBegin, LifecycleInv, PcInv, DownInv, EnsurePcs, RemovingPcs,
        domainVars, diskVars, Alive
    <3> QED BY <1>2, <3>1, <3>2, <3>3
  <2>2. Phase' = Phase BY <2>1 DEF Phase, Alive
  <2> QED BY <2>1, <2>2, PromiseSteps
<1>3. CASE Restart
  <2>1. UNCHANGED <<run, power>> /\ lost \subseteq lost' /\ (Alive => lost' = lost)
        /\ handling' = "none" /\ handled' = (~Active \/ ~saved) /\ inDomains' = saved
        /\ overrun' = (overrun /\ ~saved)
    BY <1>3 DEF Restart, Alive, Active
  <2>2. (~saved => ~inDomains) /\ saved \in BOOLEAN /\ inDomains \in BOOLEAN
    BY DEF LifecycleInv, DownInv, TypeOK, DiskType
  <2>3. inDomains' = inDomains \/ inDomains' = TRUE BY <2>1, <2>2
  <2>4. Phase' = Phase \/ (Phase = "ended" /\ Phase' = "off")
    <3>1. CASE Alive
      BY <2>1, <3>1 DEF Phase, Alive
    <3>2. CASE ~Alive
      BY <1>0, <2>1, <3>2 DEF Phase, Alive, Active
    <3> QED BY <3>1, <3>2
  <2> QED BY <2>1, <2>3, <2>4, PromiseSteps
<1>4. CASE handling \notin {"none", "dying"} /\ (\E ok \in BOOLEAN : FinishHandling(ok)) /\ ~Restart
  <2>1. /\ UNCHANGED <<run, power, lost, handled>> /\ handling' = "none"
        /\ power = "Halted" /\ handled
    BY <1>4 DEF FinishHandling, domainVars, LifecycleInv, DownInv, StopLockInv, TypeOK, StopType
  <2>2. inDomains' = inDomains /\ overrun' = overrun
    BY <1>4, <2>1, ListedKinds DEF Quiet
  <2>3. Phase = "ended" /\ Phase' = "off"
    BY <1>4, <2>1 DEF Phase, Alive
  <2> QED BY <2>1, <2>2, <2>3, PromiseSteps
<1>5. CASE Quiet /\ ~Restart
  <2>1. UNCHANGED <<run, handled, lost>> /\ (handling' = "none" <=> handling = "none")
        /\ (Active' => Active) /\ (Alive' => Alive)
    BY <1>5 DEF Quiet
  <2>2. CASE inDomains' = inDomains /\ overrun' = overrun
    <3>1. CASE Phase = "up"
      <4>1. Alive /\ run \notin lost /\ ~(handled /\ handling' = "none")
        BY <1>0, <2>1, <3>1 DEF Phase
      <4>2. Phase' \in {"up", "ended"} BY <2>1, <4>1 DEF Phase
      <4> QED BY <2>1, <2>2, <3>1, <4>2, PromiseSteps
    <3>2. CASE Phase = "off"
      <4>1. Phase' = "off" BY <1>0, <2>1, <3>2 DEF Phase, Alive, Active
      <4> QED BY <2>1, <2>2, <3>2, <4>1, PromiseSteps
    <3>3. CASE Phase = "ended"
      <4>1. Phase' \in {"off", "ended"} BY <2>1, <3>3 DEF Phase
      <4>2. CASE Phase' = "off" BY <2>1, <2>2, <3>3, <4>2, PromiseSteps
      <4>3. CASE Phase' = "ended" BY <2>1, <2>2, <3>3, <4>3, PromiseSteps
      <4> QED BY <4>1, <4>2, <4>3
    <3> QED BY <3>1, <3>2, <3>3 DEF Phase
  <2>3. CASE ~(inDomains' = inDomains /\ overrun' = overrun)
    <3>1. /\ inDomains' = FALSE /\ ~Active /\ UNCHANGED power
          /\ overrun' \in {overrun, TRUE}
      <4>1. \/ Restart \/ (inDomains' = inDomains /\ overrun' = overrun)
            \/ /\ inDomains' = FALSE /\ ~Active /\ UNCHANGED power
               /\ overrun' \in {overrun, TRUE}
        BY ListedKinds
      <4> QED BY <1>5, <2>3, <4>1
    <3>2. Phase # "up" /\ Phase' = Phase BY <2>1, <3>1 DEF Phase, Alive, Active
    <3> QED BY <2>1, <3>1, <3>2, PromiseSteps
  <2> QED BY <2>2, <2>3
<1> QED
  BY <1>1, <1>2, <1>3, <1>4, <1>5, StepKinds

(* qubesd keeps the promise of QubeRuns: whoever boots, kills, removes and *)
(* restarts, every step is one that QubeRuns allows.                       *)
THEOREM RunPromiseKept == Spec => KeepsRunPromise
<1>1. Init => QubeLife!AbsInit
  BY DEF Init, QubeLife!AbsInit, Alive
<1>2. LifecycleInv /\ LifecycleInv' /\ RunsInv /\ [Next]_vars
        => [QubeLife!AbsNext]_(QubeLife!absVars)
  BY PromiseStep
<1> QED
  BY <1>1, <1>2, LifecycleInvariant, RunsInvariant, PTL DEF Spec, KeepsRunPromise
=============================================================================
