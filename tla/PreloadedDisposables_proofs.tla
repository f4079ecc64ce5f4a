--------------------- MODULE PreloadedDisposables_proofs ---------------------
(***************************************************************************)
(* Proofs about PreloadedDisposables: QueueInv is inductive for any actors *)
(* and bounds, HandOutInv when nobody unpauses preloaded qubes by hand,    *)
(* and the properties of the queue follow from them.                       *)
(* And nothing pauses a qube that is past its preload, whoever unpauses it *)
(* (AwakeInv); no paused qube is forgotten until qubesd restarts.          *)
(***************************************************************************)
EXTENDS PreloadedDisposables, FiniteSetTheorems, TLAPS

---------------------------------------------------------------------------
(* Typing.                                                                 *)

(* There are finitely many qubes to list.                                  *)
LEMMA ListFinite ==
  ASSUME TypeOK
  PROVE  IsFiniteSet(list) /\ Cardinality(list) \in Nat
  BY QubesFinite, FS_Subset, FS_CardinalityType DEF TypeOK

(* A fired event never goes beyond the bound.                              *)
LEMMA FireEventType ==
  ASSUME TypeOK, FireEvent
  PROVE  events' \in 0..MaxEvents
  BY BoundsAreNaturals DEF TypeOK, FireEvent

(* Every step keeps the types; a caller gives up only a qube it has.       *)
LEMMA TypeStep ==
  ASSUME QueueInv, [Next]_vars
  PROVE  TypeOK'
<1>0. TypeOK
  BY DEF QueueInv
<1> USE <1>0 DEF TypeOK, queueVars, markVars, reapVars, callVars, envVars, Enter, Go, Answer,
       Save, Store, Stores,
       Callers, Phases, Powers, CallPcs, Alive
<1>1. CASE HandleEvent
  <2>1. \A k \in (IF Failures THEN 0 ELSE max - Cardinality(list))
                  ..(max - Cardinality(list)) :
          CanPreload => toMake + k \in Nat
    BY ListFinite, BoundsAreNaturals DEF CanPreload
  <2>2. toMake' \in 0..MaxMake
    <3>1. CASE CanPreload
      BY <1>1, <2>1, <3>1, BoundsAreNaturals DEF HandleEvent
    <3>2. CASE ~CanPreload
      BY <1>1, <3>2 DEF HandleEvent
    <3> QED
      BY <3>1, <3>2
  <2>3. list' \subseteq Qubes /\ surplus' \subseteq Qubes
    BY <1>1 DEF HandleEvent, RemoveExcess, Keeps
  <2>4. events' \in 0..MaxEvents
    BY <1>1, BoundsAreNaturals DEF HandleEvent
  <2> HIDE DEF Stores
  <2> QED
    BY <1>1, <2>2, <2>3, <2>4 DEF HandleEvent
<1>2. CASE BeginPreload
  <2>1. toMake' \in 0..MaxMake
    BY <1>2, BoundsAreNaturals DEF BeginPreload
  <2> QED
    BY <1>2, <2>1 DEF BeginPreload, MayAdd
<1>3. CASE RefreshOutdated
  <2>1. events' \in 0..MaxEvents
    BY <1>3, FireEventType, BoundsAreNaturals DEF TypeOK, RefreshOutdated, CleanOutdated, IsPreload
  <2> QED
    BY <1>3, <2>1, BoundsAreNaturals DEF RefreshOutdated, CleanOutdated, IsPreload
<1>4. CASE SetMax
  <2>1. events' \in 0..MaxEvents
    BY <1>4, FireEventType, BoundsAreNaturals DEF TypeOK, SetMax, Admin
  <2> QED
    BY <1>4, <2>1, BoundsAreNaturals DEF SetMax, Admin
<1>5. CASE DropAll
  <2>1. events' \in 0..MaxEvents
    BY <1>5, FireEventType, BoundsAreNaturals DEF TypeOK, DropAll, Admin, RemoveExcess
  <2> QED
    BY <1>5, <2>1, BoundsAreNaturals DEF DropAll, Admin, RemoveExcess
<1>6. CASE MakeStale
  BY <1>6, BoundsAreNaturals DEF MakeStale, Admin
<1>7. CASE OtherSave
  BY <1>7 DEF OtherSave
<1>8. CASE Restart
  <2>1. restarts' \in 0..MaxRestarts
    BY <1>8, BoundsAreNaturals DEF Restart
  <2> QED
    BY <1>8, <2>1, BoundsAreNaturals DEF Restart, Interrupted
<1>9. ASSUME NEW q \in Qubes, Created(q) PROVE TypeOK'
  BY <1>9 DEF Created
<1>10. ASSUME NEW q \in Qubes, CreateFails(q) PROVE TypeOK'
  BY <1>10 DEF CreateFails
<1>11. ASSUME NEW q \in Qubes, Spawn(q) PROVE TypeOK'
  BY <1>11 DEF Spawn
<1>12. ASSUME NEW q \in Qubes, Booted(q) PROVE TypeOK'
  BY <1>12 DEF Booted, Completes
<1>13. ASSUME NEW q \in Qubes, ServicesOver(q) PROVE TypeOK'
  BY <1>13 DEF ServicesOver, Completes
<1>14. ASSUME NEW q \in Qubes, Suspend(q) PROVE TypeOK'
  BY <1>14 DEF Suspend, Completes
<1>15. ASSUME NEW q \in Qubes, AutoCleanup(q) PROVE TypeOK'
  BY <1>15 DEF AutoCleanup, LeaveDomains, Delete, Unlist
<1>16. ASSUME NEW q \in Qubes, Removed(q) PROVE TypeOK'
  BY <1>16 DEF Removed
<1>17. ASSUME NEW q \in Qubes, StartFails(q) PROVE TypeOK'
  BY <1>17 DEF StartFails
<1>18. ASSUME NEW q \in Qubes, StartUndone(q) PROVE TypeOK'
  BY <1>18 DEF StartUndone, ForcedCleanup, LeaveDomains, Delete, Unlist
<1>19. ASSUME NEW q \in Qubes, CleanSurplus(q) PROVE TypeOK'
  BY <1>19 DEF CleanSurplus, Kills
<1>20. ASSUME NEW q \in Qubes, CleanDoomed(q) PROVE TypeOK'
  BY <1>20 DEF CleanDoomed, Kills
<1>21. ASSUME NEW q \in Qubes, CleanForced(q) PROVE TypeOK'
  BY <1>21 DEF CleanForced, ForcedCleanup, LeaveDomains, Delete, Unlist, Kills
<1>22. ASSUME NEW q \in Qubes, QubeEnds(q) PROVE TypeOK'
  BY <1>22 DEF QubeEnds
<1>23. ASSUME NEW q \in Qubes, AdminRemove(q) PROVE TypeOK'
  BY <1>23 DEF AdminRemove, Delete, Unlist
<1>24. ASSUME NEW c \in Callers, Request(c) PROVE TypeOK'
  <2>1. events' \in 0..MaxEvents
    BY <1>24, FireEventType, BoundsAreNaturals DEF TypeOK, Request, FillGap, TakeOff
  <2> QED
    BY <1>24, <2>1, BoundsAreNaturals DEF Request, FillGap, TakeOff
<1>25. ASSUME NEW c \in Callers, RequestFresh(c) PROVE TypeOK'
  <2>1. events' \in 0..MaxEvents
    BY <1>25, FireEventType, BoundsAreNaturals DEF TypeOK, RequestFresh, FillGap
  <2> QED
    BY <1>25, <2>1, BoundsAreNaturals DEF RequestFresh, FillGap
<1>26. ASSUME NEW c \in Callers, Fresh(c) PROVE TypeOK'
  BY <1>26 DEF Fresh
<1>27. ASSUME NEW c \in Callers, GetPreload(c) PROVE TypeOK'
  BY <1>27 DEF GetPreload, UseBegin, MustUnpause, IsPreload
<1>28. ASSUME NEW c \in Callers, GetTimesOut(c) PROVE TypeOK'
  BY <1>28 DEF GetTimesOut, Serving, QueueInv, ListInv
<1>29. ASSUME NEW c \in Callers, ToolUnpause(c) PROVE TypeOK'
  BY <1>29 DEF ToolUnpause
<1>30. ASSUME NEW c \in Callers, Resume(c) PROVE TypeOK'
  BY <1>30 DEF Resume
<1>31. ASSUME NEW c \in Callers, Unpaused(c) PROVE TypeOK'
  BY <1>31 DEF Unpaused, UseBegin, IsPreload
<1>32. ASSUME NEW c \in Callers, UseEnd(c) PROVE TypeOK'
  <2>1. events' \in 0..MaxEvents
    BY <1>32, FireEventType, BoundsAreNaturals DEF TypeOK, UseEnd, FireUsed
  <2> QED
    BY <1>32, <2>1, BoundsAreNaturals DEF UseEnd, FireUsed
<1>33. ASSUME NEW c \in Callers, UseTimesOut(c) PROVE TypeOK'
  BY <1>33 DEF UseTimesOut, Serving, QueueInv, ListInv
<1>34. ASSUME NEW c \in Callers, UseFails(c) PROVE TypeOK'
  BY <1>34 DEF UseFails
<1>36. ASSUME NEW c \in Callers, RequestBreaks(c) PROVE TypeOK'
  <2>1. events' \in 0..MaxEvents
    BY <1>36, FireEventType, BoundsAreNaturals DEF TypeOK, RequestBreaks, FillGap
  <2> QED
    BY <1>36, <2>1, BoundsAreNaturals DEF RequestBreaks, FillGap
<1>35. CASE UNCHANGED vars
  BY <1>35 DEF vars
<1> QED
  BY <1>1, <1>2, <1>3, <1>4, <1>5, <1>6, <1>7, <1>8, <1>9, <1>10, <1>11,
     <1>12, <1>13, <1>14, <1>15, <1>16, <1>17, <1>18, <1>19, <1>20, <1>21,
     <1>22, <1>23, <1>24, <1>25, <1>26, <1>27, <1>28, <1>29, <1>30, <1>31,
     <1>32, <1>33, <1>34, <1>35, <1>36 DEF Next, QubeStep, CallStep, Environment

(* The types the prover needs to read functions and records.               *)
LEMMA TypeSets ==
  ASSUME TypeOK
  PROVE  /\ list \subseteq Qubes /\ inDom \subseteq Qubes /\ born \subseteq Qubes
         /\ phase \in [Qubes -> Phases] /\ power \in [Qubes -> Powers]
         /\ pc \in [Callers -> CallPcs]
         /\ mine \in [Callers -> Qubes \cup {None}]
         /\ got \in [Callers -> Qubes \cup {None}]
         /\ saved \in Stores
  BY DEF TypeOK

---------------------------------------------------------------------------
(* One lemma for each part of the invariants, one step for each action.    *)

(* The list and its copy in qubes.xml.                                     *)
LEMMA ListStep ==
  ASSUME QueueInv, [Next]_vars
  PROVE  ListInv'
<1>0. TypeOK /\ ListInv
  BY DEF QueueInv
<1> USE <1>0 DEF ListInv, queueVars, markVars, reapVars, callVars, envVars, Enter, Go, Answer,
       Save, Store, Stores, Serving
<1>1. CASE HandleEvent
  BY TypeSets, <1>1 DEF HandleEvent, RemoveExcess, Keeps, CanPreload
<1>2. CASE BeginPreload
  BY TypeSets, <1>2 DEF BeginPreload, MayAdd, CanPreload
<1>3. CASE RefreshOutdated
  BY TypeSets, <1>3 DEF RefreshOutdated, CleanOutdated, IsPreload
<1>4. CASE SetMax
  BY TypeSets, <1>4 DEF SetMax, Admin
<1>5. CASE DropAll
  BY TypeSets, <1>5 DEF DropAll, Admin, RemoveExcess
<1>6. CASE MakeStale
  BY TypeSets, <1>6 DEF MakeStale, Admin
<1>7. CASE OtherSave
  BY TypeSets, <1>7 DEF OtherSave
<1>8. CASE Restart
  BY TypeSets, <1>8 DEF Restart, Interrupted
<1>9. ASSUME NEW q \in Qubes, Created(q) PROVE ListInv'
  BY TypeSets, <1>9 DEF Created
<1>10. ASSUME NEW q \in Qubes, CreateFails(q) PROVE ListInv'
  BY TypeSets, <1>10 DEF CreateFails
<1>11. ASSUME NEW q \in Qubes, Spawn(q) PROVE ListInv'
  BY TypeSets, <1>11 DEF Spawn
<1>12. ASSUME NEW q \in Qubes, Booted(q) PROVE ListInv'
  BY TypeSets, <1>12 DEF Booted, Completes
<1>13. ASSUME NEW q \in Qubes, ServicesOver(q) PROVE ListInv'
  BY TypeSets, <1>13 DEF ServicesOver, Completes
<1>14. ASSUME NEW q \in Qubes, Suspend(q) PROVE ListInv'
  BY TypeSets, <1>14 DEF Suspend, Completes
<1>15. ASSUME NEW q \in Qubes, AutoCleanup(q) PROVE ListInv'
  BY TypeSets, <1>15 DEF AutoCleanup, LeaveDomains, Delete, Unlist
<1>16. ASSUME NEW q \in Qubes, Removed(q) PROVE ListInv'
  BY TypeSets, <1>16 DEF Removed
<1>17. ASSUME NEW q \in Qubes, StartFails(q) PROVE ListInv'
  BY TypeSets, <1>17 DEF StartFails
<1>18. ASSUME NEW q \in Qubes, StartUndone(q) PROVE ListInv'
  BY TypeSets, <1>18 DEF StartUndone, ForcedCleanup, LeaveDomains, Delete, Unlist
<1>19. ASSUME NEW q \in Qubes, CleanSurplus(q) PROVE ListInv'
  BY TypeSets, <1>19 DEF CleanSurplus, Kills
<1>20. ASSUME NEW q \in Qubes, CleanDoomed(q) PROVE ListInv'
  BY TypeSets, <1>20 DEF CleanDoomed, Kills
<1>21. ASSUME NEW q \in Qubes, CleanForced(q) PROVE ListInv'
  BY TypeSets, <1>21 DEF CleanForced, ForcedCleanup, LeaveDomains, Delete, Unlist, Kills
<1>22. ASSUME NEW q \in Qubes, QubeEnds(q) PROVE ListInv'
  BY TypeSets, <1>22 DEF QubeEnds
<1>23. ASSUME NEW q \in Qubes, AdminRemove(q) PROVE ListInv'
  BY TypeSets, <1>23 DEF AdminRemove, Delete, Unlist
<1>24. ASSUME NEW c \in Callers, Request(c) PROVE ListInv'
  BY TypeSets, <1>24 DEF Request, FillGap, TakeOff
<1>25. ASSUME NEW c \in Callers, RequestFresh(c) PROVE ListInv'
  BY TypeSets, <1>25 DEF RequestFresh, FillGap
<1>26. ASSUME NEW c \in Callers, Fresh(c) PROVE ListInv'
  BY TypeSets, <1>26 DEF Fresh
<1>27. ASSUME NEW c \in Callers, GetPreload(c) PROVE ListInv'
  BY TypeSets, <1>27 DEF GetPreload, UseBegin, MustUnpause, IsPreload
<1>28. ASSUME NEW c \in Callers, GetTimesOut(c) PROVE ListInv'
  BY TypeSets, <1>28 DEF GetTimesOut, MayTimeOut
<1>29. ASSUME NEW c \in Callers, ToolUnpause(c) PROVE ListInv'
  BY TypeSets, <1>29 DEF ToolUnpause
<1>30. ASSUME NEW c \in Callers, Resume(c) PROVE ListInv'
  BY TypeSets, <1>30 DEF Resume
<1>31. ASSUME NEW c \in Callers, Unpaused(c) PROVE ListInv'
  BY TypeSets, <1>31 DEF Unpaused, UseBegin, IsPreload
<1>32. ASSUME NEW c \in Callers, UseEnd(c) PROVE ListInv'
  BY TypeSets, <1>32 DEF UseEnd, FireUsed
<1>33. ASSUME NEW c \in Callers, UseTimesOut(c) PROVE ListInv'
  BY TypeSets, <1>33 DEF UseTimesOut
<1>34. ASSUME NEW c \in Callers, UseFails(c) PROVE ListInv'
  BY TypeSets, <1>34 DEF UseFails
<1>36. ASSUME NEW c \in Callers, RequestBreaks(c) PROVE ListInv'
  BY TypeSets, <1>36 DEF RequestBreaks, FillGap
<1>35. CASE UNCHANGED vars
  BY TypeSets, <1>35 DEF vars
<1> QED
  BY TypeSets, <1>1, <1>2, <1>3, <1>4, <1>5, <1>6, <1>7, <1>8, <1>9, <1>10, <1>11,
     <1>12, <1>13, <1>14, <1>15, <1>16, <1>17, <1>18, <1>19, <1>20, <1>21,
     <1>22, <1>23, <1>24, <1>25, <1>26, <1>27, <1>28, <1>29, <1>30, <1>31,
     <1>32, <1>33, <1>34, <1>35, <1>36 DEF Next, QubeStep, CallStep, Environment

(* The qubes that leave: until the stop of the domain is handled.          *)
LEMMA LeavingStep ==
  ASSUME QueueInv, [Next]_vars
  PROVE  LeavingInv'
<1>0. TypeOK /\ ListInv /\ LeavingInv
  BY DEF QueueInv
<1> USE <1>0 DEF ListInv, LeavingInv, queueVars, markVars, reapVars, callVars, envVars, Enter, Go, Answer,
       Save, Store, Stores, Serving
<1>1. CASE HandleEvent
  BY TypeSets, <1>1 DEF HandleEvent, RemoveExcess, Keeps, CanPreload
<1>2. CASE BeginPreload
  <2>1. CASE ~MayAdd
    BY <1>2, <2>1 DEF BeginPreload
  <2>2. CASE MayAdd
    <3>1. PICK q \in Qubes \ born :
            /\ born' = born \cup {q}
            /\ inDom' = inDom \cup {q} /\ list' = list \cup {q}
            /\ phase' = [phase EXCEPT ![q] = "create"]
      BY <1>2, <2>2 DEF BeginPreload
    <3>2. UNCHANGED <<power, removing>> /\ born \subseteq born'
      BY <1>2, <2>2 DEF BeginPreload
    <3>3. list' \ inDom' \subseteq list \ inDom
      BY <3>1
    <3>4. power[q] = "Halted"
      BY <3>1
    <3> QED
      BY TypeSets, <3>1, <3>2, <3>3, <3>4
  <2> QED
    BY <2>1, <2>2
<1>3. CASE RefreshOutdated
  BY TypeSets, <1>3 DEF RefreshOutdated, CleanOutdated, IsPreload
<1>4. CASE SetMax
  BY TypeSets, <1>4 DEF SetMax, Admin
<1>5. CASE DropAll
  BY TypeSets, <1>5 DEF DropAll, Admin, RemoveExcess
<1>6. CASE MakeStale
  BY TypeSets, <1>6 DEF MakeStale, Admin
<1>7. CASE OtherSave
  BY TypeSets, <1>7 DEF OtherSave
<1>8. CASE Restart
  BY TypeSets, <1>8 DEF Restart, Interrupted
<1>9. ASSUME NEW q \in Qubes, Created(q) PROVE LeavingInv'
  BY TypeSets, <1>9 DEF Created
<1>10. ASSUME NEW q \in Qubes, CreateFails(q) PROVE LeavingInv'
  BY TypeSets, <1>10 DEF CreateFails
<1>11. ASSUME NEW q \in Qubes, Spawn(q) PROVE LeavingInv'
  BY TypeSets, <1>11 DEF Spawn
<1>12. ASSUME NEW q \in Qubes, Booted(q) PROVE LeavingInv'
  BY TypeSets, <1>12 DEF Booted, Completes
<1>13. ASSUME NEW q \in Qubes, ServicesOver(q) PROVE LeavingInv'
  BY TypeSets, <1>13 DEF ServicesOver, Completes
<1>14. ASSUME NEW q \in Qubes, Suspend(q) PROVE LeavingInv'
  <2>1. /\ phase[q] = "suspend" /\ power[q] \in {"Running", "Paused"}
        /\ phase' = [phase EXCEPT ![q] = "idle"]
        /\ power' = [power EXCEPT ![q] = "Paused"]
        /\ UNCHANGED <<list, inDom, removing, born>>
    BY <1>14 DEF Suspend, Alive
  <2> QED
    BY TypeSets, <2>1
<1>15. ASSUME NEW q \in Qubes, AutoCleanup(q) PROVE LeavingInv'
  BY TypeSets, <1>15 DEF AutoCleanup, LeaveDomains, Delete, Unlist
<1>16. ASSUME NEW q \in Qubes, Removed(q) PROVE LeavingInv'
  BY TypeSets, <1>16 DEF Removed
<1>17. ASSUME NEW q \in Qubes, StartFails(q) PROVE LeavingInv'
  BY TypeSets, <1>17 DEF StartFails
<1>18. ASSUME NEW q \in Qubes, StartUndone(q) PROVE LeavingInv'
  BY TypeSets, <1>18 DEF StartUndone, ForcedCleanup, LeaveDomains, Delete, Unlist
<1>19. ASSUME NEW q \in Qubes, CleanSurplus(q) PROVE LeavingInv'
  <2>1. \/ power' = power
        \/ /\ power[q] \in {"Running", "Paused"}
           /\ power' = [power EXCEPT ![q] = "Ended"]
    <3>1. CASE q \in inDom /\ Alive(q)
      BY <1>19, <3>1 DEF CleanSurplus, Kills, Alive
    <3>2. CASE ~(q \in inDom /\ Alive(q))
      BY <1>19, <3>2 DEF CleanSurplus, Kills
    <3> QED
      BY <3>1, <3>2
  <2>2. UNCHANGED <<list, inDom, removing, phase, born>>
    BY <1>19 DEF CleanSurplus
  <2> QED
    BY TypeSets, <2>1, <2>2
<1>20. ASSUME NEW q \in Qubes, CleanDoomed(q) PROVE LeavingInv'
  <2>1. \/ power' = power
        \/ /\ power[q] \in {"Running", "Paused"}
           /\ power' = [power EXCEPT ![q] = "Ended"]
    <3>1. CASE q \in inDom /\ Alive(q)
      BY <1>20, <3>1 DEF CleanDoomed, Kills, Alive
    <3>2. CASE ~(q \in inDom /\ Alive(q))
      BY <1>20, <3>2 DEF CleanDoomed, Kills
    <3> QED
      BY <3>1, <3>2
  <2>2. UNCHANGED <<list, inDom, removing, phase, born>>
    BY <1>20 DEF CleanDoomed
  <2> QED
    BY TypeSets, <2>1, <2>2
<1>21. ASSUME NEW q \in Qubes, CleanForced(q) PROVE LeavingInv'
  <2>1. UNCHANGED <<phase, born>>
    BY <1>21 DEF CleanForced
  <2>2. CASE Alive(q)
    <3>1. UNCHANGED <<list, inDom, removing>>
      BY <1>21, <2>2 DEF CleanForced
    <3>2. power' = power \/ power' = [power EXCEPT ![q] = "Ended"]
      BY <1>21 DEF CleanForced, Kills
    <3> QED
      BY TypeSets, <2>1, <2>2, <3>1, <3>2 DEF Alive
  <2>3. CASE ~Alive(q)
    <3>1. power' = power
      BY <1>21, <2>3 DEF CleanForced, Kills
    <3>2. list' \ inDom' \subseteq list \ inDom /\ removing \subseteq removing'
      BY <1>21, <2>3
      DEF CleanForced, ForcedCleanup, LeaveDomains, Delete, Unlist
    <3> QED
      BY TypeSets, <2>1, <3>1, <3>2
  <2> QED
    BY <2>2, <2>3
<1>22. ASSUME NEW q \in Qubes, QubeEnds(q) PROVE LeavingInv'
  <2>1. /\ power[q] \in {"Running", "Paused"}
        /\ power' = [power EXCEPT ![q] = "Ended"]
        /\ UNCHANGED <<list, inDom, removing, phase, born>>
    BY <1>22 DEF QubeEnds, Alive
  <2> QED
    BY TypeSets, <2>1
<1>23. ASSUME NEW q \in Qubes, AdminRemove(q) PROVE LeavingInv'
  BY TypeSets, <1>23 DEF AdminRemove, Delete, Unlist
<1>24. ASSUME NEW c \in Callers, Request(c) PROVE LeavingInv'
  BY TypeSets, <1>24 DEF Request, FillGap, TakeOff
<1>25. ASSUME NEW c \in Callers, RequestFresh(c) PROVE LeavingInv'
  BY TypeSets, <1>25 DEF RequestFresh, FillGap
<1>26. ASSUME NEW c \in Callers, Fresh(c) PROVE LeavingInv'
  BY TypeSets, <1>26 DEF Fresh
<1>27. ASSUME NEW c \in Callers, GetPreload(c) PROVE LeavingInv'
  BY TypeSets, <1>27 DEF GetPreload, UseBegin, MustUnpause, IsPreload
<1>28. ASSUME NEW c \in Callers, GetTimesOut(c) PROVE LeavingInv'
  BY TypeSets, <1>28 DEF GetTimesOut, MayTimeOut
<1>29. ASSUME NEW c \in Callers, ToolUnpause(c) PROVE LeavingInv'
  BY TypeSets, <1>29 DEF ToolUnpause
<1>30. ASSUME NEW c \in Callers, Resume(c) PROVE LeavingInv'
  <2>1. \/ power' = power
        \/ /\ power[mine[c]] \in {"Running", "Paused"}
           /\ power' = [power EXCEPT ![mine[c]] = "Running"]
    BY <1>30 DEF Resume, Alive
  <2>2. UNCHANGED <<list, inDom, removing, phase, born>>
    BY <1>30 DEF Resume
  <2> QED
    BY TypeSets, <2>1, <2>2
<1>31. ASSUME NEW c \in Callers, Unpaused(c) PROVE LeavingInv'
  BY TypeSets, <1>31 DEF Unpaused, UseBegin, IsPreload
<1>32. ASSUME NEW c \in Callers, UseEnd(c) PROVE LeavingInv'
  BY TypeSets, <1>32 DEF UseEnd, FireUsed
<1>33. ASSUME NEW c \in Callers, UseTimesOut(c) PROVE LeavingInv'
  BY TypeSets, <1>33 DEF UseTimesOut
<1>34. ASSUME NEW c \in Callers, UseFails(c) PROVE LeavingInv'
  BY TypeSets, <1>34 DEF UseFails
<1>36. ASSUME NEW c \in Callers, RequestBreaks(c) PROVE LeavingInv'
  BY TypeSets, <1>36 DEF RequestBreaks, FillGap
<1>35. CASE UNCHANGED vars
  BY TypeSets, <1>35 DEF vars
<1> QED
  BY TypeSets, <1>1, <1>2, <1>3, <1>4, <1>5, <1>6, <1>7, <1>8, <1>9, <1>10, <1>11,
     <1>12, <1>13, <1>14, <1>15, <1>16, <1>17, <1>18, <1>19, <1>20, <1>21,
     <1>22, <1>23, <1>24, <1>25, <1>26, <1>27, <1>28, <1>29, <1>30, <1>31,
     <1>32, <1>33, <1>34, <1>35, <1>36 DEF Next, QubeStep, CallStep, Environment

(* The qubes being handed out: only their own caller clears the request.   *)
LEMMA ServingStep ==
  ASSUME Tools = {}, QueueInv, ServingInv, SeparateInv, [Next]_vars
  PROVE  ServingInv'
<1>0. TypeOK /\ ListInv /\ Callers = Users
  BY DEF QueueInv, Callers
<1> USE <1>0 DEF ServingInv, SeparateInv, queueVars, markVars, reapVars, callVars, envVars, Enter, Go, Answer,
       Save, Store, Stores, Serving
<1>1. CASE HandleEvent
  <2>1. list' \subseteq list /\ surplus' \subseteq surplus \cup (list \ list')
    BY TypeSets, <1>1 DEF HandleEvent, RemoveExcess, Keeps
  <2>2. /\ UNCHANGED <<born, phase, requested, completed, pc, mine>>
        /\ saved'.completed = saved.completed
    BY TypeSets, <1>1 DEF HandleEvent
  <2> QED
    BY <2>1, <2>2 DEF ListInv
<1>2. CASE BeginPreload
  <2>1. ASSUME NEW q \in Qubes \ born,
                born' = born \cup {q}, list' = list \cup {q},
                phase' = [phase EXCEPT ![q] = "create"]
        PROVE  ServingInv'
    <3>1. UNCHANGED <<requested, completed, surplus, pc, mine, saved>>
      BY TypeSets, <1>2 DEF BeginPreload
    <3>2. q \notin completed /\ q \notin requested \cup surplus
      BY DEF ListInv
    <3>3. \A c \in Users : Serving(c) => mine[c] # q
      BY DEF ListInv
    <3> QED
      BY TypeSets, <2>1, <3>1, <3>2, <3>3
  <2>2. CASE ~MayAdd
    BY TypeSets, <1>2, <2>2 DEF BeginPreload
  <2> QED
    BY TypeSets, <1>2, <2>1, <2>2 DEF BeginPreload
<1>3. CASE RefreshOutdated
  BY TypeSets, <1>3 DEF RefreshOutdated, CleanOutdated, IsPreload
<1>4. CASE SetMax
  BY TypeSets, <1>4 DEF SetMax, Admin
<1>5. CASE DropAll
  <2>1. list' \subseteq list /\ surplus' \subseteq surplus \cup (list \ list')
    BY TypeSets, <1>5 DEF DropAll, RemoveExcess, Admin
  <2>2. /\ UNCHANGED <<born, phase, requested, completed, pc, mine>>
        /\ saved'.completed = saved.completed
    BY TypeSets, <1>5 DEF DropAll, Admin
  <2> QED
    BY <2>1, <2>2 DEF ListInv
<1>6. CASE MakeStale
  BY TypeSets, <1>6 DEF MakeStale, Admin
<1>7. CASE OtherSave
  BY TypeSets, <1>7 DEF OtherSave
<1>8. CASE Restart
  <2>1. \A c \in Users : ~Serving(c)'
    BY TypeSets, <1>8 DEF Restart
  <2> QED
    BY TypeSets, <1>8, <2>1 DEF Restart, Stores
<1>9. ASSUME NEW q \in Qubes, Created(q) PROVE ServingInv'
  BY TypeSets, <1>9 DEF Created
<1>10. ASSUME NEW q \in Qubes, CreateFails(q) PROVE ServingInv'
  BY TypeSets, <1>10 DEF CreateFails
<1>11. ASSUME NEW q \in Qubes, Spawn(q) PROVE ServingInv'
  BY TypeSets, <1>11 DEF Spawn
<1>12. ASSUME NEW q \in Qubes, Booted(q) PROVE ServingInv'
  <2>1. /\ UNCHANGED <<born, list, requested, surplus, pc, mine>>
        /\ completed' \in {completed, completed \cup {q}}
        /\ completed' # completed => phase' = [phase EXCEPT ![q] = "idle"]
        /\ \E p \in Phases : phase' = [phase EXCEPT ![q] = p]
        /\ phase[q] \in {"boot", "services"}
    BY TypeSets, <1>12 DEF Booted, Completes, Phases
  <2>2. saved' = saved \/ saved'.completed = completed' \cap inDom
    BY TypeSets, <1>12 DEF Booted, Completes
  <2>3. q \in born /\ q \notin completed
    BY <2>1
  <2>4. \A c \in Users : Serving(c) /\ pc[c] # "wait" => mine[c] # q
    BY <2>1
  <2> QED
    BY TypeSets, <2>1, <2>2, <2>3, <2>4 DEF ListInv
<1>13. ASSUME NEW q \in Qubes, ServicesOver(q) PROVE ServingInv'
  <2>1. /\ UNCHANGED <<born, list, requested, surplus, pc, mine>>
        /\ completed' \in {completed, completed \cup {q}}
        /\ completed' # completed => phase' = [phase EXCEPT ![q] = "idle"]
        /\ \E p \in Phases : phase' = [phase EXCEPT ![q] = p]
        /\ phase[q] \in {"boot", "services"}
    BY TypeSets, <1>13 DEF ServicesOver, Completes, Phases
  <2>2. saved' = saved \/ saved'.completed = completed' \cap inDom
    BY TypeSets, <1>13 DEF ServicesOver, Completes
  <2>3. q \in born /\ q \notin completed
    BY <2>1
  <2>4. \A c \in Users : Serving(c) /\ pc[c] # "wait" => mine[c] # q
    BY <2>1
  <2> QED
    BY TypeSets, <2>1, <2>2, <2>3, <2>4 DEF ListInv
<1>14. ASSUME NEW q \in Qubes, Suspend(q) PROVE ServingInv'
  BY TypeSets, <1>14 DEF Suspend, Completes
<1>15. ASSUME NEW q \in Qubes, AutoCleanup(q) PROVE ServingInv'
  BY TypeSets, <1>15 DEF AutoCleanup, LeaveDomains, Delete, Unlist
<1>16. ASSUME NEW q \in Qubes, Removed(q) PROVE ServingInv'
  BY TypeSets, <1>16 DEF Removed
<1>17. ASSUME NEW q \in Qubes, StartFails(q) PROVE ServingInv'
  BY TypeSets, <1>17 DEF StartFails
<1>18. ASSUME NEW q \in Qubes, StartUndone(q) PROVE ServingInv'
  BY TypeSets, <1>18 DEF StartUndone, ForcedCleanup, LeaveDomains, Delete, Unlist
<1>19. ASSUME NEW q \in Qubes, CleanSurplus(q) PROVE ServingInv'
  BY TypeSets, <1>19 DEF CleanSurplus, Kills
<1>20. ASSUME NEW q \in Qubes, CleanDoomed(q) PROVE ServingInv'
  BY TypeSets, <1>20 DEF CleanDoomed, Kills
<1>21. ASSUME NEW q \in Qubes, CleanForced(q) PROVE ServingInv'
  BY TypeSets, <1>21 DEF CleanForced, ForcedCleanup, LeaveDomains, Delete, Unlist, Kills
<1>22. ASSUME NEW q \in Qubes, QubeEnds(q) PROVE ServingInv'
  BY TypeSets, <1>22 DEF QubeEnds
<1>23. ASSUME NEW q \in Qubes, AdminRemove(q) PROVE ServingInv'
  BY TypeSets, <1>23 DEF AdminRemove, Delete, Unlist
<1>24. ASSUME NEW c \in Callers, Request(c) PROVE ServingInv'
  BY TypeSets, <1>24 DEF Request, FillGap, TakeOff
<1>25. ASSUME NEW c \in Callers, RequestFresh(c) PROVE ServingInv'
  BY TypeSets, <1>25 DEF RequestFresh, FillGap
<1>26. ASSUME NEW c \in Callers, Fresh(c) PROVE ServingInv'
  BY TypeSets, <1>26 DEF Fresh
<1>27. ASSUME NEW c \in Callers, GetPreload(c) PROVE ServingInv'
  BY TypeSets, <1>27 DEF GetPreload, UseBegin, MustUnpause, IsPreload
<1>28. ASSUME NEW c \in Callers, GetTimesOut(c) PROVE ServingInv'
  BY TypeSets, <1>28 DEF GetTimesOut, MayTimeOut
<1>29. ASSUME NEW c \in Callers, ToolUnpause(c) PROVE ServingInv'
  BY TypeSets, <1>29 DEF ToolUnpause
<1>30. ASSUME NEW c \in Callers, Resume(c) PROVE ServingInv'
  BY TypeSets, <1>30 DEF Resume
<1>31. ASSUME NEW c \in Callers, Unpaused(c) PROVE ServingInv'
  BY TypeSets, <1>31 DEF Unpaused, UseBegin, IsPreload
<1>32. ASSUME NEW c \in Callers, UseEnd(c) PROVE ServingInv'
  BY TypeSets, <1>32 DEF UseEnd, FireUsed
<1>33. ASSUME NEW c \in Callers, UseTimesOut(c) PROVE ServingInv'
  BY TypeSets, <1>33 DEF UseTimesOut
<1>34. ASSUME NEW c \in Callers, UseFails(c) PROVE ServingInv'
  BY TypeSets, <1>34 DEF UseFails
<1>36. ASSUME NEW c \in Callers, RequestBreaks(c) PROVE ServingInv'
  BY TypeSets, <1>36 DEF RequestBreaks, FillGap
<1>35. CASE UNCHANGED vars
  BY TypeSets, <1>35 DEF vars
<1> QED
  BY TypeSets, <1>1, <1>2, <1>3, <1>4, <1>5, <1>6, <1>7, <1>8, <1>9, <1>10, <1>11,
     <1>12, <1>13, <1>14, <1>15, <1>16, <1>17, <1>18, <1>19, <1>20, <1>21,
     <1>22, <1>23, <1>24, <1>25, <1>26, <1>27, <1>28, <1>29, <1>30, <1>31,
     <1>32, <1>33, <1>34, <1>35, <1>36 DEF Next, QubeStep, CallStep, Environment

(* The delivered qubes: a restart lists only live qubes that qubes.xml     *)
(* lists, so none of them comes back.                                      *)
LEMMA DeliveredStep ==
  ASSUME Tools = {}, QueueInv, ServingInv, DeliveredInv, [Next]_vars
  PROVE  DeliveredInv'
<1>0. TypeOK /\ ListInv /\ Callers = Users
  BY DEF QueueInv, Callers
<1> USE <1>0 DEF ListInv, ServingInv, DeliveredInv, queueVars, markVars, reapVars, callVars, envVars, Enter, Go, Answer,
       Save, Store, Stores, Serving, Alive
<1>1. CASE HandleEvent
  BY TypeSets, <1>1 DEF HandleEvent, RemoveExcess, Keeps, CanPreload
<1>2. CASE BeginPreload
  BY TypeSets, <1>2 DEF BeginPreload, MayAdd, CanPreload
<1>3. CASE RefreshOutdated
  BY TypeSets, <1>3 DEF RefreshOutdated, CleanOutdated, IsPreload
<1>4. CASE SetMax
  BY TypeSets, <1>4 DEF SetMax, Admin
<1>5. CASE DropAll
  BY TypeSets, <1>5 DEF DropAll, Admin, RemoveExcess
<1>6. CASE MakeStale
  BY TypeSets, <1>6 DEF MakeStale, Admin
<1>7. CASE OtherSave
  BY TypeSets, <1>7 DEF OtherSave
<1>8. CASE Restart
  <2>1. \A c \in Users : ~Serving(c)'
    BY TypeSets, <1>8 DEF Restart
  <2>2. \A q \in list' : Alive(q) /\ q \in saved.list
    BY TypeSets, <1>8 DEF Restart, Interrupted, Stores
  <2> QED
    BY TypeSets, <1>8, <2>2 DEF Restart, Stores
<1>9. ASSUME NEW q \in Qubes, Created(q) PROVE DeliveredInv'
  BY TypeSets, <1>9 DEF Created
<1>10. ASSUME NEW q \in Qubes, CreateFails(q) PROVE DeliveredInv'
  BY TypeSets, <1>10 DEF CreateFails
<1>11. ASSUME NEW q \in Qubes, Spawn(q) PROVE DeliveredInv'
  BY TypeSets, <1>11 DEF Spawn
<1>12. ASSUME NEW q \in Qubes, Booted(q) PROVE DeliveredInv'
  BY TypeSets, <1>12 DEF Booted, Completes
<1>13. ASSUME NEW q \in Qubes, ServicesOver(q) PROVE DeliveredInv'
  BY TypeSets, <1>13 DEF ServicesOver, Completes
<1>14. ASSUME NEW q \in Qubes, Suspend(q) PROVE DeliveredInv'
  BY TypeSets, <1>14 DEF Suspend, Completes
<1>15. ASSUME NEW q \in Qubes, AutoCleanup(q) PROVE DeliveredInv'
  BY TypeSets, <1>15 DEF AutoCleanup, LeaveDomains, Delete, Unlist
<1>16. ASSUME NEW q \in Qubes, Removed(q) PROVE DeliveredInv'
  BY TypeSets, <1>16 DEF Removed
<1>17. ASSUME NEW q \in Qubes, StartFails(q) PROVE DeliveredInv'
  BY TypeSets, <1>17 DEF StartFails
<1>18. ASSUME NEW q \in Qubes, StartUndone(q) PROVE DeliveredInv'
  BY TypeSets, <1>18 DEF StartUndone, ForcedCleanup, LeaveDomains, Delete, Unlist
<1>19. ASSUME NEW q \in Qubes, CleanSurplus(q) PROVE DeliveredInv'
  BY TypeSets, <1>19 DEF CleanSurplus, Kills
<1>20. ASSUME NEW q \in Qubes, CleanDoomed(q) PROVE DeliveredInv'
  BY TypeSets, <1>20 DEF CleanDoomed, Kills
<1>21. ASSUME NEW q \in Qubes, CleanForced(q) PROVE DeliveredInv'
  BY TypeSets, <1>21 DEF CleanForced, ForcedCleanup, LeaveDomains, Delete, Unlist, Kills
<1>22. ASSUME NEW q \in Qubes, QubeEnds(q) PROVE DeliveredInv'
  BY TypeSets, <1>22 DEF QubeEnds
<1>23. ASSUME NEW q \in Qubes, AdminRemove(q) PROVE DeliveredInv'
  BY TypeSets, <1>23 DEF AdminRemove, Delete, Unlist
<1>24. ASSUME NEW c \in Callers, Request(c) PROVE DeliveredInv'
  BY TypeSets, <1>24 DEF Request, FillGap, TakeOff
<1>25. ASSUME NEW c \in Callers, RequestFresh(c) PROVE DeliveredInv'
  BY TypeSets, <1>25 DEF RequestFresh, FillGap
<1>26. ASSUME NEW c \in Callers, Fresh(c) PROVE DeliveredInv'
  BY TypeSets, <1>26 DEF Fresh
<1>27. ASSUME NEW c \in Callers, GetPreload(c) PROVE DeliveredInv'
  BY TypeSets, <1>27 DEF GetPreload, UseBegin, MustUnpause, IsPreload
<1>28. ASSUME NEW c \in Callers, GetTimesOut(c) PROVE DeliveredInv'
  BY TypeSets, <1>28 DEF GetTimesOut, MayTimeOut
<1>29. ASSUME NEW c \in Callers, ToolUnpause(c) PROVE DeliveredInv'
  BY TypeSets, <1>29 DEF ToolUnpause
<1>30. ASSUME NEW c \in Callers, Resume(c) PROVE DeliveredInv'
  BY TypeSets, <1>30 DEF Resume
<1>31. ASSUME NEW c \in Callers, Unpaused(c) PROVE DeliveredInv'
  BY TypeSets, <1>31 DEF Unpaused, UseBegin, IsPreload
<1>32. ASSUME NEW c \in Callers, UseEnd(c) PROVE DeliveredInv'
  BY TypeSets, <1>32 DEF UseEnd, FireUsed
<1>33. ASSUME NEW c \in Callers, UseTimesOut(c) PROVE DeliveredInv'
  BY TypeSets, <1>33 DEF UseTimesOut
<1>34. ASSUME NEW c \in Callers, UseFails(c) PROVE DeliveredInv'
  BY TypeSets, <1>34 DEF UseFails
<1>36. ASSUME NEW c \in Callers, RequestBreaks(c) PROVE DeliveredInv'
  BY TypeSets, <1>36 DEF RequestBreaks, FillGap
<1>35. CASE UNCHANGED vars
  BY TypeSets, <1>35 DEF vars
<1> QED
  BY TypeSets, <1>1, <1>2, <1>3, <1>4, <1>5, <1>6, <1>7, <1>8, <1>9, <1>10, <1>11,
     <1>12, <1>13, <1>14, <1>15, <1>16, <1>17, <1>18, <1>19, <1>20, <1>21,
     <1>22, <1>23, <1>24, <1>25, <1>26, <1>27, <1>28, <1>29, <1>30, <1>31,
     <1>32, <1>33, <1>34, <1>35, <1>36 DEF Next, QubeStep, CallStep, Environment

(* No two callers share a qube.                                            *)
LEMMA SeparateStep ==
  ASSUME Tools = {}, QueueInv, ServingInv, DeliveredInv, SeparateInv, [Next]_vars
  PROVE  SeparateInv'
<1>0. TypeOK /\ ListInv /\ Callers = Users
  BY DEF QueueInv, Callers
<1> USE <1>0 DEF ServingInv, DeliveredInv, SeparateInv, queueVars, markVars, reapVars, callVars, envVars, Enter, Go, Answer,
       Save, Store, Stores, Serving, Alive
<1>1. CASE HandleEvent
  BY TypeSets, <1>1 DEF HandleEvent, RemoveExcess, Keeps, CanPreload
<1>2. CASE BeginPreload
  BY TypeSets, <1>2 DEF BeginPreload, MayAdd, CanPreload
<1>3. CASE RefreshOutdated
  BY TypeSets, <1>3 DEF RefreshOutdated, CleanOutdated, IsPreload
<1>4. CASE SetMax
  BY TypeSets, <1>4 DEF SetMax, Admin
<1>5. CASE DropAll
  BY TypeSets, <1>5 DEF DropAll, Admin, RemoveExcess
<1>6. CASE MakeStale
  BY TypeSets, <1>6 DEF MakeStale, Admin
<1>7. CASE OtherSave
  BY TypeSets, <1>7 DEF OtherSave
<1>8. CASE Restart
  <2>1. \A c \in Users : ~Serving(c)'
    BY TypeSets, <1>8 DEF Restart
  <2> QED
    BY TypeSets, <1>8, <2>1 DEF Restart
<1>9. ASSUME NEW q \in Qubes, Created(q) PROVE SeparateInv'
  BY TypeSets, <1>9 DEF Created
<1>10. ASSUME NEW q \in Qubes, CreateFails(q) PROVE SeparateInv'
  BY TypeSets, <1>10 DEF CreateFails
<1>11. ASSUME NEW q \in Qubes, Spawn(q) PROVE SeparateInv'
  BY TypeSets, <1>11 DEF Spawn
<1>12. ASSUME NEW q \in Qubes, Booted(q) PROVE SeparateInv'
  BY TypeSets, <1>12 DEF Booted, Completes
<1>13. ASSUME NEW q \in Qubes, ServicesOver(q) PROVE SeparateInv'
  BY TypeSets, <1>13 DEF ServicesOver, Completes
<1>14. ASSUME NEW q \in Qubes, Suspend(q) PROVE SeparateInv'
  BY TypeSets, <1>14 DEF Suspend, Completes
<1>15. ASSUME NEW q \in Qubes, AutoCleanup(q) PROVE SeparateInv'
  BY TypeSets, <1>15 DEF AutoCleanup, LeaveDomains, Delete, Unlist
<1>16. ASSUME NEW q \in Qubes, Removed(q) PROVE SeparateInv'
  BY TypeSets, <1>16 DEF Removed
<1>17. ASSUME NEW q \in Qubes, StartFails(q) PROVE SeparateInv'
  BY TypeSets, <1>17 DEF StartFails
<1>18. ASSUME NEW q \in Qubes, StartUndone(q) PROVE SeparateInv'
  BY TypeSets, <1>18 DEF StartUndone, ForcedCleanup, LeaveDomains, Delete, Unlist
<1>19. ASSUME NEW q \in Qubes, CleanSurplus(q) PROVE SeparateInv'
  BY TypeSets, <1>19 DEF CleanSurplus, Kills
<1>20. ASSUME NEW q \in Qubes, CleanDoomed(q) PROVE SeparateInv'
  BY TypeSets, <1>20 DEF CleanDoomed, Kills
<1>21. ASSUME NEW q \in Qubes, CleanForced(q) PROVE SeparateInv'
  BY TypeSets, <1>21 DEF CleanForced, ForcedCleanup, LeaveDomains, Delete, Unlist, Kills
<1>22. ASSUME NEW q \in Qubes, QubeEnds(q) PROVE SeparateInv'
  BY TypeSets, <1>22 DEF QubeEnds
<1>23. ASSUME NEW q \in Qubes, AdminRemove(q) PROVE SeparateInv'
  BY TypeSets, <1>23 DEF AdminRemove, Delete, Unlist
<1>24. ASSUME NEW c \in Callers, Request(c) PROVE SeparateInv'
  BY TypeSets, <1>24 DEF Request, FillGap, TakeOff
<1>25. ASSUME NEW c \in Callers, RequestFresh(c) PROVE SeparateInv'
  BY TypeSets, <1>25 DEF RequestFresh, FillGap
<1>26. ASSUME NEW c \in Callers, Fresh(c) PROVE SeparateInv'
  BY TypeSets, <1>26 DEF Fresh
<1>27. ASSUME NEW c \in Callers, GetPreload(c) PROVE SeparateInv'
  BY TypeSets, <1>27 DEF GetPreload, UseBegin, MustUnpause, IsPreload
<1>28. ASSUME NEW c \in Callers, GetTimesOut(c) PROVE SeparateInv'
  BY TypeSets, <1>28 DEF GetTimesOut, MayTimeOut
<1>29. ASSUME NEW c \in Callers, ToolUnpause(c) PROVE SeparateInv'
  BY TypeSets, <1>29 DEF ToolUnpause
<1>30. ASSUME NEW c \in Callers, Resume(c) PROVE SeparateInv'
  BY TypeSets, <1>30 DEF Resume
<1>31. ASSUME NEW c \in Callers, Unpaused(c) PROVE SeparateInv'
  BY TypeSets, <1>31 DEF Unpaused, UseBegin, IsPreload
<1>32. ASSUME NEW c \in Callers, UseEnd(c) PROVE SeparateInv'
  BY TypeSets, <1>32 DEF UseEnd, FireUsed
<1>33. ASSUME NEW c \in Callers, UseTimesOut(c) PROVE SeparateInv'
  BY TypeSets, <1>33 DEF UseTimesOut
<1>34. ASSUME NEW c \in Callers, UseFails(c) PROVE SeparateInv'
  BY TypeSets, <1>34 DEF UseFails
<1>36. ASSUME NEW c \in Callers, RequestBreaks(c) PROVE SeparateInv'
  BY TypeSets, <1>36 DEF RequestBreaks, FillGap
<1>35. CASE UNCHANGED vars
  BY TypeSets, <1>35 DEF vars
<1> QED
  BY TypeSets, <1>1, <1>2, <1>3, <1>4, <1>5, <1>6, <1>7, <1>8, <1>9, <1>10, <1>11,
     <1>12, <1>13, <1>14, <1>15, <1>16, <1>17, <1>18, <1>19, <1>20, <1>21,
     <1>22, <1>23, <1>24, <1>25, <1>26, <1>27, <1>28, <1>29, <1>30, <1>31,
     <1>32, <1>33, <1>34, <1>35, <1>36 DEF Next, QubeStep, CallStep, Environment

(* Nothing but the end of a preload pauses a qube.                         *)
LEMMA AwakeStep ==
  ASSUME QueueInv, AwakeInv, [Next]_vars
  PROVE  AwakeInv'
<1>0. TypeOK /\ ListInv
  BY DEF QueueInv
<1> USE <1>0 DEF ListInv, AwakeInv, queueVars, markVars, reapVars, callVars, envVars, Enter, Go, Answer,
       Save, Store, Stores, Serving, Alive
<1>1. CASE HandleEvent
  BY TypeSets, <1>1 DEF HandleEvent, RemoveExcess, Keeps, CanPreload
<1>2. CASE BeginPreload
  BY TypeSets, <1>2 DEF BeginPreload, MayAdd, CanPreload
<1>3. CASE RefreshOutdated
  BY TypeSets, <1>3 DEF RefreshOutdated, CleanOutdated, IsPreload
<1>4. CASE SetMax
  BY TypeSets, <1>4 DEF SetMax, Admin
<1>5. CASE DropAll
  BY TypeSets, <1>5 DEF DropAll, Admin, RemoveExcess
<1>6. CASE MakeStale
  BY TypeSets, <1>6 DEF MakeStale, Admin
<1>7. CASE OtherSave
  BY TypeSets, <1>7 DEF OtherSave
<1>8. CASE Restart
  <2>1. \A q \in Qubes : power'[q] = "Paused" => power[q] = "Paused"
    BY TypeSets, <1>8 DEF Restart, Powers
  <2>2. \A q \in Qubes : power'[q] # "Halted" => power[q] # "Halted"
    BY TypeSets, <1>8 DEF Restart, Powers
  <2>3. /\ \A q \in Qubes : phase'[q] = "idle"
        /\ \A c \in Callers : pc'[c] \in {"idle", "done"}
        /\ completed' = saved.completed /\ saved'.completed = saved.completed
        /\ UNCHANGED <<born, mine, got>>
    BY TypeSets, <1>8 DEF Restart
  <2> QED
    BY TypeSets, <2>1, <2>2, <2>3
<1>9. ASSUME NEW q \in Qubes, Created(q) PROVE AwakeInv'
  BY TypeSets, <1>9 DEF Created
<1>10. ASSUME NEW q \in Qubes, CreateFails(q) PROVE AwakeInv'
  BY TypeSets, <1>10 DEF CreateFails
<1>11. ASSUME NEW q \in Qubes, Spawn(q) PROVE AwakeInv'
  BY TypeSets, <1>11 DEF Spawn
<1>12. ASSUME NEW q \in Qubes, Booted(q) PROVE AwakeInv'
  <2>1. /\ phase[q] = "boot" /\ power[q] # "Paused"
        /\ UNCHANGED <<list, surplus, doomed, forced, restarts, inDom, born, power,
                        pc, mine, got>>
    BY TypeSets, <1>12 DEF Booted
  <2>2. CASE IsPreload(q) /\ q \in requested
    <3>1. /\ phase' = [phase EXCEPT ![q] = "idle"]
          /\ completed' = completed \cup {q}
          /\ saved' = saved \/ saved'.completed = completed' \cap inDom
      BY <1>12, <2>2 DEF Booted, Completes
    <3> QED
      BY TypeSets, <2>1, <2>2, <3>1
  <2>3. CASE ~(IsPreload(q) /\ q \in requested)
    <3>1. /\ phase' = [phase EXCEPT ![q] = IF q \in list THEN "services" ELSE "idle"]
          /\ UNCHANGED <<completed, saved>>
      BY <1>12, <2>3 DEF Booted, IsPreload
    <3> QED
      BY TypeSets, <2>1, <3>1
  <2> QED
    BY <2>2, <2>3
<1>13. ASSUME NEW q \in Qubes, ServicesOver(q) PROVE AwakeInv'
  BY TypeSets, <1>13 DEF ServicesOver, Completes
<1>14. ASSUME NEW q \in Qubes, Suspend(q) PROVE AwakeInv'
  BY TypeSets, <1>14 DEF Suspend, Completes
<1>15. ASSUME NEW q \in Qubes, AutoCleanup(q) PROVE AwakeInv'
  BY TypeSets, <1>15 DEF AutoCleanup, LeaveDomains, Delete, Unlist
<1>16. ASSUME NEW q \in Qubes, Removed(q) PROVE AwakeInv'
  BY TypeSets, <1>16 DEF Removed
<1>17. ASSUME NEW q \in Qubes, StartFails(q) PROVE AwakeInv'
  BY TypeSets, <1>17 DEF StartFails
<1>18. ASSUME NEW q \in Qubes, StartUndone(q) PROVE AwakeInv'
  BY TypeSets, <1>18 DEF StartUndone, ForcedCleanup, LeaveDomains, Delete, Unlist
<1>19. ASSUME NEW q \in Qubes, CleanSurplus(q) PROVE AwakeInv'
  BY TypeSets, <1>19 DEF CleanSurplus, Kills
<1>20. ASSUME NEW q \in Qubes, CleanDoomed(q) PROVE AwakeInv'
  BY TypeSets, <1>20 DEF CleanDoomed, Kills
<1>21. ASSUME NEW q \in Qubes, CleanForced(q) PROVE AwakeInv'
  BY TypeSets, <1>21 DEF CleanForced, ForcedCleanup, LeaveDomains, Delete, Unlist, Kills
<1>22. ASSUME NEW q \in Qubes, QubeEnds(q) PROVE AwakeInv'
  BY TypeSets, <1>22 DEF QubeEnds
<1>23. ASSUME NEW q \in Qubes, AdminRemove(q) PROVE AwakeInv'
  BY TypeSets, <1>23 DEF AdminRemove, Delete, Unlist
<1>24. ASSUME NEW c \in Callers, Request(c) PROVE AwakeInv'
  BY TypeSets, <1>24 DEF Request, FillGap, TakeOff
<1>25. ASSUME NEW c \in Callers, RequestFresh(c) PROVE AwakeInv'
  BY TypeSets, <1>25 DEF RequestFresh, FillGap
<1>26. ASSUME NEW c \in Callers, Fresh(c) PROVE AwakeInv'
  BY TypeSets, <1>26 DEF Fresh
<1>27. ASSUME NEW c \in Callers, GetPreload(c) PROVE AwakeInv'
  BY TypeSets, <1>27 DEF GetPreload, UseBegin, MustUnpause, IsPreload
<1>28. ASSUME NEW c \in Callers, GetTimesOut(c) PROVE AwakeInv'
  BY TypeSets, <1>28 DEF GetTimesOut, MayTimeOut
<1>29. ASSUME NEW c \in Callers, ToolUnpause(c) PROVE AwakeInv'
  BY TypeSets, <1>29 DEF ToolUnpause
<1>30. ASSUME NEW c \in Callers, Resume(c) PROVE AwakeInv'
  BY TypeSets, <1>30 DEF Resume
<1>31. ASSUME NEW c \in Callers, Unpaused(c) PROVE AwakeInv'
  BY TypeSets, <1>31 DEF Unpaused, UseBegin, IsPreload
<1>32. ASSUME NEW c \in Callers, UseEnd(c) PROVE AwakeInv'
  BY TypeSets, <1>32 DEF UseEnd, FireUsed
<1>33. ASSUME NEW c \in Callers, UseTimesOut(c) PROVE AwakeInv'
  BY TypeSets, <1>33 DEF UseTimesOut
<1>34. ASSUME NEW c \in Callers, UseFails(c) PROVE AwakeInv'
  BY TypeSets, <1>34 DEF UseFails
<1>36. ASSUME NEW c \in Callers, RequestBreaks(c) PROVE AwakeInv'
  BY TypeSets, <1>36 DEF RequestBreaks, FillGap
<1>35. CASE UNCHANGED vars
  BY TypeSets, <1>35 DEF vars
<1> QED
  BY TypeSets, <1>1, <1>2, <1>3, <1>4, <1>5, <1>6, <1>7, <1>8, <1>9, <1>10, <1>11,
     <1>12, <1>13, <1>14, <1>15, <1>16, <1>17, <1>18, <1>19, <1>20, <1>21,
     <1>22, <1>23, <1>24, <1>25, <1>26, <1>27, <1>28, <1>29, <1>30, <1>31,
     <1>32, <1>33, <1>34, <1>35, <1>36 DEF Next, QubeStep, CallStep, Environment

(* Who leaves the list is handed to a caller or to a cleanup.              *)
LEMMA AccountStep ==
  ASSUME QueueInv, AwakeInv, AccountInv, [Next]_vars
  PROVE  AccountInv'
<1>0. TypeOK /\ ListInv
  BY DEF QueueInv
<1> USE <1>0 DEF ListInv, AwakeInv, AccountInv, Accounted, MayBePaused, queueVars, markVars, reapVars, callVars, envVars, Enter, Go, Answer,
       Save, Store, Stores, Serving, Alive
<1>1. CASE HandleEvent
  BY TypeSets, <1>1 DEF HandleEvent, RemoveExcess, Keeps, CanPreload
<1>2. CASE BeginPreload
  BY TypeSets, <1>2 DEF BeginPreload, MayAdd, CanPreload
<1>3. CASE RefreshOutdated
  BY TypeSets, <1>3 DEF RefreshOutdated, CleanOutdated, IsPreload
<1>4. CASE SetMax
  BY TypeSets, <1>4 DEF SetMax, Admin
<1>5. CASE DropAll
  BY TypeSets, <1>5 DEF DropAll, Admin, RemoveExcess
<1>6. CASE MakeStale
  BY TypeSets, <1>6 DEF MakeStale, Admin
<1>7. CASE OtherSave
  BY TypeSets, <1>7 DEF OtherSave
<1>8. CASE Restart
  <2>1. restarts' = restarts + 1 /\ restarts \in Nat
    BY BoundsAreNaturals, <1>8 DEF Restart, TypeOK
  <2> QED
    BY <2>1
<1>9. ASSUME NEW q \in Qubes, Created(q) PROVE AccountInv'
  BY TypeSets, <1>9 DEF Created
<1>10. ASSUME NEW q \in Qubes, CreateFails(q) PROVE AccountInv'
  BY TypeSets, <1>10 DEF CreateFails
<1>11. ASSUME NEW q \in Qubes, Spawn(q) PROVE AccountInv'
  BY TypeSets, <1>11 DEF Spawn
<1>12. ASSUME NEW q \in Qubes, Booted(q) PROVE AccountInv'
  <2>1. /\ phase[q] = "boot" /\ power[q] # "Paused"
        /\ UNCHANGED <<list, surplus, doomed, forced, restarts, inDom, born, power,
                        pc, mine, got>>
    BY TypeSets, <1>12 DEF Booted
  <2>2. CASE IsPreload(q) /\ q \in requested
    <3>1. /\ phase' = [phase EXCEPT ![q] = "idle"]
          /\ completed' = completed \cup {q}
          /\ saved' = saved \/ saved'.completed = completed' \cap inDom
      BY <1>12, <2>2 DEF Booted, Completes
    <3> QED
      BY TypeSets, <2>1, <2>2, <3>1
  <2>3. CASE ~(IsPreload(q) /\ q \in requested)
    <3>1. /\ phase' = [phase EXCEPT ![q] = IF q \in list THEN "services" ELSE "idle"]
          /\ UNCHANGED <<completed, saved>>
      BY <1>12, <2>3 DEF Booted, IsPreload
    <3> QED
      BY TypeSets, <2>1, <3>1
  <2> QED
    BY <2>2, <2>3
<1>13. ASSUME NEW q \in Qubes, ServicesOver(q) PROVE AccountInv'
  BY TypeSets, <1>13 DEF ServicesOver, Completes
<1>14. ASSUME NEW q \in Qubes, Suspend(q) PROVE AccountInv'
  BY TypeSets, <1>14 DEF Suspend, Completes
<1>15. ASSUME NEW q \in Qubes, AutoCleanup(q) PROVE AccountInv'
  BY TypeSets, <1>15 DEF AutoCleanup, LeaveDomains, Delete, Unlist
<1>16. ASSUME NEW q \in Qubes, Removed(q) PROVE AccountInv'
  BY TypeSets, <1>16 DEF Removed
<1>17. ASSUME NEW q \in Qubes, StartFails(q) PROVE AccountInv'
  BY TypeSets, <1>17 DEF StartFails
<1>18. ASSUME NEW q \in Qubes, StartUndone(q) PROVE AccountInv'
  BY TypeSets, <1>18 DEF StartUndone, ForcedCleanup, LeaveDomains, Delete, Unlist
<1>19. ASSUME NEW q \in Qubes, CleanSurplus(q) PROVE AccountInv'
  BY TypeSets, <1>19 DEF CleanSurplus, Kills
<1>20. ASSUME NEW q \in Qubes, CleanDoomed(q) PROVE AccountInv'
  BY TypeSets, <1>20 DEF CleanDoomed, Kills
<1>21. ASSUME NEW q \in Qubes, CleanForced(q) PROVE AccountInv'
  BY TypeSets, <1>21 DEF CleanForced, ForcedCleanup, LeaveDomains, Delete, Unlist, Kills
<1>22. ASSUME NEW q \in Qubes, QubeEnds(q) PROVE AccountInv'
  BY TypeSets, <1>22 DEF QubeEnds
<1>23. ASSUME NEW q \in Qubes, AdminRemove(q) PROVE AccountInv'
  BY TypeSets, <1>23 DEF AdminRemove, Delete, Unlist
<1>24. ASSUME NEW c \in Callers, Request(c) PROVE AccountInv'
  BY TypeSets, <1>24 DEF Request, FillGap, TakeOff
<1>25. ASSUME NEW c \in Callers, RequestFresh(c) PROVE AccountInv'
  BY TypeSets, <1>25 DEF RequestFresh, FillGap
<1>26. ASSUME NEW c \in Callers, Fresh(c) PROVE AccountInv'
  BY TypeSets, <1>26 DEF Fresh
<1>27. ASSUME NEW c \in Callers, GetPreload(c) PROVE AccountInv'
  BY TypeSets, <1>27 DEF GetPreload, UseBegin, MustUnpause, IsPreload
<1>28. ASSUME NEW c \in Callers, GetTimesOut(c) PROVE AccountInv'
  BY TypeSets, <1>28 DEF GetTimesOut, MayTimeOut
<1>29. ASSUME NEW c \in Callers, ToolUnpause(c) PROVE AccountInv'
  BY TypeSets, <1>29 DEF ToolUnpause
<1>30. ASSUME NEW c \in Callers, Resume(c) PROVE AccountInv'
  BY TypeSets, <1>30 DEF Resume
<1>31. ASSUME NEW c \in Callers, Unpaused(c) PROVE AccountInv'
  BY TypeSets, <1>31 DEF Unpaused, UseBegin, IsPreload
<1>32. ASSUME NEW c \in Callers, UseEnd(c) PROVE AccountInv'
  BY TypeSets, <1>32 DEF UseEnd, FireUsed
<1>33. ASSUME NEW c \in Callers, UseTimesOut(c) PROVE AccountInv'
  BY TypeSets, <1>33 DEF UseTimesOut
<1>34. ASSUME NEW c \in Callers, UseFails(c) PROVE AccountInv'
  BY TypeSets, <1>34 DEF UseFails
<1>36. ASSUME NEW c \in Callers, RequestBreaks(c) PROVE AccountInv'
  BY TypeSets, <1>36 DEF RequestBreaks, FillGap
<1>35. CASE UNCHANGED vars
  BY TypeSets, <1>35 DEF vars
<1> QED
  BY TypeSets, <1>1, <1>2, <1>3, <1>4, <1>5, <1>6, <1>7, <1>8, <1>9, <1>10, <1>11,
     <1>12, <1>13, <1>14, <1>15, <1>16, <1>17, <1>18, <1>19, <1>20, <1>21,
     <1>22, <1>23, <1>24, <1>25, <1>26, <1>27, <1>28, <1>29, <1>30, <1>31,
     <1>32, <1>33, <1>34, <1>35, <1>36 DEF Next, QubeStep, CallStep, Environment

---------------------------------------------------------------------------
(* The invariants.                                                         *)

LEMMA InitInv ==
  ASSUME Init
  PROVE  HandOutInv
<1>1. TypeOK
  BY BoundsAreNaturals DEF Init, TypeOK, Phases, Powers, CallPcs, Store, Stores
<1>2. ListInv
  BY DEF Init, ListInv, Serving, Store
<1>4. LeavingInv
  BY DEF Init, LeavingInv
<1>3. ServingInv /\ DeliveredInv /\ SeparateInv
  BY DEF Init, ServingInv, DeliveredInv, SeparateInv, Serving, Store, Callers
<1> QED
  BY <1>1, <1>2, <1>3, <1>4 DEF HandOutInv, QueueInv

(* QueueInv holds whatever the actors, the bounds and the failures.        *)
THEOREM QueueInvariant == Spec => []QueueInv
<1>1. Init => QueueInv
  BY InitInv DEF HandOutInv
<1>2. QueueInv /\ [Next]_vars => QueueInv'
  BY TypeStep, ListStep, LeavingStep DEF QueueInv
<1> QED
  BY <1>1, <1>2, PTL DEF Spec

(* HandOutInv holds unless preloaded qubes are unpaused by hand.           *)
THEOREM HandOutInvariant ==
  ASSUME Tools = {}
  PROVE  Spec => []HandOutInv
<1>1. Init => HandOutInv
  BY InitInv
<1>2. HandOutInv /\ [Next]_vars => HandOutInv'
  <2> SUFFICES ASSUME HandOutInv, [Next]_vars
               PROVE  HandOutInv'
    OBVIOUS
  <2>1. QueueInv'
    BY TypeStep, ListStep, LeavingStep DEF HandOutInv, QueueInv
  <2>2. ServingInv'
    BY ServingStep DEF HandOutInv
  <2>3. DeliveredInv'
    BY DeliveredStep DEF HandOutInv
  <2>4. SeparateInv'
    BY SeparateStep DEF HandOutInv
  <2> QED
    BY <2>1, <2>2, <2>3, <2>4 DEF HandOutInv
<1> QED
  BY <1>1, <1>2, PTL DEF Spec

(* AwakeInv and AccountInv hold whatever the actors, bounds and failures.  *)
THEOREM PauseInvariant == Spec => [](QueueInv /\ AwakeInv /\ AccountInv)
<1>1. Init => QueueInv /\ AwakeInv /\ AccountInv
  <2> SUFFICES ASSUME Init PROVE QueueInv /\ AwakeInv /\ AccountInv
    OBVIOUS
  <2>1. QueueInv
    BY InitInv DEF HandOutInv
  <2>2. AwakeInv
    BY DEF Init, AwakeInv, Store
  <2>3. AccountInv
    BY DEF Init, AccountInv
  <2> QED
    BY <2>1, <2>2, <2>3
<1>2. QueueInv /\ AwakeInv /\ AccountInv /\ [Next]_vars
      => (QueueInv /\ AwakeInv /\ AccountInv)'
  BY TypeStep, ListStep, LeavingStep, AwakeStep, AccountStep DEF QueueInv
<1> QED
  BY <1>1, <1>2, PTL DEF Spec

---------------------------------------------------------------------------
(* What follows from them.                                                 *)

(* Every variable keeps its type.                                          *)
THEOREM TypeCorrect == Spec => []TypeOK
<1>1. QueueInv => TypeOK
  BY DEF QueueInv
<1> QED
  BY <1>1, QueueInvariant, PTL

(* The only listed qubes that request_preload() cannot look up are those   *)
(* being removed by hand before the stop of their domain was handled.      *)
THEOREM ListedMissingAreLeaving == Spec => []MissingAreLeaving
<1>1. QueueInv => MissingAreLeaving
  BY DEF QueueInv, LeavingInv, MissingAreLeaving
<1> QED
  BY <1>1, QueueInvariant, PTL

(* on_domain_loaded() keeps only live, complete qubes whose request was    *)
(* not recorded.                                                           *)
THEOREM RestartsKeepComplete == Spec => RestartKeepsComplete
<1>1. ASSUME QueueInv, [Next]_vars
      PROVE  [restarts' > restarts =>
                \A q \in list' : Alive(q) /\ q \in completed' \ inprog']_vars
  <2>1. CASE Restart
    <3>1. \A q \in list' : q \in saved.list /\ q \notin saved.inprog
      BY <2>1 DEF Restart, Interrupted
    <3>2. \A q \in list' : q \in saved.completed /\ Alive(q)
      BY <1>1, <2>1, <3>1 DEF Restart, Interrupted, QueueInv, ListInv
    <3> QED
      BY <2>1, <3>1, <3>2 DEF Restart
  <2>2. CASE ~Restart
    <3>1. restarts' = restarts
      BY <1>1, <2>2 DEF Next, QubeStep, CallStep, Environment, HandleEvent, BeginPreload,
        RefreshOutdated, SetMax, DropAll, MakeStale, OtherSave,
        Restart, Created, CreateFails, Spawn, Booted, ServicesOver,
        Suspend, AutoCleanup, Removed, StartFails, StartUndone,
        CleanSurplus, CleanDoomed, CleanForced, QubeEnds, AdminRemove,
        Request, RequestFresh, RequestBreaks, Fresh, GetPreload, GetTimesOut,
        ToolUnpause, Resume, Unpaused, UseEnd, UseTimesOut, UseFails,
        vars, queueVars, markVars, reapVars, callVars, envVars,
        RemoveExcess, Keeps, ForcedCleanup, LeaveDomains, Delete, Unlist,
        UseBegin, TakeOff,
        Admin
    <3>2. ~(restarts' > restarts)
      BY <1>1, <3>1 DEF QueueInv, TypeOK
    <3> QED
      BY <3>2
  <2> QED
    BY <2>1, <2>2
<1> QED
  BY <1>1, QueueInvariant, PTL DEF Spec, RestartKeepsComplete

(* Only from_appvm() lengthens the list, and only below the maximum: the   *)
(* check and the addition are one step.                                    *)
THEOREM ListGrowsWithinMax == Spec => GrowsWithinMax
<1>1. ASSUME QueueInv, [Next]_vars
      PROVE  [Cardinality(list') > Cardinality(list) =>
                restarts' > restarts \/ Cardinality(list') <= max]_vars
  <2>0. /\ TypeOK /\ IsFiniteSet(list)
        /\ Cardinality(list) \in Nat /\ max \in Nat /\ restarts \in Nat
    BY <1>1, ListFinite DEF QueueInv, TypeOK
  <2>1. CASE Restart
    BY <2>0, <2>1 DEF Restart
  <2>2. CASE BeginPreload
    <3>1. CASE list' = list
      BY <2>0, <3>1
    <3>2. CASE MayAdd /\ \E q \in Qubes : list' = list \cup {q}
      <4>1. PICK q \in Qubes : list' = list \cup {q}
        BY <3>2
      <4>2. /\ IsFiniteSet(list \cup {q})
            /\ Cardinality(list \cup {q}) = IF q \in list THEN Cardinality(list)
                                           ELSE Cardinality(list) + 1
        BY <2>0, FS_AddElement
      <4>3. /\ Cardinality(list') \in Nat
            /\ Cardinality(list') <= Cardinality(list) + 1
        BY <2>0, <4>1, <4>2
      <4> QED
        BY <2>0, <3>2, <4>2, <4>3 DEF MayAdd, CanPreload
    <3> QED
      BY <2>2, <3>1, <3>2 DEF BeginPreload
  <2>3. CASE ~Restart /\ ~BeginPreload
    <3>1. list' \subseteq list
      BY <1>1, <2>3 DEF Next, QubeStep, CallStep, Environment, HandleEvent, BeginPreload,
        RefreshOutdated, SetMax, DropAll, MakeStale, OtherSave,
        Restart, Created, CreateFails, Spawn, Booted, ServicesOver,
        Suspend, AutoCleanup, Removed, StartFails, StartUndone,
        CleanSurplus, CleanDoomed, CleanForced, QubeEnds, AdminRemove,
        Request, RequestFresh, RequestBreaks, Fresh, GetPreload, GetTimesOut,
        ToolUnpause, Resume, Unpaused, UseEnd, UseTimesOut, UseFails,
        vars, queueVars, markVars, reapVars, callVars, envVars,
        RemoveExcess, Keeps, ForcedCleanup, LeaveDomains, Delete, Unlist,
        UseBegin, TakeOff,
        Admin
    <3>2. Cardinality(list') <= Cardinality(list) /\ Cardinality(list') \in Nat
      BY <2>0, <3>1, FS_Subset, FS_CardinalityType
    <3> QED
      BY <2>0, <3>2
  <2> QED
    BY <2>1, <2>2, <2>3
<1> QED
  BY <1>1, QueueInvariant, PTL DEF Spec, GrowsWithinMax

(* Unless preloaded qubes are unpaused by hand, no two callers ever get    *)
(* the same disposable, also across restarts of qubesd.                    *)
THEOREM NeverDeliveredTwice ==
  ASSUME Tools = {}
  PROVE  Spec => []DeliveredOnce
<1>1. HandOutInv => DeliveredOnce
  BY DEF HandOutInv, SeparateInv, DeliveredOnce
<1> QED
  BY <1>1, HandOutInvariant, PTL

(* And a delivered qube that lives is marked as used in memory and on      *)
(* disk, with its network changes applied.                                 *)
THEOREM DeliveredIsUsed ==
  ASSUME Tools = {}
  PROVE  Spec => []DeliveredUsed
<1>1. HandOutInv => DeliveredUsed
  BY DEF HandOutInv, DeliveredInv, DeliveredUsed, IsPreload
<1> QED
  BY <1>1, HandOutInvariant, PTL

(* And lowering the maximum never destroys a requested or delivered qube.  *)
THEOREM SurplusIsUnwanted ==
  ASSUME Tools = {}
  PROVE  Spec => []SurplusUnwanted
<1>1. ASSUME HandOutInv, NEW q \in surplus
      PROVE  ~IsPreload(q) /\ \A c \in Users : got[c] # q
  <2>1. ~IsPreload(q)
    BY <1>1 DEF HandOutInv, ServingInv, IsPreload
  <2>2. q # None
    BY <1>1, ActorsDistinct DEF HandOutInv, QueueInv, TypeOK
  <2> QED
    BY <1>1, <2>1, <2>2 DEF HandOutInv, DeliveredInv
<1>2. HandOutInv => SurplusUnwanted
  BY <1>1 DEF SurplusUnwanted
<1> QED
  BY <1>2, HandOutInvariant, PTL

(* Nobody, a caller of admin.vm.Unpause included, is ever answered with a  *)
(* paused qube, also across restarts of qubesd.                            *)
THEOREM DeliveredStaysAwake == Spec => []DeliveredAwake
<1>1. QueueInv /\ AwakeInv => DeliveredAwake
  BY DEF AwakeInv, DeliveredAwake, Callers
<1> QED
  BY <1>1, PauseInvariant, PTL

(* Unless preloaded qubes are unpaused by hand, an answer is a qube that   *)
(* is awake and, while it lives, marked as used in memory and on disk.     *)
THEOREM DeliveredIsReady ==
  ASSUME Tools = {}
  PROVE  Spec => []DeliveredReady
<1>1. DeliveredAwake /\ DeliveredUsed => DeliveredReady
  BY DEF DeliveredReady
<1> QED
  BY <1>1, DeliveredStaysAwake, DeliveredIsUsed, PTL

(* As long as qubesd does not restart, a paused qube is on the list, in    *)
(* the hands of a caller who will unpause it, or about to be cleaned up,   *)
(* whatever fails on the way.                                              *)
THEOREM PausedIsAccounted == Spec => []PausedAccounted
<1>1. AccountInv => PausedAccounted
  BY DEF AccountInv, PausedAccounted, MayBePaused
<1> QED
  BY <1>1, PauseInvariant, PTL
=============================================================================
