---------------------------- MODULE ReflinkVolume_proofs ----------------------------
(***************************************************************************)
(* Proofs about ReflinkVolume, for any number of writes, revisions, callers*)
(* and failures, and any values of revisions_to_keep; about FileVolume,    *)
(* CallbackPool and QubeTemplates, for any number of sessions, calls,      *)
(* qubes and restarts.                                                     *)
(***************************************************************************)
EXTENDS ReflinkVolume, FileVolume, CallbackPool, QubeTemplates, FiniteSetTheorems, TLAPS

USE ReflinkAssumption DEF ReflinkAssumption

ReflinkInv == TypeOK /\ CallInv /\ UploadInv /\ KeptInv /\ CommittedIsWhole

(* TypeOK but for the flags, which need another prover.                    *)
TypeRest ==
    /\ {clean, dirty, pre, imp} \subseteq Known \cup {0}
    /\ writer \in Imports \cup {Nobody}
    /\ revs \in [Numbers -> Known \cup {0}]
    /\ keep \in Keeps
    /\ qube \in {"off", "starting", "on", "ended", "recovering"}
    /\ op \in Calls /\ pc \in Pcs /\ todo \subseteq Numbers
    /\ up \in [Imports -> {"none", "writing", "written"}]
    /\ last \in 0..MaxData /\ upsets \in 0..MaxUpsets

LEMMA SurplusType == Surplus \subseteq Numbers
  BY DEF Surplus, Revisions
LEMMA SurplusTypeNext == Surplus' \subseteq Numbers
  BY DEF Surplus, Revisions

(* Every variable keeps its type.                                          *)
LEMMA TypeStep == ReflinkInv /\ [Next]_vars => TypeOK'
<1> SUFFICES ASSUME TypeOK, TypeRest, CallInv, [Next]_vars
             PROVE TypeOK'
  BY DEF ReflinkInv, TypeOK, TypeRest
<1>1. CASE Raise
  <2>1. overlapped' \in BOOLEAN /\ turned' \in BOOLEAN
    BY <1>1, Zenon
      DEF Raise, CanWork, NewClean, Upset, End, QubeAfter, TypeOK, files,
          call, count
  <2>2. TypeRest'
    BY <1>1, SurplusType, SurplusTypeNext, SMT
      DEF Raise, CanWork, NewClean, Upset, End, QubeAfter, TypeRest,
          CallInv, Data, Foreign, Torn, Known, Numbers, Calls, Pcs, files,
          call, count
  <2>3. QED
    BY <2>1, <2>2 DEF TypeOK, TypeRest
<1>2. CASE StartBegin
  BY <1>2, SMT
    DEF StartBegin, Begin, TypeOK, CallInv, Data, Foreign, Torn, Known,
        Numbers, Calls, Pcs, files, call, count
<1>3. CASE RemoveImport
  <2>1. overlapped' \in BOOLEAN /\ turned' \in BOOLEAN
    BY <1>3, Zenon
      DEF RemoveImport, AfterUnimport, Started, At, Goto, End, QubeAfter,
          SnapshotsDisabled, Revisions, TypeOK, files, call, count
  <2>2. TypeRest'
    BY <1>3, SurplusType, SurplusTypeNext, SMT
      DEF RemoveImport, AfterUnimport, Started, At, Goto, End, QubeAfter,
          SnapshotsDisabled, Revisions, TypeRest, CallInv, Data, Foreign,
          Torn, Known, Numbers, Calls, Pcs, files, call, count
  <2>3. QED
    BY <2>1, <2>2 DEF TypeOK, TypeRest
<1>4. CASE RemovePrecache
  <2>1. overlapped' \in BOOLEAN /\ turned' \in BOOLEAN
    BY <1>4, Zenon
      DEF RemovePrecache, Started, At, Goto, End, QubeAfter, TypeOK,
          files, call, count
  <2>2. {clean, dirty, pre, imp}' \subseteq Known \cup {0} /\ writer' \in Imports \cup {Nobody}
    BY <1>4, SurplusType, SurplusTypeNext, SMT
      DEF RemovePrecache, Started, At, Goto, End, QubeAfter, TypeRest,
          CallInv, Data, Foreign, Torn, Known, Numbers, Calls, Pcs, files,
          call, count
  <2>3. revs' \in [Numbers -> Known \cup {0}]
    BY <1>4, SurplusType, SurplusTypeNext, SMT
      DEF RemovePrecache, Started, At, Goto, End, QubeAfter, TypeRest,
          CallInv, Data, Foreign, Torn, Known, Numbers, Calls, Pcs, files,
          call, count
  <2>4. qube' \in {"off", "starting", "on", "ended", "recovering"}
    BY <1>4, SurplusType, SurplusTypeNext, SMT
      DEF RemovePrecache, Started, At, Goto, End, QubeAfter, TypeRest,
          CallInv, Data, Foreign, Torn, Known, Numbers, Calls, Pcs, files,
          call, count
  <2>5. op' \in Calls
    BY <1>4, SurplusType, SurplusTypeNext
      DEF RemovePrecache, Started, At, Goto, End, QubeAfter, TypeRest,
          CallInv, Data, Foreign, Torn, Known, Numbers, Calls, Pcs, files,
          call, count
  <2>6. pc' \in Pcs
    BY <1>4, SurplusType, SurplusTypeNext
      DEF RemovePrecache, Started, At, Goto, End, QubeAfter, TypeRest,
          CallInv, Data, Foreign, Torn, Known, Numbers, Calls, Pcs, files,
          call, count
  <2>7. todo' \subseteq Numbers
    BY <1>4, SurplusType, SurplusTypeNext
      DEF RemovePrecache, Started, At, Goto, End, QubeAfter, TypeRest,
          CallInv, Data, Foreign, Torn, Known, Numbers, Calls, Pcs, files,
          call, count
  <2>8. keep' \in Keeps /\ up' \in [Imports -> {"none", "writing", "written"}]
    /\ last' \in 0..MaxData /\ upsets' \in 0..MaxUpsets
    BY <1>4, SurplusType, SurplusTypeNext, SMT
      DEF RemovePrecache, Started, At, Goto, End, QubeAfter, TypeRest,
          CallInv, Data, Foreign, Torn, Known, Numbers, Calls, Pcs, files,
          call, count
  <2>9. QED
    BY <2>1, <2>2, <2>3, <2>4, <2>5, <2>6, <2>7, <2>8 DEF TypeOK
<1>5. CASE TakeClean
  <2>1. overlapped' \in BOOLEAN /\ turned' \in BOOLEAN
    BY <1>5, Zenon
      DEF TakeClean, CanWork, Started, At, End, QubeAfter, TypeOK, files,
          call, count
  <2>2. TypeRest'
    BY <1>5, SurplusType, SurplusTypeNext, SMT
      DEF TakeClean, CanWork, Started, At, End, QubeAfter, TypeRest,
          CallInv, Data, Foreign, Torn, Known, Numbers, Calls, Pcs, files,
          call, count
  <2>3. QED
    BY <2>1, <2>2 DEF TypeOK, TypeRest
<1>6. CASE RemoveStale
  BY <1>6, SMT
    DEF RemoveStale, IsStale, CanWork, At, Goto, TypeOK, CallInv, Data,
        Foreign, Torn, Known, Numbers, Calls, Pcs, files, call, count
<1>7. CASE CopyClean
  <2>1. overlapped' \in BOOLEAN /\ turned' \in BOOLEAN
    BY <1>7, Zenon
      DEF CopyClean, CanWork, Started, At, End, QubeAfter, TypeOK, files,
          call, count
  <2>2. TypeRest'
    BY <1>7, SurplusType, SurplusTypeNext, SMT
      DEF CopyClean, CanWork, Started, At, End, QubeAfter, TypeRest,
          CallInv, Data, Foreign, Torn, Known, Numbers, Calls, Pcs, files,
          call, count
  <2>3. QED
    BY <2>1, <2>2 DEF TypeOK, TypeRest
<1>8. CASE Write
  BY <1>8, SMT
    DEF Write, TypeOK, CallInv, Data, Foreign, Torn, Known, Numbers, Calls,
        Pcs, files, call, count
<1>9. CASE DomainEnds
  BY <1>9, SMT
    DEF DomainEnds, TypeOK, CallInv, Data, Foreign, Torn, Known, Numbers,
        Calls, Pcs, files, call, count
<1>10. CASE StopBegin
  <2>1. overlapped' \in BOOLEAN /\ turned' \in BOOLEAN
    BY <1>10, Zenon
      DEF StopBegin, Begin, Commit, EnterCommit, SnapshotsDisabled,
          TypeOK, files, call, count
  <2>2. {clean, dirty, pre, imp}' \subseteq Known \cup {0} /\ writer' \in Imports \cup {Nobody}
    BY <1>10, SurplusType, SurplusTypeNext, SMT
      DEF StopBegin, Begin, Commit, EnterCommit, SnapshotsDisabled,
          TypeRest, CallInv, Data, Foreign, Torn, Known, Numbers, Calls,
          Pcs, files, call, count
  <2>3. revs' \in [Numbers -> Known \cup {0}]
    BY <1>10, SurplusType, SurplusTypeNext, SMT
      DEF StopBegin, Begin, Commit, EnterCommit, SnapshotsDisabled,
          TypeRest, CallInv, Data, Foreign, Torn, Known, Numbers, Calls,
          Pcs, files, call, count
  <2>4. qube' \in {"off", "starting", "on", "ended", "recovering"}
    BY <1>10, SurplusType, SurplusTypeNext, SMT
      DEF StopBegin, Begin, Commit, EnterCommit, SnapshotsDisabled,
          TypeRest, CallInv, Data, Foreign, Torn, Known, Numbers, Calls,
          Pcs, files, call, count
  <2>5. op' \in Calls
    BY <1>10, SurplusType, SurplusTypeNext
      DEF StopBegin, Begin, Commit, EnterCommit, SnapshotsDisabled,
          TypeRest, CallInv, Data, Foreign, Torn, Known, Numbers, Calls,
          Pcs, files, call, count
  <2>6. pc' \in Pcs
    BY <1>10, SurplusType, SurplusTypeNext
      DEF StopBegin, Begin, Commit, EnterCommit, SnapshotsDisabled,
          TypeRest, CallInv, Data, Foreign, Torn, Known, Numbers, Calls,
          Pcs, files, call, count
  <2>7. todo' \subseteq Numbers
    BY <1>10, SurplusType, SurplusTypeNext
      DEF StopBegin, Begin, Commit, EnterCommit, SnapshotsDisabled,
          TypeRest, CallInv, Data, Foreign, Torn, Known, Numbers, Calls,
          Pcs, files, call, count
  <2>8. keep' \in Keeps /\ up' \in [Imports -> {"none", "writing", "written"}]
    /\ last' \in 0..MaxData /\ upsets' \in 0..MaxUpsets
    BY <1>10, SurplusType, SurplusTypeNext, SMT
      DEF StopBegin, Begin, Commit, EnterCommit, SnapshotsDisabled,
          TypeRest, CallInv, Data, Foreign, Torn, Known, Numbers, Calls,
          Pcs, files, call, count
  <2>9. QED
    BY <2>1, <2>2, <2>3, <2>4, <2>5, <2>6, <2>7, <2>8 DEF TypeOK
<1>11. CASE AddRevision
  <2>1. overlapped' \in BOOLEAN /\ turned' \in BOOLEAN
    BY <1>11, Zenon
      DEF AddRevision, At, Goto, CanWork, NextRevision, IsNext, TypeOK,
          files, call, count
  <2>2. {clean, dirty, pre, imp}' \subseteq Known \cup {0} /\ writer' \in Imports \cup {Nobody}
    BY <1>11, SurplusType, SurplusTypeNext, SMT
      DEF AddRevision, At, Goto, CanWork, NextRevision, IsNext, TypeRest,
          CallInv, Data, Foreign, Torn, Known, Numbers, Calls, Pcs, files,
          call, count
  <2>3. revs' \in [Numbers -> Known \cup {0}]
    BY <1>11, SurplusType, SurplusTypeNext, SMT
      DEF AddRevision, At, Goto, CanWork, NextRevision, IsNext, TypeRest,
          CallInv, Data, Foreign, Torn, Known, Numbers, Calls, Pcs, files,
          call, count
  <2>4. qube' \in {"off", "starting", "on", "ended", "recovering"}
    BY <1>11, SurplusType, SurplusTypeNext, SMT
      DEF AddRevision, At, Goto, CanWork, NextRevision, IsNext, TypeRest,
          CallInv, Data, Foreign, Torn, Known, Numbers, Calls, Pcs, files,
          call, count
  <2>5. op' \in Calls
    BY <1>11, SurplusType, SurplusTypeNext
      DEF AddRevision, At, Goto, CanWork, NextRevision, IsNext, TypeRest,
          CallInv, Data, Foreign, Torn, Known, Numbers, Calls, Pcs, files,
          call, count
  <2>6. pc' \in Pcs
    BY <1>11, SurplusType, SurplusTypeNext
      DEF AddRevision, At, Goto, CanWork, NextRevision, IsNext, TypeRest,
          CallInv, Data, Foreign, Torn, Known, Numbers, Calls, Pcs, files,
          call, count
  <2>7. todo' \subseteq Numbers
    BY <1>11, SurplusType, SurplusTypeNext
      DEF AddRevision, At, Goto, CanWork, NextRevision, IsNext, TypeRest,
          CallInv, Data, Foreign, Torn, Known, Numbers, Calls, Pcs, files,
          call, count
  <2>8. keep' \in Keeps /\ up' \in [Imports -> {"none", "writing", "written"}]
    /\ last' \in 0..MaxData /\ upsets' \in 0..MaxUpsets
    BY <1>11, SurplusType, SurplusTypeNext, SMT
      DEF AddRevision, At, Goto, CanWork, NextRevision, IsNext, TypeRest,
          CallInv, Data, Foreign, Torn, Known, Numbers, Calls, Pcs, files,
          call, count
  <2>9. QED
    BY <2>1, <2>2, <2>3, <2>4, <2>5, <2>6, <2>7, <2>8 DEF TypeOK
<1>12. CASE Prune
  BY <1>12, SMT
    DEF Prune, At, TypeOK, CallInv, Data, Foreign, Torn, Known, Numbers,
        Calls, Pcs, files, call, count
<1>13. CASE PruneEnd
  BY <1>13, SMT
    DEF PruneEnd, At, Goto, TypeOK, CallInv, Data, Foreign, Torn, Known,
        Numbers, Calls, Pcs, files, call, count
<1>14. CASE Uncache
  BY <1>14, SMT
    DEF Uncache, At, Goto, TypeOK, CallInv, Data, Foreign, Torn, Known,
        Numbers, Calls, Pcs, files, call, count
<1>15. CASE Replace
  <2>1. overlapped' \in BOOLEAN /\ turned' \in BOOLEAN
    BY <1>15, Zenon
      DEF Replace, AfterReplace, CanWork, NewClean, At, Goto, End,
          QubeAfter, SnapshotsDisabled, TypeOK, files, call, count
  <2>2. TypeRest'
    BY <1>15, SurplusType, SurplusTypeNext, SMT
      DEF Replace, AfterReplace, CanWork, NewClean, At, Goto, End,
          QubeAfter, SnapshotsDisabled, TypeRest, CallInv, Data, Foreign,
          Torn, Known, Numbers, Calls, Pcs, files, call, count
  <2>3. QED
    BY <2>1, <2>2 DEF TypeOK, TypeRest
<1>16. CASE Precache
  <2>1. overlapped' \in BOOLEAN /\ turned' \in BOOLEAN
    BY <1>16, Zenon
      DEF Precache, At, End, QubeAfter, TypeOK, files, call, count
  <2>2. TypeRest'
    BY <1>16, SurplusType, SurplusTypeNext, SMT
      DEF Precache, At, End, QubeAfter, TypeRest, CallInv, Data, Foreign,
          Torn, Known, Numbers, Calls, Pcs, files, call, count
  <2>3. QED
    BY <2>1, <2>2 DEF TypeOK, TypeRest
<1>17. CASE \E i \in Imports : ImportData(i)
  BY <1>17, SMT
    DEF ImportData, Serving, TypeOK, CallInv, Data, Foreign, Torn, Known,
        Numbers, Calls, Pcs, files, call, count
<1>18. CASE \E i \in Imports : Upload(i)
  BY <1>18, SMT
    DEF Upload, TypeOK, CallInv, Data, Foreign, Torn, Known, Numbers, Calls,
        Pcs, files, call, count
<1>19. CASE \E i \in Imports : ImportEnd(i)
  <2>1. overlapped' \in BOOLEAN /\ turned' \in BOOLEAN
    BY <1>19, Zenon
      DEF ImportEnd, Begin, EnterCommit, Commit, TypeOK, files, call,
          count
  <2>2. TypeRest'
    BY <1>19, SurplusType, SurplusTypeNext, SMT
      DEF ImportEnd, Begin, EnterCommit, Commit, TypeRest, CallInv, Data,
          Foreign, Torn, Known, Numbers, Calls, Pcs, files, call, count
  <2>3. QED
    BY <2>1, <2>2 DEF TypeOK, TypeRest
<1>20. CASE \E i \in Imports : ImportFailed(i)
  BY <1>20, SMT
    DEF ImportFailed, TypeOK, CallInv, Data, Foreign, Torn, Known, Numbers,
        Calls, Pcs, files, call, count
<1>21. CASE Clone
  <2>1. overlapped' \in BOOLEAN /\ turned' \in BOOLEAN
    BY <1>21, Zenon
      DEF Clone, Begin, EnterCommit, Commit, TypeOK, files, call, count
  <2>2. TypeRest'
    BY <1>21, SurplusType, SurplusTypeNext, SMT
      DEF Clone, Begin, EnterCommit, Commit, TypeRest, CallInv, Data,
          Foreign, Torn, Known, Numbers, Calls, Pcs, files, call, count
  <2>3. QED
    BY <2>1, <2>2 DEF TypeOK, TypeRest
<1>22. CASE RevertBegin
  BY <1>22, SMT
    DEF RevertBegin, Begin, Revisions, TypeOK, CallInv, Data, Foreign, Torn,
        Known, Numbers, Calls, Pcs, files, call, count
<1>23. CASE SetKeep
  BY <1>23, SMT
    DEF SetKeep, Upset, TypeOK, CallInv, Data, Foreign, Torn, Known,
        Numbers, Calls, Pcs, files, call, count
<1>24. CASE Edit
  BY <1>24, SMT
    DEF Edit, Upset, TypeOK, CallInv, Data, Foreign, Torn, Known, Numbers,
        Calls, Pcs, files, call, count
<1>25. CASE Crash
  <2>1. overlapped' \in BOOLEAN /\ turned' \in BOOLEAN
    BY <1>25, Zenon
      DEF Crash, Upset, End, TypeOK, files, call, count
  <2>2. TypeRest'
    BY <1>25, SurplusType, SurplusTypeNext, SMT
      DEF Crash, Upset, End, TypeRest, CallInv, Data, Foreign, Torn,
          Known, Numbers, Calls, Pcs, files, call, count
  <2>3. QED
    BY <2>1, <2>2 DEF TypeOK, TypeRest
<1>26. CASE UNCHANGED vars
  BY <1>26, SMT
    DEF vars, TypeOK, CallInv, Data, Foreign, Torn, Known, Numbers, Calls,
        Pcs, files, call, count
<1>27. QED
  BY <1>1, <1>2, <1>3, <1>4, <1>5, <1>6, <1>7, <1>8, <1>9, <1>10, <1>11,
     <1>12, <1>13, <1>14, <1>15, <1>16, <1>17, <1>18, <1>19, <1>20, <1>21,
     <1>22, <1>23, <1>24, <1>25, <1>26
    DEF Next

(* A call goes through its own steps, and ends.                            *)
LEMMA CallStep == ReflinkInv /\ [Next]_vars => CallInv'
<1> SUFFICES ASSUME CallInv, TypeOK, [Next]_vars
             PROVE CallInv'
  BY DEF ReflinkInv
<1>1. CASE Raise
  BY <1>1, SMT
    DEF Raise, CanWork, NewClean, Upset, End, QubeAfter, CallInv, TypeOK,
        Known, Torn, files, call, count
<1>2. CASE StartBegin
  BY <1>2, SMT
    DEF StartBegin, Begin, CallInv, TypeOK, Known, Torn, files, call, count
<1>3. CASE RemoveImport
  BY <1>3, SMT
    DEF RemoveImport, AfterUnimport, Started, At, Goto, End, QubeAfter,
        SnapshotsDisabled, Revisions, CallInv, TypeOK, Known, Torn, files,
        call, count
<1>4. CASE RemovePrecache
  BY <1>4, SMT
    DEF RemovePrecache, Started, At, Goto, End, QubeAfter, CallInv, TypeOK,
        Known, Torn, files, call, count
<1>5. CASE TakeClean
  BY <1>5, SMT
    DEF TakeClean, CanWork, Started, At, End, QubeAfter, CallInv, TypeOK,
        Known, Torn, files, call, count
<1>6. CASE RemoveStale
  BY <1>6, SMT
    DEF RemoveStale, IsStale, CanWork, At, Goto, CallInv, TypeOK, Known,
        Torn, files, call, count
<1>7. CASE CopyClean
  BY <1>7, SMT
    DEF CopyClean, CanWork, Started, At, End, QubeAfter, CallInv, TypeOK,
        Known, Torn, files, call, count
<1>8. CASE Write
  BY <1>8, SMT
    DEF Write, CallInv, TypeOK, Known, Torn, files, call, count
<1>9. CASE DomainEnds
  BY <1>9, SMT
    DEF DomainEnds, CallInv, TypeOK, Known, Torn, files, call, count
<1>10. CASE StopBegin
  BY <1>10, SMT
    DEF StopBegin, Begin, Commit, EnterCommit, SnapshotsDisabled, CallInv,
        TypeOK, Known, Torn, files, call, count
<1>11. CASE AddRevision
  BY <1>11, SMT
    DEF AddRevision, At, Goto, CanWork, NextRevision, IsNext, CallInv,
        TypeOK, Known, Torn, files, call, count
<1>12. CASE Prune
  BY <1>12, SMT
    DEF Prune, At, CallInv, TypeOK, Known, Torn, files, call, count
<1>13. CASE PruneEnd
  BY <1>13, SMT
    DEF PruneEnd, At, Goto, CallInv, TypeOK, Known, Torn, files, call, count
<1>14. CASE Uncache
  BY <1>14, SMT
    DEF Uncache, At, Goto, CallInv, TypeOK, Known, Torn, files, call, count
<1>15. CASE Replace
  BY <1>15, SMT
    DEF Replace, AfterReplace, CanWork, NewClean, At, Goto, End, QubeAfter,
        SnapshotsDisabled, CallInv, TypeOK, Known, Torn, files, call, count
<1>16. CASE Precache
  BY <1>16, SMT
    DEF Precache, At, End, QubeAfter, CallInv, TypeOK, Known, Torn, files,
        call, count
<1>17. CASE \E i \in Imports : ImportData(i)
  BY <1>17, SMT
    DEF ImportData, Serving, CallInv, TypeOK, Known, Torn, files, call,
        count
<1>18. CASE \E i \in Imports : Upload(i)
  BY <1>18, SMT
    DEF Upload, CallInv, TypeOK, Known, Torn, files, call, count
<1>19. CASE \E i \in Imports : ImportEnd(i)
  BY <1>19, SMT
    DEF ImportEnd, Begin, EnterCommit, Commit, CallInv, TypeOK, Known, Torn,
        files, call, count
<1>20. CASE \E i \in Imports : ImportFailed(i)
  BY <1>20, SMT
    DEF ImportFailed, CallInv, TypeOK, Known, Torn, files, call, count
<1>21. CASE Clone
  BY <1>21, SMT
    DEF Clone, Begin, EnterCommit, Commit, CallInv, TypeOK, Known, Torn,
        files, call, count
<1>22. CASE RevertBegin
  BY <1>22, SMT
    DEF RevertBegin, Begin, Revisions, CallInv, TypeOK, Known, Torn, files,
        call, count
<1>23. CASE SetKeep
  BY <1>23, SMT
    DEF SetKeep, Upset, CallInv, TypeOK, Known, Torn, files, call, count
<1>24. CASE Edit
  BY <1>24, SMT
    DEF Edit, Upset, CallInv, TypeOK, Known, Torn, files, call, count
<1>25. CASE Crash
  BY <1>25, SMT
    DEF Crash, Upset, End, CallInv, TypeOK, Known, Torn, files, call, count
<1>26. CASE UNCHANGED vars
  BY <1>26, SMT
    DEF vars, CallInv, TypeOK, Known, Torn, files, call, count
<1>27. QED
  BY <1>1, <1>2, <1>3, <1>4, <1>5, <1>6, <1>7, <1>8, <1>9, <1>10, <1>11,
     <1>12, <1>13, <1>14, <1>15, <1>16, <1>17, <1>18, <1>19, <1>20, <1>21,
     <1>22, <1>23, <1>24, <1>25, <1>26
    DEF Next

(* An import that has ended is whole, unless another one began meanwhile.  *)
LEMMA UploadStep == ReflinkInv /\ [Next]_vars => UploadInv'
<1> SUFFICES ASSUME UploadInv, CallInv, TypeOK, [Next]_vars
             PROVE UploadInv'
  BY DEF ReflinkInv
<1>1. CASE Raise
  BY <1>1, SMT
    DEF Raise, CanWork, NewClean, Upset, End, QubeAfter, UploadInv, CallInv,
        TypeOK, Data, Foreign, Torn, files, call, count
<1>2. CASE StartBegin
  BY <1>2, SMT
    DEF StartBegin, Begin, UploadInv, CallInv, TypeOK, Data, Foreign, Torn,
        files, call, count
<1>3. CASE RemoveImport
  BY <1>3, SMT
    DEF RemoveImport, AfterUnimport, Started, At, Goto, End, QubeAfter,
        SnapshotsDisabled, Revisions, UploadInv, CallInv, TypeOK, Data,
        Foreign, Torn, files, call, count
<1>4. CASE RemovePrecache
  BY <1>4, SMT
    DEF RemovePrecache, Started, At, Goto, End, QubeAfter, UploadInv,
        CallInv, TypeOK, Data, Foreign, Torn, files, call, count
<1>5. CASE TakeClean
  BY <1>5, SMT
    DEF TakeClean, CanWork, Started, At, End, QubeAfter, UploadInv, CallInv,
        TypeOK, Data, Foreign, Torn, files, call, count
<1>6. CASE RemoveStale
  BY <1>6, SMT
    DEF RemoveStale, IsStale, CanWork, At, Goto, UploadInv, CallInv, TypeOK,
        Data, Foreign, Torn, files, call, count
<1>7. CASE CopyClean
  BY <1>7, SMT
    DEF CopyClean, CanWork, Started, At, End, QubeAfter, UploadInv, CallInv,
        TypeOK, Data, Foreign, Torn, files, call, count
<1>8. CASE Write
  BY <1>8, SMT
    DEF Write, UploadInv, CallInv, TypeOK, Data, Foreign, Torn, files, call,
        count
<1>9. CASE DomainEnds
  BY <1>9, SMT
    DEF DomainEnds, UploadInv, CallInv, TypeOK, Data, Foreign, Torn, files,
        call, count
<1>10. CASE StopBegin
  BY <1>10, SMT
    DEF StopBegin, Begin, Commit, EnterCommit, SnapshotsDisabled, UploadInv,
        CallInv, TypeOK, Data, Foreign, Torn, files, call, count
<1>11. CASE AddRevision
  BY <1>11, SMT
    DEF AddRevision, At, Goto, CanWork, NextRevision, IsNext, UploadInv,
        CallInv, TypeOK, Data, Foreign, Torn, files, call, count
<1>12. CASE Prune
  BY <1>12, SMT
    DEF Prune, At, UploadInv, CallInv, TypeOK, Data, Foreign, Torn, files,
        call, count
<1>13. CASE PruneEnd
  BY <1>13, SMT
    DEF PruneEnd, At, Goto, UploadInv, CallInv, TypeOK, Data, Foreign, Torn,
        files, call, count
<1>14. CASE Uncache
  BY <1>14, SMT
    DEF Uncache, At, Goto, UploadInv, CallInv, TypeOK, Data, Foreign, Torn,
        files, call, count
<1>15. CASE Replace
  BY <1>15, SMT
    DEF Replace, AfterReplace, CanWork, NewClean, At, Goto, End, QubeAfter,
        SnapshotsDisabled, UploadInv, CallInv, TypeOK, Data, Foreign, Torn,
        files, call, count
<1>16. CASE Precache
  BY <1>16, SMT
    DEF Precache, At, End, QubeAfter, UploadInv, CallInv, TypeOK, Data,
        Foreign, Torn, files, call, count
<1>17. CASE \E i \in Imports : ImportData(i)
  <2> SUFFICES ASSUME ~overlapped' PROVE UploadInv'
    BY DEF UploadInv
  <2>1. PICK i \in Imports : ImportData(i)
    BY <1>17
  <2>2. overlapped' = (overlapped \/ \E j \in Imports : up[j] # "none")
    BY <2>1 DEF ImportData
  <2>3. \A j \in Imports : up[j] = "none"
    BY <2>2
  <2>4. /\ up' = [up EXCEPT ![i] = "writing"] /\ writer' = i
        /\ op' = "none"
    BY <2>1, SMT DEF ImportData, call
  <2>5. QED
    BY <2>3, <2>4, SMT DEF UploadInv, TypeOK
<1>18. CASE \E i \in Imports : Upload(i)
  <2> SUFFICES ASSUME ~overlapped PROVE UploadInv'
    BY <1>18 DEF UploadInv, Upload
  <2>1. PICK i \in Imports : Upload(i)
    BY <1>18
  <2>2. /\ up' = [up EXCEPT ![i] = "written"] /\ up[i] = "writing"
        /\ imp' = IF writer = i THEN last' ELSE imp
        /\ last' = last + 1 /\ last < MaxData
        /\ op' = op /\ writer' = writer
    BY <2>1, SMT DEF Upload, call
  <2>3. last' # Torn
    BY <2>2, SMT DEF TypeOK, Torn
  <2>4. /\ \A j \in Imports : up[j] = "writing" => writer = j \/ imp # Torn
        /\ \A j \in Imports : up[j] = "written" => imp # Torn
        /\ \A j, k \in Imports : j # k => "none" \in {up[j], up[k]}
        /\ op \in {"importEnd", "clone"} => imp # Torn
    BY Zenon DEF UploadInv
  <2>5. up \in [Imports -> {"none", "writing", "written"}]
    BY DEF TypeOK
  <2>6. imp' # Torn
    BY <2>2, <2>3, <2>4
  <2>7. \A j, k \in Imports : j # k => "none" \in {up'[j], up'[k]}
    BY <2>2, <2>4, <2>5
  <2>8. QED
    BY <2>6, <2>7 DEF UploadInv
<1>19. CASE \E i \in Imports : ImportEnd(i)
  BY <1>19, SMT
    DEF ImportEnd, Begin, EnterCommit, Commit, UploadInv, CallInv, TypeOK,
        Data, Foreign, Torn, files, call, count
<1>20. CASE \E i \in Imports : ImportFailed(i)
  BY <1>20, SMT
    DEF ImportFailed, UploadInv, CallInv, TypeOK, Data, Foreign, Torn,
        files, call, count
<1>21. CASE Clone
  BY <1>21, SMT
    DEF Clone, Begin, EnterCommit, Commit, UploadInv, CallInv, TypeOK, Data,
        Foreign, Torn, files, call, count
<1>22. CASE RevertBegin
  BY <1>22, SMT
    DEF RevertBegin, Begin, Revisions, UploadInv, CallInv, TypeOK, Data,
        Foreign, Torn, files, call, count
<1>23. CASE SetKeep
  BY <1>23, SMT
    DEF SetKeep, Upset, UploadInv, CallInv, TypeOK, Data, Foreign, Torn,
        files, call, count
<1>24. CASE Edit
  BY <1>24, SMT
    DEF Edit, Upset, UploadInv, CallInv, TypeOK, Data, Foreign, Torn, files,
        call, count
<1>25. CASE Crash
  BY <1>25, SMT
    DEF Crash, Upset, End, UploadInv, CallInv, TypeOK, Data, Foreign, Torn,
        files, call, count
<1>26. CASE UNCHANGED vars
  BY <1>26, SMT
    DEF vars, UploadInv, CallInv, TypeOK, Data, Foreign, Torn, files, call,
        count
<1>27. QED
  BY <1>1, <1>2, <1>3, <1>4, <1>5, <1>6, <1>7, <1>8, <1>9, <1>10, <1>11,
     <1>12, <1>13, <1>14, <1>15, <1>16, <1>17, <1>18, <1>19, <1>20, <1>21,
     <1>22, <1>23, <1>24, <1>25, <1>26
    DEF Next

(* No step makes an image of a torn import.                                *)
LEMMA WholeStep == ReflinkInv /\ [Next]_vars => CommittedIsWhole'
<1> SUFFICES ASSUME CommittedIsWhole, UploadInv, CallInv, TypeOK, [Next]_vars
             PROVE CommittedIsWhole'
  BY DEF ReflinkInv
<1>1. CASE Raise
  BY <1>1, SMT
    DEF Raise, CanWork, NewClean, Upset, End, QubeAfter, CommittedIsWhole,
        UploadInv, CallInv, TypeOK, Data, Foreign, Torn, Known, Numbers,
        files, call, count
<1>2. CASE StartBegin
  BY <1>2, SMT
    DEF StartBegin, Begin, CommittedIsWhole, UploadInv, CallInv, TypeOK,
        Data, Foreign, Torn, Known, Numbers, files, call, count
<1>3. CASE RemoveImport
  BY <1>3, SMT
    DEF RemoveImport, AfterUnimport, Started, At, Goto, End, QubeAfter,
        SnapshotsDisabled, Revisions, CommittedIsWhole, UploadInv, CallInv,
        TypeOK, Data, Foreign, Torn, Known, Numbers, files, call, count
<1>4. CASE RemovePrecache
  BY <1>4, SMT
    DEF RemovePrecache, Started, At, Goto, End, QubeAfter, CommittedIsWhole,
        UploadInv, CallInv, TypeOK, Data, Foreign, Torn, Known, Numbers,
        files, call, count
<1>5. CASE TakeClean
  BY <1>5, SMT
    DEF TakeClean, CanWork, Started, At, End, QubeAfter, CommittedIsWhole,
        UploadInv, CallInv, TypeOK, Data, Foreign, Torn, Known, Numbers,
        files, call, count
<1>6. CASE RemoveStale
  <2> SUFFICES ASSUME ~overlapped
               PROVE Torn \notin {clean', dirty', pre'} /\ \A n \in Numbers : revs'[n] # Torn
    BY <1>6 DEF CommittedIsWhole, RemoveStale
  <2>1. /\ Torn \notin {clean, dirty, pre} /\ Torn # 0
        /\ \A n \in Numbers : revs[n] # Torn
    BY SMT DEF CommittedIsWhole, Torn
  <2>2. QED
    BY <1>6, <2>1 DEF RemoveStale
<1>7. CASE CopyClean
  BY <1>7, SMT
    DEF CopyClean, CanWork, Started, At, End, QubeAfter, CommittedIsWhole,
        UploadInv, CallInv, TypeOK, Data, Foreign, Torn, Known, Numbers,
        files, call, count
<1>8. CASE Write
  BY <1>8, SMT
    DEF Write, CommittedIsWhole, UploadInv, CallInv, TypeOK, Data, Foreign,
        Torn, Known, Numbers, files, call, count
<1>9. CASE DomainEnds
  BY <1>9, SMT
    DEF DomainEnds, CommittedIsWhole, UploadInv, CallInv, TypeOK, Data,
        Foreign, Torn, Known, Numbers, files, call, count
<1>10. CASE StopBegin
  BY <1>10, SMT
    DEF StopBegin, Begin, Commit, EnterCommit, SnapshotsDisabled,
        CommittedIsWhole, UploadInv, CallInv, TypeOK, Data, Foreign, Torn,
        Known, Numbers, files, call, count
<1>11. CASE AddRevision
  BY <1>11, SMT
    DEF AddRevision, At, Goto, CanWork, NextRevision, IsNext,
        CommittedIsWhole, UploadInv, CallInv, TypeOK, Data, Foreign, Torn,
        Known, Numbers, files, call, count
<1>12. CASE Prune
  BY <1>12, SMT
    DEF Prune, At, CommittedIsWhole, UploadInv, CallInv, TypeOK, Data,
        Foreign, Torn, Known, Numbers, files, call, count
<1>13. CASE PruneEnd
  BY <1>13, SMT
    DEF PruneEnd, At, Goto, CommittedIsWhole, UploadInv, CallInv, TypeOK,
        Data, Foreign, Torn, Known, Numbers, files, call, count
<1>14. CASE Uncache
  BY <1>14, SMT
    DEF Uncache, At, Goto, CommittedIsWhole, UploadInv, CallInv, TypeOK,
        Data, Foreign, Torn, Known, Numbers, files, call, count
<1>15. CASE Replace
  <2> SUFFICES ASSUME ~overlapped
               PROVE Torn \notin {clean', dirty', pre'} /\ \A n \in Numbers : revs'[n] # Torn
    BY <1>15 DEF CommittedIsWhole, Replace
  <2>1. /\ Torn \notin {clean, dirty, pre} /\ Torn # 0
        /\ \A n \in Numbers : revs[n] # Torn
    BY SMT DEF CommittedIsWhole, Torn
  <2>2. op \in {"stop", "importEnd", "clone", "revert"}
    BY <1>15, SMT DEF Replace, At, CallInv, TypeOK, Calls
  <2>3. op \in {"importEnd", "clone"} => imp # Torn
    BY Zenon DEF UploadInv
  <2>4. op # "revert" => NewClean # Torn
    BY <2>1, <2>2, <2>3 DEF NewClean
  <2>5. todo \subseteq Numbers
    BY DEF TypeOK
  <2>6. clean' # Torn /\ \A n \in Numbers : revs'[n] # Torn
    BY <1>15, <2>1, <2>2, <2>4, <2>5, SMT DEF Replace, TypeOK
  <2>7. dirty' \in {0, dirty} /\ pre' = pre
    BY <1>15, Zenon DEF Replace
  <2>8. QED
    BY <2>1, <2>6, <2>7
<1>16. CASE Precache
  BY <1>16, SMT
    DEF Precache, At, End, QubeAfter, CommittedIsWhole, UploadInv, CallInv,
        TypeOK, Data, Foreign, Torn, Known, Numbers, files, call, count
<1>17. CASE \E i \in Imports : ImportData(i)
  BY <1>17, SMT
    DEF ImportData, Serving, CommittedIsWhole, UploadInv, CallInv, TypeOK,
        Data, Foreign, Torn, Known, Numbers, files, call, count
<1>18. CASE \E i \in Imports : Upload(i)
  BY <1>18, SMT
    DEF Upload, CommittedIsWhole, UploadInv, CallInv, TypeOK, Data, Foreign,
        Torn, Known, Numbers, files, call, count
<1>19. CASE \E i \in Imports : ImportEnd(i)
  BY <1>19, SMT
    DEF ImportEnd, Begin, EnterCommit, Commit, CommittedIsWhole, UploadInv,
        CallInv, TypeOK, Data, Foreign, Torn, Known, Numbers, files, call,
        count
<1>20. CASE \E i \in Imports : ImportFailed(i)
  BY <1>20, SMT
    DEF ImportFailed, CommittedIsWhole, UploadInv, CallInv, TypeOK, Data,
        Foreign, Torn, Known, Numbers, files, call, count
<1>21. CASE Clone
  BY <1>21, SMT
    DEF Clone, Begin, EnterCommit, Commit, CommittedIsWhole, UploadInv,
        CallInv, TypeOK, Data, Foreign, Torn, Known, Numbers, files, call,
        count
<1>22. CASE RevertBegin
  BY <1>22, SMT
    DEF RevertBegin, Begin, Revisions, CommittedIsWhole, UploadInv, CallInv,
        TypeOK, Data, Foreign, Torn, Known, Numbers, files, call, count
<1>23. CASE SetKeep
  BY <1>23, SMT
    DEF SetKeep, Upset, CommittedIsWhole, UploadInv, CallInv, TypeOK, Data,
        Foreign, Torn, Known, Numbers, files, call, count
<1>24. CASE Edit
  BY <1>24, SMT
    DEF Edit, Upset, CommittedIsWhole, UploadInv, CallInv, TypeOK, Data,
        Foreign, Torn, Known, Numbers, files, call, count
<1>25. CASE Crash
  BY <1>25, SMT
    DEF Crash, Upset, End, CommittedIsWhole, UploadInv, CallInv, TypeOK,
        Data, Foreign, Torn, Known, Numbers, files, call, count
<1>26. CASE UNCHANGED vars
  BY <1>26, SMT
    DEF vars, CommittedIsWhole, UploadInv, CallInv, TypeOK, Data, Foreign,
        Torn, Known, Numbers, files, call, count
<1>27. QED
  BY <1>1, <1>2, <1>3, <1>4, <1>5, <1>6, <1>7, <1>8, <1>9, <1>10, <1>11,
     <1>12, <1>13, <1>14, <1>15, <1>16, <1>17, <1>18, <1>19, <1>20, <1>21,
     <1>22, <1>23, <1>24, <1>25, <1>26
    DEF Next

(* What a call replaces is in a revision it does not prune.                *)
LEMMA KeptStep == ReflinkInv /\ [Next]_vars => KeptInv'
<1> SUFFICES ASSUME KeptInv, CallInv, TypeOK, [Next]_vars
             PROVE KeptInv'
  BY DEF ReflinkInv
<1>1. CASE Raise
  BY <1>1, SMT
    DEF Raise, CanWork, NewClean, Upset, End, QubeAfter, KeptInv, CallInv,
        TypeOK, Calls, Pcs, files, call, count
<1>2. CASE StartBegin
  BY <1>2, SMT
    DEF StartBegin, Begin, KeptInv, CallInv, TypeOK, Calls, Pcs, files,
        call, count
<1>3. CASE RemoveImport
  BY <1>3, SMT
    DEF RemoveImport, AfterUnimport, Started, At, Goto, End, QubeAfter,
        SnapshotsDisabled, Revisions, KeptInv, CallInv, TypeOK, Calls, Pcs,
        files, call, count
<1>4. CASE RemovePrecache
  BY <1>4, SMT
    DEF RemovePrecache, Started, At, Goto, End, QubeAfter, KeptInv, CallInv,
        TypeOK, Calls, Pcs, files, call, count
<1>5. CASE TakeClean
  BY <1>5, SMT
    DEF TakeClean, CanWork, Started, At, End, QubeAfter, KeptInv, CallInv,
        TypeOK, Calls, Pcs, files, call, count
<1>6. CASE RemoveStale
  BY <1>6, SMT
    DEF RemoveStale, IsStale, CanWork, At, Goto, KeptInv, CallInv, TypeOK,
        Calls, Pcs, files, call, count
<1>7. CASE CopyClean
  BY <1>7, SMT
    DEF CopyClean, CanWork, Started, At, End, QubeAfter, KeptInv, CallInv,
        TypeOK, Calls, Pcs, files, call, count
<1>8. CASE Write
  BY <1>8, SMT
    DEF Write, KeptInv, CallInv, TypeOK, Calls, Pcs, files, call, count
<1>9. CASE DomainEnds
  BY <1>9, SMT
    DEF DomainEnds, KeptInv, CallInv, TypeOK, Calls, Pcs, files, call, count
<1>10. CASE StopBegin
  BY <1>10, SMT
    DEF StopBegin, Begin, Commit, EnterCommit, SnapshotsDisabled, KeptInv,
        CallInv, TypeOK, Calls, Pcs, files, call, count
<1>11. CASE AddRevision
  <2>1. PICK n \in Numbers : NextRevision(n) /\ revs' = [revs EXCEPT ![n] = clean]
    BY <1>11 DEF AddRevision
  <2>2. /\ \A m \in Numbers : revs[m] # 0 => m < n
        /\ revs \in [Numbers -> Known \cup {0}] /\ keep \in Int
    BY <2>1 DEF NextRevision, IsNext, Revisions, TypeOK
  <2>3. clean' = clean /\ keep' = keep /\ revs'[n] = clean
    BY <1>11, <2>1, <2>2 DEF AddRevision
  <2>4. CASE op = "revert"
    <3>1. todo' = todo /\ \A m \in todo : revs[m] # 0
      BY <1>11, <2>4, Zenon DEF AddRevision, At, CanWork
    <3>2. n \notin todo
      BY <2>2, <3>1, SMT DEF Numbers
    <3>3. QED
      BY <2>3, <3>1, <3>2 DEF KeptInv
  <2>5. CASE op # "revert"
    <3>1. todo' = Surplus'
      BY <1>11, <2>5, Zenon DEF AddRevision
    <3>2. {m \in Revisions' : m > n} = {}
      BY <2>1, <2>2, SMT DEF Revisions, Numbers
    <3>3. Cardinality({m \in Revisions' : m > n}) = 0
      BY <3>2, FS_EmptySet
    <3>4. keep' > 0 => n \notin Surplus'
      BY <2>2, <2>3, <3>3, SMT DEF Surplus
    <3>5. QED
      BY <2>3, <3>1, <3>4 DEF KeptInv
  <2>6. QED
    BY <2>4, <2>5
<1>12. CASE Prune
  BY <1>12, SMT
    DEF Prune, At, KeptInv, CallInv, TypeOK, Calls, Pcs, files, call, count
<1>13. CASE PruneEnd
  BY <1>13, SMT
    DEF PruneEnd, At, Goto, KeptInv, CallInv, TypeOK, Calls, Pcs, files,
        call, count
<1>14. CASE Uncache
  BY <1>14, SMT
    DEF Uncache, At, Goto, KeptInv, CallInv, TypeOK, Calls, Pcs, files,
        call, count
<1>15. CASE Replace
  BY <1>15, SMT
    DEF Replace, AfterReplace, CanWork, NewClean, At, Goto, End, QubeAfter,
        SnapshotsDisabled, KeptInv, CallInv, TypeOK, Calls, Pcs, files,
        call, count
<1>16. CASE Precache
  BY <1>16, SMT
    DEF Precache, At, End, QubeAfter, KeptInv, CallInv, TypeOK, Calls, Pcs,
        files, call, count
<1>17. CASE \E i \in Imports : ImportData(i)
  BY <1>17, SMT
    DEF ImportData, Serving, KeptInv, CallInv, TypeOK, Calls, Pcs, files,
        call, count
<1>18. CASE \E i \in Imports : Upload(i)
  BY <1>18, SMT
    DEF Upload, KeptInv, CallInv, TypeOK, Calls, Pcs, files, call, count
<1>19. CASE \E i \in Imports : ImportEnd(i)
  BY <1>19, SMT
    DEF ImportEnd, Begin, EnterCommit, Commit, KeptInv, CallInv, TypeOK,
        Calls, Pcs, files, call, count
<1>20. CASE \E i \in Imports : ImportFailed(i)
  BY <1>20, SMT
    DEF ImportFailed, KeptInv, CallInv, TypeOK, Calls, Pcs, files, call,
        count
<1>21. CASE Clone
  BY <1>21, SMT
    DEF Clone, Begin, EnterCommit, Commit, KeptInv, CallInv, TypeOK, Calls,
        Pcs, files, call, count
<1>22. CASE RevertBegin
  BY <1>22, SMT
    DEF RevertBegin, Begin, Revisions, KeptInv, CallInv, TypeOK, Calls, Pcs,
        files, call, count
<1>23. CASE SetKeep
  <2>1. turned' = (op # "none") /\ pc' = pc
    BY <1>23 DEF SetKeep
  <2>2. pc # "idle" => turned'
    BY <2>1 DEF CallInv
  <2>3. QED
    BY <2>1, <2>2 DEF KeptInv
<1>24. CASE Edit
  BY <1>24, SMT
    DEF Edit, Upset, KeptInv, CallInv, TypeOK, Calls, Pcs, files, call,
        count
<1>25. CASE Crash
  BY <1>25, SMT
    DEF Crash, Upset, End, KeptInv, CallInv, TypeOK, Calls, Pcs, files,
        call, count
<1>26. CASE UNCHANGED vars
  BY <1>26, SMT
    DEF vars, KeptInv, CallInv, TypeOK, Calls, Pcs, files, call, count
<1>27. QED
  BY <1>1, <1>2, <1>3, <1>4, <1>5, <1>6, <1>7, <1>8, <1>9, <1>10, <1>11,
     <1>12, <1>13, <1>14, <1>15, <1>16, <1>17, <1>18, <1>19, <1>20, <1>21,
     <1>22, <1>23, <1>24, <1>25, <1>26
    DEF Next

LEMMA ReflinkInvariant == Spec => []ReflinkInv
<1>1. Init => ReflinkInv
  <2> SUFFICES ASSUME Init
               PROVE TypeOK /\ CallInv /\ UploadInv /\ KeptInv /\ CommittedIsWhole
    BY DEF ReflinkInv
  <2>1. overlapped = FALSE /\ turned = FALSE
    BY DEF Init
  <2>2. TypeRest /\ CallInv /\ KeptInv
    BY SMT DEF Init, TypeRest, CallInv, KeptInv, SnapshotsDisabled, Data,
               Foreign, Torn, Known, Numbers, Calls, Pcs
  <2>3. UploadInv
    BY SMT DEF Init, UploadInv
  <2>4. CommittedIsWhole
    BY SMT DEF Init, CommittedIsWhole, SnapshotsDisabled, Torn
  <2>5. QED
    BY <2>1, <2>2, <2>3, <2>4 DEF TypeOK, TypeRest
<1>2. ReflinkInv /\ [Next]_vars => ReflinkInv'
  BY TypeStep, CallStep, UploadStep, WholeStep, KeptStep DEF ReflinkInv
<1>3. QED
  BY <1>1, <1>2, PTL DEF Spec

(* No failure, power cut or restart makes an image of a torn import: only  *)
(* a second import that begins during the first.                           *)
THEOREM NothingTorn == Spec => []CommittedIsWhole
  BY ReflinkInvariant, PTL DEF ReflinkInv

(* There is always an image of the volume.                                 *)
THEOREM SomeImage == Spec => []ImageLeft
<1>1. ReflinkInv => ImageLeft
  BY DEF ReflinkInv, CallInv, ImageLeft
<1>2. QED
  BY <1>1, ReflinkInvariant, PTL

LEMMA SessionStep ==
    ReflinkInv /\ [Next]_vars => (dirty = 0 /\ dirty' # 0 => dirty' = clean)
<1> SUFFICES ASSUME CallInv, TypeOK, [Next]_vars, dirty = 0, dirty' # 0
             PROVE dirty' = clean
  BY DEF ReflinkInv
<1>1. CASE Raise
  BY <1>1, SMT
    DEF Raise, CanWork, NewClean, Upset, End, QubeAfter, CallInv, TypeOK,
        files, call, count
<1>2. CASE StartBegin
  BY <1>2, SMT
    DEF StartBegin, Begin, CallInv, TypeOK, files, call, count
<1>3. CASE RemoveImport
  BY <1>3, SMT
    DEF RemoveImport, AfterUnimport, Started, At, Goto, End, QubeAfter,
        SnapshotsDisabled, Revisions, CallInv, TypeOK, files, call, count
<1>4. CASE RemovePrecache
  BY <1>4, SMT
    DEF RemovePrecache, Started, At, Goto, End, QubeAfter, CallInv, TypeOK,
        files, call, count
<1>5. CASE TakeClean
  BY <1>5, SMT
    DEF TakeClean, CanWork, Started, At, End, QubeAfter, CallInv, TypeOK,
        files, call, count
<1>6. CASE RemoveStale
  BY <1>6, SMT
    DEF RemoveStale, IsStale, CanWork, At, Goto, CallInv, TypeOK, files,
        call, count
<1>7. CASE CopyClean
  BY <1>7, SMT
    DEF CopyClean, CanWork, Started, At, End, QubeAfter, CallInv, TypeOK,
        files, call, count
<1>8. CASE Write
  BY <1>8, SMT
    DEF Write, CallInv, TypeOK, files, call, count
<1>9. CASE DomainEnds
  BY <1>9, SMT
    DEF DomainEnds, CallInv, TypeOK, files, call, count
<1>10. CASE StopBegin
  BY <1>10, SMT
    DEF StopBegin, Begin, Commit, EnterCommit, SnapshotsDisabled, CallInv,
        TypeOK, files, call, count
<1>11. CASE AddRevision
  BY <1>11, SMT
    DEF AddRevision, At, Goto, CanWork, NextRevision, IsNext, CallInv,
        TypeOK, files, call, count
<1>12. CASE Prune
  BY <1>12, SMT
    DEF Prune, At, CallInv, TypeOK, files, call, count
<1>13. CASE PruneEnd
  BY <1>13, SMT
    DEF PruneEnd, At, Goto, CallInv, TypeOK, files, call, count
<1>14. CASE Uncache
  BY <1>14, SMT
    DEF Uncache, At, Goto, CallInv, TypeOK, files, call, count
<1>15. CASE Replace
  BY <1>15, SMT
    DEF Replace, AfterReplace, CanWork, NewClean, At, Goto, End, QubeAfter,
        SnapshotsDisabled, CallInv, TypeOK, files, call, count
<1>16. CASE Precache
  BY <1>16, SMT
    DEF Precache, At, End, QubeAfter, CallInv, TypeOK, files, call, count
<1>17. CASE \E i \in Imports : ImportData(i)
  BY <1>17, SMT
    DEF ImportData, Serving, CallInv, TypeOK, files, call, count
<1>18. CASE \E i \in Imports : Upload(i)
  BY <1>18, SMT
    DEF Upload, CallInv, TypeOK, files, call, count
<1>19. CASE \E i \in Imports : ImportEnd(i)
  BY <1>19, SMT
    DEF ImportEnd, Begin, EnterCommit, Commit, CallInv, TypeOK, files, call,
        count
<1>20. CASE \E i \in Imports : ImportFailed(i)
  BY <1>20, SMT
    DEF ImportFailed, CallInv, TypeOK, files, call, count
<1>21. CASE Clone
  BY <1>21, SMT
    DEF Clone, Begin, EnterCommit, Commit, CallInv, TypeOK, files, call,
        count
<1>22. CASE RevertBegin
  BY <1>22, SMT
    DEF RevertBegin, Begin, Revisions, CallInv, TypeOK, files, call, count
<1>23. CASE SetKeep
  BY <1>23, SMT
    DEF SetKeep, Upset, CallInv, TypeOK, files, call, count
<1>24. CASE Edit
  BY <1>24, SMT
    DEF Edit, Upset, CallInv, TypeOK, files, call, count
<1>25. CASE Crash
  BY <1>25, SMT
    DEF Crash, Upset, End, CallInv, TypeOK, files, call, count
<1>26. CASE UNCHANGED vars
  BY <1>26, SMT
    DEF vars, CallInv, TypeOK, files, call, count
<1>27. QED
  BY <1>1, <1>2, <1>3, <1>4, <1>5, <1>6, <1>7, <1>8, <1>9, <1>10, <1>11,
     <1>12, <1>13, <1>14, <1>15, <1>16, <1>17, <1>18, <1>19, <1>20, <1>21,
     <1>22, <1>23, <1>24, <1>25, <1>26
    DEF Next

(* Every session starts from the volume, whatever was interrupted before.  *)
THEOREM SessionsStartFromClean == Spec => SessionStartsFromClean
  BY ReflinkInvariant, SessionStep, PTL DEF Spec, SessionStartsFromClean

LEMMA ReplaceStep ==
    ReflinkInv /\ [Next]_vars =>
        (clean # 0 /\ clean' # clean /\ pc = "replace" /\ keep > 0 =>
            turned \/ \E n \in Numbers : revs'[n] = clean)
<1> SUFFICES ASSUME KeptInv, CallInv, TypeOK, [Next]_vars, clean # 0,
                    clean' # clean, pc = "replace", keep > 0, ~turned
             PROVE \E n \in Numbers : revs'[n] = clean
  BY DEF ReflinkInv
<1>1. PICK n \in Numbers \ todo : revs[n] = clean
  BY DEF KeptInv, CallInv
<1>2. CASE Raise
  BY <1>2, SMT
    DEF Raise, CanWork, NewClean, Upset, End, QubeAfter, KeptInv, CallInv,
        TypeOK, files, call, count
<1>3. CASE StartBegin
  BY <1>3, SMT
    DEF StartBegin, Begin, KeptInv, CallInv, TypeOK, files, call, count
<1>4. CASE RemoveImport
  BY <1>4, SMT
    DEF RemoveImport, AfterUnimport, Started, At, Goto, End, QubeAfter,
        SnapshotsDisabled, Revisions, KeptInv, CallInv, TypeOK, files, call,
        count
<1>5. CASE RemovePrecache
  BY <1>5, SMT
    DEF RemovePrecache, Started, At, Goto, End, QubeAfter, KeptInv, CallInv,
        TypeOK, files, call, count
<1>6. CASE TakeClean
  BY <1>6, SMT
    DEF TakeClean, CanWork, Started, At, End, QubeAfter, KeptInv, CallInv,
        TypeOK, files, call, count
<1>7. CASE RemoveStale
  BY <1>7, SMT
    DEF RemoveStale, IsStale, CanWork, At, Goto, KeptInv, CallInv, TypeOK,
        files, call, count
<1>8. CASE CopyClean
  BY <1>8, SMT
    DEF CopyClean, CanWork, Started, At, End, QubeAfter, KeptInv, CallInv,
        TypeOK, files, call, count
<1>9. CASE Write
  BY <1>9, SMT
    DEF Write, KeptInv, CallInv, TypeOK, files, call, count
<1>10. CASE DomainEnds
  BY <1>10, SMT
    DEF DomainEnds, KeptInv, CallInv, TypeOK, files, call, count
<1>11. CASE StopBegin
  BY <1>11, SMT
    DEF StopBegin, Begin, Commit, EnterCommit, SnapshotsDisabled, KeptInv,
        CallInv, TypeOK, files, call, count
<1>12. CASE AddRevision
  BY <1>12, SMT
    DEF AddRevision, At, Goto, CanWork, NextRevision, IsNext, KeptInv,
        CallInv, TypeOK, files, call, count
<1>13. CASE Prune
  BY <1>13, SMT
    DEF Prune, At, KeptInv, CallInv, TypeOK, files, call, count
<1>14. CASE PruneEnd
  BY <1>14, SMT
    DEF PruneEnd, At, Goto, KeptInv, CallInv, TypeOK, files, call, count
<1>15. CASE Uncache
  BY <1>15, SMT
    DEF Uncache, At, Goto, KeptInv, CallInv, TypeOK, files, call, count
<1>16. CASE Replace
  <2>1. todo \subseteq Numbers /\ revs \in [Numbers -> Known \cup {0}]
    BY DEF TypeOK
  <2>2. revs'[n] = clean
    BY <1>16, <1>1, <2>1, Zenon DEF Replace
  <2>3. QED
    BY <2>2
<1>17. CASE Precache
  BY <1>17, SMT
    DEF Precache, At, End, QubeAfter, KeptInv, CallInv, TypeOK, files, call,
        count
<1>18. CASE \E i \in Imports : ImportData(i)
  BY <1>18, SMT
    DEF ImportData, Serving, KeptInv, CallInv, TypeOK, files, call, count
<1>19. CASE \E i \in Imports : Upload(i)
  BY <1>19, SMT
    DEF Upload, KeptInv, CallInv, TypeOK, files, call, count
<1>20. CASE \E i \in Imports : ImportEnd(i)
  BY <1>20, SMT
    DEF ImportEnd, Begin, EnterCommit, Commit, KeptInv, CallInv, TypeOK,
        files, call, count
<1>21. CASE \E i \in Imports : ImportFailed(i)
  BY <1>21, SMT
    DEF ImportFailed, KeptInv, CallInv, TypeOK, files, call, count
<1>22. CASE Clone
  BY <1>22, SMT
    DEF Clone, Begin, EnterCommit, Commit, KeptInv, CallInv, TypeOK, files,
        call, count
<1>23. CASE RevertBegin
  BY <1>23, SMT
    DEF RevertBegin, Begin, Revisions, KeptInv, CallInv, TypeOK, files,
        call, count
<1>24. CASE SetKeep
  BY <1>24, SMT
    DEF SetKeep, Upset, KeptInv, CallInv, TypeOK, files, call, count
<1>25. CASE Edit
  BY <1>25, SMT
    DEF Edit, Upset, KeptInv, CallInv, TypeOK, files, call, count
<1>26. CASE Crash
  BY <1>26, SMT
    DEF Crash, Upset, End, KeptInv, CallInv, TypeOK, files, call, count
<1>27. CASE UNCHANGED vars
  BY <1>27, SMT
    DEF vars, KeptInv, CallInv, TypeOK, files, call, count
<1>28. QED
  BY <1>2, <1>3, <1>4, <1>5, <1>6, <1>7, <1>8, <1>9, <1>10, <1>11, <1>12,
     <1>13, <1>14, <1>15, <1>16, <1>17, <1>18, <1>19, <1>20, <1>21, <1>22,
     <1>23, <1>24, <1>25, <1>26, <1>27
    DEF Next

(* Whatever fails or crashes, what a commit or revert replaces is left as  *)
(* a revision.                                                             *)
THEOREM ReplacedKept == Spec => ReplacedIsKept
  BY ReflinkInvariant, ReplaceStep, PTL DEF Spec, ReplacedIsKept

HIDE ReflinkAssumption DEF ReflinkAssumption

----------------------------------------------------------------------------
(* The driver "file".                                                      *)

(* Every step keeps what the readers of the image rely on.                 *)
LEMMA FileStep == FileInv /\ [FileNext]_fileVars => FileInv'
<1> SUFFICES ASSUME FileInv, [FileNext]_fileVars PROVE FileInv'
  OBVIOUS
<1> USE DEF FileInv, snapshots_disabled
<1>1. CASE FileStartBegin
  BY <1>1 DEF FileStartBegin, session, readers, counters
<1>2. CASE StartDone \/ StartFails \/ SessionEnds
  <2>1. CASE StartDone
    BY <2>1 DEF StartDone, disk, memory, readers, notes, counters
  <2>2. CASE StartFails
    BY <2>2 DEF StartFails, disk, memory, session, readers, notes, counters
  <2>3. CASE SessionEnds
    BY <2>3 DEF SessionEnds, disk, memory, session, readers, notes, counters
  <2> QED
    BY <1>2, <2>1, <2>2, <2>3
<1>3. CASE ImageWrite
  <2>1. CASE direct
    BY <1>3, <2>1 DEF ImageWrite, memory, session
  <2>2. CASE ~direct
    BY <1>3, <2>2 DEF ImageWrite, memory, session
  <2> QED
    BY <2>1, <2>2
<1>4. CASE Stop
  <2>1. CASE mark = "exported"
    BY <1>4, <2>1 DEF Stop, is_dirty, readers, counters
  <2>2. CASE mark # "exported"
    BY <1>4, <2>2 DEF Stop, stop, commit, readers, counters
  <2> QED
    BY <2>1, <2>2
<1>5. ASSUME NEW k \in FileKeeps, SetRevisionsToKeep(k) PROVE FileInv'
  BY <1>5 DEF SetRevisionsToKeep, is_dirty, disk, session, readers, counters
<1>6. CASE ReaderStarts
  <2>1. View = IF mixed THEN -1 ELSE IF cow = "data" THEN base ELSE img
    BY DEF View
  <2> QED
    BY <1>6, <2>1 DEF ReaderStarts, memory, session, counters
<1>7. CASE ReaderUp \/ ReaderStops
  BY <1>7 DEF ReaderUp, ReaderStops, is_dirty, disk, memory, session, notes, counters
<1>8. CASE Export \/ export_end
  BY <1>8 DEF Export, export_end, disk, session, readers, notes, counters
<1>9. ASSUME NEW ok \in BOOLEAN, import_volume(ok) PROVE FileInv'
  <2>1. PICK v : ReplaceImage(v)
    BY <1>9 DEF import_volume
  <2> QED
    BY <1>9, <2>1 DEF import_volume, ReplaceImage, is_dirty, memory, readers
<1>10. CASE import_data \/ ImportedAll
  BY <1>10 DEF import_data, ImportedAll, memory, session, readers, notes, counters
<1>11. ASSUME NEW ok \in BOOLEAN, import_data_end(ok) PROVE FileInv'
  <2>1. CASE ok
    <3>1. PICK v : ReplaceImage(v)
      BY <1>11, <2>1 DEF import_data_end
    <3> QED
      BY <1>11, <3>1 DEF import_data_end, ReplaceImage, is_dirty, memory, readers
  <2>2. CASE ~ok
    BY <1>11, <2>2 DEF import_data_end, memory, session, readers
  <2> QED
    BY <2>1, <2>2
<1>12. CASE FileRestart
  <2>1. \/ /\ run = "on" /\ blind' = TRUE
           /\ UNCHANGED <<cow, base, mixed, committed, run, direct>>
        \/ /\ stop /\ run' = "off" /\ direct' = FALSE /\ blind' = FALSE
    BY <1>12 DEF FileRestart, session
  <2>2. \/ reader' = 0 /\ crossed' = FALSE
        \/ UNCHANGED <<reader, started, crossed>>
    BY <1>12 DEF FileRestart
  <2>3. UNCHANGED <<img, kept>>
    BY <1>12 DEF FileRestart
  <2>4. CASE run' = "off" /\ stop
    BY <2>1, <2>2, <2>3, <2>4 DEF stop, commit
  <2>5. CASE run = "on" /\ UNCHANGED <<cow, base, mixed, committed, run, direct>> /\ blind' = TRUE
    BY <2>2, <2>3, <2>5
  <2> QED
    BY <2>1, <2>4, <2>5
<1>13. CASE PowerCut
  BY <1>13 DEF PowerCut, stop, commit
<1>14. CASE UNCHANGED fileVars
  BY <1>14 DEF fileVars, disk, memory, session, readers, notes, counters
<1> QED
  BY <1>1, <1>2, <1>3, <1>4, <1>5, <1>6, <1>7, <1>8, <1>9, <1>10, <1>11, <1>12,
     <1>13, <1>14 DEF FileNext

(* What a disposable reads is what was committed when it started, and what *)
(* an export reads is not written meanwhile, however many sessions, copies,*)
(* restarts and power cuts there are.                                      *)
THEOREM ReadersAreServed == FileSpec => []ReadersServed
<1>1. FileInit => FileInv
  BY DEF FileInit, FileInv, snapshots_disabled
<1>2. FileInv => ReadersServed
  BY DEF FileInv, ReadersServed, ReaderSeesCommitted, ExportedIsStill
<1> QED
  BY <1>1, <1>2, FileStep, PTL DEF FileSpec

----------------------------------------------------------------------------
(* The driver "callback".                                                  *)

(* Every step keeps pre_sinit to one caller.                               *)
LEMMA CallbackStep == CallbackInv /\ [PoolNext]_poolVars => CallbackInv'
<1> SUFFICES ASSUME CallbackInv, [PoolNext]_poolVars PROVE CallbackInv'
  OBVIOUS
<1> USE CallbackAssumption DEF CallbackInv
<1>1. CASE Add \/ setup \/ Remove
  <2>1. CASE Add
    BY <2>1 DEF Add
  <2>2. CASE setup
    BY <2>2 DEF setup
  <2>3. CASE Remove
    BY <2>3 DEF Remove
  <2> QED
    BY <1>1, <2>1, <2>2, <2>3
<1>2. ASSUME NEW t \in Tasks, NEW o \in Operations, Call(t, o) PROVE CallbackInv'
  BY <1>2 DEF Call, To, AfterInit
<1>3. ASSUME NEW t \in Tasks, Lock(t) PROVE CallbackInv'
  BY <1>3 DEF Lock, To, AfterInit, Others
<1>4. ASSUME NEW t \in Tasks, SinitEnds(t) PROVE CallbackInv'
  <2>1. step[t] = "sinit" /\ lock = t /\ requires_init /\ inits = 0
        /\ \A d \in Tasks \ {t} : step[d] # "sinit"
    BY <1>4 DEF SinitEnds
  <2>2. CASE requires_init' = FALSE /\ ready' = TRUE /\ inits' = inits + 1 /\ To(t, AfterInit(method[t]))
    <3>1. AfterInit(method[t]) \in {"pre", "impl"}
      BY DEF AfterInit
    <3>2. step' = [step EXCEPT ![t] = AfterInit(method[t])]
      BY <2>2 DEF To
    <3>3. UNCHANGED <<late, pool, touched>>
      BY <1>4 DEF SinitEnds, Others
    <3>4. /\ step' \in [Tasks -> {"idle", "lock", "sinit", "pre", "impl", "post"}]
          /\ step'[t] \in {"pre", "impl"} /\ \A d \in Tasks \ {t} : step'[d] = step[d]
      BY <3>1, <3>2
    <3>5. inits' = 1 /\ ready' /\ ~requires_init'
      BY <2>1, <2>2
    <3>6. \A d \in Tasks : /\ step'[d] # "idle" => pool' = "listed"
                          /\ step'[d] # "sinit"
      BY <2>1, <3>3, <3>4
    <3> QED
      BY <2>2, <3>3, <3>4, <3>5, <3>6
  <2>3. CASE To(t, "idle") /\ UNCHANGED <<requires_init, ready, inits>>
    BY <1>4, <2>1, <2>3 DEF SinitEnds, To, Others
  <2> QED
    BY <1>4, <2>2, <2>3 DEF SinitEnds
<1>5. ASSUME NEW t \in Tasks, Callback(t, "pre", "impl") \/ Callback(t, "post", "idle")
      PROVE  CallbackInv'
  <2>1. CASE Callback(t, "pre", "impl")
    BY <2>1 DEF Callback, To, Others
  <2>2. CASE Callback(t, "post", "idle")
    BY <2>2 DEF Callback, To, Others
  <2> QED
    BY <1>5, <2>1, <2>2
<1>6. ASSUME NEW t \in Tasks, Driver(t) PROVE CallbackInv'
  BY <1>6 DEF Driver, Touch, To, Others
<1>7. CASE Query
  BY <1>7 DEF Query, Touch
<1>8. CASE Peek
  <2>1. touched' \subseteq {"attribute"}
    BY <1>8 DEF Peek, Touch
  <2> QED
    BY <1>8, <2>1 DEF Peek
<1>9. CASE PoolRestart
  BY <1>9 DEF PoolRestart
<1>10. CASE UNCHANGED poolVars
  BY <1>10 DEF poolVars
<1> QED
  BY <1>1, <1>2, <1>3, <1>4, <1>5, <1>6, <1>7, <1>8, <1>9, <1>10
    DEF PoolNext

(* pre_sinit succeeds once, before a method of the driver runs and before  *)
(* the queries that look at requires_init reach it, however many calls     *)
(* come first and overlap ("Lock ensuring that late storage initialization *)
(* is only run exactly once"); other attributes are passed on at any time. *)
THEOREM InitializedExactlyOnce == PoolSpec => []InitializedOnce
<1>1. PoolInit => CallbackInv
  BY DEF PoolInit, CallbackInv
<1>2. CallbackInv => InitializedOnce
  <2> SUFFICES ASSUME CallbackInv PROVE InitializedOnce
    OBVIOUS
  <2> DEFINE S == {t \in Tasks : step[t] = "sinit"}
  <2>1. S = {} \/ S = {lock}
    BY DEF CallbackInv
  <2>2. Cardinality(S) <= 1
    <3>1. CASE S = {}
      BY <3>1, FS_EmptySet
    <3>2. CASE S = {lock}
      <4>1. Cardinality({lock}) = 1
        BY FS_Singleton
      <4> QED
        BY <3>2, <4>1
    <3> QED
      BY <2>1, <3>1, <3>2
  <2> QED
    BY <2>2 DEF CallbackInv, InitializedOnce
<1> QED
  BY <1>1, <1>2, CallbackStep, PTL DEF PoolSpec

----------------------------------------------------------------------------
(* Every qube a user can have runs from the template it names, for any set  *)
(* of templates, qubes and disposables and any number of changes.           *)

USE ChainAssumption DEF ChainAssumption

ChainType ==
    /\ template \in [Based -> Templates \cup AppVMs \cup {None}]
    /\ \A a \in AppVMs : template[a] \in Templates
    /\ \A d \in DispVMs : template[d] \in AppVMs \cup {None}
    /\ serves \subseteq AppVMs
    /\ kind \in [DispVMs -> {"named", "listed", "off", "requested", "used"}]
    /\ phase \in [Based -> {"halted", "begun", "storage", "running"}]
    /\ DOMAIN device = Based /\ device = [q \in Based |-> device[q]]

(* Volumes follow the chain at once; there is nothing of a removed qube.   *)
Follows ==
    /\ source = [q \in Based |-> SourceOf(q, template)]
    /\ \A d \in DispVMs : ~Exists(d) => phase[d] = "halted" /\ kind[d] = "named"

(* What no check looks at: a preloaded disposable that was requested runs, *)
(* and if its template serves no longer it has been marked.                *)
Served ==
    \A d \in DispVMs :
        /\ kind[d] \in {"requested", "used"} => phase[d] = "running"
        /\ Exists(d) /\ kind[d] = "named" => template[d] \in serves
        /\ kind[d] \in {"listed", "requested", "used"} => template[d] \in serves \/ d \in behind

Watched(q) == q \notin behind /\ (q \in DispVMs => kind[q] # "off")

(* The same of a qube still starting, and of a preloaded disposable.       *)
RunsFrom ==
    \A q \in Based :
        phase[q] \in {"storage", "running"} /\ Watched(q) => device[q] = SourceOf(q, template)

ChainInv == ChainType /\ Follows /\ Served /\ RunsFrom

----------------------------------------------------------------------------
\* A qube's sources depend on its own template and on that one's.
LEMMA SameSource ==
    ASSUME NEW f, NEW g, NEW q, g[q] = f[q],
           q \notin AppVMs /\ f[q] # None => g[f[q]] = f[f[q]]
    PROVE  SourceOf(q, g) = SourceOf(q, f)
BY DEF SourceOf

\* A qube that has no template has no sources.
LEMMA NoSource ==
    ASSUME NEW f, NEW q, q \notin AppVMs, f[q] = None
    PROVE  SourceOf(q, f) = Nothing
BY DEF SourceOf

\* Of the qubes that run, changing a's template reaches those marked only.
LEMMA SetTemplateOfAppVMKeeps ==
    ASSUME ChainInv, NEW a \in AppVMs, NEW t \in Templates, SetTemplateOfAppVM(a, t)
    PROVE  ChainInv'
<1> USE DEF Based
<1>1. ChainType'
  BY DEF SetTemplateOfAppVM, MaySetTemplate, RemoveExcess, ChainInv, ChainType
<1>2. Follows'
  <2>1. source' = [q \in Based |-> SourceOf(q, template')]
    <3>1. \A q \in Based \ Affected(a) : SourceOf(q, template') = source[q]
      <4> SUFFICES ASSUME NEW q \in Based \ Affected(a)
                   PROVE  SourceOf(q, template') = source[q]
        OBVIOUS
      <4>1. template'[q] = template[q]
            /\ (q \notin AppVMs /\ template[q] # None
                  => template'[template[q]] = template[template[q]])
        BY DEF SetTemplateOfAppVM, Affected, dispvms, ChainInv, ChainType
      <4>2. SourceOf(q, template') = SourceOf(q, template) BY <4>1, SameSource
      <4> QED BY <4>2 DEF ChainInv, Follows
    <3> QED BY <3>1 DEF SetTemplateOfAppVM, UpdateStorage
  <2>2. \A d \in DispVMs : ~Exists(d)' => phase'[d] = "halted" /\ kind'[d] = "named"
    BY DEF SetTemplateOfAppVM, RemoveExcess, ChainInv, ChainType, Follows, Exists,
           dispvms
  <2> QED BY <2>1, <2>2 DEF Follows
<1>3. Served'
  <2> SUFFICES ASSUME NEW d \in DispVMs
               PROVE  /\ kind'[d] \in {"requested", "used"} => phase'[d] = "running"
                      /\ Exists(d)' /\ kind'[d] = "named" => template'[d] \in serves'
                      /\ kind'[d] \in {"listed", "requested", "used"}
                           => template'[d] \in serves' \/ d \in behind'
    BY DEF Served
  <2>1. template'[d] = template[d] /\ serves' = serves /\ phase' = phase
        /\ (d \in behind => d \in behind')
    BY DEF SetTemplateOfAppVM, ChainInv, ChainType
  <2>2. kind'[d] = kind[d] \/ kind'[d] = "off"
    BY DEF SetTemplateOfAppVM, RemoveExcess, ChainInv, ChainType
  <2> QED BY <2>1, <2>2 DEF ChainInv, ChainType, Served, Exists
<1>4. RunsFrom'
  <2> SUFFICES ASSUME NEW q \in Based, phase'[q] \in {"storage", "running"}, Watched(q)'
               PROVE  device'[q] = SourceOf(q, template')
    BY DEF RunsFrom
  <2>1. phase' = phase /\ device' = device /\ Watched(q)
    BY DEF SetTemplateOfAppVM, RemoveExcess, Watched, ChainInv, ChainType
  <2>2. CASE t = template[a]
    <3>1. template' = template BY <2>2 DEF SetTemplateOfAppVM, ChainInv, ChainType
    <3> QED BY <3>1, <2>1 DEF ChainInv, RunsFrom
  <2>3. CASE t # template[a] /\ q \in Affected(a)
    <3>1. phase[q] = "running" /\ q \in DispVMs /\ q \in dispvms(a) /\ kind[q] # "requested"
      BY <2>1, <2>3 DEF SetTemplateOfAppVM, MaySetTemplate, Watched, Behind, Affected,
                        is_halted, dispvms
    <3>2. a \in serves
      BY <2>1, <3>1 DEF ChainInv, ChainType, Served, Watched, dispvms, Exists
    <3>3. kind[q] = "listed"
      BY <2>3, <3>1, <3>2 DEF SetTemplateOfAppVM, MaySetTemplate, is_running, is_preload
    <3>4. kind'[q] = "off"
      BY <2>3, <3>1, <3>2, <3>3 DEF SetTemplateOfAppVM, RemoveExcess
    <3> QED BY <3>1, <3>4 DEF Watched
  <2>4. CASE q \notin Affected(a)
    <3>1. template'[q] = template[q]
          /\ (q \notin AppVMs /\ template[q] # None
                => template'[template[q]] = template[template[q]])
      BY <2>4 DEF SetTemplateOfAppVM, Affected, dispvms, ChainInv, ChainType
    <3>2. SourceOf(q, template') = SourceOf(q, template) BY <3>1, SameSource
    <3> QED BY <3>2, <2>1 DEF ChainInv, RunsFrom
  <2> QED BY <2>2, <2>3, <2>4
<1> QED BY <1>1, <1>2, <1>3, <1>4 DEF ChainInv

\* Nothing that runs is touched when a disposable is moved.
LEMMA SetTemplateOfDispVMKeeps ==
    ASSUME ChainInv, NEW d \in DispVMs, NEW a \in AppVMs, SetTemplateOfDispVM(d, a)
    PROVE  ChainInv'
<1> USE DEF Based
<1>1. ChainType'
  BY DEF SetTemplateOfDispVM, ChainInv, ChainType
<1>2. \A q \in Based \ {d} : SourceOf(q, template') = SourceOf(q, template)
  <2> SUFFICES ASSUME NEW q \in Based \ {d}
               PROVE  SourceOf(q, template') = SourceOf(q, template)
    OBVIOUS
  <2>1. template'[q] = template[q]
        /\ (q \notin AppVMs /\ template[q] # None
              => template'[template[q]] = template[template[q]])
    BY DEF SetTemplateOfDispVM, ChainInv, ChainType
  <2> QED BY <2>1, SameSource
<1>3. Follows'
  <2>1. source' = [q \in Based |-> SourceOf(q, template')]
    BY <1>2 DEF SetTemplateOfDispVM, UpdateStorage, ChainInv, Follows
  <2>2. \A c \in DispVMs : ~Exists(c)' => phase'[c] = "halted" /\ kind'[c] = "named"
    BY DEF SetTemplateOfDispVM, ChainInv, ChainType, Follows, Exists
  <2> QED BY <2>1, <2>2 DEF Follows
<1>4. Served'
  BY DEF SetTemplateOfDispVM, ChainInv, ChainType, Served, Exists, is_preload, is_halted
<1>5. RunsFrom'
  <2> SUFFICES ASSUME NEW q \in Based, phase'[q] \in {"storage", "running"}, Watched(q)'
               PROVE  device'[q] = SourceOf(q, template')
    BY DEF RunsFrom
  <2>1. phase' = phase /\ device' = device /\ Watched(q)
    BY DEF SetTemplateOfDispVM, Watched
  <2>2. CASE q # d
    BY <2>1, <2>2, <1>2 DEF ChainInv, RunsFrom
  <2>3. CASE q = d /\ a = template[d]
    <3>1. template' = template BY <2>3 DEF SetTemplateOfDispVM, ChainInv, ChainType
    <3> QED BY <3>1, <2>1 DEF ChainInv, RunsFrom
  <2>4. CASE q = d /\ a # template[d]
    BY <2>1, <2>4 DEF SetTemplateOfDispVM, is_halted, Behind, Watched
  <2> QED BY <2>2, <2>3, <2>4
<1> QED BY <1>1, <1>3, <1>4, <1>5 DEF ChainInv

\* What keeps every template keeps the sources of the volumes.
LEMMA SameChain ==
    ASSUME ChainInv, UNCHANGED <<template, source, phase, device>>, behind \subseteq behind',
           ChainType', Served',
           \A d \in DispVMs : kind'[d] = kind[d] \/ (kind[d] # "off" /\ Exists(d))
    PROVE  ChainInv'
<1>1. Follows' BY DEF ChainInv, Follows, Exists
<1>2. RunsFrom' BY DEF ChainInv, RunsFrom, Watched
<1> QED BY <1>1, <1>2 DEF ChainInv

LEMMA PropertyKeeps ==
    ASSUME ChainInv, NEW a \in AppVMs \cup {None},
           \/ a \in AppVMs /\ (Withdraw(a) \/ Allow(a))
           \/ SetDefaultDispvm(a)
    PROVE  ChainInv'
<1> USE DEF Based
<1>1. ASSUME a \in AppVMs, Withdraw(a) PROVE ChainInv'
  <2>1. ChainType' BY <1>1 DEF Withdraw, chain, RemoveExcess, ChainInv, ChainType
  <2>2. Served'
    BY <1>1 DEF Withdraw, MayWithdraw, RemoveExcess, dispvms, is_preload, ChainInv, ChainType,
                Served, Exists
  <2>3. \A d \in DispVMs : kind'[d] = kind[d] \/ (kind[d] # "off" /\ Exists(d))
    BY <1>1 DEF Withdraw, RemoveExcess, dispvms, Exists, ChainInv, ChainType
  <2> QED BY <1>1, <2>1, <2>2, <2>3, SameChain DEF Withdraw
<1>2. ASSUME a \in AppVMs, Allow(a) PROVE ChainInv'
  <2>1. ChainType' BY <1>2 DEF Allow, ChainInv, ChainType
  <2>2. Served' BY <1>2 DEF Allow, ChainInv, Served, Exists
  <2> QED BY <1>2, <2>1, <2>2, SameChain DEF Allow
<1>3. ASSUME SetDefaultDispvm(a) PROVE ChainInv'
  <2>1. ChainType' BY <1>3 DEF SetDefaultDispvm, ChainInv, ChainType
  <2>2. Served' BY <1>3 DEF SetDefaultDispvm, ChainInv, Served, Exists
  <2> QED BY <1>3, <2>1, <2>2, SameChain DEF SetDefaultDispvm
<1> QED BY <1>1, <1>2, <1>3

LEMMA CreateKeeps ==
    ASSUME ChainInv, NEW d \in DispVMs, NEW arg, NEW k \in {"named", "listed"},
           CreateDispVM(d, arg, k)
    PROVE  ChainInv'
<1> USE DEF Based
<1>1. PICK a \in AppVMs : a \in serves /\ template' = [template EXCEPT ![d] = a]
  BY DEF CreateDispVM, ChainInv, ChainType
<1>2. ~Exists(d) /\ kind' = [kind EXCEPT ![d] = k] /\ UpdateStorage({d})
      /\ UNCHANGED <<serves, phase, device, behind>>
  BY DEF CreateDispVM
<1>3. ChainType'
  BY <1>1, <1>2 DEF ChainInv, ChainType
<1>4. \A q \in Based \ {d} : SourceOf(q, template') = SourceOf(q, template)
  <2> SUFFICES ASSUME NEW q \in Based \ {d}
               PROVE  SourceOf(q, template') = SourceOf(q, template)
    OBVIOUS
  <2>1. template'[q] = template[q]
        /\ (q \notin AppVMs /\ template[q] # None
              => template'[template[q]] = template[template[q]])
    BY <1>1 DEF ChainInv, ChainType
  <2> QED BY <2>1, SameSource
<1>5. Follows'
  <2>1. source' = [q \in Based |-> SourceOf(q, template')]
    BY <1>2, <1>4 DEF UpdateStorage, ChainInv, Follows
  <2>2. \A c \in DispVMs : ~Exists(c)' => phase'[c] = "halted" /\ kind'[c] = "named"
    BY <1>1, <1>2 DEF ChainInv, ChainType, Follows, Exists
  <2> QED BY <2>1, <2>2 DEF Follows
<1>6. Served' BY <1>1, <1>2 DEF ChainInv, ChainType, Served, Exists
<1>7. RunsFrom'
  <2>1. phase[d] = "halted" BY <1>2 DEF ChainInv, Follows
  <2> QED BY <2>1, <1>2, <1>4 DEF ChainInv, ChainType, RunsFrom, Watched
<1> QED BY <1>3, <1>5, <1>6, <1>7 DEF ChainInv

LEMMA PreloadKeeps ==
    ASSUME ChainInv, NEW d \in DispVMs, RequestPreload(d) \/ Deliver(d)
    PROVE  ChainInv'
<1> USE DEF Based
<1>1. ChainType' BY DEF RequestPreload, Deliver, chain, ChainInv, ChainType
<1>2. Served'
  BY DEF RequestPreload, Deliver, chain, is_running, ChainInv, ChainType, Served, Exists
<1>3. \A c \in DispVMs : kind'[c] = kind[c] \/ (kind[c] # "off" /\ Exists(c))
  BY DEF RequestPreload, Deliver, ChainInv, ChainType
<1> QED BY <1>1, <1>2, <1>3, SameChain DEF RequestPreload, Deliver, chain

LEMMA GoneKeeps ==
    ASSUME ChainInv, NEW d \in DispVMs, Gone({d})
    PROVE  ChainInv'
<1> USE DEF Based
<1>1. ChainType' BY DEF Gone, ChainInv, ChainType
<1>2. \A q \in Based \ {d} : SourceOf(q, template') = SourceOf(q, template)
  <2> SUFFICES ASSUME NEW q \in Based \ {d}
               PROVE  SourceOf(q, template') = SourceOf(q, template)
    OBVIOUS
  <2>1. template'[q] = template[q]
        /\ (q \notin AppVMs /\ template[q] # None
              => template'[template[q]] = template[template[q]])
    BY DEF Gone, ChainInv, ChainType
  <2> QED BY <2>1, SameSource
<1>3. template'[d] = None BY DEF Gone
<1>4. SourceOf(d, template') = Nothing BY <1>3, NoSource
<1>5. Follows'
  <2>1. source' = [q \in Based |-> SourceOf(q, template')]
    BY <1>2, <1>4 DEF Gone, ChainInv, Follows
  <2>2. \A c \in DispVMs : ~Exists(c)' => phase'[c] = "halted" /\ kind'[c] = "named"
    BY DEF Gone, ChainInv, ChainType, Follows, Exists
  <2> QED BY <2>1, <2>2 DEF Follows
<1>6. Served' BY DEF Gone, ChainInv, ChainType, Served, Exists
<1>7. RunsFrom' BY <1>2 DEF Gone, ChainInv, ChainType, RunsFrom, Watched
<1> QED BY <1>1, <1>5, <1>6, <1>7 DEF ChainInv

LEMMA StartKeeps ==
    ASSUME ChainInv, NEW q \in Based, StartBegins(q) \/ StorageStarts(q) \/ DomainCreated(q)
    PROVE  ChainInv'
<1> USE DEF Based
<1>1. ChainType'
  BY DEF StartBegins, StorageStarts, DomainCreated, Enter, chain, ChainInv, ChainType
<1>2. Follows'
  BY DEF StartBegins, StorageStarts, DomainCreated, Enter, chain, ChainInv, ChainType, Follows,
         Exists
<1>3. Served'
  BY DEF StartBegins, StorageStarts, DomainCreated, Enter, chain, ChainInv, ChainType, Served,
         Exists
<1>4. RunsFrom'
  <2> SUFFICES ASSUME NEW r \in Based, phase'[r] \in {"storage", "running"}, Watched(r)'
               PROVE  device'[r] = SourceOf(r, template')
    BY DEF RunsFrom
  <2>1. template' = template /\ Watched(r)
    BY DEF StartBegins, StorageStarts, DomainCreated, chain, Watched
  <2>2. ASSUME device'[r] = device[r], phase[r] \in {"storage", "running"}
        PROVE  device'[r] = SourceOf(r, template')
    BY <2>1, <2>2 DEF ChainInv, RunsFrom
  <2>3. CASE StorageStarts(q) /\ r = q
    BY <2>1, <2>3 DEF StorageStarts, ChainInv, ChainType, Follows
  <2>4. CASE ~(StorageStarts(q) /\ r = q)
    <3>1. device'[r] = device[r] /\ phase[r] \in {"storage", "running"}
      BY <2>4 DEF StartBegins, StorageStarts, DomainCreated, Enter, ChainInv, ChainType
    <3> QED BY <3>1, <2>2
  <2> QED BY <2>3, <2>4
<1> QED BY <1>1, <1>2, <1>3, <1>4 DEF ChainInv

LEMMA EndsKeeps ==
    ASSUME ChainInv, NEW q \in Based, Ends(q)
    PROVE  ChainInv'
<1> USE DEF Based
<1>1. CASE q \in DispVMs /\ (Temporary(q) \/ ~is_running(q))
  BY <1>1, GoneKeeps DEF Ends
<1>2. CASE ~(q \in DispVMs /\ (Temporary(q) \/ ~is_running(q)))
  <2>1. /\ phase' = [phase EXCEPT ![q] = "halted"]
        /\ device' = [device EXCEPT ![q] = Nothing]
        /\ behind' = behind \ {q}
        /\ UNCHANGED <<template, source, serves, kind>>
        /\ q \in DispVMs => kind[q] = "named"
    BY <1>2 DEF Ends, Enter, chain, Temporary
  <2>2. ChainType' BY <2>1 DEF ChainInv, ChainType
  <2>3. Follows' BY <2>1 DEF ChainInv, ChainType, Follows, Exists
  <2>4. Served' BY <2>1 DEF ChainInv, ChainType, Served, Exists
  <2>5. RunsFrom' BY <2>1 DEF ChainInv, ChainType, RunsFrom, Watched
  <2> QED BY <2>2, <2>3, <2>4, <2>5 DEF ChainInv
<1> QED BY <1>1, <1>2

LEMMA RestartKeeps ==
    ASSUME ChainInv, ChainRestart
    PROVE  ChainInv'
<1> USE DEF Based
<1> DEFINE cut == {d \in DispVMs : is_preload(d) /\ (~is_running(d) \/ kind[d] = "requested")}
           starting == {q \in Based : phase[q] \in {"begun", "storage"}}
<1>1. /\ kind' = [d \in DispVMs |-> IF d \in cut THEN "off" ELSE kind[d]]
      /\ phase' = [q \in Based |-> IF q \in starting THEN "halted" ELSE phase[q]]
      /\ device' = [q \in Based |-> IF q \in starting THEN Nothing ELSE device[q]]
      /\ behind' = behind \ starting
      /\ source' = [q \in Based |-> SourceOf(q, template)]
      /\ UNCHANGED <<template, serves>>
  BY DEF ChainRestart
<1>2. \A d \in cut : Exists(d) BY DEF is_preload, ChainInv, Follows
<1>3. ChainType' BY <1>1 DEF ChainInv, ChainType
<1>4. Follows' BY <1>1, <1>2 DEF ChainInv, ChainType, Follows, Exists
<1>5. Served' BY <1>1 DEF ChainInv, ChainType, Served, Exists, is_preload, is_running
<1>6. RunsFrom' BY <1>1 DEF ChainInv, ChainType, RunsFrom, Watched
<1> QED BY <1>3, <1>4, <1>5, <1>6 DEF ChainInv

\* ChainInv is inductive.
THEOREM ChainInvariant ==
    ChainSpec => []ChainInv
<1>1. ChainInit => ChainInv
  <2> SUFFICES ASSUME ChainInit PROVE ChainInv
    OBVIOUS
  <2>1. ChainType BY DEF ChainInit, ChainType, Based
  <2>2. Follows BY DEF ChainInit, Follows, Based
  <2>3. Served BY DEF ChainInit, Served, Exists, Based
  <2>4. RunsFrom BY DEF ChainInit, RunsFrom
  <2> QED BY <2>1, <2>2, <2>3, <2>4 DEF ChainInv
<1>2. ChainInv /\ [ChainNext]_chainVars => ChainInv'
  <2> SUFFICES ASSUME ChainInv, [ChainNext]_chainVars PROVE ChainInv'
    OBVIOUS
  <2>1. ASSUME NEW a \in AppVMs, NEW t \in Templates, SetTemplateOfAppVM(a, t) PROVE ChainInv'
    BY <2>1, SetTemplateOfAppVMKeeps
  <2>2. ASSUME NEW a \in AppVMs, Withdraw(a) \/ Allow(a) PROVE ChainInv'
    BY <2>2, PropertyKeeps
  <2>3. ASSUME NEW a \in AppVMs \cup {None}, SetDefaultDispvm(a) PROVE ChainInv'
    BY <2>3, PropertyKeeps
  <2>4. ASSUME NEW d \in DispVMs, NEW a \in AppVMs, SetTemplateOfDispVM(d, a) PROVE ChainInv'
    BY <2>4, SetTemplateOfDispVMKeeps
  <2>5. ASSUME NEW d \in DispVMs, NEW a \in AppVMs \cup {"default"},
               NEW k \in {"named", "listed"}, CreateDispVM(d, a, k)
        PROVE  ChainInv'
    BY <2>5, CreateKeeps
  <2>6. ASSUME NEW d \in DispVMs, RequestPreload(d) \/ Deliver(d) PROVE ChainInv'
    BY <2>6, PreloadKeeps
  <2>7. ASSUME NEW d \in DispVMs, RemoveDispVM(d) \/ StartRefused(d) PROVE ChainInv'
    BY <2>7, GoneKeeps DEF RemoveDispVM, StartRefused
  <2>8. ASSUME NEW d \in DispVMs, CleanUp(d) PROVE ChainInv'
    <3>1. CASE is_running(d) BY <2>8, <3>1, GoneKeeps DEF CleanUp
    <3>2. CASE ~is_running(d)
      BY <2>8, <3>2 DEF CleanUp, chain, ChainInv, ChainType, Follows, Served, RunsFrom,
                        Watched, Exists
    <3> QED BY <3>1, <3>2
  <2>9. ASSUME NEW q \in Based, StartBegins(q) \/ StorageStarts(q) \/ DomainCreated(q)
        PROVE  ChainInv'
    BY <2>9, StartKeeps
  <2>10. ASSUME NEW q \in Based, Ends(q) PROVE ChainInv'
    BY <2>10, EndsKeeps
  <2>11. CASE ChainRestart BY <2>11, RestartKeeps
  <2>12. CASE UNCHANGED chainVars
    BY <2>12 DEF chainVars, chain, ChainInv, ChainType, Follows, Served, RunsFrom, Watched, Exists
  <2> QED
    BY <2>1, <2>2, <2>3, <2>4, <2>5, <2>6, <2>7, <2>8, <2>9, <2>10, <2>11, <2>12 DEF ChainNext
<1> QED BY <1>1, <1>2, PTL DEF ChainSpec

\* Whatever is changed and started meanwhile, a qube runs from its template:
\* neither the number of disposables based on one qube nor the order of the
\* changes (on_property_pre_set_template and what follows it) matters.
THEOREM RunsItsTemplateHolds ==
    ChainSpec => []RunsItsTemplate
<1>1. ChainInv => RunsItsTemplate
  BY DEF ChainInv, Follows, Served, RunsFrom, Watched, RunsItsTemplate, is_running
<1> QED BY <1>1, ChainInvariant, PTL
==============================================================================
