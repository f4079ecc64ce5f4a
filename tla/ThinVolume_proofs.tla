-------------------------- MODULE ThinVolume_proofs --------------------------
(***************************************************************************)
(* Proofs about ThinVolume, for any number of writes, revisions, lists of  *)
(* other volumes and crashes, and any values of revisions_to_keep; and     *)
(* about MemoryBalance, for any number of qubes, sizes and events.         *)
(***************************************************************************)
EXTENDS ThinVolume, MemoryBalance, FiniteSetTheorems, WellFoundedInduction, TLAPS

USE KeepsAreValues, FailIsBoolean, BoundsAreNatural

(* What lvs prints is a list of volumes.                                   *)
LEMMA ListedType == TypeOK => Listed \in Lists
  BY SMT DEF TypeOK, Lists, Listed, Backs

(* Every variable keeps its type.                                          *)
LEMMA TypeStep == VolumeInv /\ [Next]_vars => TypeOK'
<1> SUFFICES ASSUME TypeOK, CallInv, CopyInv, DomainInv, CommittedIsWhole,
                    [Next]_vars
             PROVE TypeOK'
  BY DEF VolumeInv
<1>1. CASE Wipe
  BY <1>1, SMT
    DEF Wipe, InUse, TypeOK, Data, Torn, Blank, Foreign, Known, Times,
        Lists, NoList, Calls, Pcs, OnMain, OnSnap, IsCurrent, Backs,
        CopyInv, CallInv, Committing, lvs, domain, call, count
<1>2. CASE Raise
  BY <1>2, SMT
    DEF Raise, End, QubeAfter, Listed, Commands, TypeOK, Data, Torn, Blank,
        Foreign, Known, Times, Lists, NoList, Calls, Pcs, OnMain, OnSnap,
        IsCurrent, Backs, CopyInv, CallInv, Committing, lvs, domain, call,
        count
<1>3. CASE Verify
  BY <1>3, SMT
    DEF Verify, TypeOK, Data, Torn, Blank, Foreign, Known, Times, Lists,
        NoList, Calls, Pcs, OnMain, OnSnap, IsCurrent, Backs, CopyInv,
        CallInv, Committing, lvs, domain, call, count
<1>4. CASE StartRefused
  BY <1>4, SMT
    DEF StartRefused, TypeOK, Data, Torn, Blank, Foreign, Known, Times,
        Lists, NoList, Calls, Pcs, OnMain, OnSnap, IsCurrent, Backs,
        CopyInv, CallInv, Committing, lvs, domain, call, count
<1>5. CASE StartBegin
  BY <1>5, SMT
    DEF StartBegin, AfterChecks, Begin, Dirty, SnapshotsDisabled,
        ImportInProgress, TypeOK, Data, Torn, Blank, Foreign, Known, Times,
        Lists, NoList, Calls, Pcs, OnMain, OnSnap, IsCurrent, Backs,
        CopyInv, CallInv, Committing, lvs, domain, call, count
<1>6. CASE Activate
  BY <1>6, SMT
    DEF Activate, At, Goto, UnchangedCall, TypeOK, Data, Torn, Blank,
        Foreign, Known, Times, Lists, NoList, Calls, Pcs, OnMain, OnSnap,
        IsCurrent, Backs, CopyInv, CallInv, Committing, lvs, domain, call,
        count
<1>7. CASE Drop
  BY <1>7, SMT
    DEF Drop, At, MayDrop, InUse, TypeOK, Data, Torn, Blank, Foreign, Known,
        Times, Lists, NoList, Calls, Pcs, OnMain, OnSnap, IsCurrent, Backs,
        CopyInv, CallInv, Committing, lvs, domain, call, count
<1>8. CASE DropEnd
  BY <1>8, SMT
    DEF DropEnd, At, Goto, UnchangedCall, TypeOK, Data, Torn, Blank,
        Foreign, Known, Times, Lists, NoList, Calls, Pcs, OnMain, OnSnap,
        IsCurrent, Backs, CopyInv, CallInv, Committing, lvs, domain, call,
        count
<1>9. CASE Unsnap
  BY <1>9, SMT
    DEF Unsnap, At, Goto, UnchangedCall, TypeOK, Data, Torn, Blank, Foreign,
        Known, Times, Lists, NoList, Calls, Pcs, OnMain, OnSnap, IsCurrent,
        Backs, CopyInv, CallInv, Committing, lvs, domain, call, count
<1>10. CASE Snapshot
  BY <1>10, SMT
    DEF Snapshot, At, Goto, UnchangedCall, CanWork, ToCommit, TypeOK, Data,
        Torn, Blank, Foreign, Known, Times, Lists, NoList, Calls, Pcs,
        OnMain, OnSnap, IsCurrent, Backs, CopyInv, CallInv, Committing, lvs,
        domain, call, count
<1>11. CASE DomainStart
  BY <1>11, SMT
    DEF DomainStart, SnapshotsDisabled, TypeOK, Data, Torn, Blank, Foreign,
        Known, Times, Lists, NoList, Calls, Pcs, OnMain, OnSnap, IsCurrent,
        Backs, CopyInv, CallInv, Committing, lvs, domain, call, count
<1>12. CASE DomainStartFails
  BY <1>12, SMT
    DEF DomainStartFails, TypeOK, Data, Torn, Blank, Foreign, Known, Times,
        Lists, NoList, Calls, Pcs, OnMain, OnSnap, IsCurrent, Backs,
        CopyInv, CallInv, Committing, lvs, domain, call, count
<1>13. CASE Write
  BY <1>13, SMT
    DEF Write, Fresh, TypeOK, Data, Torn, Blank, Foreign, Known, Times,
        Lists, NoList, Calls, Pcs, OnMain, OnSnap, IsCurrent, Backs,
        CopyInv, CallInv, Committing, lvs, domain, call, count
<1>14. CASE DomainEnds
  BY <1>14, SMT
    DEF DomainEnds, TypeOK, Data, Torn, Blank, Foreign, Known, Times, Lists,
        NoList, Calls, Pcs, OnMain, OnSnap, IsCurrent, Backs, CopyInv,
        CallInv, Committing, lvs, domain, call, count
<1>15. CASE StopBegin
  BY <1>15, SMT
    DEF StopBegin, Begin, Commit, SnapshotsDisabled, TypeOK, Data, Torn,
        Blank, Foreign, Known, Times, Lists, NoList, Calls, Pcs, OnMain,
        OnSnap, IsCurrent, Backs, CopyInv, CallInv, Committing, lvs, domain,
        call, count
<1>16. CASE RenameToRevision
  BY <1>16, SMT
    DEF RenameToRevision, BackUp, InUse, Goto, UnchangedCall, CanWork,
        ToCommit, TypeOK, Data, Torn, Blank, Foreign, Known, Times, Lists,
        NoList, Calls, Pcs, OnMain, OnSnap, IsCurrent, Backs, CopyInv,
        CallInv, Committing, lvs, domain, call, count
<1>17. CASE Recache
  BY <1>17, SMT
    DEF Recache, Goto, UnchangedCall, Listed, TypeOK, Data, Torn, Blank,
        Foreign, Known, Times, Lists, NoList, Calls, Pcs, OnMain, OnSnap,
        IsCurrent, Backs, CopyInv, CallInv, Committing, lvs, domain, call,
        count
<1>18. CASE Promote
  BY <1>18, SMT
    DEF Promote, Goto, UnchangedCall, CanWork, ToCommit, TypeOK, Data, Torn,
        Blank, Foreign, Known, Times, Lists, NoList, Calls, Pcs, OnMain,
        OnSnap, IsCurrent, Backs, CopyInv, CallInv, Committing, lvs, domain,
        call, count
<1>19. CASE Prepare
  BY <1>19, SMT
    DEF Prepare, Goto, Surplus, Listed, TypeOK, Data, Torn, Blank, Foreign,
        Known, Times, Lists, NoList, Calls, Pcs, OnMain, OnSnap, IsCurrent,
        Backs, CopyInv, CallInv, Committing, lvs, domain, call, count
<1>20. CASE Prune
  BY <1>20, SMT
    DEF Prune, MayDrop, InUse, TypeOK, Data, Torn, Blank, Foreign, Known,
        Times, Lists, NoList, Calls, Pcs, OnMain, OnSnap, IsCurrent, Backs,
        CopyInv, CallInv, Committing, lvs, domain, call, count
<1>21. CASE PruneEnd
  BY <1>21, SMT
    DEF PruneEnd, Goto, UnchangedCall, TypeOK, Data, Torn, Blank, Foreign,
        Known, Times, Lists, NoList, Calls, Pcs, OnMain, OnSnap, IsCurrent,
        Backs, CopyInv, CallInv, Committing, lvs, domain, call, count
<1>22. CASE Reset
  BY <1>22, SMT
    DEF Reset, End, QubeAfter, Listed, TypeOK, Data, Torn, Blank, Foreign,
        Known, Times, Lists, NoList, Calls, Pcs, OnMain, OnSnap, IsCurrent,
        Backs, CopyInv, CallInv, Committing, lvs, domain, call, count
<1>23. CASE ImportBegin
  BY <1>23, SMT
    DEF ImportBegin, Begin, UnchangedCall, TypeOK, Data, Torn, Blank,
        Foreign, Known, Times, Lists, NoList, Calls, Pcs, OnMain, OnSnap,
        IsCurrent, Backs, CopyInv, CallInv, Committing, lvs, domain, call,
        count
<1>24. CASE ImportCreate
  BY <1>24, SMT
    DEF ImportCreate, At, Goto, UnchangedCall, CanWork, ToCommit, TypeOK,
        Data, Torn, Blank, Foreign, Known, Times, Lists, NoList, Calls, Pcs,
        OnMain, OnSnap, IsCurrent, Backs, CopyInv, CallInv, Committing, lvs,
        domain, call, count
<1>25. CASE Upload
  BY <1>25, SMT
    DEF Upload, Fresh, TypeOK, Data, Torn, Blank, Foreign, Known, Times,
        Lists, NoList, Calls, Pcs, OnMain, OnSnap, IsCurrent, Backs,
        CopyInv, CallInv, Committing, lvs, domain, call, count
<1>26. CASE ImportEnd
  BY <1>26, SMT
    DEF ImportEnd, AfterUpload, Begin, Commit, TypeOK, Data, Torn, Blank,
        Foreign, Known, Times, Lists, NoList, Calls, Pcs, OnMain, OnSnap,
        IsCurrent, Backs, CopyInv, CallInv, Committing, lvs, domain, call,
        count
<1>27. CASE Discard
  BY <1>27, SMT
    DEF Discard, At, Goto, UnchangedCall, TypeOK, Data, Torn, Blank,
        Foreign, Known, Times, Lists, NoList, Calls, Pcs, OnMain, OnSnap,
        IsCurrent, Backs, CopyInv, CallInv, Committing, lvs, domain, call,
        count
<1>28. CASE CloneBegin
  BY <1>28, SMT
    DEF CloneBegin, Begin, Commit, TypeOK, Data, Torn, Blank, Foreign,
        Known, Times, Lists, NoList, Calls, Pcs, OnMain, OnSnap, IsCurrent,
        Backs, CopyInv, CallInv, Committing, lvs, domain, call, count
<1>29. CASE RevertBegin
  BY <1>29, SMT
    DEF RevertBegin, Begin, TypeOK, Data, Torn, Blank, Foreign, Known,
        Times, Lists, NoList, Calls, Pcs, OnMain, OnSnap, IsCurrent, Backs,
        CopyInv, CallInv, Committing, lvs, domain, call, count
<1>30. CASE RevertRemove
  BY <1>30, SMT
    DEF RevertRemove, At, Goto, UnchangedCall, InUse, CanWork, ToCommit,
        TypeOK, Data, Torn, Blank, Foreign, Known, Times, Lists, NoList,
        Calls, Pcs, OnMain, OnSnap, IsCurrent, Backs, CopyInv, CallInv,
        Committing, lvs, domain, call, count
<1>31. CASE RevertRestore
  BY <1>31, SMT
    DEF RevertRestore, At, Goto, UnchangedCall, CanWork, ToCommit, TypeOK,
        Data, Torn, Blank, Foreign, Known, Times, Lists, NoList, Calls, Pcs,
        OnMain, OnSnap, IsCurrent, Backs, CopyInv, CallInv, Committing, lvs,
        domain, call, count
<1>32. CASE SetKeep
  BY <1>32, SMT
    DEF SetKeep, TypeOK, Data, Torn, Blank, Foreign, Known, Times, Lists,
        NoList, Calls, Pcs, OnMain, OnSnap, IsCurrent, Backs, CopyInv,
        CallInv, Committing, lvs, domain, call, count
<1>33. CASE Tick
  BY <1>33, SMT
    DEF Tick, TypeOK, Data, Torn, Blank, Foreign, Known, Times, Lists,
        NoList, Calls, Pcs, OnMain, OnSnap, IsCurrent, Backs, CopyInv,
        CallInv, Committing, lvs, domain, call, count
<1>34. CASE OtherList
  BY <1>34, SMT
    DEF OtherList, Listed, TypeOK, Data, Torn, Blank, Foreign, Known, Times,
        Lists, NoList, Calls, Pcs, OnMain, OnSnap, IsCurrent, Backs,
        CopyInv, CallInv, Committing, lvs, domain, call, count
<1>35. CASE OtherReset
  BY <1>35, SMT
    DEF OtherReset, NoList, TypeOK, Data, Torn, Blank, Foreign, Known,
        Times, Lists, Calls, Pcs, OnMain, OnSnap, IsCurrent, Backs, CopyInv,
        CallInv, Committing, lvs, domain, call, count
<1>36. CASE Crash
  BY <1>36, SMT
    DEF Crash, End, Listed, TypeOK, Data, Torn, Blank, Foreign, Known,
        Times, Lists, NoList, Calls, Pcs, OnMain, OnSnap, IsCurrent, Backs,
        CopyInv, CallInv, Committing, lvs, domain, call, count
<1>37. CASE UNCHANGED vars
  BY <1>37, SMT
    DEF vars, TypeOK, Data, Torn, Blank, Foreign, Known, Times, Lists,
        NoList, Calls, Pcs, OnMain, OnSnap, IsCurrent, Backs, CopyInv,
        CallInv, Committing, lvs, domain, call, count
<1>38. QED
  BY <1>1, <1>2, <1>3, <1>4, <1>5, <1>6, <1>7, <1>8, <1>9, <1>10, <1>11,
     <1>12, <1>13, <1>14, <1>15, <1>16, <1>17, <1>18, <1>19, <1>20, <1>21,
     <1>22, <1>23, <1>24, <1>25, <1>26, <1>27, <1>28, <1>29, <1>30, <1>31,
     <1>32, <1>33, <1>34, <1>35, <1>36, <1>37
    DEF Next

(* A call is where its kind of call can be.                                *)
LEMMA CallStep == VolumeInv /\ [Next]_vars => CallInv'
<1> SUFFICES ASSUME TypeOK, CallInv, CopyInv, DomainInv, CommittedIsWhole,
                    [Next]_vars
             PROVE CallInv'
  BY DEF VolumeInv
<1>1. CASE Wipe
  BY <1>1, SMT
    DEF Wipe, InUse, TypeOK, Data, Torn, Blank, Foreign, Known, Times,
        Lists, NoList, Calls, Pcs, OnMain, OnSnap, CallInv, Committing, lvs,
        domain, call, count
<1>2. CASE Raise
  BY <1>2, SMT
    DEF Raise, End, QubeAfter, Listed, Commands, TypeOK, Data, Torn, Blank,
        Foreign, Known, Times, Lists, NoList, Calls, Pcs, OnMain, OnSnap,
        CallInv, Committing, lvs, domain, call, count
<1>3. CASE Verify
  BY <1>3, SMT
    DEF Verify, TypeOK, Data, Torn, Blank, Foreign, Known, Times, Lists,
        NoList, Calls, Pcs, OnMain, OnSnap, CallInv, Committing, lvs,
        domain, call, count
<1>4. CASE StartRefused
  BY <1>4, SMT
    DEF StartRefused, TypeOK, Data, Torn, Blank, Foreign, Known, Times,
        Lists, NoList, Calls, Pcs, OnMain, OnSnap, CallInv, Committing, lvs,
        domain, call, count
<1>5. CASE StartBegin
  BY <1>5, SMT
    DEF StartBegin, AfterChecks, Begin, Dirty, SnapshotsDisabled,
        ImportInProgress, TypeOK, Data, Torn, Blank, Foreign, Known, Times,
        Lists, NoList, Calls, Pcs, OnMain, OnSnap, CallInv, Committing, lvs,
        domain, call, count
<1>6. CASE Activate
  BY <1>6, SMT
    DEF Activate, At, Goto, UnchangedCall, TypeOK, Data, Torn, Blank,
        Foreign, Known, Times, Lists, NoList, Calls, Pcs, OnMain, OnSnap,
        CallInv, Committing, lvs, domain, call, count
<1>7. CASE Drop
  BY <1>7, SMT
    DEF Drop, At, MayDrop, InUse, TypeOK, Data, Torn, Blank, Foreign, Known,
        Times, Lists, NoList, Calls, Pcs, OnMain, OnSnap, CallInv,
        Committing, lvs, domain, call, count
<1>8. CASE DropEnd
  BY <1>8, SMT
    DEF DropEnd, At, Goto, UnchangedCall, TypeOK, Data, Torn, Blank,
        Foreign, Known, Times, Lists, NoList, Calls, Pcs, OnMain, OnSnap,
        CallInv, Committing, lvs, domain, call, count
<1>9. CASE Unsnap
  BY <1>9, SMT
    DEF Unsnap, At, Goto, UnchangedCall, TypeOK, Data, Torn, Blank, Foreign,
        Known, Times, Lists, NoList, Calls, Pcs, OnMain, OnSnap, CallInv,
        Committing, lvs, domain, call, count
<1>10. CASE Snapshot
  BY <1>10, SMT
    DEF Snapshot, At, Goto, UnchangedCall, CanWork, ToCommit, TypeOK, Data,
        Torn, Blank, Foreign, Known, Times, Lists, NoList, Calls, Pcs,
        OnMain, OnSnap, CallInv, Committing, lvs, domain, call, count
<1>11. CASE DomainStart
  BY <1>11, SMT
    DEF DomainStart, SnapshotsDisabled, TypeOK, Data, Torn, Blank, Foreign,
        Known, Times, Lists, NoList, Calls, Pcs, OnMain, OnSnap, CallInv,
        Committing, lvs, domain, call, count
<1>12. CASE DomainStartFails
  BY <1>12, SMT
    DEF DomainStartFails, TypeOK, Data, Torn, Blank, Foreign, Known, Times,
        Lists, NoList, Calls, Pcs, OnMain, OnSnap, CallInv, Committing, lvs,
        domain, call, count
<1>13. CASE Write
  BY <1>13, SMT
    DEF Write, Fresh, TypeOK, Data, Torn, Blank, Foreign, Known, Times,
        Lists, NoList, Calls, Pcs, OnMain, OnSnap, CallInv, Committing, lvs,
        domain, call, count
<1>14. CASE DomainEnds
  BY <1>14, SMT
    DEF DomainEnds, TypeOK, Data, Torn, Blank, Foreign, Known, Times, Lists,
        NoList, Calls, Pcs, OnMain, OnSnap, CallInv, Committing, lvs,
        domain, call, count
<1>15. CASE StopBegin
  BY <1>15, SMT
    DEF StopBegin, Begin, Commit, SnapshotsDisabled, TypeOK, Data, Torn,
        Blank, Foreign, Known, Times, Lists, NoList, Calls, Pcs, OnMain,
        OnSnap, CallInv, Committing, lvs, domain, call, count
<1>16. CASE RenameToRevision
  BY <1>16, SMT
    DEF RenameToRevision, BackUp, InUse, Goto, UnchangedCall, CanWork,
        ToCommit, TypeOK, Data, Torn, Blank, Foreign, Known, Times, Lists,
        NoList, Calls, Pcs, OnMain, OnSnap, CallInv, Committing, lvs,
        domain, call, count
<1>17. CASE Recache
  BY <1>17, SMT
    DEF Recache, Goto, UnchangedCall, Listed, TypeOK, Data, Torn, Blank,
        Foreign, Known, Times, Lists, NoList, Calls, Pcs, OnMain, OnSnap,
        CallInv, Committing, lvs, domain, call, count
<1>18. CASE Promote
  BY <1>18, SMT
    DEF Promote, Goto, UnchangedCall, CanWork, ToCommit, TypeOK, Data, Torn,
        Blank, Foreign, Known, Times, Lists, NoList, Calls, Pcs, OnMain,
        OnSnap, CallInv, Committing, lvs, domain, call, count
<1>19. CASE Prepare
  BY <1>19, SMT
    DEF Prepare, Goto, Surplus, Listed, TypeOK, Data, Torn, Blank, Foreign,
        Known, Times, Lists, NoList, Calls, Pcs, OnMain, OnSnap, CallInv,
        Committing, lvs, domain, call, count
<1>20. CASE Prune
  BY <1>20, SMT
    DEF Prune, MayDrop, InUse, TypeOK, Data, Torn, Blank, Foreign, Known,
        Times, Lists, NoList, Calls, Pcs, OnMain, OnSnap, CallInv,
        Committing, lvs, domain, call, count
<1>21. CASE PruneEnd
  BY <1>21, SMT
    DEF PruneEnd, Goto, UnchangedCall, TypeOK, Data, Torn, Blank, Foreign,
        Known, Times, Lists, NoList, Calls, Pcs, OnMain, OnSnap, CallInv,
        Committing, lvs, domain, call, count
<1>22. CASE Reset
  BY <1>22, SMT
    DEF Reset, End, QubeAfter, Listed, TypeOK, Data, Torn, Blank, Foreign,
        Known, Times, Lists, NoList, Calls, Pcs, OnMain, OnSnap, CallInv,
        Committing, lvs, domain, call, count
<1>23. CASE ImportBegin
  BY <1>23, SMT
    DEF ImportBegin, Begin, UnchangedCall, TypeOK, Data, Torn, Blank,
        Foreign, Known, Times, Lists, NoList, Calls, Pcs, OnMain, OnSnap,
        CallInv, Committing, lvs, domain, call, count
<1>24. CASE ImportCreate
  BY <1>24, SMT
    DEF ImportCreate, At, Goto, UnchangedCall, CanWork, ToCommit, TypeOK,
        Data, Torn, Blank, Foreign, Known, Times, Lists, NoList, Calls, Pcs,
        OnMain, OnSnap, CallInv, Committing, lvs, domain, call, count
<1>25. CASE Upload
  BY <1>25, SMT
    DEF Upload, Fresh, TypeOK, Data, Torn, Blank, Foreign, Known, Times,
        Lists, NoList, Calls, Pcs, OnMain, OnSnap, CallInv, Committing, lvs,
        domain, call, count
<1>26. CASE ImportEnd
  BY <1>26, SMT
    DEF ImportEnd, AfterUpload, Begin, Commit, TypeOK, Data, Torn, Blank,
        Foreign, Known, Times, Lists, NoList, Calls, Pcs, OnMain, OnSnap,
        CallInv, Committing, lvs, domain, call, count
<1>27. CASE Discard
  BY <1>27, SMT
    DEF Discard, At, Goto, UnchangedCall, TypeOK, Data, Torn, Blank,
        Foreign, Known, Times, Lists, NoList, Calls, Pcs, OnMain, OnSnap,
        CallInv, Committing, lvs, domain, call, count
<1>28. CASE CloneBegin
  BY <1>28, SMT
    DEF CloneBegin, Begin, Commit, TypeOK, Data, Torn, Blank, Foreign,
        Known, Times, Lists, NoList, Calls, Pcs, OnMain, OnSnap, CallInv,
        Committing, lvs, domain, call, count
<1>29. CASE RevertBegin
  BY <1>29, SMT
    DEF RevertBegin, Begin, TypeOK, Data, Torn, Blank, Foreign, Known,
        Times, Lists, NoList, Calls, Pcs, OnMain, OnSnap, CallInv,
        Committing, lvs, domain, call, count
<1>30. CASE RevertRemove
  BY <1>30, SMT
    DEF RevertRemove, At, Goto, UnchangedCall, InUse, CanWork, ToCommit,
        TypeOK, Data, Torn, Blank, Foreign, Known, Times, Lists, NoList,
        Calls, Pcs, OnMain, OnSnap, CallInv, Committing, lvs, domain, call,
        count
<1>31. CASE RevertRestore
  BY <1>31, SMT
    DEF RevertRestore, At, Goto, UnchangedCall, CanWork, ToCommit, TypeOK,
        Data, Torn, Blank, Foreign, Known, Times, Lists, NoList, Calls, Pcs,
        OnMain, OnSnap, CallInv, Committing, lvs, domain, call, count
<1>32. CASE SetKeep
  BY <1>32, SMT
    DEF SetKeep, TypeOK, Data, Torn, Blank, Foreign, Known, Times, Lists,
        NoList, Calls, Pcs, OnMain, OnSnap, CallInv, Committing, lvs,
        domain, call, count
<1>33. CASE Tick
  BY <1>33, SMT
    DEF Tick, TypeOK, Data, Torn, Blank, Foreign, Known, Times, Lists,
        NoList, Calls, Pcs, OnMain, OnSnap, CallInv, Committing, lvs,
        domain, call, count
<1>34. CASE OtherList
  BY <1>34, SMT
    DEF OtherList, Listed, TypeOK, Data, Torn, Blank, Foreign, Known, Times,
        Lists, NoList, Calls, Pcs, OnMain, OnSnap, CallInv, Committing, lvs,
        domain, call, count
<1>35. CASE OtherReset
  BY <1>35, SMT
    DEF OtherReset, NoList, TypeOK, Data, Torn, Blank, Foreign, Known,
        Times, Lists, Calls, Pcs, OnMain, OnSnap, CallInv, Committing, lvs,
        domain, call, count
<1>36. CASE Crash
  BY <1>36, SMT
    DEF Crash, End, Listed, TypeOK, Data, Torn, Blank, Foreign, Known,
        Times, Lists, NoList, Calls, Pcs, OnMain, OnSnap, CallInv,
        Committing, lvs, domain, call, count
<1>37. CASE UNCHANGED vars
  BY <1>37, SMT
    DEF vars, TypeOK, Data, Torn, Blank, Foreign, Known, Times, Lists,
        NoList, Calls, Pcs, OnMain, OnSnap, CallInv, Committing, lvs,
        domain, call, count
<1>38. QED
  BY <1>1, <1>2, <1>3, <1>4, <1>5, <1>6, <1>7, <1>8, <1>9, <1>10, <1>11,
     <1>12, <1>13, <1>14, <1>15, <1>16, <1>17, <1>18, <1>19, <1>20, <1>21,
     <1>22, <1>23, <1>24, <1>25, <1>26, <1>27, <1>28, <1>29, <1>30, <1>31,
     <1>32, <1>33, <1>34, <1>35, <1>36, <1>37
    DEF Next

(* While a call removes volumes there is one it will not remove.           *)
LEMMA CopyStep == VolumeInv /\ [Next]_vars => CopyInv'
<1> SUFFICES ASSUME TypeOK, CallInv, CopyInv, DomainInv, CommittedIsWhole,
                    [Next]_vars
             PROVE CopyInv'
  BY DEF VolumeInv
<1>1. CASE Wipe
  BY <1>1, SMT
    DEF Wipe, InUse, TypeOK, Data, Torn, Blank, Foreign, Known, Times,
        Lists, NoList, Calls, Pcs, OnMain, OnSnap, CallInv, CopyInv,
        Committing, Backs, lvs, domain, call, count
<1>2. CASE Raise
  BY <1>2, SMT
    DEF Raise, End, QubeAfter, Listed, Commands, TypeOK, Data, Torn, Blank,
        Foreign, Known, Times, Lists, NoList, Calls, Pcs, OnMain, OnSnap,
        CallInv, CopyInv, Committing, Backs, lvs, domain, call, count
<1>3. CASE Verify
  BY <1>3, SMT
    DEF Verify, TypeOK, Data, Torn, Blank, Foreign, Known, Times, Lists,
        NoList, Calls, Pcs, OnMain, OnSnap, CallInv, CopyInv, Committing,
        Backs, lvs, domain, call, count
<1>4. CASE StartRefused
  BY <1>4, SMT
    DEF StartRefused, TypeOK, Data, Torn, Blank, Foreign, Known, Times,
        Lists, NoList, Calls, Pcs, OnMain, OnSnap, CallInv, CopyInv,
        Committing, Backs, lvs, domain, call, count
<1>5. CASE StartBegin
  BY <1>5, SMT
    DEF StartBegin, AfterChecks, Begin, Dirty, SnapshotsDisabled,
        ImportInProgress, TypeOK, Data, Torn, Blank, Foreign, Known, Times,
        Lists, NoList, Calls, Pcs, OnMain, OnSnap, CallInv, CopyInv,
        Committing, Backs, lvs, domain, call, count
<1>6. CASE Activate
  BY <1>6, SMT
    DEF Activate, At, Goto, UnchangedCall, TypeOK, Data, Torn, Blank,
        Foreign, Known, Times, Lists, NoList, Calls, Pcs, OnMain, OnSnap,
        CallInv, CopyInv, Committing, Backs, lvs, domain, call, count
<1>7. CASE Drop
  BY <1>7, SMT
    DEF Drop, At, MayDrop, InUse, TypeOK, Data, Torn, Blank, Foreign, Known,
        Times, Lists, NoList, Calls, Pcs, OnMain, OnSnap, CallInv, CopyInv,
        Committing, Backs, lvs, domain, call, count
<1>8. CASE DropEnd
  BY <1>8, SMT
    DEF DropEnd, At, Goto, UnchangedCall, TypeOK, Data, Torn, Blank,
        Foreign, Known, Times, Lists, NoList, Calls, Pcs, OnMain, OnSnap,
        CallInv, CopyInv, Committing, Backs, lvs, domain, call, count
<1>9. CASE Unsnap
  BY <1>9, SMT
    DEF Unsnap, At, Goto, UnchangedCall, TypeOK, Data, Torn, Blank, Foreign,
        Known, Times, Lists, NoList, Calls, Pcs, OnMain, OnSnap, CallInv,
        CopyInv, Committing, Backs, lvs, domain, call, count
<1>10. CASE Snapshot
  BY <1>10, SMT
    DEF Snapshot, At, Goto, UnchangedCall, CanWork, ToCommit, TypeOK, Data,
        Torn, Blank, Foreign, Known, Times, Lists, NoList, Calls, Pcs,
        OnMain, OnSnap, CallInv, CopyInv, Committing, Backs, lvs, domain,
        call, count
<1>11. CASE DomainStart
  BY <1>11, SMT
    DEF DomainStart, SnapshotsDisabled, TypeOK, Data, Torn, Blank, Foreign,
        Known, Times, Lists, NoList, Calls, Pcs, OnMain, OnSnap, CallInv,
        CopyInv, Committing, Backs, lvs, domain, call, count
<1>12. CASE DomainStartFails
  BY <1>12, SMT
    DEF DomainStartFails, TypeOK, Data, Torn, Blank, Foreign, Known, Times,
        Lists, NoList, Calls, Pcs, OnMain, OnSnap, CallInv, CopyInv,
        Committing, Backs, lvs, domain, call, count
<1>13. CASE Write
  BY <1>13, SMT
    DEF Write, Fresh, TypeOK, Data, Torn, Blank, Foreign, Known, Times,
        Lists, NoList, Calls, Pcs, OnMain, OnSnap, CallInv, CopyInv,
        Committing, Backs, lvs, domain, call, count
<1>14. CASE DomainEnds
  BY <1>14, SMT
    DEF DomainEnds, TypeOK, Data, Torn, Blank, Foreign, Known, Times, Lists,
        NoList, Calls, Pcs, OnMain, OnSnap, CallInv, CopyInv, Committing,
        Backs, lvs, domain, call, count
<1>15. CASE StopBegin
  BY <1>15, SMT
    DEF StopBegin, Begin, Commit, SnapshotsDisabled, TypeOK, Data, Torn,
        Blank, Foreign, Known, Times, Lists, NoList, Calls, Pcs, OnMain,
        OnSnap, CallInv, CopyInv, Committing, Backs, lvs, domain, call,
        count
<1>16. CASE RenameToRevision
  BY <1>16, SMT
    DEF RenameToRevision, BackUp, InUse, Goto, UnchangedCall, CanWork,
        ToCommit, TypeOK, Data, Torn, Blank, Foreign, Known, Times, Lists,
        NoList, Calls, Pcs, OnMain, OnSnap, CallInv, CopyInv, Committing,
        Backs, lvs, domain, call, count
<1>17. CASE Recache
  BY <1>17, SMT
    DEF Recache, Goto, UnchangedCall, Listed, TypeOK, Data, Torn, Blank,
        Foreign, Known, Times, Lists, NoList, Calls, Pcs, OnMain, OnSnap,
        CallInv, CopyInv, Committing, Backs, lvs, domain, call, count
<1>18. CASE Promote
  BY <1>18, SMT
    DEF Promote, Goto, UnchangedCall, CanWork, ToCommit, TypeOK, Data, Torn,
        Blank, Foreign, Known, Times, Lists, NoList, Calls, Pcs, OnMain,
        OnSnap, CallInv, CopyInv, Committing, Backs, lvs, domain, call,
        count
<1>19. CASE Prepare
  BY <1>19, SMT
    DEF Prepare, Goto, Surplus, Listed, TypeOK, Data, Torn, Blank, Foreign,
        Known, Times, Lists, NoList, Calls, Pcs, OnMain, OnSnap, CallInv,
        CopyInv, Committing, Backs, lvs, domain, call, count
<1>20. CASE Prune
  BY <1>20, SMT
    DEF Prune, MayDrop, InUse, TypeOK, Data, Torn, Blank, Foreign, Known,
        Times, Lists, NoList, Calls, Pcs, OnMain, OnSnap, CallInv, CopyInv,
        Committing, Backs, lvs, domain, call, count
<1>21. CASE PruneEnd
  BY <1>21, SMT
    DEF PruneEnd, Goto, UnchangedCall, TypeOK, Data, Torn, Blank, Foreign,
        Known, Times, Lists, NoList, Calls, Pcs, OnMain, OnSnap, CallInv,
        CopyInv, Committing, Backs, lvs, domain, call, count
<1>22. CASE Reset
  BY <1>22, SMT
    DEF Reset, End, QubeAfter, Listed, TypeOK, Data, Torn, Blank, Foreign,
        Known, Times, Lists, NoList, Calls, Pcs, OnMain, OnSnap, CallInv,
        CopyInv, Committing, Backs, lvs, domain, call, count
<1>23. CASE ImportBegin
  BY <1>23, SMT
    DEF ImportBegin, Begin, UnchangedCall, TypeOK, Data, Torn, Blank,
        Foreign, Known, Times, Lists, NoList, Calls, Pcs, OnMain, OnSnap,
        CallInv, CopyInv, Committing, Backs, lvs, domain, call, count
<1>24. CASE ImportCreate
  BY <1>24, SMT
    DEF ImportCreate, At, Goto, UnchangedCall, CanWork, ToCommit, TypeOK,
        Data, Torn, Blank, Foreign, Known, Times, Lists, NoList, Calls, Pcs,
        OnMain, OnSnap, CallInv, CopyInv, Committing, Backs, lvs, domain,
        call, count
<1>25. CASE Upload
  BY <1>25, SMT
    DEF Upload, Fresh, TypeOK, Data, Torn, Blank, Foreign, Known, Times,
        Lists, NoList, Calls, Pcs, OnMain, OnSnap, CallInv, CopyInv,
        Committing, Backs, lvs, domain, call, count
<1>26. CASE ImportEnd
  BY <1>26, SMT
    DEF ImportEnd, AfterUpload, Begin, Commit, TypeOK, Data, Torn, Blank,
        Foreign, Known, Times, Lists, NoList, Calls, Pcs, OnMain, OnSnap,
        CallInv, CopyInv, Committing, Backs, lvs, domain, call, count
<1>27. CASE Discard
  BY <1>27, SMT
    DEF Discard, At, Goto, UnchangedCall, TypeOK, Data, Torn, Blank,
        Foreign, Known, Times, Lists, NoList, Calls, Pcs, OnMain, OnSnap,
        CallInv, CopyInv, Committing, Backs, lvs, domain, call, count
<1>28. CASE CloneBegin
  BY <1>28, SMT
    DEF CloneBegin, Begin, Commit, TypeOK, Data, Torn, Blank, Foreign,
        Known, Times, Lists, NoList, Calls, Pcs, OnMain, OnSnap, CallInv,
        CopyInv, Committing, Backs, lvs, domain, call, count
<1>29. CASE RevertBegin
  BY <1>29, SMT
    DEF RevertBegin, Begin, TypeOK, Data, Torn, Blank, Foreign, Known,
        Times, Lists, NoList, Calls, Pcs, OnMain, OnSnap, CallInv, CopyInv,
        Committing, Backs, lvs, domain, call, count
<1>30. CASE RevertRemove
  BY <1>30, SMT
    DEF RevertRemove, At, Goto, UnchangedCall, InUse, CanWork, ToCommit,
        TypeOK, Data, Torn, Blank, Foreign, Known, Times, Lists, NoList,
        Calls, Pcs, OnMain, OnSnap, CallInv, CopyInv, Committing, Backs,
        lvs, domain, call, count
<1>31. CASE RevertRestore
  BY <1>31, SMT
    DEF RevertRestore, At, Goto, UnchangedCall, CanWork, ToCommit, TypeOK,
        Data, Torn, Blank, Foreign, Known, Times, Lists, NoList, Calls, Pcs,
        OnMain, OnSnap, CallInv, CopyInv, Committing, Backs, lvs, domain,
        call, count
<1>32. CASE SetKeep
  BY <1>32, SMT
    DEF SetKeep, TypeOK, Data, Torn, Blank, Foreign, Known, Times, Lists,
        NoList, Calls, Pcs, OnMain, OnSnap, CallInv, CopyInv, Committing,
        Backs, lvs, domain, call, count
<1>33. CASE Tick
  BY <1>33, SMT
    DEF Tick, TypeOK, Data, Torn, Blank, Foreign, Known, Times, Lists,
        NoList, Calls, Pcs, OnMain, OnSnap, CallInv, CopyInv, Committing,
        Backs, lvs, domain, call, count
<1>34. CASE OtherList
  BY <1>34, SMT
    DEF OtherList, Listed, TypeOK, Data, Torn, Blank, Foreign, Known, Times,
        Lists, NoList, Calls, Pcs, OnMain, OnSnap, CallInv, CopyInv,
        Committing, Backs, lvs, domain, call, count
<1>35. CASE OtherReset
  BY <1>35, SMT
    DEF OtherReset, NoList, TypeOK, Data, Torn, Blank, Foreign, Known,
        Times, Lists, Calls, Pcs, OnMain, OnSnap, CallInv, CopyInv,
        Committing, Backs, lvs, domain, call, count
<1>36. CASE Crash
  BY <1>36, SMT
    DEF Crash, End, Listed, TypeOK, Data, Torn, Blank, Foreign, Known,
        Times, Lists, NoList, Calls, Pcs, OnMain, OnSnap, CallInv, CopyInv,
        Committing, Backs, lvs, domain, call, count
<1>37. CASE UNCHANGED vars
  BY <1>37, SMT
    DEF vars, TypeOK, Data, Torn, Blank, Foreign, Known, Times, Lists,
        NoList, Calls, Pcs, OnMain, OnSnap, CallInv, CopyInv, Committing,
        Backs, lvs, domain, call, count
<1>38. QED
  BY <1>1, <1>2, <1>3, <1>4, <1>5, <1>6, <1>7, <1>8, <1>9, <1>10, <1>11,
     <1>12, <1>13, <1>14, <1>15, <1>16, <1>17, <1>18, <1>19, <1>20, <1>21,
     <1>22, <1>23, <1>24, <1>25, <1>26, <1>27, <1>28, <1>29, <1>30, <1>31,
     <1>32, <1>33, <1>34, <1>35, <1>36, <1>37
    DEF Next

(* The domain's volume exists, and no revision is from the future.         *)
LEMMA DomainStep == VolumeInv /\ [Next]_vars => DomainInv'
<1> SUFFICES ASSUME TypeOK, CallInv, CopyInv, DomainInv, CommittedIsWhole,
                    [Next]_vars
             PROVE DomainInv'
  BY DEF VolumeInv
<1>1. CASE Wipe
  BY <1>1, SMT
    DEF Wipe, InUse, TypeOK, Data, Torn, Blank, Foreign, Known, Times,
        Lists, NoList, Calls, Pcs, OnMain, OnSnap, CallInv, CopyInv,
        DomainInv, Committing, Backs, lvs, domain, call, count
<1>2. CASE Raise
  BY <1>2, SMT
    DEF Raise, End, QubeAfter, Listed, Commands, TypeOK, Data, Torn, Blank,
        Foreign, Known, Times, Lists, NoList, Calls, Pcs, OnMain, OnSnap,
        CallInv, CopyInv, DomainInv, Committing, Backs, lvs, domain, call,
        count
<1>3. CASE Verify
  BY <1>3, SMT
    DEF Verify, TypeOK, Data, Torn, Blank, Foreign, Known, Times, Lists,
        NoList, Calls, Pcs, OnMain, OnSnap, CallInv, CopyInv, DomainInv,
        Committing, Backs, lvs, domain, call, count
<1>4. CASE StartRefused
  BY <1>4, SMT
    DEF StartRefused, TypeOK, Data, Torn, Blank, Foreign, Known, Times,
        Lists, NoList, Calls, Pcs, OnMain, OnSnap, CallInv, CopyInv,
        DomainInv, Committing, Backs, lvs, domain, call, count
<1>5. CASE StartBegin
  BY <1>5, SMT
    DEF StartBegin, AfterChecks, Begin, Dirty, SnapshotsDisabled,
        ImportInProgress, TypeOK, Data, Torn, Blank, Foreign, Known, Times,
        Lists, NoList, Calls, Pcs, OnMain, OnSnap, CallInv, CopyInv,
        DomainInv, Committing, Backs, lvs, domain, call, count
<1>6. CASE Activate
  BY <1>6, SMT
    DEF Activate, At, Goto, UnchangedCall, TypeOK, Data, Torn, Blank,
        Foreign, Known, Times, Lists, NoList, Calls, Pcs, OnMain, OnSnap,
        CallInv, CopyInv, DomainInv, Committing, Backs, lvs, domain, call,
        count
<1>7. CASE Drop
  BY <1>7, SMT
    DEF Drop, At, MayDrop, InUse, TypeOK, Data, Torn, Blank, Foreign, Known,
        Times, Lists, NoList, Calls, Pcs, OnMain, OnSnap, CallInv, CopyInv,
        DomainInv, Committing, Backs, lvs, domain, call, count
<1>8. CASE DropEnd
  BY <1>8, SMT
    DEF DropEnd, At, Goto, UnchangedCall, TypeOK, Data, Torn, Blank,
        Foreign, Known, Times, Lists, NoList, Calls, Pcs, OnMain, OnSnap,
        CallInv, CopyInv, DomainInv, Committing, Backs, lvs, domain, call,
        count
<1>9. CASE Unsnap
  BY <1>9, SMT
    DEF Unsnap, At, Goto, UnchangedCall, TypeOK, Data, Torn, Blank, Foreign,
        Known, Times, Lists, NoList, Calls, Pcs, OnMain, OnSnap, CallInv,
        CopyInv, DomainInv, Committing, Backs, lvs, domain, call, count
<1>10. CASE Snapshot
  BY <1>10, SMT
    DEF Snapshot, At, Goto, UnchangedCall, CanWork, ToCommit, TypeOK, Data,
        Torn, Blank, Foreign, Known, Times, Lists, NoList, Calls, Pcs,
        OnMain, OnSnap, CallInv, CopyInv, DomainInv, Committing, Backs, lvs,
        domain, call, count
<1>11. CASE DomainStart
  BY <1>11, SMT
    DEF DomainStart, SnapshotsDisabled, TypeOK, Data, Torn, Blank, Foreign,
        Known, Times, Lists, NoList, Calls, Pcs, OnMain, OnSnap, CallInv,
        CopyInv, DomainInv, Committing, Backs, lvs, domain, call, count
<1>12. CASE DomainStartFails
  BY <1>12, SMT
    DEF DomainStartFails, TypeOK, Data, Torn, Blank, Foreign, Known, Times,
        Lists, NoList, Calls, Pcs, OnMain, OnSnap, CallInv, CopyInv,
        DomainInv, Committing, Backs, lvs, domain, call, count
<1>13. CASE Write
  BY <1>13, SMT
    DEF Write, Fresh, TypeOK, Data, Torn, Blank, Foreign, Known, Times,
        Lists, NoList, Calls, Pcs, OnMain, OnSnap, CallInv, CopyInv,
        DomainInv, Committing, Backs, lvs, domain, call, count
<1>14. CASE DomainEnds
  BY <1>14, SMT
    DEF DomainEnds, TypeOK, Data, Torn, Blank, Foreign, Known, Times, Lists,
        NoList, Calls, Pcs, OnMain, OnSnap, CallInv, CopyInv, DomainInv,
        Committing, Backs, lvs, domain, call, count
<1>15. CASE StopBegin
  BY <1>15, SMT
    DEF StopBegin, Begin, Commit, SnapshotsDisabled, TypeOK, Data, Torn,
        Blank, Foreign, Known, Times, Lists, NoList, Calls, Pcs, OnMain,
        OnSnap, CallInv, CopyInv, DomainInv, Committing, Backs, lvs, domain,
        call, count
<1>16. CASE RenameToRevision
  BY <1>16, SMT
    DEF RenameToRevision, BackUp, InUse, Goto, UnchangedCall, CanWork,
        ToCommit, TypeOK, Data, Torn, Blank, Foreign, Known, Times, Lists,
        NoList, Calls, Pcs, OnMain, OnSnap, CallInv, CopyInv, DomainInv,
        Committing, Backs, lvs, domain, call, count
<1>17. CASE Recache
  BY <1>17, SMT
    DEF Recache, Goto, UnchangedCall, Listed, TypeOK, Data, Torn, Blank,
        Foreign, Known, Times, Lists, NoList, Calls, Pcs, OnMain, OnSnap,
        CallInv, CopyInv, DomainInv, Committing, Backs, lvs, domain, call,
        count
<1>18. CASE Promote
  BY <1>18, SMT
    DEF Promote, Goto, UnchangedCall, CanWork, ToCommit, TypeOK, Data, Torn,
        Blank, Foreign, Known, Times, Lists, NoList, Calls, Pcs, OnMain,
        OnSnap, CallInv, CopyInv, DomainInv, Committing, Backs, lvs, domain,
        call, count
<1>19. CASE Prepare
  BY <1>19, SMT
    DEF Prepare, Goto, Surplus, Listed, TypeOK, Data, Torn, Blank, Foreign,
        Known, Times, Lists, NoList, Calls, Pcs, OnMain, OnSnap, CallInv,
        CopyInv, DomainInv, Committing, Backs, lvs, domain, call, count
<1>20. CASE Prune
  BY <1>20, SMT
    DEF Prune, MayDrop, InUse, TypeOK, Data, Torn, Blank, Foreign, Known,
        Times, Lists, NoList, Calls, Pcs, OnMain, OnSnap, CallInv, CopyInv,
        DomainInv, Committing, Backs, lvs, domain, call, count
<1>21. CASE PruneEnd
  BY <1>21, SMT
    DEF PruneEnd, Goto, UnchangedCall, TypeOK, Data, Torn, Blank, Foreign,
        Known, Times, Lists, NoList, Calls, Pcs, OnMain, OnSnap, CallInv,
        CopyInv, DomainInv, Committing, Backs, lvs, domain, call, count
<1>22. CASE Reset
  BY <1>22, SMT
    DEF Reset, End, QubeAfter, Listed, TypeOK, Data, Torn, Blank, Foreign,
        Known, Times, Lists, NoList, Calls, Pcs, OnMain, OnSnap, CallInv,
        CopyInv, DomainInv, Committing, Backs, lvs, domain, call, count
<1>23. CASE ImportBegin
  BY <1>23, SMT
    DEF ImportBegin, Begin, UnchangedCall, TypeOK, Data, Torn, Blank,
        Foreign, Known, Times, Lists, NoList, Calls, Pcs, OnMain, OnSnap,
        CallInv, CopyInv, DomainInv, Committing, Backs, lvs, domain, call,
        count
<1>24. CASE ImportCreate
  BY <1>24, SMT
    DEF ImportCreate, At, Goto, UnchangedCall, CanWork, ToCommit, TypeOK,
        Data, Torn, Blank, Foreign, Known, Times, Lists, NoList, Calls, Pcs,
        OnMain, OnSnap, CallInv, CopyInv, DomainInv, Committing, Backs, lvs,
        domain, call, count
<1>25. CASE Upload
  BY <1>25, SMT
    DEF Upload, Fresh, TypeOK, Data, Torn, Blank, Foreign, Known, Times,
        Lists, NoList, Calls, Pcs, OnMain, OnSnap, CallInv, CopyInv,
        DomainInv, Committing, Backs, lvs, domain, call, count
<1>26. CASE ImportEnd
  BY <1>26, SMT
    DEF ImportEnd, AfterUpload, Begin, Commit, TypeOK, Data, Torn, Blank,
        Foreign, Known, Times, Lists, NoList, Calls, Pcs, OnMain, OnSnap,
        CallInv, CopyInv, DomainInv, Committing, Backs, lvs, domain, call,
        count
<1>27. CASE Discard
  BY <1>27, SMT
    DEF Discard, At, Goto, UnchangedCall, TypeOK, Data, Torn, Blank,
        Foreign, Known, Times, Lists, NoList, Calls, Pcs, OnMain, OnSnap,
        CallInv, CopyInv, DomainInv, Committing, Backs, lvs, domain, call,
        count
<1>28. CASE CloneBegin
  BY <1>28, SMT
    DEF CloneBegin, Begin, Commit, TypeOK, Data, Torn, Blank, Foreign,
        Known, Times, Lists, NoList, Calls, Pcs, OnMain, OnSnap, CallInv,
        CopyInv, DomainInv, Committing, Backs, lvs, domain, call, count
<1>29. CASE RevertBegin
  BY <1>29, SMT
    DEF RevertBegin, Begin, TypeOK, Data, Torn, Blank, Foreign, Known,
        Times, Lists, NoList, Calls, Pcs, OnMain, OnSnap, CallInv, CopyInv,
        DomainInv, Committing, Backs, lvs, domain, call, count
<1>30. CASE RevertRemove
  BY <1>30, SMT
    DEF RevertRemove, At, Goto, UnchangedCall, InUse, CanWork, ToCommit,
        TypeOK, Data, Torn, Blank, Foreign, Known, Times, Lists, NoList,
        Calls, Pcs, OnMain, OnSnap, CallInv, CopyInv, DomainInv, Committing,
        Backs, lvs, domain, call, count
<1>31. CASE RevertRestore
  BY <1>31, SMT
    DEF RevertRestore, At, Goto, UnchangedCall, CanWork, ToCommit, TypeOK,
        Data, Torn, Blank, Foreign, Known, Times, Lists, NoList, Calls, Pcs,
        OnMain, OnSnap, CallInv, CopyInv, DomainInv, Committing, Backs, lvs,
        domain, call, count
<1>32. CASE SetKeep
  BY <1>32, SMT
    DEF SetKeep, TypeOK, Data, Torn, Blank, Foreign, Known, Times, Lists,
        NoList, Calls, Pcs, OnMain, OnSnap, CallInv, CopyInv, DomainInv,
        Committing, Backs, lvs, domain, call, count
<1>33. CASE Tick
  BY <1>33, SMT
    DEF Tick, TypeOK, Data, Torn, Blank, Foreign, Known, Times, Lists,
        NoList, Calls, Pcs, OnMain, OnSnap, CallInv, CopyInv, DomainInv,
        Committing, Backs, lvs, domain, call, count
<1>34. CASE OtherList
  BY <1>34, SMT
    DEF OtherList, Listed, TypeOK, Data, Torn, Blank, Foreign, Known, Times,
        Lists, NoList, Calls, Pcs, OnMain, OnSnap, CallInv, CopyInv,
        DomainInv, Committing, Backs, lvs, domain, call, count
<1>35. CASE OtherReset
  BY <1>35, SMT
    DEF OtherReset, NoList, TypeOK, Data, Torn, Blank, Foreign, Known,
        Times, Lists, Calls, Pcs, OnMain, OnSnap, CallInv, CopyInv,
        DomainInv, Committing, Backs, lvs, domain, call, count
<1>36. CASE Crash
  BY <1>36, SMT
    DEF Crash, End, Listed, TypeOK, Data, Torn, Blank, Foreign, Known,
        Times, Lists, NoList, Calls, Pcs, OnMain, OnSnap, CallInv, CopyInv,
        DomainInv, Committing, Backs, lvs, domain, call, count
<1>37. CASE UNCHANGED vars
  BY <1>37, SMT
    DEF vars, TypeOK, Data, Torn, Blank, Foreign, Known, Times, Lists,
        NoList, Calls, Pcs, OnMain, OnSnap, CallInv, CopyInv, DomainInv,
        Committing, Backs, lvs, domain, call, count
<1>38. QED
  BY <1>1, <1>2, <1>3, <1>4, <1>5, <1>6, <1>7, <1>8, <1>9, <1>10, <1>11,
     <1>12, <1>13, <1>14, <1>15, <1>16, <1>17, <1>18, <1>19, <1>20, <1>21,
     <1>22, <1>23, <1>24, <1>25, <1>26, <1>27, <1>28, <1>29, <1>30, <1>31,
     <1>32, <1>33, <1>34, <1>35, <1>36, <1>37
    DEF Next

(* No unfinished import is committed.                                      *)
LEMMA WholeStep == VolumeInv /\ [Next]_vars => CommittedIsWhole'
<1> SUFFICES ASSUME TypeOK, CallInv, CopyInv, DomainInv, CommittedIsWhole,
                    [Next]_vars
             PROVE CommittedIsWhole'
  BY DEF VolumeInv
<1>1. CASE Wipe
  BY <1>1, SMT
    DEF Wipe, InUse, TypeOK, Data, Torn, Blank, Foreign, Known, Times,
        Lists, NoList, Calls, Pcs, OnMain, OnSnap, CallInv, CopyInv,
        CommittedIsWhole, Committing, Backs, IsCurrent, lvs, domain, call,
        count
<1>2. CASE Raise
  BY <1>2, SMT
    DEF Raise, End, QubeAfter, Listed, Commands, TypeOK, Data, Torn, Blank,
        Foreign, Known, Times, Lists, NoList, Calls, Pcs, OnMain, OnSnap,
        CallInv, CopyInv, CommittedIsWhole, Committing, Backs, IsCurrent,
        lvs, domain, call, count
<1>3. CASE Verify
  BY <1>3, SMT
    DEF Verify, TypeOK, Data, Torn, Blank, Foreign, Known, Times, Lists,
        NoList, Calls, Pcs, OnMain, OnSnap, CallInv, CopyInv,
        CommittedIsWhole, Committing, Backs, IsCurrent, lvs, domain, call,
        count
<1>4. CASE StartRefused
  BY <1>4, SMT
    DEF StartRefused, TypeOK, Data, Torn, Blank, Foreign, Known, Times,
        Lists, NoList, Calls, Pcs, OnMain, OnSnap, CallInv, CopyInv,
        CommittedIsWhole, Committing, Backs, IsCurrent, lvs, domain, call,
        count
<1>5. CASE StartBegin
  BY <1>5, SMT
    DEF StartBegin, AfterChecks, Begin, Dirty, SnapshotsDisabled,
        ImportInProgress, TypeOK, Data, Torn, Blank, Foreign, Known, Times,
        Lists, NoList, Calls, Pcs, OnMain, OnSnap, CallInv, CopyInv,
        CommittedIsWhole, Committing, Backs, IsCurrent, lvs, domain, call,
        count
<1>6. CASE Activate
  BY <1>6, SMT
    DEF Activate, At, Goto, UnchangedCall, TypeOK, Data, Torn, Blank,
        Foreign, Known, Times, Lists, NoList, Calls, Pcs, OnMain, OnSnap,
        CallInv, CopyInv, CommittedIsWhole, Committing, Backs, IsCurrent,
        lvs, domain, call, count
<1>7. CASE Drop
  BY <1>7, SMT
    DEF Drop, At, MayDrop, InUse, TypeOK, Data, Torn, Blank, Foreign, Known,
        Times, Lists, NoList, Calls, Pcs, OnMain, OnSnap, CallInv, CopyInv,
        CommittedIsWhole, Committing, Backs, IsCurrent, lvs, domain, call,
        count
<1>8. CASE DropEnd
  BY <1>8, SMT
    DEF DropEnd, At, Goto, UnchangedCall, TypeOK, Data, Torn, Blank,
        Foreign, Known, Times, Lists, NoList, Calls, Pcs, OnMain, OnSnap,
        CallInv, CopyInv, CommittedIsWhole, Committing, Backs, IsCurrent,
        lvs, domain, call, count
<1>9. CASE Unsnap
  BY <1>9, SMT
    DEF Unsnap, At, Goto, UnchangedCall, TypeOK, Data, Torn, Blank, Foreign,
        Known, Times, Lists, NoList, Calls, Pcs, OnMain, OnSnap, CallInv,
        CopyInv, CommittedIsWhole, Committing, Backs, IsCurrent, lvs,
        domain, call, count
<1>10. CASE Snapshot
  BY <1>10, SMT
    DEF Snapshot, At, Goto, UnchangedCall, CanWork, ToCommit, TypeOK, Data,
        Torn, Blank, Foreign, Known, Times, Lists, NoList, Calls, Pcs,
        OnMain, OnSnap, CallInv, CopyInv, CommittedIsWhole, Committing,
        Backs, IsCurrent, lvs, domain, call, count
<1>11. CASE DomainStart
  BY <1>11, SMT
    DEF DomainStart, SnapshotsDisabled, TypeOK, Data, Torn, Blank, Foreign,
        Known, Times, Lists, NoList, Calls, Pcs, OnMain, OnSnap, CallInv,
        CopyInv, CommittedIsWhole, Committing, Backs, IsCurrent, lvs,
        domain, call, count
<1>12. CASE DomainStartFails
  BY <1>12, SMT
    DEF DomainStartFails, TypeOK, Data, Torn, Blank, Foreign, Known, Times,
        Lists, NoList, Calls, Pcs, OnMain, OnSnap, CallInv, CopyInv,
        CommittedIsWhole, Committing, Backs, IsCurrent, lvs, domain, call,
        count
<1>13. CASE Write
  <2>1. PICK d \in Data : Write!2!(d)
    BY <1>13 DEF Write
  <2>2. d # Torn
    BY <2>1, SMT DEF Data, Torn
  <2>3. main' \in {main, d} /\ snap' \in {snap, d}
    BY <2>1, SMT
  <2>4. ASSUME NEW t \in Times PROVE revs'[t] \in {revs[t], d}
    BY <2>1, SMT DEF TypeOK, Times
  <2>5. QED
    BY <2>2, <2>3, <2>4 DEF CommittedIsWhole, Times
<1>14. CASE DomainEnds
  BY <1>14, SMT
    DEF DomainEnds, TypeOK, Data, Torn, Blank, Foreign, Known, Times, Lists,
        NoList, Calls, Pcs, OnMain, OnSnap, CallInv, CopyInv,
        CommittedIsWhole, Committing, Backs, IsCurrent, lvs, domain, call,
        count
<1>15. CASE StopBegin
  BY <1>15, SMT
    DEF StopBegin, Begin, Commit, SnapshotsDisabled, TypeOK, Data, Torn,
        Blank, Foreign, Known, Times, Lists, NoList, Calls, Pcs, OnMain,
        OnSnap, CallInv, CopyInv, CommittedIsWhole, Committing, Backs,
        IsCurrent, lvs, domain, call, count
<1>16. CASE RenameToRevision
  BY <1>16, SMT
    DEF RenameToRevision, BackUp, InUse, Goto, UnchangedCall, CanWork,
        ToCommit, TypeOK, Data, Torn, Blank, Foreign, Known, Times, Lists,
        NoList, Calls, Pcs, OnMain, OnSnap, CallInv, CopyInv,
        CommittedIsWhole, Committing, Backs, IsCurrent, lvs, domain, call,
        count
<1>17. CASE Recache
  BY <1>17, SMT
    DEF Recache, Goto, UnchangedCall, Listed, TypeOK, Data, Torn, Blank,
        Foreign, Known, Times, Lists, NoList, Calls, Pcs, OnMain, OnSnap,
        CallInv, CopyInv, CommittedIsWhole, Committing, Backs, IsCurrent,
        lvs, domain, call, count
<1>18. CASE Promote
  <2>1. ToCommit # Torn
    BY <1>18, SMT
      DEF Promote, ToCommit, CallInv, CopyInv, CommittedIsWhole, Committing,
          TypeOK, Calls, Data, Torn, Foreign
  <2>2. main' = ToCommit /\ snap' \in {0, snap} /\ revs' = revs
    BY <1>18 DEF Promote
  <2>3. Torn # 0
    BY SMT DEF Torn
  <2>4. QED
    BY <2>1, <2>2, <2>3 DEF CommittedIsWhole, Times, Torn
<1>19. CASE Prepare
  BY <1>19, SMT
    DEF Prepare, Goto, Surplus, Listed, TypeOK, Data, Torn, Blank, Foreign,
        Known, Times, Lists, NoList, Calls, Pcs, OnMain, OnSnap, CallInv,
        CopyInv, CommittedIsWhole, Committing, Backs, IsCurrent, lvs,
        domain, call, count
<1>20. CASE Prune
  BY <1>20, SMT
    DEF Prune, MayDrop, InUse, TypeOK, Data, Torn, Blank, Foreign, Known,
        Times, Lists, NoList, Calls, Pcs, OnMain, OnSnap, CallInv, CopyInv,
        CommittedIsWhole, Committing, Backs, IsCurrent, lvs, domain, call,
        count
<1>21. CASE PruneEnd
  BY <1>21, SMT
    DEF PruneEnd, Goto, UnchangedCall, TypeOK, Data, Torn, Blank, Foreign,
        Known, Times, Lists, NoList, Calls, Pcs, OnMain, OnSnap, CallInv,
        CopyInv, CommittedIsWhole, Committing, Backs, IsCurrent, lvs,
        domain, call, count
<1>22. CASE Reset
  BY <1>22, SMT
    DEF Reset, End, QubeAfter, Listed, TypeOK, Data, Torn, Blank, Foreign,
        Known, Times, Lists, NoList, Calls, Pcs, OnMain, OnSnap, CallInv,
        CopyInv, CommittedIsWhole, Committing, Backs, IsCurrent, lvs,
        domain, call, count
<1>23. CASE ImportBegin
  BY <1>23, SMT
    DEF ImportBegin, Begin, UnchangedCall, TypeOK, Data, Torn, Blank,
        Foreign, Known, Times, Lists, NoList, Calls, Pcs, OnMain, OnSnap,
        CallInv, CopyInv, CommittedIsWhole, Committing, Backs, IsCurrent,
        lvs, domain, call, count
<1>24. CASE ImportCreate
  BY <1>24, SMT
    DEF ImportCreate, At, Goto, UnchangedCall, CanWork, ToCommit, TypeOK,
        Data, Torn, Blank, Foreign, Known, Times, Lists, NoList, Calls, Pcs,
        OnMain, OnSnap, CallInv, CopyInv, CommittedIsWhole, Committing,
        Backs, IsCurrent, lvs, domain, call, count
<1>25. CASE Upload
  BY <1>25, SMT
    DEF Upload, Fresh, TypeOK, Data, Torn, Blank, Foreign, Known, Times,
        Lists, NoList, Calls, Pcs, OnMain, OnSnap, CallInv, CopyInv,
        CommittedIsWhole, Committing, Backs, IsCurrent, lvs, domain, call,
        count
<1>26. CASE ImportEnd
  BY <1>26, SMT
    DEF ImportEnd, AfterUpload, Begin, Commit, TypeOK, Data, Torn, Blank,
        Foreign, Known, Times, Lists, NoList, Calls, Pcs, OnMain, OnSnap,
        CallInv, CopyInv, CommittedIsWhole, Committing, Backs, IsCurrent,
        lvs, domain, call, count
<1>27. CASE Discard
  BY <1>27, SMT
    DEF Discard, At, Goto, UnchangedCall, TypeOK, Data, Torn, Blank,
        Foreign, Known, Times, Lists, NoList, Calls, Pcs, OnMain, OnSnap,
        CallInv, CopyInv, CommittedIsWhole, Committing, Backs, IsCurrent,
        lvs, domain, call, count
<1>28. CASE CloneBegin
  BY <1>28, SMT
    DEF CloneBegin, Begin, Commit, TypeOK, Data, Torn, Blank, Foreign,
        Known, Times, Lists, NoList, Calls, Pcs, OnMain, OnSnap, CallInv,
        CopyInv, CommittedIsWhole, Committing, Backs, IsCurrent, lvs,
        domain, call, count
<1>29. CASE RevertBegin
  BY <1>29, SMT
    DEF RevertBegin, Begin, TypeOK, Data, Torn, Blank, Foreign, Known,
        Times, Lists, NoList, Calls, Pcs, OnMain, OnSnap, CallInv, CopyInv,
        CommittedIsWhole, Committing, Backs, IsCurrent, lvs, domain, call,
        count
<1>30. CASE RevertRemove
  BY <1>30, SMT
    DEF RevertRemove, At, Goto, UnchangedCall, InUse, CanWork, ToCommit,
        TypeOK, Data, Torn, Blank, Foreign, Known, Times, Lists, NoList,
        Calls, Pcs, OnMain, OnSnap, CallInv, CopyInv, CommittedIsWhole,
        Committing, Backs, IsCurrent, lvs, domain, call, count
<1>31. CASE RevertRestore
  BY <1>31, SMT
    DEF RevertRestore, At, Goto, UnchangedCall, CanWork, ToCommit, TypeOK,
        Data, Torn, Blank, Foreign, Known, Times, Lists, NoList, Calls, Pcs,
        OnMain, OnSnap, CallInv, CopyInv, CommittedIsWhole, Committing,
        Backs, IsCurrent, lvs, domain, call, count
<1>32. CASE SetKeep
  BY <1>32, SMT
    DEF SetKeep, TypeOK, Data, Torn, Blank, Foreign, Known, Times, Lists,
        NoList, Calls, Pcs, OnMain, OnSnap, CallInv, CopyInv,
        CommittedIsWhole, Committing, Backs, IsCurrent, lvs, domain, call,
        count
<1>33. CASE Tick
  BY <1>33, SMT
    DEF Tick, TypeOK, Data, Torn, Blank, Foreign, Known, Times, Lists,
        NoList, Calls, Pcs, OnMain, OnSnap, CallInv, CopyInv,
        CommittedIsWhole, Committing, Backs, IsCurrent, lvs, domain, call,
        count
<1>34. CASE OtherList
  BY <1>34, SMT
    DEF OtherList, Listed, TypeOK, Data, Torn, Blank, Foreign, Known, Times,
        Lists, NoList, Calls, Pcs, OnMain, OnSnap, CallInv, CopyInv,
        CommittedIsWhole, Committing, Backs, IsCurrent, lvs, domain, call,
        count
<1>35. CASE OtherReset
  BY <1>35, SMT
    DEF OtherReset, NoList, TypeOK, Data, Torn, Blank, Foreign, Known,
        Times, Lists, Calls, Pcs, OnMain, OnSnap, CallInv, CopyInv,
        CommittedIsWhole, Committing, Backs, IsCurrent, lvs, domain, call,
        count
<1>36. CASE Crash
  BY <1>36, SMT
    DEF Crash, End, Listed, TypeOK, Data, Torn, Blank, Foreign, Known,
        Times, Lists, NoList, Calls, Pcs, OnMain, OnSnap, CallInv, CopyInv,
        CommittedIsWhole, Committing, Backs, IsCurrent, lvs, domain, call,
        count
<1>37. CASE UNCHANGED vars
  BY <1>37, SMT
    DEF vars, TypeOK, Data, Torn, Blank, Foreign, Known, Times, Lists,
        NoList, Calls, Pcs, OnMain, OnSnap, CallInv, CopyInv,
        CommittedIsWhole, Committing, Backs, IsCurrent, lvs, domain, call,
        count
<1>38. QED
  BY <1>1, <1>2, <1>3, <1>4, <1>5, <1>6, <1>7, <1>8, <1>9, <1>10, <1>11,
     <1>12, <1>13, <1>14, <1>15, <1>16, <1>17, <1>18, <1>19, <1>20, <1>21,
     <1>22, <1>23, <1>24, <1>25, <1>26, <1>27, <1>28, <1>29, <1>30, <1>31,
     <1>32, <1>33, <1>34, <1>35, <1>36, <1>37
    DEF Next

(* The invariant holds at first.                                           *)
LEMMA VolumeInit == Init => VolumeInv
<1> SUFFICES ASSUME Init PROVE VolumeInv
  OBVIOUS
<1>1. TypeOK
  <2>1. main \in Known /\ snap = 0 /\ imp = 0 /\ revs \in [Times -> Known \cup {0}]
    BY SMT DEF Init, Blank, Known, Times
  <2>2. cache \in Lists /\ pend \in Lists
    BY SMT DEF Init, Lists, NoList, Listed, Backs
  <2>3. QED
    BY <2>1, <2>2, SMT
      DEF Init, TypeOK, Data, Blank, Known, Times, Calls, Pcs, OnSnap
<1>2. CallInv /\ CopyInv /\ DomainInv
  BY SMT DEF Init, CallInv, CopyInv, DomainInv, Committing, Backs, Times
<1>3. CommittedIsWhole
  BY SMT DEF Init, CommittedIsWhole, Torn, Times
<1>4. QED
  BY <1>1, <1>2, <1>3 DEF VolumeInv

(* Every step keeps the invariant of the volume.                             *)
LEMMA VolumeStep == VolumeInv /\ [Next]_vars => VolumeInv'
  BY TypeStep, CallStep, CopyStep, DomainStep, WholeStep DEF VolumeInv

(* The state of the volume and of the call under way fit together: what    *)
(* the run checks, for all values of the constants.                        *)
THEOREM VolumeInvariant == Spec => []VolumeInv
  BY VolumeInit, VolumeStep, PTL DEF Spec

(* import_data_end() commits an import only when it is complete, and no    *)
(* start, stop, clone, revert or crash in between makes anything else of   *)
(* it.                                                                     *)
THEOREM CommittedAlwaysWhole == Spec => []CommittedIsWhole
<1>1. VolumeInv => CommittedIsWhole
  BY DEF VolumeInv
<1>2. QED
  BY <1>1, VolumeInvariant, PTL

(* The only steps that change the volume, its snapshot or its revisions.   *)
LEMMA OtherSteps ==
    [Next]_vars =>
       \/ Wipe \/ Drop \/ Unsnap \/ Snapshot \/ Write \/ RenameToRevision
       \/ Promote \/ Prune \/ RevertRemove \/ RevertRestore
       \/ UNCHANGED <<main, snap, revs>>
<1> SUFFICES ASSUME [Next]_vars,
                    ~(Wipe \/ Drop \/ Unsnap \/ Snapshot \/ Write \/ RenameToRevision
                      \/ Promote \/ Prune \/ RevertRemove \/ RevertRestore)
             PROVE UNCHANGED <<main, snap, revs>>
  OBVIOUS
<1>1. CASE Raise
  BY <1>1 DEF Raise, lvs
<1>2. CASE Verify
  BY <1>2 DEF Verify, lvs
<1>3. CASE StartRefused
  BY <1>3 DEF StartRefused, lvs
<1>4. CASE StartBegin
  BY <1>4 DEF StartBegin, lvs
<1>5. CASE Activate
  BY <1>5 DEF Activate, lvs
<1>6. CASE DropEnd
  BY <1>6 DEF DropEnd, lvs
<1>7. CASE DomainStart
  BY <1>7 DEF DomainStart, lvs
<1>8. CASE DomainStartFails
  BY <1>8 DEF DomainStartFails, lvs
<1>9. CASE DomainEnds
  BY <1>9 DEF DomainEnds, lvs
<1>10. CASE StopBegin
  BY <1>10 DEF StopBegin, lvs
<1>11. CASE Recache
  BY <1>11 DEF Recache, lvs
<1>12. CASE Prepare
  BY <1>12 DEF Prepare, lvs
<1>13. CASE PruneEnd
  BY <1>13 DEF PruneEnd, lvs
<1>14. CASE Reset
  BY <1>14 DEF Reset, lvs
<1>15. CASE ImportBegin
  BY <1>15 DEF ImportBegin, lvs
<1>16. CASE ImportCreate
  BY <1>16 DEF ImportCreate, lvs
<1>17. CASE Upload
  BY <1>17 DEF Upload, lvs
<1>18. CASE ImportEnd
  BY <1>18 DEF ImportEnd, lvs
<1>19. CASE Discard
  BY <1>19 DEF Discard, lvs
<1>20. CASE CloneBegin
  BY <1>20 DEF CloneBegin, lvs
<1>21. CASE RevertBegin
  BY <1>21 DEF RevertBegin, lvs
<1>22. CASE SetKeep
  BY <1>22 DEF SetKeep, lvs
<1>23. CASE Tick
  BY <1>23 DEF Tick, lvs
<1>24. CASE OtherList
  BY <1>24 DEF OtherList, lvs
<1>25. CASE OtherReset
  BY <1>25 DEF OtherReset, lvs
<1>26. CASE Crash
  BY <1>26 DEF Crash, lvs
<1>27. CASE UNCHANGED vars
  BY <1>27 DEF vars, lvs
<1>28. QED
  BY <1>1, <1>2, <1>3, <1>4, <1>5, <1>6, <1>7, <1>8, <1>9, <1>10, <1>11,
     <1>12, <1>13, <1>14, <1>15, <1>16, <1>17, <1>18, <1>19, <1>20, <1>21,
     <1>22, <1>23, <1>24, <1>25, <1>26, <1>27
    DEF Next

(* A step that removes a copy, but for start() when it drops the           *)
(* revisions, leaves one: what a call removes is never all there is.       *)
LEMMA LastCopyStep ==
    VolumeInv /\ [Next]_vars =>
       (Copies' = {} /\ Copies # {} => op = "start" /\ pc = "drop")
<1> SUFFICES ASSUME TypeOK, CallInv, CopyInv, DomainInv, [Next]_vars,
                    main # 0 \/ \E t \in Times : revs[t] # 0,
                    ~(op = "start" /\ pc = "drop")
             PROVE main' # 0 \/ \E t \in Times : revs'[t] # 0
  BY DEF VolumeInv, Copies, Times
<1>1. CASE Wipe
  BY <1>1, SMT
    DEF Wipe, InUse, TypeOK, CallInv, CopyInv, Committing, Blank, Known,
        Foreign, Times, Backs, Calls, Pcs, lvs
<1>2. CASE Drop
  BY <1>2, SMT
    DEF Drop, At, MayDrop, InUse, TypeOK, CallInv, CopyInv, Committing,
        Blank, Known, Foreign, Times, Backs, Calls, Pcs, lvs
<1>3. CASE Unsnap
  BY <1>3, SMT
    DEF Unsnap, At, Goto, UnchangedCall, TypeOK, CallInv, CopyInv,
        Committing, Blank, Known, Foreign, Times, Backs, Calls, Pcs, lvs
<1>4. CASE Snapshot
  BY <1>4, SMT
    DEF Snapshot, At, Goto, UnchangedCall, CanWork, ToCommit, TypeOK,
        CallInv, CopyInv, Committing, Blank, Known, Foreign, Times, Backs,
        Calls, Pcs, lvs
<1>5. CASE Write
  BY <1>5, SMT
    DEF Write, Fresh, TypeOK, CallInv, CopyInv, Committing, Blank, Known,
        Foreign, Times, Backs, Calls, Pcs, lvs
<1>6. CASE RenameToRevision
  BY <1>6, SMT
    DEF RenameToRevision, BackUp, InUse, Goto, UnchangedCall, CanWork,
        ToCommit, TypeOK, CallInv, CopyInv, Committing, Blank, Known,
        Foreign, Times, Backs, Calls, Pcs, lvs
<1>7. CASE Promote
  BY <1>7, SMT
    DEF Promote, Goto, UnchangedCall, CanWork, ToCommit, TypeOK, CallInv,
        CopyInv, Committing, Blank, Known, Foreign, Times, Backs, Calls,
        Pcs, lvs
<1>8. CASE Prune
  BY <1>8, SMT
    DEF Prune, MayDrop, InUse, TypeOK, CallInv, CopyInv, Committing, Blank,
        Known, Foreign, Times, Backs, Calls, Pcs, lvs
<1>9. CASE RevertRemove
  BY <1>9, SMT
    DEF RevertRemove, At, Goto, UnchangedCall, InUse, CanWork, ToCommit,
        TypeOK, CallInv, CopyInv, Committing, Blank, Known, Foreign, Times,
        Backs, Calls, Pcs, lvs
<1>10. CASE RevertRestore
  BY <1>10, SMT
    DEF RevertRestore, At, Goto, UnchangedCall, CanWork, ToCommit, TypeOK,
        CallInv, CopyInv, Committing, Blank, Known, Foreign, Times, Backs,
        Calls, Pcs, lvs
<1>11. CASE UNCHANGED <<main, snap, revs>>
  BY <1>11, SMT
    DEF TypeOK, CallInv, CopyInv, Committing, Blank, Known, Foreign, Times,
        Backs, Calls, Pcs, lvs
<1>12. QED
  BY OtherSteps, <1>1, <1>2, <1>3, <1>4, <1>5, <1>6, <1>7, <1>8, <1>9,
     <1>10, <1>11

(* However far a commit, import, clone or revert gets, a copy is left.     *)
THEOREM LastCopyAlwaysKept == Spec => LastCopyKept
  BY VolumeInvariant, LastCopyStep, PTL DEF Spec, LastCopyKept

(* The current volume of what lvs prints, now and after a step.            *)
LEMMA CurrentListed ==
    \A d : IsCurrent(d, Listed) <=>
            \/ main # 0 /\ d = main
            \/ main = 0 /\ \E t \in Backs : d = revs[t] /\ \A s \in Backs : s <= t
<1>1. (Listed.main <=> main # 0) /\ Listed.revs = Backs
  BY Zenon DEF Listed
<1>2. QED
  BY <1>1, Zenon DEF IsCurrent

(* The same of the next state.                                             *)
LEMMA CurrentListedNext ==
    \A d : IsCurrent(d, Listed)' <=>
            \/ main' # 0 /\ d = main'
            \/ main' = 0 /\ \E t \in Backs' : d = revs'[t] /\ \A s \in Backs' : s <= t
<1>1. ((Listed.main)' <=> main' # 0) /\ (Listed.revs)' = Backs'
  BY Zenon DEF Listed, Backs
<1>2. QED
  BY <1>1, Zenon DEF IsCurrent

(* A step that makes other data current takes them from what is committed, *)
(* or from the domain that writes there; or it is one of revert().         *)
LEMMA GoesBackStep ==
    VolumeInv /\ [Next]_vars =>
       \A d \in Known : IsCurrent(d, Listed)' /\ ~IsCurrent(d, Listed) =>
            \/ d \in {snap, imp, Foreign}
            \/ last' > last /\ d = last'
            \/ op = "revert"
            \/ op = "start" /\ pc = "drop"
<1> SUFFICES ASSUME TypeOK, CallInv, CopyInv, DomainInv, [Next]_vars,
                    NEW d \in Known,
                    \/ main' # 0 /\ d = main'
                    \/ main' = 0 /\ \E t \in Backs' :
                          d = revs'[t] /\ \A s \in Backs' : s <= t,
                    main # 0 => d # main,
                    main = 0 => \A t \in Backs :
                          d = revs[t] => \E s \in Backs : ~(s <= t)
             PROVE  \/ d \in {snap, imp, Foreign}
                    \/ last' > last /\ d = last'
                    \/ op = "revert"
                    \/ op = "start" /\ pc = "drop"
  BY CurrentListed, CurrentListedNext DEF VolumeInv
<1>1. CASE Wipe
  <2>1. CASE pc = "drop"
    BY <2>1, SMT DEF CallInv
  <2>2. CASE pc = "prune"
    <3>1. main # 0 /\ main' = main
      BY <1>1, <2>2, SMT
        DEF Wipe, CallInv, CopyInv, Committing
    <3>2. QED
      BY <3>1, SMT
  <2>3. CASE pc \in {"unsnap", "discard"}
    <3>1. UNCHANGED <<main, revs>>
      BY <1>1, <2>3, SMT DEF Wipe
    <3>2. QED
      BY <3>1, SMT DEF Backs, Times
  <2>4. CASE pc = "remove"
    BY <2>4, SMT DEF CallInv
  <2>5. QED
    BY <1>1, <2>1, <2>2, <2>3, <2>4 DEF Wipe
<1>2. CASE Drop
  BY <1>2, SMT
    DEF Drop, At, MayDrop, InUse, TypeOK, CallInv, CopyInv, DomainInv,
        Committing, Blank, Known, Foreign, Times, Backs, Calls, Pcs, OnMain,
        OnSnap, lvs
<1>3. CASE Unsnap
  BY <1>3, SMT
    DEF Unsnap, At, Goto, UnchangedCall, TypeOK, CallInv, CopyInv,
        DomainInv, Committing, Blank, Known, Foreign, Times, Backs, Calls,
        Pcs, OnMain, OnSnap, lvs
<1>4. CASE Snapshot
  BY <1>4, SMT
    DEF Snapshot, At, Goto, UnchangedCall, CanWork, ToCommit, TypeOK,
        CallInv, CopyInv, DomainInv, Committing, Blank, Known, Foreign,
        Times, Backs, Calls, Pcs, OnMain, OnSnap, lvs
<1>5. CASE Write
  BY <1>5, SMT
    DEF Write, Fresh, TypeOK, CallInv, CopyInv, DomainInv, Committing,
        Blank, Known, Foreign, Times, Backs, Calls, Pcs, OnMain, OnSnap, lvs
<1>6. CASE RenameToRevision
  <2>1. /\ main # 0 /\ main' = 0 /\ revs[now] = 0
        /\ revs' = [revs EXCEPT ![now] = main]
    BY <1>6
      DEF RenameToRevision, CanWork, BackUp
  <2>2. PICK t \in Backs' : d = revs'[t] /\ \A s \in Backs' : s <= t
    BY <2>1, SMT
  <2>3. now \in Backs' /\ t \in Backs \cup {now}
    BY <2>1, <2>2, SMT DEF Backs, TypeOK, Times, Known, Blank
  <2>4. t = now
    BY <2>2, <2>3, SMT DEF DomainInv, Backs, TypeOK, Times
  <2>5. d = main
    BY <2>1, <2>2, <2>4, SMT DEF TypeOK
  <2>6. QED
    BY <2>1, <2>5, SMT
<1>7. CASE Promote
  BY <1>7, SMT
    DEF Promote, Goto, UnchangedCall, CanWork, ToCommit, TypeOK, CallInv,
        CopyInv, DomainInv, Committing, Blank, Known, Foreign, Times, Backs,
        Calls, Pcs, OnMain, OnSnap, lvs
<1>8. CASE Prune
  <2>1. main # 0 /\ main' = main
    BY <1>8, SMT
      DEF Prune, CallInv, CopyInv, Committing
  <2>2. QED
    BY <2>1, SMT
<1>9. CASE RevertRemove
  BY <1>9, SMT
    DEF RevertRemove, At, Goto, UnchangedCall, InUse, CanWork, ToCommit,
        TypeOK, CallInv, CopyInv, DomainInv, Committing, Blank, Known,
        Foreign, Times, Backs, Calls, Pcs, OnMain, OnSnap, lvs
<1>10. CASE RevertRestore
  BY <1>10, SMT
    DEF RevertRestore, At, Goto, UnchangedCall, CanWork, ToCommit, TypeOK,
        CallInv, CopyInv, DomainInv, Committing, Blank, Known, Foreign,
        Times, Backs, Calls, Pcs, OnMain, OnSnap, lvs
<1>11. CASE UNCHANGED <<main, snap, revs>>
  BY <1>11, SMT
    DEF TypeOK, CallInv, CopyInv, DomainInv, Committing, Blank, Known,
        Foreign, Times, Backs, Calls, Pcs, OnMain, OnSnap, lvs
<1>12. QED
  BY OtherSteps, <1>1, <1>2, <1>3, <1>4, <1>5, <1>6, <1>7, <1>8, <1>9,
     <1>10, <1>11

(* Whatever fails or crashes, only revert() brings back an earlier state.  *)
THEOREM OnlyRevertEverGoesBack == Spec => OnlyRevertGoesBack
  BY VolumeInvariant, GoesBackStep, PTL DEF Spec, OnlyRevertGoesBack

---------------------------------------------------------------------------
(* With size_cache in the hands of this volume alone.                      *)

Alone == MaxLists = 0

(* It may then miss the snapshot only in the call of start() that made it. *)
CacheInv ==
    /\ pend = NoList
    /\ snap # 0 => cache.snap \/ (op = "start" /\ pc = "reset")
    /\ pc \in {"drop", "unsnap", "snapshot"} => ~cache.snap

(* Every step keeps what the cache knows of the snapshot.                    *)
LEMMA CacheStep == Alone /\ VolumeInv /\ CacheInv /\ [Next]_vars => CacheInv'
<1> SUFFICES ASSUME Alone, TypeOK, CallInv, DomainInv, CacheInv, [Next]_vars
             PROVE CacheInv'
  BY DEF VolumeInv
<1>1. CASE Wipe
  BY <1>1, SMT
    DEF Wipe, InUse, TypeOK, Data, Torn, Blank, Foreign, Known, Times,
        Lists, NoList, Calls, Pcs, OnMain, OnSnap, Alone, CacheInv, CallInv,
        DomainInv, Committing, lvs, domain, call, count
<1>2. CASE Raise
  BY <1>2, SMT
    DEF Raise, End, QubeAfter, Listed, Commands, TypeOK, Data, Torn, Blank,
        Foreign, Known, Times, Lists, NoList, Calls, Pcs, OnMain, OnSnap,
        Alone, CacheInv, CallInv, DomainInv, Committing, lvs, domain, call,
        count
<1>3. CASE Verify
  BY <1>3, SMT
    DEF Verify, TypeOK, Data, Torn, Blank, Foreign, Known, Times, Lists,
        NoList, Calls, Pcs, OnMain, OnSnap, Alone, CacheInv, CallInv,
        DomainInv, Committing, lvs, domain, call, count
<1>4. CASE StartRefused
  BY <1>4, SMT
    DEF StartRefused, TypeOK, Data, Torn, Blank, Foreign, Known, Times,
        Lists, NoList, Calls, Pcs, OnMain, OnSnap, Alone, CacheInv, CallInv,
        DomainInv, Committing, lvs, domain, call, count
<1>5. CASE StartBegin
  BY <1>5, SMT
    DEF StartBegin, AfterChecks, Begin, Dirty, SnapshotsDisabled,
        ImportInProgress, TypeOK, Data, Torn, Blank, Foreign, Known, Times,
        Lists, NoList, Calls, Pcs, OnMain, OnSnap, Alone, CacheInv, CallInv,
        DomainInv, Committing, lvs, domain, call, count
<1>6. CASE Activate
  BY <1>6, SMT
    DEF Activate, At, Goto, UnchangedCall, TypeOK, Data, Torn, Blank,
        Foreign, Known, Times, Lists, NoList, Calls, Pcs, OnMain, OnSnap,
        Alone, CacheInv, CallInv, DomainInv, Committing, lvs, domain, call,
        count
<1>7. CASE Drop
  BY <1>7, SMT
    DEF Drop, At, MayDrop, InUse, TypeOK, Data, Torn, Blank, Foreign, Known,
        Times, Lists, NoList, Calls, Pcs, OnMain, OnSnap, Alone, CacheInv,
        CallInv, DomainInv, Committing, lvs, domain, call, count
<1>8. CASE DropEnd
  BY <1>8, SMT
    DEF DropEnd, At, Goto, UnchangedCall, TypeOK, Data, Torn, Blank,
        Foreign, Known, Times, Lists, NoList, Calls, Pcs, OnMain, OnSnap,
        Alone, CacheInv, CallInv, DomainInv, Committing, lvs, domain, call,
        count
<1>9. CASE Unsnap
  BY <1>9, SMT
    DEF Unsnap, At, Goto, UnchangedCall, TypeOK, Data, Torn, Blank, Foreign,
        Known, Times, Lists, NoList, Calls, Pcs, OnMain, OnSnap, Alone,
        CacheInv, CallInv, DomainInv, Committing, lvs, domain, call, count
<1>10. CASE Snapshot
  BY <1>10, SMT
    DEF Snapshot, At, Goto, UnchangedCall, CanWork, ToCommit, TypeOK, Data,
        Torn, Blank, Foreign, Known, Times, Lists, NoList, Calls, Pcs,
        OnMain, OnSnap, Alone, CacheInv, CallInv, DomainInv, Committing,
        lvs, domain, call, count
<1>11. CASE DomainStart
  BY <1>11, SMT
    DEF DomainStart, SnapshotsDisabled, TypeOK, Data, Torn, Blank, Foreign,
        Known, Times, Lists, NoList, Calls, Pcs, OnMain, OnSnap, Alone,
        CacheInv, CallInv, DomainInv, Committing, lvs, domain, call, count
<1>12. CASE DomainStartFails
  BY <1>12, SMT
    DEF DomainStartFails, TypeOK, Data, Torn, Blank, Foreign, Known, Times,
        Lists, NoList, Calls, Pcs, OnMain, OnSnap, Alone, CacheInv, CallInv,
        DomainInv, Committing, lvs, domain, call, count
<1>13. CASE Write
  BY <1>13, SMT
    DEF Write, Fresh, TypeOK, Data, Torn, Blank, Foreign, Known, Times,
        Lists, NoList, Calls, Pcs, OnMain, OnSnap, Alone, CacheInv, CallInv,
        DomainInv, Committing, lvs, domain, call, count
<1>14. CASE DomainEnds
  BY <1>14, SMT
    DEF DomainEnds, TypeOK, Data, Torn, Blank, Foreign, Known, Times, Lists,
        NoList, Calls, Pcs, OnMain, OnSnap, Alone, CacheInv, CallInv,
        DomainInv, Committing, lvs, domain, call, count
<1>15. CASE StopBegin
  BY <1>15, SMT
    DEF StopBegin, Begin, Commit, SnapshotsDisabled, TypeOK, Data, Torn,
        Blank, Foreign, Known, Times, Lists, NoList, Calls, Pcs, OnMain,
        OnSnap, Alone, CacheInv, CallInv, DomainInv, Committing, lvs,
        domain, call, count
<1>16. CASE RenameToRevision
  BY <1>16, SMT
    DEF RenameToRevision, BackUp, InUse, Goto, UnchangedCall, CanWork,
        ToCommit, TypeOK, Data, Torn, Blank, Foreign, Known, Times, Lists,
        NoList, Calls, Pcs, OnMain, OnSnap, Alone, CacheInv, CallInv,
        DomainInv, Committing, lvs, domain, call, count
<1>17. CASE Recache
  BY <1>17, SMT
    DEF Recache, Goto, UnchangedCall, Listed, TypeOK, Data, Torn, Blank,
        Foreign, Known, Times, Lists, NoList, Calls, Pcs, OnMain, OnSnap,
        Alone, CacheInv, CallInv, DomainInv, Committing, lvs, domain, call,
        count
<1>18. CASE Promote
  BY <1>18, SMT
    DEF Promote, Goto, UnchangedCall, CanWork, ToCommit, TypeOK, Data, Torn,
        Blank, Foreign, Known, Times, Lists, NoList, Calls, Pcs, OnMain,
        OnSnap, Alone, CacheInv, CallInv, DomainInv, Committing, lvs,
        domain, call, count
<1>19. CASE Prepare
  BY <1>19, SMT
    DEF Prepare, Goto, Surplus, Listed, TypeOK, Data, Torn, Blank, Foreign,
        Known, Times, Lists, NoList, Calls, Pcs, OnMain, OnSnap, Alone,
        CacheInv, CallInv, DomainInv, Committing, lvs, domain, call, count
<1>20. CASE Prune
  BY <1>20, SMT
    DEF Prune, MayDrop, InUse, TypeOK, Data, Torn, Blank, Foreign, Known,
        Times, Lists, NoList, Calls, Pcs, OnMain, OnSnap, Alone, CacheInv,
        CallInv, DomainInv, Committing, lvs, domain, call, count
<1>21. CASE PruneEnd
  BY <1>21, SMT
    DEF PruneEnd, Goto, UnchangedCall, TypeOK, Data, Torn, Blank, Foreign,
        Known, Times, Lists, NoList, Calls, Pcs, OnMain, OnSnap, Alone,
        CacheInv, CallInv, DomainInv, Committing, lvs, domain, call, count
<1>22. CASE Reset
  <2>1. snap' = snap /\ pend' = NoList /\ pc' = "idle"
    BY <1>22 DEF Reset, End, QubeAfter, lvs, CacheInv
  <2>2. snap # 0 => cache'.snap
    BY <1>22, Zenon DEF Reset, Listed
  <2>3. QED
    BY <2>1, <2>2 DEF CacheInv
<1>23. CASE ImportBegin
  BY <1>23, SMT
    DEF ImportBegin, Begin, UnchangedCall, TypeOK, Data, Torn, Blank,
        Foreign, Known, Times, Lists, NoList, Calls, Pcs, OnMain, OnSnap,
        Alone, CacheInv, CallInv, DomainInv, Committing, lvs, domain, call,
        count
<1>24. CASE ImportCreate
  BY <1>24, SMT
    DEF ImportCreate, At, Goto, UnchangedCall, CanWork, ToCommit, TypeOK,
        Data, Torn, Blank, Foreign, Known, Times, Lists, NoList, Calls, Pcs,
        OnMain, OnSnap, Alone, CacheInv, CallInv, DomainInv, Committing,
        lvs, domain, call, count
<1>25. CASE Upload
  BY <1>25, SMT
    DEF Upload, Fresh, TypeOK, Data, Torn, Blank, Foreign, Known, Times,
        Lists, NoList, Calls, Pcs, OnMain, OnSnap, Alone, CacheInv, CallInv,
        DomainInv, Committing, lvs, domain, call, count
<1>26. CASE ImportEnd
  BY <1>26, SMT
    DEF ImportEnd, AfterUpload, Begin, Commit, TypeOK, Data, Torn, Blank,
        Foreign, Known, Times, Lists, NoList, Calls, Pcs, OnMain, OnSnap,
        Alone, CacheInv, CallInv, DomainInv, Committing, lvs, domain, call,
        count
<1>27. CASE Discard
  BY <1>27, SMT
    DEF Discard, At, Goto, UnchangedCall, TypeOK, Data, Torn, Blank,
        Foreign, Known, Times, Lists, NoList, Calls, Pcs, OnMain, OnSnap,
        Alone, CacheInv, CallInv, DomainInv, Committing, lvs, domain, call,
        count
<1>28. CASE CloneBegin
  BY <1>28, SMT
    DEF CloneBegin, Begin, Commit, TypeOK, Data, Torn, Blank, Foreign,
        Known, Times, Lists, NoList, Calls, Pcs, OnMain, OnSnap, Alone,
        CacheInv, CallInv, DomainInv, Committing, lvs, domain, call, count
<1>29. CASE RevertBegin
  BY <1>29, SMT
    DEF RevertBegin, Begin, TypeOK, Data, Torn, Blank, Foreign, Known,
        Times, Lists, NoList, Calls, Pcs, OnMain, OnSnap, Alone, CacheInv,
        CallInv, DomainInv, Committing, lvs, domain, call, count
<1>30. CASE RevertRemove
  BY <1>30, SMT
    DEF RevertRemove, At, Goto, UnchangedCall, InUse, CanWork, ToCommit,
        TypeOK, Data, Torn, Blank, Foreign, Known, Times, Lists, NoList,
        Calls, Pcs, OnMain, OnSnap, Alone, CacheInv, CallInv, DomainInv,
        Committing, lvs, domain, call, count
<1>31. CASE RevertRestore
  BY <1>31, SMT
    DEF RevertRestore, At, Goto, UnchangedCall, CanWork, ToCommit, TypeOK,
        Data, Torn, Blank, Foreign, Known, Times, Lists, NoList, Calls, Pcs,
        OnMain, OnSnap, Alone, CacheInv, CallInv, DomainInv, Committing,
        lvs, domain, call, count
<1>32. CASE SetKeep
  BY <1>32, SMT
    DEF SetKeep, TypeOK, Data, Torn, Blank, Foreign, Known, Times, Lists,
        NoList, Calls, Pcs, OnMain, OnSnap, Alone, CacheInv, CallInv,
        DomainInv, Committing, lvs, domain, call, count
<1>33. CASE Tick
  BY <1>33, SMT
    DEF Tick, TypeOK, Data, Torn, Blank, Foreign, Known, Times, Lists,
        NoList, Calls, Pcs, OnMain, OnSnap, Alone, CacheInv, CallInv,
        DomainInv, Committing, lvs, domain, call, count
<1>34. CASE OtherList
  BY <1>34, SMT
    DEF OtherList, Listed, TypeOK, Data, Torn, Blank, Foreign, Known, Times,
        Lists, NoList, Calls, Pcs, OnMain, OnSnap, Alone, CacheInv, CallInv,
        DomainInv, Committing, lvs, domain, call, count
<1>35. CASE OtherReset
  BY <1>35, SMT
    DEF OtherReset, NoList, TypeOK, Data, Torn, Blank, Foreign, Known,
        Times, Lists, Calls, Pcs, OnMain, OnSnap, Alone, CacheInv, CallInv,
        DomainInv, Committing, lvs, domain, call, count
<1>36. CASE Crash
  <2>1. snap' = snap /\ pend' = NoList /\ pc' = "idle"
    BY <1>36 DEF Crash, End, lvs, CacheInv
  <2>2. snap # 0 => cache'.snap
    BY <1>36, Zenon DEF Crash, Listed
  <2>3. QED
    BY <2>1, <2>2 DEF CacheInv
<1>37. CASE UNCHANGED vars
  BY <1>37, SMT
    DEF vars, TypeOK, Data, Torn, Blank, Foreign, Known, Times, Lists,
        NoList, Calls, Pcs, OnMain, OnSnap, Alone, CacheInv, CallInv,
        DomainInv, Committing, lvs, domain, call, count
<1>38. QED
  BY <1>1, <1>2, <1>3, <1>4, <1>5, <1>6, <1>7, <1>8, <1>9, <1>10, <1>11,
     <1>12, <1>13, <1>14, <1>15, <1>16, <1>17, <1>18, <1>19, <1>20, <1>21,
     <1>22, <1>23, <1>24, <1>25, <1>26, <1>27, <1>28, <1>29, <1>30, <1>31,
     <1>32, <1>33, <1>34, <1>35, <1>36, <1>37
    DEF Next

(* What a session wrote is in the snapshot until it is committed.          *)
LEMMA SessionStep ==
    VolumeInv /\ CacheInv /\ [Next]_vars =>
       ((snap \in Data \ Copies /\ snap' # snap) =>
            main' = snap \/ (snap' = last' /\ last' > last))
<1> SUFFICES ASSUME TypeOK, CallInv, CacheInv, [Next]_vars,
                    snap \in Data, snap' # snap
             PROVE main' = snap \/ (snap' = last' /\ last' > last)
  BY DEF VolumeInv
<1>1. CASE Wipe
  BY <1>1, SMT
    DEF Wipe, InUse, TypeOK, CallInv, CacheInv, Committing, Data, Times,
        Calls, Pcs, OnMain, OnSnap, lvs
<1>2. CASE Drop
  BY <1>2, SMT
    DEF Drop, At, MayDrop, InUse, TypeOK, CallInv, CacheInv, Committing,
        Data, Times, Calls, Pcs, OnMain, OnSnap, lvs
<1>3. CASE Unsnap
  BY <1>3, SMT
    DEF Unsnap, At, Goto, UnchangedCall, TypeOK, CallInv, CacheInv,
        Committing, Data, Times, Calls, Pcs, OnMain, OnSnap, lvs
<1>4. CASE Snapshot
  BY <1>4, SMT
    DEF Snapshot, At, Goto, UnchangedCall, CanWork, ToCommit, TypeOK,
        CallInv, CacheInv, Committing, Data, Times, Calls, Pcs, OnMain,
        OnSnap, lvs
<1>5. CASE Write
  BY <1>5, SMT
    DEF Write, Fresh, TypeOK, CallInv, CacheInv, Committing, Data, Times,
        Calls, Pcs, OnMain, OnSnap, lvs
<1>6. CASE RenameToRevision
  BY <1>6, SMT
    DEF RenameToRevision, BackUp, InUse, Goto, UnchangedCall, CanWork,
        ToCommit, TypeOK, CallInv, CacheInv, Committing, Data, Times, Calls,
        Pcs, OnMain, OnSnap, lvs
<1>7. CASE Promote
  BY <1>7, SMT
    DEF Promote, Goto, UnchangedCall, CanWork, ToCommit, TypeOK, CallInv,
        CacheInv, Committing, Data, Times, Calls, Pcs, OnMain, OnSnap, lvs
<1>8. CASE Prune
  BY <1>8, SMT
    DEF Prune, MayDrop, InUse, TypeOK, CallInv, CacheInv, Committing, Data,
        Times, Calls, Pcs, OnMain, OnSnap, lvs
<1>9. CASE RevertRemove
  BY <1>9, SMT
    DEF RevertRemove, At, Goto, UnchangedCall, InUse, CanWork, ToCommit,
        TypeOK, CallInv, CacheInv, Committing, Data, Times, Calls, Pcs,
        OnMain, OnSnap, lvs
<1>10. CASE RevertRestore
  BY <1>10, SMT
    DEF RevertRestore, At, Goto, UnchangedCall, CanWork, ToCommit, TypeOK,
        CallInv, CacheInv, Committing, Data, Times, Calls, Pcs, OnMain,
        OnSnap, lvs
<1>11. CASE UNCHANGED <<main, snap, revs>>
  BY <1>11, SMT
    DEF TypeOK, CallInv, CacheInv, Committing, Data, Times, Calls, Pcs,
        OnMain, OnSnap, lvs
<1>12. QED
  BY OtherSteps, <1>1, <1>2, <1>3, <1>4, <1>5, <1>6, <1>7, <1>8, <1>9,
     <1>10, <1>11

(* What violates SessionKept is the lvs of another volume: without one no  *)
(* failure, crash, import or change of revisions_to_keep makes start()     *)
(* throw away what the last session wrote.                                 *)
THEOREM SessionKeptAlone == ASSUME Alone PROVE Spec => SessionKept
<1>1. Init => CacheInv
  BY SMT DEF Init, CacheInv
<1>2. VolumeInv /\ CacheInv /\ [Next]_vars => CacheInv'
  BY Alone, CacheStep
<1>3. QED
  BY <1>1, <1>2, VolumeInvariant, SessionStep, PTL DEF Spec, SessionKept
--------------------------------------------------------------------------
(* The memory manager (MemoryBalance).                                      *)

(* A set of natural numbers has a smallest one.                             *)
LEMMA LeastNumber ==
  ASSUME NEW S \in SUBSET Nat, S # {}
  PROVE  \E m \in S : \A n \in S : m <= n
<1>1. PICK R : R = OpToRel(<, Nat)
  BY Zenon
<1>2. IsWellFoundedOn(R, Nat)
  BY <1>1, NatLessThanWellFounded, Zenon
<1>3. R = {ss \in Nat \X Nat : ss[1] < ss[2]}
  BY <1>1, Zenon DEF OpToRel
<1>4. PICK m \in S : \A n \in S : ~ (<<n, m>> \in R)
  BY <1>2, WFMin, Zenon
<1>5. ASSUME NEW n \in S
      PROVE  m <= n
  <2>1. <<n, m>> \in Nat \X Nat /\ <<n, m>>[1] = n /\ <<n, m>>[2] = m
    BY Zenon
  <2>2. ~ (n < m)
    BY <1>3, <1>4, <2>1
  <2> QED
    BY <2>2, SMT
<1> QED
  BY <1>5

(* Of the subsets of a finite set that are wrong, one has none in it.        *)
LEMMA SmallestSet ==
  ASSUME NEW S, IsFiniteSet(S), NEW B \in SUBSET (SUBSET S), B # {}
  PROVE  \E T \in B : \A U \in B : U \subseteq T => U = T
<1>1. PICK R : R = StrictSubsetOrdering(S)
  OBVIOUS
<1>2. IsWellFoundedOn(R, SUBSET S)
  <2>1. IsWellFoundedOn(R, FiniteSubsetsOf(S))
    BY <1>1, FS_StrictSubsetOrderingWellFounded, Zenon
  <2>2. FiniteSubsetsOf(S) = SUBSET S
    BY FS_FiniteSubsetsOfFinite, Zenon
  <2> QED
    BY <2>1, <2>2, Zenon
<1>3. PICK T \in B : \A U \in B : ~ (<<U, T>> \in R)
  BY <1>2, WFMin, Zenon
<1>4. ASSUME NEW U \in B, U \subseteq T, U # T
      PROVE  FALSE
  <2>1. <<U, T>> \in (SUBSET S) \X (SUBSET S) /\ <<U, T>>[1] = U /\ <<U, T>>[2] = T
    BY Zenon
  <2>2. <<U, T>> \in R
    BY <1>1, <1>4, <2>1, Zenon DEF StrictSubsetOrdering
  <2> QED
    BY <1>3, <2>2
<1> QED
  BY <1>4

(* The recursive function of Sum(), of the sets in D.                        *)
Some(T) == CHOOSE x \in T : TRUE

IsSum(f, D, g) ==
  g = [T \in D |-> IF T = {} THEN 0
                   ELSE LET x == CHOOSE x \in T : TRUE IN f[x] + g[T \ {x}]]

(* Its equation.                                                             *)
LEMMA SumAt ==
  ASSUME NEW f, NEW D, NEW g, IsSum(f, D, g), NEW T \in D
  PROVE  /\ T = {} => g[T] = 0
         /\ T # {} => Some(T) \in T /\ g[T] = f[Some(T)] + g[T \ {Some(T)}]
<1>1. g[T] = IF T = {} THEN 0 ELSE f[Some(T)] + g[T \ {Some(T)}]
  BY Zenon DEF IsSum, Some
<1>2. T # {} => Some(T) \in T
  BY Zenon DEF Some
<1> QED
  BY <1>1, <1>2

(* Such functions agree on a set where what they add does.                   *)
LEMMA SumsAgree ==
  ASSUME NEW f, NEW D, NEW g, IsSum(f, D, g), NEW h, NEW E, NEW k, IsSum(h, E, k),
         NEW T, IsFiniteSet(T), SUBSET T \subseteq D \cap E, \A x \in T : f[x] = h[x]
  PROVE  g[T] = k[T]
<1> DEFINE B == {U \in SUBSET T : g[U] # k[U]}
<1>1. SUFFICES ASSUME B # {}
               PROVE  FALSE
  OBVIOUS
<1>2. PICK U \in B : \A V \in B : V \subseteq U => V = U
  <2>1. B \in SUBSET (SUBSET T)
    OBVIOUS
  <2> HIDE DEF B
  <2> QED
    BY <1>1, <2>1, SmallestSet
<1>3. U \in SUBSET T /\ U \in D /\ U \in E /\ g[U] # k[U]
  BY <1>2
<1>4. U # {}
  BY <1>3, SumAt
<1>5. PICK c : c = Some(U)
  OBVIOUS
<1>6. c \in U /\ g[U] = f[c] + g[U \ {c}] /\ k[U] = h[c] + k[U \ {c}]
  BY <1>3, <1>4, <1>5, SumAt
<1>7. U \ {c} \notin B
  BY <1>2, <1>6
<1>8. g[U \ {c}] = k[U \ {c}] /\ f[c] = h[c]
  BY <1>3, <1>6, <1>7
<1> QED
  BY <1>3, <1>6, <1>8

(* There is one for a finite set: with up to n elements from those with less. *)
LEMMA SumExists ==
  ASSUME NEW f, NEW S, IsFiniteSet(S)
  PROVE  \E g : IsSum(f, SUBSET S, g)
<1> DEFINE D(n) == {T \in SUBSET S : Cardinality(T) <= n}
           B == {n \in Nat : ~ \E g : IsSum(f, D(n), g)}
<1>1. ASSUME B # {}
      PROVE  FALSE
  <2>1. PICK n \in B : \A k \in B : n <= k
    BY <1>1, LeastNumber
  <2>2. n \in Nat /\ ~ \E g : IsSum(f, D(n), g)
    BY <2>1
  <2>3. \A T \in SUBSET S : IsFiniteSet(T) /\ Cardinality(T) \in Nat
                            /\ (Cardinality(T) = 0 <=> T = {})
    BY FS_Subset, FS_CardinalityType, FS_EmptySet
  <2>4. CASE n = 0
    <3>1. PICK g : g = [T \in D(n) |-> 0]
      BY Zenon
    <3>2. \A T \in D(n) : T = {}
      BY <2>3, <2>4
    <3>3. IsSum(f, D(n), g)
      BY <3>1, <3>2, Zenon DEF IsSum
    <3> QED
      BY <2>2, <3>3
  <2>5. CASE n # 0
    <3>1. n - 1 \in Nat /\ n - 1 \notin B
      <4>1. n - 1 \in Nat /\ ~ (n <= n - 1)
        BY <2>2, <2>5
      <4> QED
        BY <2>1, <4>1, Zenon
    <3>2. PICK h : IsSum(f, D(n - 1), h)
      BY <3>1
    <3>3. PICK g : g = [T \in D(n) |-> IF T = {} THEN 0 ELSE f[Some(T)] + h[T \ {Some(T)}]]
      BY Zenon
    <3>4. ASSUME NEW T \in D(n), T # {}
          PROVE  g[T \ {Some(T)}] = h[T \ {Some(T)}]
      <4>1. PICK V : V = T \ {Some(T)}
        OBVIOUS
      <4>2. Some(T) \in T
        BY <3>4, Zenon DEF Some
      <4>3. V \in D(n - 1) /\ V \in D(n)
        <5>1. Cardinality(V) = Cardinality(T) - 1 /\ V \in SUBSET S
          BY <2>3, <4>1, <4>2, FS_RemoveElement
        <5> QED
          BY <2>2, <2>3, <5>1, SMT
      <4>4. g[V] = IF V = {} THEN 0 ELSE f[Some(V)] + h[V \ {Some(V)}]
        BY <3>3, <4>3, Zenon
      <4>5. h[V] = IF V = {} THEN 0 ELSE f[Some(V)] + h[V \ {Some(V)}]
        BY <3>2, <4>3, SumAt
      <4> QED
        BY <4>1, <4>4, <4>5
    <3>5. g = [T \in D(n) |-> IF T = {} THEN 0 ELSE f[Some(T)] + g[T \ {Some(T)}]]
      BY <3>3, <3>4, Zenon
    <3>6. IsSum(f, D(n), g)
      BY <3>5, Zenon DEF IsSum, Some
    <3> QED
      BY <2>2, <3>6
  <2> QED
    BY <2>4, <2>5
<1>2. Cardinality(S) \in Nat /\ D(Cardinality(S)) = SUBSET S
  <2>1. \A T \in SUBSET S : Cardinality(T) <= Cardinality(S)
    BY FS_Subset
  <2> QED
    BY <2>1, FS_CardinalityType
<1>3. Cardinality(S) \notin B
  BY <1>1
<1> QED
  BY <1>2, <1>3

(* Sum() is its value.                                                       *)
LEMMA SumIs ==
  ASSUME NEW f, NEW S, IsFiniteSet(S), NEW D, SUBSET S \subseteq D, NEW g, IsSum(f, D, g)
  PROVE  Sum(f, S) = g[S]
<1> DEFINE h == CHOOSE h : IsSum(f, SUBSET S, h)
<1>1. IsSum(f, SUBSET S, h)
  BY SumExists
<1>2. Sum(f, S) = h[S]
  BY DEF Sum, IsSum
<1>3. h[S] = g[S]
  BY <1>1, SumsAgree
<1> QED
  BY <1>2, <1>3

(* Nothing adds up to 0.                                                     *)
LEMMA SumNone ==
  ASSUME NEW f
  PROVE  Sum(f, {}) = 0
<1>1. PICK D : D = SUBSET {}
  OBVIOUS
<1>2. IsFiniteSet({}) /\ {} \in D
  BY <1>1, FS_EmptySet
<1>3. PICK g : IsSum(f, D, g)
  BY <1>1, <1>2, SumExists
<1>4. g[{}] = 0
  BY <1>2, <1>3, Zenon DEF IsSum
<1> QED
  BY <1>1, <1>2, <1>3, <1>4, SumIs

(* Only what f says of the elements matters.                                 *)
LEMMA SumSame ==
  ASSUME NEW S, IsFiniteSet(S), NEW f, NEW h, \A x \in S : f[x] = h[x]
  PROVE  Sum(f, S) = Sum(h, S)
<1>1. PICK g : IsSum(f, SUBSET S, g)
  BY SumExists
<1>2. PICK k : IsSum(h, SUBSET S, k)
  BY SumExists
<1>3. g[S] = k[S]
  BY <1>1, <1>2, SumsAgree
<1>4. Sum(f, S) = g[S]
  BY <1>1, SumIs
<1>5. Sum(h, S) = k[S]
  BY <1>2, SumIs
<1> QED
  BY <1>3, <1>4, <1>5

(* The first step of the recursion.                                          *)
LEMMA SumFirst ==
  ASSUME NEW f, NEW S, IsFiniteSet(S), S # {}
  PROVE  Some(S) \in S /\ Sum(f, S) = f[Some(S)] + Sum(f, S \ {Some(S)})
<1>1. PICK g : IsSum(f, SUBSET S, g)
  BY SumExists
<1>2. PICK c : c = Some(S)
  OBVIOUS
<1>3. PICK R : R = S \ {c}
  OBVIOUS
<1>4. IsFiniteSet(R) /\ SUBSET R \subseteq SUBSET S
  BY <1>3, FS_RemoveElement
<1>5. Sum(f, S) = g[S]
  BY <1>1, SumIs
<1>6. Sum(f, R) = g[R]
  BY <1>1, <1>4, SumIs
<1>7. c \in S /\ g[S] = f[c] + g[R]
  BY <1>1, <1>2, <1>3, SumAt
<1> QED
  BY <1>2, <1>3, <1>5, <1>6, <1>7

(* A sum of integers is an integer.                                          *)
LEMMA SumType ==
  ASSUME NEW S, IsFiniteSet(S), NEW f, \A x \in S : f[x] \in Int
  PROVE  Sum(f, S) \in Int
<1> DEFINE B == {U \in SUBSET S : Sum(f, U) \notin Int}
<1>1. SUFFICES ASSUME B # {}
               PROVE  FALSE
  OBVIOUS
<1>2. PICK U \in B : \A V \in B : V \subseteq U => V = U
  <2>1. B \in SUBSET (SUBSET S)
    OBVIOUS
  <2> HIDE DEF B
  <2> QED
    BY <1>1, <2>1, SmallestSet
<1>3. U \in SUBSET S /\ Sum(f, U) \notin Int /\ IsFiniteSet(U)
  BY <1>2, FS_Subset
<1>4. U # {}
  BY <1>3, SumNone
<1>5. PICK c : c = Some(U)
  OBVIOUS
<1>6. c \in U /\ Sum(f, U) = f[c] + Sum(f, U \ {c})
  BY <1>3, <1>4, <1>5, SumFirst
<1>7. U \ {c} \notin B
  BY <1>2, <1>6
<1>8. Sum(f, U \ {c}) \in Int /\ f[c] \in Int
  BY <1>3, <1>6, <1>7
<1> QED
  BY <1>3, <1>6, <1>8

(* Zeros add up to 0.                                                        *)
LEMMA SumZero ==
  ASSUME NEW S, IsFiniteSet(S), NEW f, \A x \in S : f[x] = 0
  PROVE  Sum(f, S) = 0
<1> DEFINE B == {U \in SUBSET S : Sum(f, U) # 0}
<1>1. SUFFICES ASSUME B # {}
               PROVE  FALSE
  OBVIOUS
<1>2. PICK U \in B : \A V \in B : V \subseteq U => V = U
  <2>1. B \in SUBSET (SUBSET S)
    OBVIOUS
  <2> HIDE DEF B
  <2> QED
    BY <1>1, <2>1, SmallestSet
<1>3. U \in SUBSET S /\ Sum(f, U) # 0 /\ IsFiniteSet(U)
  BY <1>2, FS_Subset
<1>4. U # {}
  BY <1>3, SumNone
<1>5. PICK c : c = Some(U)
  OBVIOUS
<1>6. c \in U /\ Sum(f, U) = f[c] + Sum(f, U \ {c})
  BY <1>3, <1>4, <1>5, SumFirst
<1>7. U \ {c} \notin B
  BY <1>2, <1>6
<1>8. Sum(f, U \ {c}) = 0 /\ f[c] = 0
  BY <1>3, <1>6, <1>7
<1> QED
  BY <1>3, <1>6, <1>8

(* Any element may come first.                                               *)
LEMMA SumTake ==
  ASSUME NEW S, IsFiniteSet(S), NEW f, \A x \in S : f[x] \in Int, NEW x \in S
  PROVE  Sum(f, S) = f[x] + Sum(f, S \ {x}) /\ Sum(f, S \ {x}) \in Int
<1> DEFINE B == {U \in SUBSET S : \E y \in U : Sum(f, U) # f[y] + Sum(f, U \ {y})}
<1>1. ASSUME B # {}
      PROVE  FALSE
  <2>1. PICK U \in B : \A V \in B : V \subseteq U => V = U
    <3>1. B \in SUBSET (SUBSET S)
      OBVIOUS
    <3> HIDE DEF B
    <3> QED
      BY <1>1, <3>1, SmallestSet
  <2>2. PICK y \in U : Sum(f, U) # f[y] + Sum(f, U \ {y})
    BY <2>1
  <2>3. U \in SUBSET S /\ IsFiniteSet(U) /\ U # {}
    BY <2>1, <2>2, FS_Subset
  <2>4. PICK c : c = Some(U)
    OBVIOUS
  <2>5. c \in U /\ Sum(f, U) = f[c] + Sum(f, U \ {c})
    BY <2>3, <2>4, SumFirst
  <2>6. c # y
    BY <2>2, <2>5
  <2>7. PICK V, W, R : V = U \ {c} /\ W = U \ {y} /\ R = U \ {c, y}
    OBVIOUS
  <2>8. /\ V \notin B /\ W \notin B /\ V \in SUBSET S /\ W \in SUBSET S /\ R \in SUBSET S
        /\ y \in V /\ c \in W /\ V \ {y} = R /\ W \ {c} = R
    <3>1. V \subseteq U /\ W \subseteq U /\ V # U /\ W # U
      BY <2>5, <2>7
    <3>2. V \notin B /\ W \notin B
      BY <2>1, <3>1
    <3> QED
      BY <2>3, <2>5, <2>6, <2>7, <3>2
  <2>9. Sum(f, V) = f[y] + Sum(f, R) /\ Sum(f, W) = f[c] + Sum(f, R)
    BY <2>8
  <2>10. Sum(f, R) \in Int /\ f[y] \in Int /\ f[c] \in Int
    BY <2>3, <2>5, <2>8, FS_Subset, SumType
  <2> QED
    BY <2>2, <2>5, <2>7, <2>9, <2>10
<1>2. S \notin B
  BY <1>1
<1>3. IsFiniteSet(S \ {x})
  BY FS_RemoveElement
<1> QED
  BY <1>2, <1>3, SumType

(* A sum over more, of what is more, is more.                                *)
LEMMA SumBound ==
  ASSUME NEW S, IsFiniteSet(S), NEW T \in SUBSET S, NEW f, NEW h,
         \A x \in S : h[x] \in Int, \A x \in T : f[x] \in Int /\ f[x] <= h[x],
         \A x \in S \ T : 0 <= h[x]
  PROVE  Sum(f, T) <= Sum(h, S)
<1> DEFINE B == {U \in SUBSET S : ~ (Sum(f, U \cap T) <= Sum(h, U))}
<1>1. ASSUME B # {}
      PROVE  FALSE
  <2>1. PICK U \in B : \A V \in B : V \subseteq U => V = U
    <3>1. B \in SUBSET (SUBSET S)
      OBVIOUS
    <3> HIDE DEF B
    <3> QED
      BY <1>1, <3>1, SmallestSet
  <2>2. U \in SUBSET S /\ IsFiniteSet(U) /\ ~ (Sum(f, U \cap T) <= Sum(h, U))
    BY <2>1, FS_Subset
  <2>3. U # {}
    <3>1. CASE U = {}
      <4>1. U \cap T = {}
        BY <3>1
      <4>2. Sum(f, U \cap T) = 0 /\ Sum(h, U) = 0
        BY <3>1, <4>1, SumNone
      <4> QED
        BY <2>2, <4>2
    <3> QED
      BY <3>1
  <2>4. PICK c \in U : TRUE
    BY <2>3
  <2>5. PICK V : V = U \ {c}
    OBVIOUS
  <2>6. V \in SUBSET S /\ V \notin B /\ IsFiniteSet(V)
    BY <2>1, <2>2, <2>4, <2>5, FS_RemoveElement
  <2>7. Sum(f, V \cap T) <= Sum(h, V)
    BY <2>6
  <2>8. \A x \in U : h[x] \in Int
    BY <2>2
  <2>9. Sum(h, U) = h[c] + Sum(h, V) /\ Sum(h, V) \in Int /\ h[c] \in Int
    BY <2>2, <2>4, <2>5, <2>8, SumTake
  <2>10. IsFiniteSet(U \cap T) /\ IsFiniteSet(V \cap T)
    BY <2>2, <2>6, FS_Subset
  <2>11. Sum(f, V \cap T) \in Int
    BY <2>10, SumType
  <2>12. CASE c \in T
    <3>1. PICK X, Y : X = U \cap T /\ Y = V \cap T
      OBVIOUS
    <3>2. c \in X /\ X \ {c} = Y /\ \A x \in X : f[x] \in Int
      BY <2>4, <2>5, <2>12, <3>1
    <3>3. Sum(f, X) = f[c] + Sum(f, Y)
      BY <2>10, <3>1, <3>2, SumTake
    <3>4. f[c] \in Int /\ f[c] <= h[c]
      BY <2>12
    <3>5. Sum(f, Y) \in Int /\ Sum(f, Y) <= Sum(h, V) /\ ~ (Sum(f, X) <= Sum(h, U))
      BY <2>2, <2>7, <2>11, <3>1
    <3> QED
      BY <2>9, <3>3, <3>4, <3>5
  <2>13. CASE c \notin T
    <3>1. PICK Y : Y = V \cap T
      OBVIOUS
    <3>2. U \cap T = Y
      BY <2>5, <2>13, <3>1
    <3>3. 0 <= h[c]
      BY <2>2, <2>4, <2>13
    <3>4. Sum(f, Y) \in Int /\ Sum(f, Y) <= Sum(h, V) /\ ~ (Sum(f, Y) <= Sum(h, U))
      BY <2>2, <2>7, <2>11, <3>1, <3>2
    <3> QED
      BY <2>9, <3>3, <3>4
  <2> QED
    BY <2>12, <2>13
<1>2. S \notin B /\ S \cap T = T
  BY <1>1
<1> QED
  BY <1>2

(* A sum of multiples.                                                       *)
LEMMA SumScale ==
  ASSUME NEW S, IsFiniteSet(S), NEW f, NEW h, NEW k \in Int,
         \A x \in S : f[x] \in Int /\ h[x] = k * f[x]
  PROVE  Sum(h, S) = k * Sum(f, S)
<1> DEFINE B == {U \in SUBSET S : Sum(h, U) # k * Sum(f, U)}
<1>1. ASSUME B # {}
      PROVE  FALSE
  <2>1. PICK U \in B : \A V \in B : V \subseteq U => V = U
    <3>1. B \in SUBSET (SUBSET S)
      OBVIOUS
    <3> HIDE DEF B
    <3> QED
      BY <1>1, <3>1, SmallestSet
  <2>2. U \in SUBSET S /\ IsFiniteSet(U) /\ Sum(h, U) # k * Sum(f, U)
    BY <2>1, FS_Subset
  <2>3. U # {}
    <3>1. CASE U = {}
      <4>1. Sum(h, U) = 0 /\ Sum(f, U) = 0
        BY <3>1, SumNone
      <4> QED
        BY <2>2, <4>1
    <3> QED
      BY <3>1
  <2>4. PICK c \in U : TRUE
    BY <2>3
  <2>5. PICK V : V = U \ {c}
    OBVIOUS
  <2>6. Sum(h, V) = k * Sum(f, V)
    BY <2>1, <2>2, <2>4, <2>5
  <2>7. \A x \in U : f[x] \in Int /\ h[x] \in Int
    BY <2>2
  <2>8. Sum(f, U) = f[c] + Sum(f, V) /\ Sum(f, V) \in Int
    BY <2>2, <2>4, <2>5, <2>7, SumTake
  <2>9. Sum(h, U) = h[c] + Sum(h, V)
    BY <2>2, <2>4, <2>5, <2>7, SumTake
  <2>10. PICK a, b : a = f[c] /\ b = Sum(f, V)
    OBVIOUS
  <2>11. a \in Int /\ b \in Int /\ k * (a + b) = k * a + k * b
    BY <2>2, <2>4, <2>8, <2>10
  <2>12. h[c] = k * a
    BY <2>2, <2>10
  <2> QED
    BY <2>2, <2>6, <2>8, <2>9, <2>10, <2>11, <2>12
<1>2. S \notin B
  BY <1>1
<1> QED
  BY <1>2

(* A sum of sums.                                                            *)
LEMMA SumPlus ==
  ASSUME NEW S, IsFiniteSet(S), NEW f, NEW g, NEW h,
         \A x \in S : f[x] \in Int /\ g[x] \in Int /\ h[x] = f[x] + g[x]
  PROVE  Sum(h, S) = Sum(f, S) + Sum(g, S)
<1> DEFINE B == {U \in SUBSET S : Sum(h, U) # Sum(f, U) + Sum(g, U)}
<1>1. ASSUME B # {}
      PROVE  FALSE
  <2>1. PICK U \in B : \A V \in B : V \subseteq U => V = U
    <3>1. B \in SUBSET (SUBSET S)
      OBVIOUS
    <3> HIDE DEF B
    <3> QED
      BY <1>1, <3>1, SmallestSet
  <2>2. U \in SUBSET S /\ IsFiniteSet(U) /\ Sum(h, U) # Sum(f, U) + Sum(g, U)
    BY <2>1, FS_Subset
  <2>3. U # {}
    <3>1. CASE U = {}
      <4>1. Sum(h, U) = 0 /\ Sum(f, U) = 0 /\ Sum(g, U) = 0
        BY <3>1, SumNone
      <4> QED
        BY <2>2, <4>1
    <3> QED
      BY <3>1
  <2>4. PICK c \in U : TRUE
    BY <2>3
  <2>5. PICK V : V = U \ {c}
    OBVIOUS
  <2>6. Sum(h, V) = Sum(f, V) + Sum(g, V)
    BY <2>1, <2>2, <2>4, <2>5
  <2>7. \A x \in U : f[x] \in Int /\ g[x] \in Int /\ h[x] \in Int
    BY <2>2
  <2>8. Sum(f, U) = f[c] + Sum(f, V) /\ Sum(f, V) \in Int
    BY <2>2, <2>4, <2>5, <2>7, SumTake
  <2>9. Sum(g, U) = g[c] + Sum(g, V) /\ Sum(g, V) \in Int
    BY <2>2, <2>4, <2>5, <2>7, SumTake
  <2>10. Sum(h, U) = h[c] + Sum(h, V)
    BY <2>2, <2>4, <2>5, <2>7, SumTake
  <2>11. f[c] \in Int /\ g[c] \in Int /\ h[c] = f[c] + g[c]
    BY <2>2, <2>4
  <2> QED
    BY <2>2, <2>6, <2>8, <2>9, <2>10, <2>11
<1>2. S \notin B
  BY <1>1
<1> QED
  BY <1>2

(* As often the same as there are elements.                                  *)
LEMMA SumCount ==
  ASSUME NEW S, IsFiniteSet(S), NEW f, NEW k \in Int, \A x \in S : f[x] = k
  PROVE  Sum(f, S) = k * Cardinality(S)
<1> DEFINE B == {U \in SUBSET S : Sum(f, U) # k * Cardinality(U)}
<1>1. ASSUME B # {}
      PROVE  FALSE
  <2>1. PICK U \in B : \A V \in B : V \subseteq U => V = U
    <3>1. B \in SUBSET (SUBSET S)
      OBVIOUS
    <3> HIDE DEF B
    <3> QED
      BY <1>1, <3>1, SmallestSet
  <2>2. U \in SUBSET S /\ IsFiniteSet(U) /\ Sum(f, U) # k * Cardinality(U)
    BY <2>1, FS_Subset
  <2>3. U # {}
    <3>1. CASE U = {}
      <4>1. Cardinality(U) = 0 /\ Sum(f, U) = 0
        BY <3>1, FS_EmptySet, SumNone
      <4> QED
        BY <2>2, <4>1
    <3> QED
      BY <3>1
  <2>4. PICK c \in U : TRUE
    BY <2>3
  <2>5. PICK V : V = U \ {c}
    OBVIOUS
  <2>6. Sum(f, V) = k * Cardinality(V)
    BY <2>1, <2>2, <2>4, <2>5
  <2>7. \A x \in U : f[x] \in Int
    BY <2>2
  <2>8. Sum(f, U) = f[c] + Sum(f, V)
    BY <2>2, <2>4, <2>5, <2>7, SumTake
  <2>9. Cardinality(V) = Cardinality(U) - 1 /\ Cardinality(U) \in Nat
    BY <2>2, <2>4, <2>5, FS_RemoveElement, FS_CardinalityType
  <2>10. PICK m, n : m = Cardinality(U) /\ n = Cardinality(V)
    OBVIOUS
  <2>11. m \in Int /\ n = m - 1 /\ k * n = k * m - k
    BY <2>9, <2>10
  <2>12. f[c] = k
    BY <2>2
  <2> QED
    BY <2>2, <2>6, <2>8, <2>10, <2>11, <2>12
<1>2. S \notin B
  BY <1>1
<1> QED
  BY <1>2

(* A sum over more, if the rest adds nothing, is no more.                    *)
LEMMA SumShort ==
  ASSUME NEW S, IsFiniteSet(S), NEW T \in SUBSET S, NEW f, NEW h,
         \A x \in S : f[x] \in Int, \A x \in T : h[x] \in Int /\ f[x] <= h[x],
         \A x \in S \ T : f[x] <= 0
  PROVE  Sum(f, S) <= Sum(h, T)
<1>1. PICK k : k = -1
  OBVIOUS
<1>2. PICK p, q : p = [x \in S |-> k * f[x]] /\ q = [x \in T |-> k * h[x]]
  BY Zenon
<1>3. k \in Int /\ IsFiniteSet(T)
  BY <1>1, FS_Subset
<1>4. \A x \in S : f[x] \in Int /\ p[x] = k * f[x]
  BY <1>2
<1>5. \A x \in T : h[x] \in Int /\ q[x] = k * h[x]
  BY <1>2
<1>6. Sum(q, T) <= Sum(p, S)
  <2>1. \A x \in S : p[x] \in Int /\ (x \notin T => 0 <= p[x])
    BY <1>1, <1>4
  <2>2. \A x \in T : q[x] \in Int /\ q[x] <= p[x]
    BY <1>1, <1>4, <1>5
  <2> QED
    BY <2>1, <2>2, SumBound
<1>7. Sum(p, S) = k * Sum(f, S)
  BY <1>3, <1>4, SumScale, Zenon
<1>8. Sum(q, T) = k * Sum(h, T)
  BY <1>3, <1>5, SumScale, Zenon
<1>9. Sum(f, S) \in Int /\ Sum(h, T) \in Int
  BY <1>3, SumType
<1> QED
  BY <1>1, <1>6, <1>7, <1>8, <1>9

(* Who gets at most what its weight is of an amount, and all of them.        *)
LEMMA SharesFit ==
  ASSUME NEW S, IsFiniteSet(S), NEW p, NEW q, NEW t \in Nat \ {0}, NEW n \in Int,
         Sum(p, S) = t, \A x \in S : p[x] \in Int /\ q[x] \in Int /\ t * q[x] <= p[x] * n
  PROVE  Sum(q, S) <= n
<1>1. PICK f, g : f = [x \in S |-> t * q[x]] /\ g = [x \in S |-> n * p[x]]
  BY Zenon
<1>2. \A x \in S : f[x] = t * q[x] /\ g[x] = n * p[x]
  BY <1>1
<1>3. \A x \in S : f[x] \in Int /\ g[x] \in Int /\ f[x] <= g[x]
  <2>1. ASSUME NEW x \in S
        PROVE  f[x] \in Int /\ g[x] \in Int /\ f[x] <= g[x]
    <3>1. PICK a, b : a = p[x] /\ b = q[x]
      OBVIOUS
    <3>2. a \in Int /\ b \in Int /\ t * b <= a * n /\ f[x] = t * b /\ g[x] = n * a
      BY <1>2, <3>1
    <3> QED
      BY <3>2
  <2> QED
    BY <2>1
<1>4. Sum(f, S) <= Sum(g, S)
  <2>1. S \in SUBSET S /\ \A x \in S \ S : 0 <= g[x]
    OBVIOUS
  <2> QED
    BY <1>3, <2>1, SumBound
<1>5. Sum(f, S) = t * Sum(q, S)
  <2>1. t \in Int /\ \A x \in S : q[x] \in Int /\ f[x] = t * q[x]
    BY <1>2
  <2> QED
    BY <2>1, SumScale
<1>6. Sum(g, S) = n * t
  <2>1. \A x \in S : p[x] \in Int /\ g[x] = n * p[x]
    BY <1>2
  <2>2. Sum(g, S) = n * Sum(p, S)
    BY <2>1, SumScale, Zenon
  <2> QED
    BY <2>2
<1>7. Sum(q, S) \in Int
  BY SumType
<1>8. PICK m : m = Sum(q, S)
  OBVIOUS
<1>9. m \in Int /\ t * m <= n * t
  BY <1>4, <1>5, <1>6, <1>7, <1>8
<1>10. CASE m > n
  <2>1. PICK k : k = m - n
    OBVIOUS
  <2>2. k \in Int /\ k >= 1 /\ m = n + k
    BY <1>9, <1>10, <2>1
  <2>3. t * m = n * t + t * k /\ t * k >= 1
    BY <2>2
  <2> QED
    BY <1>9, <2>2, <2>3
<1> QED
  BY <1>8, <1>9, <1>10

(* The larger and the smaller of two integers.                               *)
LEMMA LargerOne ==
  ASSUME NEW a \in Int, NEW b \in Int
  PROVE  /\ Max({a, b}) \in {a, b} /\ Max({a, b}) \in Int
         /\ a <= Max({a, b}) /\ b <= Max({a, b})
<1>1. \E x \in {a, b} : \A y \in {a, b} : x >= y
  <2>1. a >= b \/ b >= a
    OBVIOUS
  <2>2. a >= a /\ b >= b
    OBVIOUS
  <2> QED
    BY <2>1, <2>2
<1>2. PICK m : m = Max({a, b})
  OBVIOUS
<1>3. m \in {a, b} /\ \A y \in {a, b} : m >= y
  BY <1>1, <1>2, Zenon DEF Max
<1>4. m >= a /\ m >= b /\ m \in Int
  BY <1>3
<1> QED
  BY <1>2, <1>3, <1>4

(* The smaller of two integers.                                              *)
LEMMA SmallerOne ==
  ASSUME NEW a \in Int, NEW b \in Int
  PROVE  /\ Min({a, b}) \in {a, b} /\ Min({a, b}) \in Int
         /\ Min({a, b}) <= a /\ Min({a, b}) <= b
<1>1. \E x \in {a, b} : \A y \in {a, b} : x =< y
  <2>1. a =< b \/ b =< a
    OBVIOUS
  <2>2. a =< a /\ b =< b
    OBVIOUS
  <2> QED
    BY <2>1, <2>2
<1>2. PICK m : m = Min({a, b})
  OBVIOUS
<1>3. m \in {a, b} /\ \A y \in {a, b} : m =< y
  BY <1>1, <1>2, Zenon DEF Min
<1>4. m =< a /\ m =< b /\ m \in Int
  BY <1>3
<1> QED
  BY <1>2, <1>3, <1>4

(* The larger of 0 and 0.                                                    *)
LEMMA LargerZero == Max({0, 0}) = 0
<1>1. PICK m : m = Max({0, 0})
  OBVIOUS
<1>2. 0 \in Int
  OBVIOUS
<1>3. m \in {0, 0}
  BY <1>1, <1>2, LargerOne, Zenon
<1> QED
  BY <1>1, <1>3

(* A quotient by a positive number, and one whose dividend is at most a multiple. *)
LEMMA Quotient ==
  ASSUME NEW n \in Int, NEW m \in Nat \ {0}
  PROVE  n \div m \in Int
OBVIOUS

(* A target that only takes away, before its division, is at most what there was.*)
LEMMA QuotientBound ==
  ASSUME NEW a \in Int, NEW m \in Nat \ {0}, NEW n \in Int, n <= 0
  PROVE  (a * m + n) \div m <= a
<1>1. PICK q : q = (a * m + n) \div m
  OBVIOUS
<1>2. q \in Int /\ m * q <= a * m + n
  BY <1>1
<1>3. CASE q > a
  <2>1. PICK k : k = q - a
    OBVIOUS
  <2>2. k \in Int /\ k >= 1 /\ q = a + k
    BY <1>2, <1>3, <2>1
  <2>3. m * q = m * a + m * k
    BY <2>2
  <2>4. m * k >= m
    BY <2>2
  <2> QED
    BY <1>2, <2>3, <2>4
<1> QED
  BY <1>1, <1>2, <1>3

(* The rounds of Spread(), up to the n-th.                                   *)
Further(s) == IF s.left <= 0 \/ s.open <= 0 THEN s ELSE Round(s)

AreRounds(s, n, g) ==
  g = [i \in 0..n |-> IF i = 0 THEN s
                      ELSE LET t == g[i - 1]
                           IN  IF t.left <= 0 \/ t.open <= 0 THEN t ELSE Round(t)]

(* The rounds of Spread from s: each one is made from the one before.        *)
LEMMA RoundAt ==
  ASSUME NEW s, NEW n \in Nat, NEW g, AreRounds(s, n, g)
  PROVE  g[0] = s /\ \A i \in 1..n : g[i] = Further(g[i - 1])
<1>1. g = [i \in 0..n |-> IF i = 0 THEN s ELSE Further(g[i - 1])]
  BY Zenon DEF AreRounds, Further
<1>2. 0 \in 0..n /\ \A i \in 1..n : i \in 0..n /\ i # 0
  OBVIOUS
<1>3. g[0] = s
  BY <1>1, <1>2, Zenon
<1>4. ASSUME NEW i \in 1..n
      PROVE  g[i] = Further(g[i - 1])
  BY <1>1, <1>2, Zenon
<1> QED
  BY <1>3, <1>4

(* One more, and so as many as one likes.                                    *)
LEMMA RoundMore ==
  ASSUME NEW s, NEW k \in Nat, NEW h, AreRounds(s, k, h)
  PROVE  \E g : AreRounds(s, k + 1, g)
<1>1. PICK g : g = [i \in 0..(k + 1) |-> IF i = 0 THEN s ELSE Further(h[i - 1])]
  BY Zenon
<1>2. h[0] = s /\ \A i \in 1..k : h[i] = Further(h[i - 1])
  BY RoundAt
<1>3. ASSUME NEW i \in 0..(k + 1), i # 0
      PROVE  g[i - 1] = h[i - 1]
  <2>1. PICK j : j = i - 1
    OBVIOUS
  <2>2. j \in 0..(k + 1) /\ (j # 0 => j \in 1..k)
    BY <1>3, <2>1
  <2>3. g[j] = IF j = 0 THEN s ELSE Further(h[j - 1])
    BY <1>1, <2>2, Zenon
  <2> QED
    BY <1>2, <2>1, <2>2, <2>3
<1>4. g = [i \in 0..(k + 1) |-> IF i = 0 THEN s ELSE Further(g[i - 1])]
  BY <1>1, <1>3, Zenon
<1>5. AreRounds(s, k + 1, g)
  BY <1>4, Zenon DEF AreRounds, Further
<1> QED
  BY <1>5

(* There are rounds from any state, so that Spread's recursive function is one.*)
LEMMA RoundsExist ==
  ASSUME NEW s, NEW m \in Nat
  PROVE  \E g : AreRounds(s, m, g)
<1> DEFINE B == {n \in Nat : ~ \E g : AreRounds(s, n, g)}
<1>1. ASSUME B # {}
      PROVE  FALSE
  <2>1. PICK n \in B : \A k \in B : n <= k
    <3>1. B \in SUBSET Nat
      OBVIOUS
    <3> HIDE DEF B
    <3> QED
      BY <1>1, <3>1, LeastNumber
  <2>2. n \in Nat /\ ~ \E g : AreRounds(s, n, g)
    BY <2>1
  <2>3. CASE n = 0
    <3>1. PICK g : g = [i \in 0..n |-> s]
      BY Zenon
    <3>2. \A i \in 0..n : i = 0
      BY <2>3
    <3>3. AreRounds(s, n, g)
      BY <3>1, <3>2, Zenon DEF AreRounds
    <3> QED
      BY <2>2, <3>3
  <2>4. CASE n # 0
    <3>1. PICK k : k = n - 1
      OBVIOUS
    <3>2. k \in Nat /\ k \notin B /\ n = k + 1
      BY <2>1, <2>2, <2>4, <3>1
    <3>3. PICK h : AreRounds(s, k, h)
      BY <3>2
    <3> HIDE DEF B
    <3>4. \E g : AreRounds(s, k + 1, g)
      BY <3>2, <3>3, RoundMore, Zenon
    <3> QED
      BY <2>2, <3>2, <3>4
  <2> QED
    BY <2>3, <2>4
<1>2. m \notin B
  BY <1>1
<1> QED
  BY <1>2

(* A round keeps its targets whole numbers.                                  *)
LEMMA RoundType ==
  ASSUME NEW D, IsFiniteSet(D), D \subseteq Doms, NEW s,
         s.to \in [D -> Int], s.left \in Int, s.open \in Nat \ {0}
  PROVE  LET t == Round(s) IN t.to \in [D -> Int] /\ t.left \in Int /\ t.open \in Int
<1> DEFINE t == s.to
           bonus == (s.left * 999) \div (s.open * 1000)
           under == {d \in DOMAIN t : t[d] < MemMax[d]}
           full == {d \in under : t[d] + bonus >= MemMax[d]}
           f == [d \in DOMAIN t |-> IF d \in full THEN MemMax[d]
                                    ELSE IF d \in under THEN t[d] + bonus ELSE t[d]]
           h == [d \in full |-> t[d] + bonus - MemMax[d]]
<1>1. Round(s) = [to |-> f, left |-> Sum(h, full), open |-> s.open - Cardinality(full)]
  BY DEF Round
<1>2. bonus \in Int
  <2>1. PICK n, m : n = s.left * 999 /\ m = s.open * 1000
    OBVIOUS
  <2>2. n \in Int /\ m \in Nat \ {0}
    BY <2>1
  <2>3. n \div m \in Int
    BY <2>2, Quotient, Zenon
  <2> QED
    BY <2>1, <2>3, Zenon
<1>3. DOMAIN t = D /\ \A d \in D : t[d] \in Int /\ MemMax[d] \in Int
  BY MemoryAssumption
<1>4. full \subseteq D /\ IsFiniteSet(full)
  BY <1>3, FS_Subset
<1> HIDE DEF bonus
<1>5. f \in [D -> Int]
  BY <1>2, <1>3
<1>6. Sum(h, full) \in Int
  <2>1. \A d \in full : h[d] \in Int
    BY <1>2, <1>3
  <2> HIDE DEF h, full
  <2> QED
    BY <1>4, <2>1, SumType
<1>7. s.open - Cardinality(full) \in Int
  <2>1. Cardinality(full) \in Nat
    BY <1>4, FS_CardinalityType
  <2> QED
    BY <2>1
<1> HIDE DEF f, full, h
<1> QED
  BY <1>1, <1>5, <1>6, <1>7

(* So does the loop.                                                         *)
LEMMA SpreadType ==
  ASSUME NEW D, IsFiniteSet(D), D \subseteq Doms, NEW to \in [D -> Int],
         NEW left \in Int, NEW open \in Nat
  PROVE  Spread(to, left, open) \in [D -> Int]
<1>1. PICK s : s = [to |-> to, left |-> left, open |-> open]
  OBVIOUS
<1>2. PICK g : g = CHOOSE f : AreRounds(s, open + 1, f)
  OBVIOUS
<1>3. AreRounds(s, open + 1, g)
  <2>1. open + 1 \in Nat
    OBVIOUS
  <2> QED
    BY <1>2, <2>1, RoundsExist, Zenon
<1>4. Spread(to, left, open) = g[open + 1].to
  BY <1>1, <1>2, Zenon DEF Spread, AreRounds
<1> DEFINE Good(t) == t.to \in [D -> Int] /\ t.left \in Int /\ t.open \in Int
           B == {i \in 0..(open + 1) : ~ Good(g[i])}
<1>5. ASSUME B # {}
      PROVE  FALSE
  <2>1. PICK i \in B : \A k \in B : i <= k
    <3>1. B \in SUBSET Nat
      OBVIOUS
    <3> HIDE DEF B
    <3> QED
      BY <1>5, <3>1, LeastNumber
  <2>2. i \in 0..(open + 1) /\ ~ Good(g[i])
    BY <2>1
  <2>3. g[0] = s /\ \A j \in 1..(open + 1) : g[j] = Further(g[j - 1])
    <3>1. PICK k : k = open + 1
      OBVIOUS
    <3>2. k \in Nat /\ AreRounds(s, k, g)
      BY <1>3, <3>1
    <3>3. g[0] = s /\ \A j \in 1..k : g[j] = Further(g[j - 1])
      BY <3>2, RoundAt
    <3> QED
      BY <3>1, <3>3
  <2>4. i # 0
    BY <1>1, <2>2, <2>3
  <2>5. i - 1 \in 0..(open + 1) /\ i - 1 \notin B /\ i \in 1..(open + 1)
    BY <2>1, <2>2, <2>4
  <2>6. Good(g[i - 1]) /\ g[i] = Further(g[i - 1])
    BY <2>3, <2>5
  <2>7. PICK t : t = g[i - 1]
    OBVIOUS
  <2>8. CASE t.left <= 0 \/ t.open <= 0
    BY <2>2, <2>6, <2>7, <2>8 DEF Further
  <2>9. CASE ~ (t.left <= 0 \/ t.open <= 0)
    <3>1. t.open \in Nat \ {0} /\ t.to \in [D -> Int] /\ t.left \in Int
      BY <2>6, <2>7, <2>9
    <3>2. Good(Round(t))
      BY <3>1, RoundType
    <3>3. g[i] = Round(t)
      BY <2>6, <2>7, <2>9, Zenon DEF Further
    <3> HIDE DEF Good
    <3> QED
      BY <2>2, <3>2, <3>3
  <2> QED
    BY <2>8, <2>9
<1>6. open + 1 \in 0..(open + 1) /\ open + 1 \notin B
  BY <1>5
<1> QED
  BY <1>4, <1>6

(* What algo.py works with: the states of known domains, and every one that  *)
(* counts was measured.                                                      *)
AreMeasured(r) ==
  /\ known \subseteq Doms /\ r \in [Doms -> States]
  /\ \A d \in Counted(r) : r[d].act # None

(* Sets of domains are finite: they can be summed over.                      *)
LEMMA DomsAreFinite == IsFiniteSet(Doms) /\ \A D \in SUBSET Doms : IsFiniteSet(D)
<1>1. IsFiniteSet(Qubes \cup {Dom0})
  BY MemoryAssumption, FS_AddElement
<1>2. Doms = Qubes \cup {Dom0}
  BY DEF Doms
<1> QED
  BY <1>1, <1>2, FS_Subset

(* A domain prefers something.                                               *)
LEMMA PrefType ==
  ASSUME NEW r \in [Doms -> States], NEW d \in Doms, r[d].used # None
  PROVE  pref_mem(r, d) \in Nat \ {0}
<1>1. r[d].used \in Nat
  BY DEF States
<1>2. PICK used : used = (r[d].used * 13) \div 10
  OBVIOUS
<1>3. used \in Nat
  BY <1>1, <1>2
<1>4. PICK max : max = MemMax[d]
  OBVIOUS
<1>5. max \in Nat \ {0} /\ MIN_PREFMEM \in Nat \ {0} /\ DOM0_MEM_BOOST \in Nat \ {0}
  BY <1>4, MemoryAssumption
<1>6. CASE d = Dom0
  <2>1. pref_mem(r, d) = Min({used + DOM0_MEM_BOOST, max})
    BY <1>2, <1>4, <1>6 DEF pref_mem
  <2>2. used + DOM0_MEM_BOOST \in Nat \ {0}
    BY <1>3, <1>5
  <2>3. Min({used + DOM0_MEM_BOOST, max}) \in {used + DOM0_MEM_BOOST, max}
    <3>1. used + DOM0_MEM_BOOST \in Int /\ max \in Int
      BY <1>5, <2>2
    <3> QED
      BY <3>1, SmallerOne, Zenon
  <2> QED
    BY <1>5, <2>1, <2>2, <2>3
<1>7. CASE d # Dom0
  <2>1. PICK m : m = Min({used, max})
    OBVIOUS
  <2>2. m \in Nat
    <3>1. used \in Int /\ max \in Int
      BY <1>3, <1>5
    <3>2. m \in {used, max}
      BY <2>1, <3>1, SmallerOne, Zenon
    <3> QED
      BY <1>3, <1>5, <3>2
  <2>3. pref_mem(r, d) = Max({m, MIN_PREFMEM})
    BY <1>2, <1>4, <1>7, <2>1 DEF pref_mem
  <2>4. Max({m, MIN_PREFMEM}) \in Int /\ MIN_PREFMEM <= Max({m, MIN_PREFMEM})
    <3>1. m \in Int /\ MIN_PREFMEM \in Int
      BY <1>5, <2>2
    <3> QED
      BY <3>1, LargerOne, Zenon
  <2> QED
    BY <1>5, <2>3, <2>4
<1> QED
  BY <1>6, <1>7

(* What counted domains prefer together, and have to spare.                  *)
LEMMA PrefsType ==
  ASSUME NEW r, AreMeasured(r), NEW D \in SUBSET Counted(r)
  PROVE  Prefs(r, D) \in Int /\ (D # {} => Prefs(r, D) \in Nat \ {0})
<1>1. D \subseteq Doms /\ IsFiniteSet(D)
  BY DomsAreFinite DEF AreMeasured, Counted
<1>2. PICK f : f = [d \in D |-> pref_mem(r, d)]
  BY Zenon
<1>3. \A d \in D : f[d] \in Nat \ {0}
  BY <1>1, <1>2, PrefType DEF AreMeasured, Counted
<1>4. Prefs(r, D) = Sum(f, D)
  BY <1>2, Zenon DEF Prefs
<1>5. Sum(f, D) \in Int
  BY <1>1, <1>3, SumType
<1>6. ASSUME D # {}
      PROVE  Sum(f, D) \in Nat \ {0}
  <2>1. PICK d \in D : TRUE
    BY <1>6
  <2>2. PICK E : E = D \ {d}
    OBVIOUS
  <2>3. Sum(f, D) = f[d] + Sum(f, E) /\ Sum(f, E) \in Int
    <3>1. \A x \in D : f[x] \in Int
      BY <1>3
    <3> QED
      BY <1>1, <2>2, <3>1, SumTake
  <2>4. 0 <= Sum(f, E)
    <3>1. IsFiniteSet(E) /\ {} \in SUBSET E
      BY <1>1, <2>2, FS_Subset
    <3>2. \A x \in E : f[x] \in Int /\ 0 <= f[x]
      BY <1>3, <2>2
    <3>3. Sum(f, {}) <= Sum(f, E)
      BY <3>1, <3>2, SumBound
    <3> QED
      BY <3>3, SumNone
  <2>5. f[d] \in Nat \ {0}
    BY <1>3
  <2> QED
    BY <2>3, <2>4, <2>5
<1> QED
  BY <1>4, <1>5, <1>6

(* What measured domains can spare is a number.                              *)
LEMMA SpareType ==
  ASSUME NEW r, AreMeasured(r), NEW D \in SUBSET Counted(r)
  PROVE  /\ Spare(r, D) \in Int
         /\ \A d \in D : r[d].act \in Int /\ needed_mem(r, d) \in Int /\ pref_mem(r, d) \in Nat \ {0}
<1>1. D \subseteq Doms /\ IsFiniteSet(D)
  BY DomsAreFinite DEF AreMeasured, Counted
<1>2. PICK f : f = [d \in D |-> -needed_mem(r, d)]
  BY Zenon
<1>3. ASSUME NEW d \in D
      PROVE  r[d].act \in Int /\ needed_mem(r, d) \in Int /\ pref_mem(r, d) \in Nat \ {0}
  <2>1. pref_mem(r, d) \in Nat \ {0}
    BY <1>1, PrefType DEF AreMeasured, Counted
  <2>2. r[d].act \in Int
    <3>1. r[d] \in States /\ r[d].act # None
      BY <1>1 DEF AreMeasured, Counted
    <3> QED
      BY <3>1 DEF States
  <2> QED
    BY <2>1, <2>2 DEF needed_mem
<1>4. \A d \in D : f[d] \in Int
  BY <1>2, <1>3
<1>5. Spare(r, D) = Sum(f, D)
  BY <1>2, Zenon DEF Spare
<1> QED
  BY <1>1, <1>3, <1>4, <1>5, SumType

(* A domain is never asked to balloon up for another.                        *)
LEMMA BalloonTargets ==
  ASSUME NEW r, AreMeasured(r), NEW size \in Int, size > 0
  PROVE  /\ DOMAIN balloon(r, size) \subseteq Counted(r)
         /\ \A d \in DOMAIN balloon(r, size) :
              balloon(r, size)[d] \in Int /\ r[d].act \in Int /\ balloon(r, size)[d] <= r[d].act
<1>1. PICK donors : donors = {d \in Counted(r) : needed_mem(r, d) < 0}
  OBVIOUS
<1>2. donors \in SUBSET Counted(r)
  BY <1>1
<1>3. PICK avail : avail = Spare(r, donors)
  OBVIOUS
<1>4. /\ avail \in Int
      /\ \A d \in donors : r[d].act \in Int /\ needed_mem(r, d) \in Int
  BY <1>2, <1>3, SpareType
<1>5. CASE avail < size
  <2>1. balloon(r, size) = NoTargets
    BY <1>1, <1>3, <1>5, Zenon DEF balloon
  <2> QED
    BY <2>1 DEF NoTargets
<1>6. CASE ~ (avail < size)
  <2>1. PICK f : f = [d \in donors |->
                        (r[d].act * 100 * avail + needed_mem(r, d) * size * 105) \div (100 * avail)]
    BY Zenon
  <2>2. balloon(r, size) = f
    BY <1>1, <1>3, <1>6, <2>1, Zenon DEF balloon
  <2>3. ASSUME NEW d \in donors
        PROVE  f[d] \in Int /\ f[d] <= r[d].act
    <3>1. PICK a, n, m : a = r[d].act /\ n = needed_mem(r, d) /\ m = 100 * avail
      OBVIOUS
    <3>2. a \in Int /\ n \in Int /\ n < 0 /\ m \in Nat \ {0}
      BY <1>1, <1>4, <1>6, <3>1
    <3>3. PICK k : k = n * size * 105
      OBVIOUS
    <3>4. k \in Int /\ k <= 0
      BY <3>2, <3>3
    <3>5. f[d] = (a * m + k) \div m
      <4>1. a * 100 * avail = a * m
        BY <1>4, <3>1, <3>2
      <4> QED
        BY <2>1, <3>1, <3>3, <4>1
    <3>6. a * m + k \in Int
      BY <3>2, <3>4
    <3> QED
      BY <3>1, <3>2, <3>4, <3>5, <3>6, Quotient, QuotientBound
  <2> QED
    BY <1>2, <1>4, <2>1, <2>2, <2>3
<1> QED
  BY <1>5, <1>6

(* Whatever is balanced is a domain that counts, and its target a number.    *)
LEMMA EnoughTargets ==
  ASSUME NEW r, AreMeasured(r), NEW available \in Int
  PROVE  LET to == balance_when_enough_mem(r, available).to
         IN  to \in [Counted(r) -> Int]
<1>1. PICK D : D = Counted(r)
  OBVIOUS
<1>2. D \subseteq Doms /\ IsFiniteSet(D) /\ D \in SUBSET Counted(r)
  BY <1>1, DomsAreFinite DEF AreMeasured, Counted
<1>3. PICK total : total = Prefs(r, D)
  OBVIOUS
<1>4. PICK share : share =
        [d \in D |-> (999 * ((pref_mem(r, d) * (total + available)) \div total)) \div 1000]
  BY Zenon
<1>5. \A d \in D : MemMax[d] \in Int
  BY <1>2, MemoryAssumption
<1>6. ASSUME NEW d \in D
      PROVE  share[d] \in Int
  <2>1. total \in Nat \ {0}
    BY <1>2, <1>3, PrefsType
  <2>2. PICK n : n = pref_mem(r, d) * (total + available)
    OBVIOUS
  <2>3. n \in Int
    <3>1. pref_mem(r, d) \in Nat \ {0}
      BY <1>2, SpareType
    <3> QED
      BY <2>1, <2>2, <3>1
  <2>4. PICK q : q = n \div total
    OBVIOUS
  <2>5. q \in Int
    BY <2>1, <2>3, <2>4, Quotient
  <2>6. 999 * q \in Int
    BY <2>5
  <2>7. share[d] = (999 * q) \div 1000
    BY <1>4, <2>2, <2>4
  <2> QED
    BY <2>6, <2>7
<1>7. PICK over : over = {d \in D : share[d] > MemMax[d]}
  OBVIOUS
<1>8. PICK left : left = Sum([d \in over |-> share[d] - MemMax[d]], over)
  OBVIOUS
<1>9. left \in Int
  <2>1. PICK f : f = [d \in over |-> share[d] - MemMax[d]]
    BY Zenon
  <2>2. \A d \in over : f[d] \in Int
    BY <1>5, <1>6, <1>7, <2>1
  <2>3. IsFiniteSet(over)
    BY <1>2, <1>7, FS_Subset
  <2>4. left = Sum(f, over)
    BY <1>8, <2>1
  <2> QED
    BY <2>2, <2>3, <2>4, SumType
<1>10. PICK open : open = Cardinality(D \ over)
  OBVIOUS
<1>11. open \in Nat
  <2>1. IsFiniteSet(D \ over)
    BY <1>2, FS_Subset
  <2> QED
    BY <1>10, <2>1, FS_CardinalityType
<1>12. PICK f : f = [d \in D |-> Min({share[d], MemMax[d]})]
  BY Zenon
<1>13. f \in [D -> Int]
  <2>1. \A d \in D : Min({share[d], MemMax[d]}) \in Int
    BY <1>5, <1>6, SmallerOne
  <2> QED
    BY <1>12, <2>1
<1>14. Spread(f, left, open) \in [D -> Int]
  BY <1>2, <1>9, <1>11, <1>13, SpreadType
<1>15. balance_when_enough_mem(r, available).to = Spread(f, left, open)
  BY <1>1, <1>3, <1>4, <1>7, <1>8, <1>10, <1>12 DEF balance_when_enough_mem, List
<1> QED
  BY <1>1, <1>14, <1>15

(* balance_when_low_on_mem() names measured domains, each with a number.     *)
LEMMA LowTargets ==
  ASSUME NEW r, AreMeasured(r), NEW free \in Int,
         NEW donors \in SUBSET Counted(r), NEW acceptors \in SUBSET Counted(r)
  PROVE  LET to == balance_when_low_on_mem(r, free, donors, acceptors).to
         IN  DOMAIN to \subseteq Counted(r) /\ to \in [DOMAIN to -> Int]
<1>1. PICK gives : gives = {d \in donors : -needed_mem(r, d) >= 10}
  OBVIOUS
<1>2. gives \in SUBSET Counted(r)
  BY <1>1
<1>3. PICK squeezed : squeezed = free - Spare(r, gives)
  OBVIOUS
<1>4. squeezed \in Int
  <2>1. Spare(r, gives) \in Int
    BY <1>2, SpareType
  <2> QED
    BY <1>3, <2>1
<1>5. PICK total : total = Prefs(r, acceptors)
  OBVIOUS
<1> DEFINE gets(d) == Min({(999 * ((r[d].act * total + pref_mem(r, d) * squeezed) \div total)) \div 1000,
                           MemMax[d]})
<1>6. ASSUME NEW d \in acceptors
      PROVE  gets(d) \in Int
  <2>1. total \in Nat \ {0}
    BY <1>5, PrefsType
  <2>2. r[d].act \in Int /\ pref_mem(r, d) \in Nat \ {0}
    BY SpareType
  <2> DEFINE n == r[d].act * total + pref_mem(r, d) * squeezed
             q == n \div total
             p == (999 * q) \div 1000
  <2>3. gets(d) = Min({p, MemMax[d]})
    BY Zenon
  <2>4. n \in Int
    BY <1>4, <2>1, <2>2
  <2> HIDE DEF n
  <2>5. q \in Int
    BY <2>1, <2>4, Quotient
  <2> HIDE DEF q
  <2>6. p \in Int
    BY <2>5
  <2> HIDE DEF p, gets
  <2>7. MemMax[d] \in Int
    <3>1. d \in Doms
      BY DEF AreMeasured, Counted
    <3> QED
      BY <3>1, MemoryAssumption
  <2>8. Min({p, MemMax[d]}) \in Int
    BY <2>6, <2>7, SmallerOne
  <2> QED
    BY <2>3, <2>8, Zenon
<1> HIDE DEF gets
<1>7. PICK D : D = gives \cup (IF squeezed < 0 THEN {} ELSE acceptors)
  OBVIOUS
<1>8. PICK f : f = [d \in D |-> IF d \in gives THEN pref_mem(r, d) ELSE gets(d)]
  BY Zenon
<1>9. f \in [D -> Int]
  <2>1. \A d \in gives : pref_mem(r, d) \in Int
    BY <1>2, SpareType
  <2>2. \A d \in D : d \in gives \/ d \in acceptors
    BY <1>7
  <2> QED
    BY <1>6, <1>8, <2>1, <2>2
<1>10. balance_when_low_on_mem(r, free, donors, acceptors).to = f
  BY <1>1, <1>3, <1>5, <1>7, <1>8 DEF balance_when_low_on_mem, List, gets
<1>11. D \subseteq Counted(r)
  BY <1>2, <1>7
<1> QED
  BY <1>9, <1>10, <1>11

(* balance() names domains that are known and measured, each with a number.  *)
LEMMA BalanceTargets ==
  ASSUME NEW r, AreMeasured(r), NEW free \in Int
  PROVE  LET to == balance(r, free).to
         IN  DOMAIN to \subseteq Counted(r) /\ to \in [DOMAIN to -> Int]
<1>1. PICK D : D = Counted(r)
  OBVIOUS
<1>2. PICK donors : donors = {d \in D : needed_mem(r, d) < 0 \/ r[d].act >= MemMax[d]}
  OBVIOUS
<1>3. PICK available : available = free + Spare(r, D)
  OBVIOUS
<1>4. available \in Int
  <2>1. Spare(r, D) \in Int
    BY <1>1, SpareType
  <2> QED
    BY <1>3, <2>1
<1>5. CASE available > 0
  <2>1. balance(r, free) = balance_when_enough_mem(r, available)
    BY <1>1, <1>2, <1>3, <1>5, Zenon DEF balance
  <2>2. PICK to : to = balance_when_enough_mem(r, available).to
    OBVIOUS
  <2>3. to \in [Counted(r) -> Int]
    BY <1>4, <2>2, EnoughTargets
  <2> QED
    BY <2>1, <2>2, <2>3
<1>6. CASE ~ (available > 0)
  <2>1. balance(r, free) = balance_when_low_on_mem(r, free, donors, D \ donors)
    BY <1>1, <1>2, <1>3, <1>6, Zenon DEF balance
  <2>2. donors \in SUBSET Counted(r) /\ D \ donors \in SUBSET Counted(r)
    BY <1>1, <1>2
  <2> QED
    BY <2>1, <2>2, LowTargets
<1> QED
  BY <1>5, <1>6

(* What is rounded down is no more than it was.                              *)
LEMMA Rounded ==
  ASSUME NEW n \in Int, NEW m \in Nat \ {0}
  PROVE  n \div m \in Int /\ m * (n \div m) <= n
<1>1. PICK q : q = n \div m
  OBVIOUS
<1>2. q \in Int /\ m * q <= n
  BY <1>1
<1> QED
  BY <1>1, <1>2

(* What is rounded down from nothing less than 0 is not less than 0.         *)
LEMMA RoundedNat ==
  ASSUME NEW n \in Nat, NEW m \in Nat \ {0}
  PROVE  n \div m \in Nat
<1>1. PICK q : q = n \div m
  OBVIOUS
<1>2. q \in Int /\ n < m * q + m
  BY <1>1
<1>3. CASE q < 0
  <2>1. PICK k : k = -q - 1
    OBVIOUS
  <2>2. k \in Nat /\ q = -1 - k
    BY <1>2, <1>3, <2>1
  <2>3. m * q = -m - m * k /\ m * k \in Nat
    BY <2>2
  <2> QED
    BY <1>2, <2>3
<1> QED
  BY <1>1, <1>2, <1>3

(* A safety margin of one in a thousand takes nothing from nothing.          *)
LEMMA Margin ==
  ASSUME NEW n \in Nat
  PROVE  (999 * n) \div 1000 \in Nat /\ (999 * n) \div 1000 <= n
OBVIOUS

(* Who may get more, and what the rounds of Spread() keep to.                *)
Under(D, t) == {d \in D : t[d] < MemMax[d]}

Fits(D, s, n) ==
  /\ s.to \in [D -> Int] /\ s.left \in Nat /\ s.open \in Nat
  /\ Cardinality(Under(D, s.to)) <= s.open
  /\ Sum(s.to, D) + s.left <= n

(* A round gives out no more than what is left, and counts who may get more. *)
LEMMA RoundFits ==
  ASSUME NEW D, IsFiniteSet(D), D \subseteq Doms, NEW n \in Int, NEW s, Fits(D, s, n),
         s.left # 0, s.open # 0
  PROVE  Fits(D, Round(s), n)
<1>1. PICK t, left, open : t = s.to /\ left = s.left /\ open = s.open
  OBVIOUS
<1>2. t \in [D -> Int] /\ left \in Nat \ {0} /\ open \in Nat \ {0}
  BY <1>1 DEF Fits
<1>3. PICK bonus : bonus = (left * 999) \div (open * 1000)
  OBVIOUS
<1>4. bonus \in Nat /\ bonus * open <= left
  <2>1. PICK a, b : a = left * 999 /\ b = open * 1000
    OBVIOUS
  <2>2. a \in Nat /\ b \in Nat \ {0} /\ a \in Int
    BY <1>2, <2>1
  <2>3. bonus = a \div b
    BY <1>3, <2>1
  <2>4. bonus \in Nat /\ b * bonus <= a
    BY <2>2, <2>3, Rounded, RoundedNat
  <2>5. PICK c : c = bonus * open
    OBVIOUS
  <2>6. c \in Int /\ b * bonus = 1000 * c
    BY <1>2, <2>1, <2>4, <2>5
  <2> QED
    BY <1>2, <2>1, <2>4, <2>5, <2>6
<1>5. PICK under : under = Under(D, t)
  OBVIOUS
<1>6. PICK full : full = {d \in under : t[d] + bonus >= MemMax[d]}
  OBVIOUS
<1>7. DOMAIN t = D /\ \A d \in D : t[d] \in Int /\ MemMax[d] \in Int
  BY <1>2, MemoryAssumption
<1>8. under \subseteq D /\ full \subseteq under /\ IsFiniteSet(under) /\ IsFiniteSet(full)
  BY <1>5, <1>6, FS_Subset DEF Under
<1>9. PICK f, h : /\ f = [d \in D |-> IF d \in full THEN MemMax[d]
                                     ELSE IF d \in under THEN t[d] + bonus ELSE t[d]]
                  /\ h = [d \in full |-> t[d] + bonus - MemMax[d]]
  BY Zenon
<1>10. Round(s) = [to |-> f, left |-> Sum(h, full), open |-> open - Cardinality(full)]
  <2>1. under = {d \in DOMAIN t : t[d] < MemMax[d]}
    BY <1>5, <1>7 DEF Under
  <2> QED
    BY <1>1, <1>3, <1>6, <1>7, <1>9, <2>1 DEF Round
<1>11. f \in [D -> Int] /\ \A d \in full : h[d] \in Nat
  <2>1. \A d \in D : f[d] \in Int
    BY <1>4, <1>7, <1>9
  <2>2. f = [d \in D |-> f[d]]
    BY <1>9, Zenon
  <2>3. \A d \in full : h[d] = t[d] + bonus - MemMax[d] /\ t[d] + bonus >= MemMax[d] /\ d \in D
    BY <1>6, <1>8, <1>9
  <2> QED
    BY <1>4, <1>7, <2>1, <2>2, <2>3
<1>12. Sum(h, full) \in Nat
  <2>1. Sum(h, full) \in Int
    BY <1>8, <1>11, SumType
  <2>2. {} \in SUBSET full /\ \A x \in full : h[x] \in Int /\ 0 <= h[x]
    BY <1>11
  <2>3. Sum(h, {}) <= Sum(h, full)
    BY <1>8, <2>2, SumBound
  <2>4. Sum(h, {}) = 0
    BY SumNone
  <2> QED
    BY <2>1, <2>3, <2>4
<1>13. /\ Cardinality(full) \in Nat /\ Cardinality(under) \in Nat /\ Cardinality(under) <= open
       /\ Cardinality(full) <= Cardinality(under)
  BY <1>1, <1>5, <1>8, FS_CardinalityType, FS_Subset DEF Fits
<1>14. Cardinality(Under(D, f)) <= open - Cardinality(full)
  <2>1. Under(D, f) \subseteq under \ full
    <3>1. ASSUME NEW d \in Under(D, f)
          PROVE  d \in under \ full
      <4>1. d \in D /\ f[d] < MemMax[d]
        BY DEF Under
      <4>2. d \notin full
        BY <1>7, <1>9, <4>1
      <4>3. d \in under
        BY <1>5, <1>9, <4>1, <4>2 DEF Under
      <4> QED
        BY <4>2, <4>3
    <3> QED
      BY <3>1
  <2>2. Cardinality(under \ full) = Cardinality(under) - Cardinality(full)
    <3>1. under \cap full = full
      BY <1>8
    <3> QED
      BY <1>8, <3>1, FS_Difference
  <2>3. IsFiniteSet(under \ full)
    BY <1>8, FS_Subset
  <2>4. Cardinality(Under(D, f)) <= Cardinality(under \ full)
    BY <2>1, <2>3, FS_Subset
  <2>5. Cardinality(Under(D, f)) \in Nat
    BY <2>1, <2>3, FS_Subset, FS_CardinalityType
  <2>6. PICK a, b, c : a = Cardinality(Under(D, f)) /\ b = Cardinality(under) /\ c = Cardinality(full)
    OBVIOUS
  <2> QED
    BY <1>2, <1>13, <2>2, <2>4, <2>5, <2>6
<1>15. Sum(f, D) + Sum(h, full) <= Sum(t, D) + left
  <2>1. PICK u, e, w : /\ u = [d \in D |-> IF d \in under THEN bonus ELSE 0]
                       /\ e = [d \in D |-> IF d \in full THEN h[d] ELSE 0]
                       /\ w = [d \in D |-> t[d] + u[d]]
    BY Zenon
  <2>2. \A d \in D : u[d] \in Int /\ e[d] \in Int /\ w[d] = t[d] + u[d] /\ w[d] = f[d] + e[d]
    <3>1. ASSUME NEW d \in D
          PROVE  u[d] \in Int /\ e[d] \in Int /\ w[d] = t[d] + u[d] /\ w[d] = f[d] + e[d]
      <4>1. w[d] = t[d] + u[d] /\ t[d] \in Int /\ MemMax[d] \in Int
        BY <1>7, <2>1
      <4>2. CASE d \in full
        <5>1. u[d] = bonus /\ e[d] = t[d] + bonus - MemMax[d] /\ f[d] = MemMax[d]
          BY <1>8, <1>9, <2>1, <4>2
        <5> QED
          BY <1>4, <4>1, <5>1
      <4>3. CASE d \notin full
        <5>1. e[d] = 0
          BY <2>1, <4>3
        <5>2. CASE d \in under
          <6>1. u[d] = bonus /\ f[d] = t[d] + bonus
            BY <1>9, <2>1, <4>3, <5>2
          <6> QED
            BY <1>4, <4>1, <5>1, <6>1
        <5>3. CASE d \notin under
          <6>1. u[d] = 0 /\ f[d] = t[d]
            BY <1>9, <2>1, <4>3, <5>3
          <6> QED
            BY <4>1, <5>1, <6>1
        <5> QED
          BY <5>2, <5>3
      <4> QED
        BY <4>2, <4>3
    <3> QED
      BY <3>1
  <2>3. \A d \in D : f[d] \in Int /\ t[d] \in Int
    BY <1>7, <1>11
  <2>4. Sum(w, D) = Sum(t, D) + Sum(u, D)
    BY <2>2, <2>3, SumPlus
  <2>5. Sum(w, D) = Sum(f, D) + Sum(e, D)
    BY <2>2, <2>3, SumPlus
  <2>6. Sum(h, full) <= Sum(e, D)
    <3>1. full \in SUBSET D /\ \A d \in D : e[d] \in Int
      BY <1>8, <2>2
    <3>2. \A d \in full : h[d] \in Int /\ h[d] <= e[d]
      BY <1>8, <1>11, <2>1
    <3>3. \A d \in D \ full : 0 <= e[d]
      BY <2>1
    <3> QED
      BY <3>1, <3>2, <3>3, SumBound
  <2>7. Sum(u, D) <= Sum(u, under)
    <3>1. under \in SUBSET D
      BY <1>8
    <3>2. \A d \in under : u[d] \in Int /\ u[d] <= u[d]
      BY <2>2, <3>1
    <3>3. \A d \in D \ under : u[d] <= 0
      BY <2>1
    <3> QED
      BY <2>2, <3>1, <3>2, <3>3, SumShort
  <2>8. Sum(u, under) = bonus * Cardinality(under)
    <3>1. bonus \in Int /\ \A d \in under : u[d] = bonus
      BY <1>4, <1>8, <2>1
    <3> QED
      BY <1>8, <3>1, SumCount
  <2>9. bonus * Cardinality(under) <= left
    <3>1. PICK b, c : b = Cardinality(under) /\ c = open - b
      OBVIOUS
    <3>2. b \in Nat /\ c \in Nat /\ open = b + c
      BY <1>2, <1>13, <3>1
    <3>3. bonus * open = bonus * b + bonus * c /\ bonus * c \in Nat /\ bonus * b \in Nat
      BY <1>4, <3>2
    <3> QED
      BY <1>2, <1>4, <3>1, <3>3
  <2>10. /\ Sum(t, D) \in Int /\ Sum(f, D) \in Int /\ Sum(u, D) \in Int /\ Sum(e, D) \in Int
         /\ Sum(u, under) \in Int
    <3>1. \A d \in under : u[d] \in Int
      BY <1>8, <2>2
    <3> QED
      BY <1>8, <2>2, <2>3, <3>1, SumType
  <2>11. PICK a, b, c, k, l, m : /\ a = Sum(t, D) /\ b = Sum(f, D) /\ c = Sum(u, D)
                                 /\ k = Sum(e, D) /\ l = Sum(h, full) /\ m = bonus * Cardinality(under)
    OBVIOUS
  <2>12. a + c = b + k /\ l <= k /\ c <= m /\ m <= left
    BY <2>4, <2>5, <2>6, <2>7, <2>8, <2>9, <2>11
  <2>13. a \in Int /\ b \in Int /\ c \in Int /\ k \in Int /\ l \in Int /\ m \in Int
    BY <1>12, <2>8, <2>10, <2>11
  <2> QED
    BY <1>2, <2>11, <2>12, <2>13
<1>16. Sum(f, D) + Sum(h, full) <= n
  <2>1. Sum(t, D) + left <= n
    BY <1>1 DEF Fits
  <2>2. Sum(t, D) \in Int /\ Sum(f, D) \in Int
    BY <1>7, <1>11, SumType
  <2> QED
    BY <1>2, <1>12, <1>15, <2>1, <2>2
<1>17. open - Cardinality(full) \in Nat
  BY <1>2, <1>13
<1> QED
  BY <1>10, <1>11, <1>12, <1>14, <1>16, <1>17 DEF Fits

(* What the loop gives out, and what it keeps, is what it began with.        *)
LEMMA SpreadFits ==
  ASSUME NEW D, IsFiniteSet(D), D \subseteq Doms, NEW n \in Int, NEW to, NEW left, NEW open,
         Fits(D, [to |-> to, left |-> left, open |-> open], n)
  PROVE  Spread(to, left, open) \in [D -> Int] /\ Sum(Spread(to, left, open), D) <= n
<1>1. PICK s : s = [to |-> to, left |-> left, open |-> open]
  OBVIOUS
<1>2. open \in Nat /\ Fits(D, s, n)
  BY <1>1 DEF Fits
<1>3. PICK k : k = open + 1
  OBVIOUS
<1>4. k \in Nat
  BY <1>2, <1>3
<1>5. PICK g : g = CHOOSE f : AreRounds(s, k, f)
  OBVIOUS
<1>6. AreRounds(s, k, g)
  BY <1>4, <1>5, RoundsExist, Zenon
<1>7. Spread(to, left, open) = g[k].to
  BY <1>1, <1>3, <1>5, Zenon DEF Spread, AreRounds
<1>8. g[0] = s /\ \A j \in 1..k : g[j] = Further(g[j - 1])
  BY <1>4, <1>6, RoundAt
<1> DEFINE B == {i \in 0..k : ~ Fits(D, g[i], n)}
<1>9. ASSUME B # {}
      PROVE  FALSE
  <2>1. PICK i \in B : \A j \in B : i <= j
    <3>1. B \in SUBSET Nat
      OBVIOUS
    <3> HIDE DEF B
    <3> QED
      BY <1>9, <3>1, LeastNumber
  <2>2. i \in 0..k /\ ~ Fits(D, g[i], n)
    BY <2>1
  <2>3. i # 0
    BY <1>2, <1>8, <2>2
  <2>4. PICK t : t = g[i - 1]
    OBVIOUS
  <2>5. i \in 1..k /\ i - 1 \in 0..k /\ ~ (i <= i - 1)
    BY <1>4, <2>2, <2>3
  <2>6. Fits(D, t, n) /\ g[i] = Further(t)
    BY <1>8, <2>1, <2>4, <2>5
  <2>7. CASE t.left <= 0 \/ t.open <= 0
    BY <2>2, <2>6, <2>7, Zenon DEF Further
  <2>8. CASE ~ (t.left <= 0 \/ t.open <= 0)
    <3>1. t.left # 0 /\ t.open # 0
      BY <2>8
    <3>2. Fits(D, Round(t), n)
      BY <2>6, <3>1, RoundFits
    <3>3. g[i] = Round(t)
      BY <2>6, <2>8, Zenon DEF Further
    <3> QED
      BY <2>2, <3>2, <3>3
  <2> QED
    BY <2>7, <2>8
<1>10. Fits(D, g[k], n)
  BY <1>4, <1>9
<1>11. g[k].to \in [D -> Int] /\ Sum(g[k].to, D) <= n
  <2>1. PICK t : t = g[k]
    OBVIOUS
  <2>2. t.to \in [D -> Int] /\ t.left \in Nat /\ Sum(t.to, D) + t.left <= n
    BY <1>10, <2>1 DEF Fits
  <2>3. Sum(t.to, D) \in Int
    <3>1. \A d \in D : t.to[d] \in Int
      BY <2>2
    <3> QED
      BY <3>1, SumType
  <2> QED
    BY <2>1, <2>2, <2>3
<1> QED
  BY <1>7, <1>11

(* What domains prefer and what they can spare is what they have.            *)
LEMMA PrefsAndSpare ==
  ASSUME NEW r, AreMeasured(r), NEW D \in SUBSET Counted(r)
  PROVE  /\ Sum([d \in D |-> r[d].act], D) \in Int
         /\ Prefs(r, D) + Spare(r, D) = Sum([d \in D |-> r[d].act], D)
<1>1. IsFiniteSet(D)
  BY DomsAreFinite DEF AreMeasured, Counted
<1>2. PICK p, q, a : /\ p = [d \in D |-> pref_mem(r, d)]
                     /\ q = [d \in D |-> -needed_mem(r, d)]
                     /\ a = [d \in D |-> r[d].act]
  BY Zenon
<1>3. \A d \in D : p[d] \in Int /\ q[d] \in Int /\ a[d] \in Int /\ a[d] = p[d] + q[d]
  <2>1. ASSUME NEW d \in D
        PROVE  p[d] \in Int /\ q[d] \in Int /\ a[d] \in Int /\ a[d] = p[d] + q[d]
    <3>1. r[d].act \in Int /\ pref_mem(r, d) \in Int
      BY SpareType
    <3>2. p[d] = pref_mem(r, d) /\ q[d] = -(pref_mem(r, d) - r[d].act) /\ a[d] = r[d].act
      BY <1>2 DEF needed_mem
    <3> QED
      BY <3>1, <3>2
  <2> QED
    BY <2>1
<1>4. Sum(a, D) = Sum(p, D) + Sum(q, D) /\ Sum(a, D) \in Int
  BY <1>1, <1>3, SumPlus, SumType
<1> QED
  BY <1>2, <1>4, Zenon DEF Prefs, Spare

(* balance_when_enough_mem(): all targets together are at most what the      *)
(* domains prefer and what is available beyond that.                         *)
LEMMA EnoughFits ==
  ASSUME NEW r, AreMeasured(r), NEW available \in Nat \ {0}
  PROVE  LET to == balance_when_enough_mem(r, available).to
         IN  /\ to \in [Counted(r) -> Int]
             /\ Sum(to, Counted(r)) <= Prefs(r, Counted(r)) + available
<1>1. PICK D : D = Counted(r)
  OBVIOUS
<1>2. D \subseteq Doms /\ IsFiniteSet(D) /\ D \in SUBSET Counted(r)
  BY <1>1, DomsAreFinite DEF AreMeasured, Counted
<1>3. PICK total, n : total = Prefs(r, D) /\ n = total + available
  OBVIOUS
<1>4. total \in Int /\ n \in Int /\ (D # {} => total \in Nat \ {0})
  <2>1. total \in Int /\ (D # {} => total \in Nat \ {0})
    BY <1>2, <1>3, PrefsType
  <2> QED
    BY <1>3, <2>1
<1>5. PICK share : share = [d \in D |-> (999 * ((pref_mem(r, d) * (total + available)) \div total)) \div 1000]
  BY Zenon
<1>6. ASSUME NEW d \in D
      PROVE  share[d] \in Nat /\ pref_mem(r, d) \in Nat /\ total * share[d] <= pref_mem(r, d) * n
  <2>1. total \in Nat \ {0} /\ n \in Nat
    BY <1>3, <1>4
  <2>2. PICK p, k : p = pref_mem(r, d) /\ k = p * n
    OBVIOUS
  <2>3. p \in Nat /\ k \in Nat /\ k \in Int
    <3>1. p \in Nat \ {0}
      BY <1>2, <2>2, SpareType
    <3> QED
      BY <2>1, <2>2, <3>1
  <2>4. PICK q : q = k \div total
    OBVIOUS
  <2>5. q \in Nat /\ total * q <= k
    BY <2>1, <2>3, <2>4, Rounded, RoundedNat
  <2>6. share[d] = (999 * q) \div 1000
    BY <1>3, <1>5, <2>2, <2>4
  <2>7. share[d] \in Nat /\ share[d] <= q
    BY <2>5, <2>6, Margin
  <2>8. total * share[d] <= total * q
    <3>1. PICK a, b : a = share[d] /\ b = q - a
      OBVIOUS
    <3>2. a \in Nat /\ b \in Nat /\ q = a + b
      BY <2>5, <2>7, <3>1
    <3>3. total * q = total * a + total * b /\ total * b \in Nat /\ total * a \in Nat
      BY <2>1, <3>2
    <3> QED
      BY <3>1, <3>3
  <2>9. total * share[d] \in Int /\ total * q \in Int
    BY <2>1, <2>5, <2>7
  <2> QED
    BY <2>2, <2>3, <2>5, <2>7, <2>8, <2>9
<1>7. PICK over, h : over = {d \in D : share[d] > MemMax[d]} /\ h = [d \in over |-> share[d] - MemMax[d]]
  BY Zenon
<1>8. \A d \in D : MemMax[d] \in Int
  BY <1>2, MemoryAssumption
<1>9. over \in SUBSET D /\ IsFiniteSet(over) /\ IsFiniteSet(D \ over) /\ \A d \in over : h[d] \in Nat
  <2>1. over \in SUBSET D
    BY <1>7
  <2>2. \A d \in over : h[d] \in Nat
    BY <1>6, <1>7, <1>8
  <2> QED
    BY <1>2, <2>1, <2>2, FS_Subset
<1>10. PICK left, open : left = Sum(h, over) /\ open = Cardinality(D \ over)
  OBVIOUS
<1>11. left \in Nat /\ open \in Nat
  <2>1. Sum(h, over) \in Int
    BY <1>9, SumType
  <2>2. {} \in SUBSET over /\ \A x \in over : h[x] \in Int /\ 0 <= h[x]
    BY <1>9
  <2>3. Sum(h, {}) <= Sum(h, over)
    BY <1>9, <2>2, SumBound
  <2>4. Sum(h, {}) = 0
    BY SumNone
  <2>5. Cardinality(D \ over) \in Nat
    BY <1>9, FS_CardinalityType
  <2> QED
    BY <1>10, <2>1, <2>3, <2>4, <2>5
<1>12. PICK f : f = [d \in D |-> Min({share[d], MemMax[d]})]
  BY Zenon
<1>13. ASSUME NEW d \in D
       PROVE  f[d] \in Int /\ (d \in over => f[d] = MemMax[d]) /\ (d \notin over => f[d] = share[d])
  <2>1. PICK a, b : a = share[d] /\ b = MemMax[d]
    OBVIOUS
  <2>2. a \in Int /\ b \in Int
    BY <1>6, <1>8, <2>1
  <2>3. Min({a, b}) \in {a, b} /\ Min({a, b}) <= a /\ Min({a, b}) <= b /\ Min({a, b}) \in Int
    BY <2>2, SmallerOne
  <2>4. f[d] = Min({a, b}) /\ (d \in over <=> a > b)
    BY <1>7, <1>12, <2>1
  <2>5. PICK m : m = Min({a, b})
    OBVIOUS
  <2>6. m \in {a, b} /\ m <= a /\ m <= b /\ m \in Int
    BY <2>3, <2>5
  <2> QED
    BY <2>1, <2>2, <2>4, <2>5, <2>6
<1>14. Sum(f, D) + left <= n
  <2>1. PICK e : e = [d \in D |-> IF d \in over THEN h[d] ELSE 0]
    BY Zenon
  <2>2. \A d \in D : f[d] \in Int /\ e[d] \in Int /\ share[d] = f[d] + e[d]
    <3>1. ASSUME NEW d \in D
          PROVE  f[d] \in Int /\ e[d] \in Int /\ share[d] = f[d] + e[d]
      <4>1. CASE d \in over
        BY <1>6, <1>7, <1>8, <1>13, <2>1, <4>1
      <4>2. CASE d \notin over
        BY <1>6, <1>13, <2>1, <4>2
      <4> QED
        BY <4>1, <4>2
    <3> QED
      BY <3>1
  <2>3. Sum(share, D) = Sum(f, D) + Sum(e, D)
    BY <1>2, <2>2, SumPlus
  <2>4. Sum(h, over) <= Sum(e, D)
    <3>1. \A d \in over : h[d] \in Int /\ h[d] <= e[d]
      BY <1>9, <2>1
    <3>2. \A d \in D \ over : 0 <= e[d]
      BY <2>1
    <3> QED
      BY <1>2, <1>9, <2>2, <3>1, <3>2, SumBound
  <2>5. Sum(share, D) <= n
    <3>1. CASE D = {}
      <4>1. Sum(share, D) = 0 /\ Prefs(r, D) = 0
        BY <3>1, SumNone DEF Prefs
      <4> QED
        BY <1>3, <4>1
    <3>2. CASE D # {}
      <4>1. PICK p : p = [d \in D |-> pref_mem(r, d)]
        BY Zenon
      <4>2. Sum(p, D) = total
        BY <1>3, <4>1, Zenon DEF Prefs
      <4>3. \A d \in D : p[d] \in Int /\ share[d] \in Int /\ total * share[d] <= p[d] * n
        BY <1>6, <4>1
      <4> QED
        BY <1>2, <1>4, <3>2, <4>2, <4>3, SharesFit
    <3> QED
      BY <3>1, <3>2
  <2>6. Sum(f, D) \in Int /\ Sum(e, D) \in Int /\ Sum(share, D) \in Int
    <3>1. Sum(f, D) \in Int /\ Sum(e, D) \in Int
      BY <1>2, <2>2, SumType
    <3> QED
      BY <2>3, <3>1
  <2> QED
    BY <1>4, <1>10, <1>11, <2>3, <2>4, <2>5, <2>6
<1>15. f \in [D -> Int]
  <2>1. \A d \in D : f[d] \in Int
    BY <1>13
  <2>2. f = [d \in D |-> f[d]]
    BY <1>12, Zenon
  <2> QED
    BY <2>1, <2>2
<1>16. Cardinality(Under(D, f)) <= open
  <2>1. Under(D, f) \subseteq D \ over
    <3>1. \A d \in Under(D, f) : d \in D /\ f[d] < MemMax[d]
      BY DEF Under
    <3>2. \A d \in Under(D, f) : d \notin over
      BY <1>8, <1>13, <3>1
    <3> QED
      BY <3>1, <3>2
  <2> QED
    BY <1>9, <1>10, <2>1, FS_Subset
<1>17. PICK s : s = [to |-> f, left |-> left, open |-> open]
  OBVIOUS
<1>18. Fits(D, s, n)
  BY <1>11, <1>14, <1>15, <1>16, <1>17 DEF Fits
<1>19. Spread(f, left, open) \in [D -> Int] /\ Sum(Spread(f, left, open), D) <= n
  BY <1>2, <1>4, <1>17, <1>18, SpreadFits
<1>20. balance_when_enough_mem(r, available).to = Spread(f, left, open)
  BY <1>1, <1>3, <1>5, <1>7, <1>10, <1>12 DEF balance_when_enough_mem, List
<1> QED
  BY <1>1, <1>3, <1>19, <1>20

(* balance_when_low_on_mem() only lowers, or adds no more than is free.      *)
LEMMA LowFits ==
  ASSUME NEW r, AreMeasured(r), NEW free \in Int,
         NEW donors \in SUBSET Counted(r), NEW acceptors \in SUBSET Counted(r),
         donors \cap acceptors = {}
  PROVE  LET to == balance_when_low_on_mem(r, free, donors, acceptors).to
         IN  \/ \A d \in DOMAIN to : to[d] <= r[d].act
             \/ Sum([d \in DOMAIN to |-> to[d] - r[d].act], DOMAIN to) <= free
<1>1. PICK gives : gives = {d \in donors : -needed_mem(r, d) >= 10}
  OBVIOUS
<1>2. gives \in SUBSET Counted(r) /\ gives \cap acceptors = {}
  BY <1>1
<1>3. PICK spare, squeezed, total : /\ spare = Spare(r, gives) /\ squeezed = free - spare
                                    /\ total = Prefs(r, acceptors)
  OBVIOUS
<1>4. PICK D : D = gives \cup (IF squeezed < 0 THEN {} ELSE acceptors)
  OBVIOUS
<1> DEFINE share(d) == (999 * ((r[d].act * total + pref_mem(r, d) * squeezed) \div total)) \div 1000
           gets(d) == Min({share(d), MemMax[d]})
<1>5. PICK f : f = [d \in D |-> IF d \in gives THEN pref_mem(r, d) ELSE gets(d)]
  BY Zenon
<1>6. balance_when_low_on_mem(r, free, donors, acceptors).to = f
  BY <1>1, <1>3, <1>4, <1>5 DEF balance_when_low_on_mem, List, gets, share
<1>7. D \in SUBSET Counted(r) /\ D \subseteq gives \cup acceptors
  BY <1>2, <1>4
<1>8. ASSUME NEW d \in gives
      PROVE  pref_mem(r, d) \in Int /\ r[d].act \in Int /\ pref_mem(r, d) <= r[d].act
  <2>1. pref_mem(r, d) \in Int /\ r[d].act \in Int
    <3>1. pref_mem(r, d) \in Nat \ {0} /\ r[d].act \in Int
      BY <1>2, SpareType
    <3> QED
      BY <3>1
  <2>2. -(pref_mem(r, d) - r[d].act) >= 10
    BY <1>1 DEF needed_mem
  <2> QED
    BY <2>1, <2>2
<1>9. CASE squeezed < 0 \/ acceptors = {}
  <2>1. D = gives
    BY <1>4, <1>9
  <2>2. \A d \in D : f[d] = pref_mem(r, d)
    BY <1>5, <2>1
  <2>3. DOMAIN f = D
    BY <1>5
  <2> QED
    BY <1>6, <1>8, <2>1, <2>2, <2>3
<1>10. CASE ~ (squeezed < 0) /\ acceptors # {}
  <2>1. total \in Nat \ {0} /\ spare \in Int /\ squeezed \in Nat
    <3>1. total \in Nat \ {0}
      BY <1>3, <1>10, PrefsType
    <3>2. spare \in Int
      BY <1>2, <1>3, SpareType
    <3> QED
      BY <1>3, <1>10, <3>1, <3>2
  <2>2. 0 <= spare
    <3>1. PICK q : q = [d \in gives |-> -needed_mem(r, d)]
      BY Zenon
    <3>2. \A d \in gives : q[d] \in Int /\ 0 <= q[d]
      <4>1. \A d \in gives : needed_mem(r, d) \in Int /\ -needed_mem(r, d) >= 10
        BY <1>1, <1>2, SpareType
      <4> QED
        BY <3>1, <4>1
    <3>3. IsFiniteSet(gives) /\ {} \in SUBSET gives
      BY <1>2, DomsAreFinite DEF AreMeasured, Counted
    <3>4. Sum(q, {}) <= Sum(q, gives)
      BY <3>2, <3>3, SumBound
    <3>5. Sum(q, {}) = 0 /\ spare = Sum(q, gives)
      BY <1>3, <3>1, SumNone, Zenon DEF Spare
    <3> QED
      BY <3>4, <3>5
  <2>3. PICK more : more = [d \in D |-> f[d] - r[d].act]
    BY Zenon
  <2>4. ASSUME NEW d \in acceptors
        PROVE  /\ d \in D /\ more[d] \in Int /\ pref_mem(r, d) \in Int
               /\ total * more[d] <= pref_mem(r, d) * squeezed
    <3>1. d \in D /\ d \notin gives
      BY <1>2, <1>4, <1>10
    <3>2. PICK a, p : a = r[d].act /\ p = pref_mem(r, d)
      OBVIOUS
    <3>3. a \in Nat /\ p \in Nat /\ MemMax[d] \in Int
      <4>1. p \in Nat \ {0} /\ a \in Int
        BY <3>2, SpareType
      <4>2. d \in Doms /\ r[d] \in States /\ r[d].act # None
        BY DEF AreMeasured, Counted
      <4>3. r[d].act \in Nat
        BY <4>2, Zenon DEF States
      <4> QED
        BY <3>2, <4>1, <4>2, <4>3, MemoryAssumption
    <3>4. PICK k, l : k = a * total /\ l = p * squeezed
      OBVIOUS
    <3>5. k \in Nat /\ l \in Nat /\ k + l \in Nat /\ k + l \in Int
      BY <2>1, <3>3, <3>4
    <3>6. PICK q, m : q = (k + l) \div total /\ m = (999 * q) \div 1000
      OBVIOUS
    <3>7. q \in Nat /\ total * q <= k + l
      BY <2>1, <3>5, <3>6, Rounded, RoundedNat
    <3>8. m \in Nat /\ m <= q
      BY <3>6, <3>7, Margin
    <3>9. gets(d) \in Int /\ gets(d) <= m
      <4>1. m = share(d)
        <5>1. q = (r[d].act * total + pref_mem(r, d) * squeezed) \div total
          BY <3>2, <3>4, <3>6, Zenon
        <5> QED
          BY <3>6, <5>1
      <4>2. m \in Int
        BY <3>8
      <4> HIDE DEF share
      <4>3. Min({share(d), MemMax[d]}) \in Int /\ Min({share(d), MemMax[d]}) <= share(d)
        BY <3>3, <4>1, <4>2, SmallerOne
      <4> QED
        BY <4>1, <4>3
    <3> HIDE DEF gets, share
    <3>10. PICK x : x = gets(d)
      OBVIOUS
    <3>11. more[d] = x - a /\ x \in Int /\ x <= q
      <4>1. f[d] = x
        BY <1>5, <3>1, <3>10
      <4>2. more[d] = f[d] - r[d].act
        BY <2>3, <3>1
      <4> QED
        BY <3>2, <3>7, <3>8, <3>9, <3>10, <4>1, <4>2
    <3>12. total * (x - a) <= l
      <4>1. PICK b : b = q - x
        OBVIOUS
      <4>2. b \in Nat /\ q = x + b
        BY <3>7, <3>11, <4>1
      <4>3. total * q = total * x + total * b /\ total * b \in Nat /\ total * x \in Int
        BY <2>1, <3>11, <4>2
      <4>4. total * (x - a) = total * x - k
        BY <2>1, <3>3, <3>4, <3>11
      <4> QED
        BY <3>5, <3>7, <4>3, <4>4
    <3> QED
      BY <3>1, <3>2, <3>3, <3>4, <3>11, <3>12
  <2> HIDE DEF gets, share
  <2>5. Sum(more, acceptors) <= squeezed
    <3>1. PICK p : p = [d \in acceptors |-> pref_mem(r, d)]
      BY Zenon
    <3>2. Sum(p, acceptors) = total
      BY <1>3, <3>1, Zenon DEF Prefs
    <3>3. \A d \in acceptors : p[d] \in Int /\ more[d] \in Int /\ total * more[d] <= p[d] * squeezed
      BY <2>4, <3>1
    <3>4. IsFiniteSet(acceptors) /\ squeezed \in Int
      BY <2>1, DomsAreFinite DEF AreMeasured, Counted
    <3> QED
      BY <2>1, <3>2, <3>3, <3>4, SharesFit
  <2>6. ASSUME NEW d \in D \ acceptors
        PROVE  more[d] \in Int /\ more[d] <= 0
    <3>1. d \in gives
      BY <1>7
    <3>2. f[d] = pref_mem(r, d) /\ more[d] = f[d] - r[d].act
      BY <1>5, <2>3, <3>1
    <3> QED
      BY <1>8, <3>1, <3>2
  <2>7. \A d \in D : more[d] \in Int
    BY <2>4, <2>6
  <2>8. acceptors \in SUBSET D /\ IsFiniteSet(D)
    BY <1>7, <2>4, DomsAreFinite DEF AreMeasured, Counted
  <2>9. Sum(more, D) <= Sum(more, acceptors)
    <3>1. \A d \in acceptors : more[d] \in Int /\ more[d] <= more[d]
      BY <2>4
    <3> QED
      BY <2>6, <2>7, <2>8, <3>1, SumShort
  <2>10. Sum(more, D) \in Int /\ Sum(more, acceptors) \in Int
    <3>1. IsFiniteSet(acceptors)
      BY <2>8, FS_Subset
    <3> QED
      BY <2>4, <2>7, <2>8, <3>1, SumType
  <2>11. Sum(more, D) <= free
    BY <1>3, <2>1, <2>2, <2>5, <2>9, <2>10
  <2>12. DOMAIN f = D
    BY <1>5
  <2> QED
    BY <1>6, <2>3, <2>11, <2>12
<1> QED
  BY <1>9, <1>10

(* balance() only lowers, or adds no more than is free.                      *)
LEMMA BalanceFits ==
  ASSUME NEW r, AreMeasured(r), NEW free \in Int
  PROVE  LET to == balance(r, free).to
         IN  \/ \A d \in DOMAIN to : to[d] <= r[d].act
             \/ Sum([d \in DOMAIN to |-> to[d] - r[d].act], DOMAIN to) <= free
<1>1. PICK D : D = Counted(r)
  OBVIOUS
<1>2. PICK donors : donors = {d \in D : needed_mem(r, d) < 0 \/ r[d].act >= MemMax[d]}
  OBVIOUS
<1>3. PICK available : available = free + Spare(r, D)
  OBVIOUS
<1>4. D \in SUBSET Counted(r) /\ IsFiniteSet(D)
  BY <1>1, DomsAreFinite DEF AreMeasured, Counted
<1>5. Spare(r, D) \in Int /\ Prefs(r, D) \in Int /\ \A d \in D : r[d].act \in Int
  BY <1>4, SpareType, PrefsType
<1>6. CASE available > 0
  <2>1. balance(r, free) = balance_when_enough_mem(r, available)
    BY <1>1, <1>2, <1>3, <1>6, Zenon DEF balance
  <2>2. PICK to : to = balance_when_enough_mem(r, available).to
    OBVIOUS
  <2>3. to \in [D -> Int] /\ Sum(to, D) <= Prefs(r, D) + available
    <3>1. available \in Nat \ {0}
      BY <1>3, <1>5, <1>6
    <3> QED
      BY <1>1, <2>2, <3>1, EnoughFits
  <2>4. PICK a, more : a = [d \in D |-> r[d].act] /\ more = [d \in D |-> to[d] - r[d].act]
    BY Zenon
  <2>5. \A d \in D : a[d] \in Int /\ more[d] \in Int /\ to[d] = more[d] + a[d]
    BY <1>5, <2>3, <2>4
  <2>6. Sum(to, D) = Sum(more, D) + Sum(a, D)
    BY <1>4, <2>5, SumPlus
  <2>7. Sum(a, D) = Prefs(r, D) + Spare(r, D)
    BY <1>4, <2>4, PrefsAndSpare
  <2>8. Sum(a, D) \in Int /\ Sum(more, D) \in Int
    BY <1>4, <2>5, SumType
  <2>9. Sum(more, D) <= free
    BY <1>3, <1>5, <2>3, <2>6, <2>7, <2>8
  <2>10. DOMAIN to = D
    BY <2>3
  <2> QED
    BY <2>1, <2>2, <2>4, <2>9, <2>10
<1>7. CASE ~ (available > 0)
  <2>1. balance(r, free) = balance_when_low_on_mem(r, free, donors, D \ donors)
    BY <1>1, <1>2, <1>3, <1>7, Zenon DEF balance
  <2>2. donors \in SUBSET Counted(r) /\ D \ donors \in SUBSET Counted(r) /\ donors \cap (D \ donors) = {}
    BY <1>1, <1>2
  <2> QED
    BY <2>1, <2>2, LowFits
<1> QED
  BY <1>6, <1>7

(* balloon() asks its donors, if any, for what is missing at least.          *)
LEMMA BalloonReaches ==
  ASSUME NEW r, AreMeasured(r), NEW size \in Int, size > 0, balloon(r, size) # NoTargets
  PROVE  LET to == balloon(r, size)
         IN  Sum([d \in DOMAIN to |-> r[d].act - to[d]], DOMAIN to) >= size
<1>1. PICK D : D = {d \in Counted(r) : needed_mem(r, d) < 0}
  OBVIOUS
<1>2. D \in SUBSET Counted(r) /\ IsFiniteSet(D)
  BY <1>1, DomsAreFinite DEF AreMeasured, Counted
<1>3. PICK avail : avail = Spare(r, D)
  OBVIOUS
<1>4. /\ avail \in Int
      /\ \A d \in D : r[d].act \in Int /\ needed_mem(r, d) \in Int /\ needed_mem(r, d) < 0
  BY <1>1, <1>2, <1>3, SpareType
<1>5. ~ (avail < size)
  BY <1>1, <1>3, Zenon DEF balloon
<1>6. PICK f : f = [d \in D |-> (r[d].act * 100 * avail + needed_mem(r, d) * size * 105) \div (100 * avail)]
  BY Zenon
<1>7. balloon(r, size) = f /\ DOMAIN f = D
  <2>1. balloon(r, size) = f
    BY <1>1, <1>3, <1>5, <1>6, Zenon DEF balloon
  <2> QED
    BY <1>6, <2>1
<1>8. PICK less, more, p : /\ less = [d \in D |-> r[d].act - f[d]]
                           /\ more = [d \in D |-> f[d] - r[d].act]
                           /\ p = [d \in D |-> -needed_mem(r, d)]
  BY Zenon
<1>9. PICK n : n = -size
  OBVIOUS
<1>10. avail \in Nat \ {0} /\ n \in Int
  BY <1>4, <1>5, <1>9
<1>11. ASSUME NEW d \in D
       PROVE  /\ more[d] \in Int /\ p[d] \in Int /\ less[d] = -1 * more[d]
              /\ avail * more[d] <= p[d] * n
  <2>1. PICK a, s, m : a = r[d].act /\ s = p[d] /\ m = 100 * avail
    OBVIOUS
  <2>2. a \in Int /\ s \in Nat /\ m \in Nat \ {0} /\ needed_mem(r, d) = -s
    BY <1>4, <1>8, <1>10, <2>1
  <2>3. PICK k : k = s * size
    OBVIOUS
  <2>4. k \in Nat
    BY <2>2, <2>3
  <2>5. PICK y : y = a * m - 105 * k
    OBVIOUS
  <2>6. r[d].act * 100 * avail + needed_mem(r, d) * size * 105 = y
    <3>1. r[d].act * 100 * avail = a * m
      BY <1>10, <2>1, <2>2
    <3>2. needed_mem(r, d) * size * 105 = -(105 * k)
      BY <2>2, <2>3
    <3> QED
      BY <2>2, <2>4, <2>5, <3>1, <3>2
  <2>7. PICK q : q = y \div m
    OBVIOUS
  <2>8. f[d] = q
    BY <1>6, <2>1, <2>6, <2>7
  <2>9. y \in Int
    BY <2>2, <2>4, <2>5
  <2>10. q \in Int /\ m * q <= y
    BY <2>2, <2>7, <2>9, Rounded
  <2>11. more[d] = q - a /\ less[d] = a - q
    BY <1>8, <2>1, <2>8
  <2>12. avail * (q - a) <= -k
    <3>1. PICK x : x = avail * (q - a)
      OBVIOUS
    <3>2. x \in Int /\ 100 * x = m * q - a * m
      BY <1>10, <2>1, <2>2, <2>10, <3>1
    <3>3. 100 * x <= -(105 * k)
      <4>1. PICK b, c : b = a * m /\ c = m * q
        OBVIOUS
      <4>2. b \in Int /\ c \in Int /\ 100 * x = c - b /\ c <= b - 105 * k
        BY <2>2, <2>5, <2>10, <3>2, <4>1
      <4> QED
        BY <2>4, <3>2, <4>2
    <3> QED
      BY <2>4, <3>1, <3>2, <3>3
  <2>13. p[d] * n = -k
    BY <1>9, <2>1, <2>2, <2>3
  <2> QED
    BY <2>1, <2>2, <2>10, <2>11, <2>12, <2>13
<1>12. Sum(p, D) = avail
  BY <1>3, <1>8, Zenon DEF Spare
<1>13. Sum(more, D) <= n
  <2>1. \A d \in D : p[d] \in Int /\ more[d] \in Int /\ avail * more[d] <= p[d] * n
    BY <1>11
  <2> QED
    BY <1>2, <1>10, <1>12, <2>1, SharesFit
<1>14. Sum(less, D) = -1 * Sum(more, D) /\ Sum(more, D) \in Int
  <2>1. PICK k : k = -1
    OBVIOUS
  <2>2. k \in Int /\ \A d \in D : more[d] \in Int /\ less[d] = k * more[d]
    BY <1>11, <2>1
  <2>3. Sum(less, D) = k * Sum(more, D)
    BY <1>2, <2>2, SumScale, Zenon
  <2> QED
    BY <1>2, <2>1, <2>2, <2>3, SumType
<1>15. Sum(less, D) >= size
  BY <1>9, <1>13, <1>14
<1> QED
  BY <1>7, <1>8, <1>15

(* What the states say after refresh_mem_actual() of the domains in D.       *)
Renewed(r, D) ==
  /\ r \in [Doms -> States]
  /\ \A d \in Doms : r[d].last = dom[d].last /\ r[d].used = dom[d].used
  /\ \A d \in Doms : d \in known \cap alive \cap D =>
       (r[d].cur = current[d] /\ r[d].act = Max({current[d], r[d].last}))
  /\ \A d \in Doms : dom[d].act # None => r[d].act # None

(* A state with a field replaced.                                            *)
LEMMA StateChange ==
  ASSUME NEW s \in States
  PROVE  /\ \A x \in Int : [s EXCEPT !.cur = x] \in States /\ [s EXCEPT !.last = x] \in States
         /\ \A x \in Nat \cup {None} : [s EXCEPT !.act = x] \in States
         /\ \A x \in Nat \cup {None} : [s EXCEPT !.used = x] \in States
         /\ \A x \in BOOLEAN : [s EXCEPT !.no_progress = x] \in States
<1>1. ASSUME NEW x \in Int
      PROVE  [s EXCEPT !.cur = x] \in States /\ [s EXCEPT !.last = x] \in States
  BY Zenon DEF States
<1>2. ASSUME NEW x \in Nat \cup {None}
      PROVE  [s EXCEPT !.act = x] \in States
  BY Zenon DEF States
<1>3. ASSUME NEW x \in Nat \cup {None}
      PROVE  [s EXCEPT !.used = x] \in States
  BY Zenon DEF States
<1>4. ASSUME NEW x \in BOOLEAN
      PROVE  [s EXCEPT !.no_progress = x] \in States
  BY Zenon DEF States
<1> QED
  BY <1>1, <1>2, <1>3, <1>4

(* The fields of a DomainState.                                              *)
LEMMA StateFields ==
  ASSUME NEW s \in States
  PROVE  /\ s.cur \in Int /\ s.act \in Nat \cup {None} /\ s.last \in Int
         /\ s.used \in Nat \cup {None} /\ s.no_progress \in BOOLEAN
BY Zenon DEF States

(* Refreshed states: those of domains that are there say what Xen says.       *)
LEMMA Refreshed ==
  ASSUME MemoryTypeOK, NEW s \in [Doms -> States], NEW D, NEW r, r = refresh_mem_actual(s, D)
  PROVE  /\ r \in [Doms -> States]
         /\ \A d \in Doms : /\ r[d].last = s[d].last /\ r[d].used = s[d].used
                            /\ s[d].act # None => r[d].act # None
                            /\ d \in known \cap alive \cap D =>
                                 (r[d].cur = current[d] /\ r[d].act = Max({current[d], r[d].last}))
<1>1. None \notin Int
  BY MemoryAssumption
<1>2. ASSUME NEW d \in Doms, d \in known \cap alive \cap D
      PROVE  /\ r[d] \in States /\ r[d].last = s[d].last /\ r[d].used = s[d].used
             /\ r[d].cur = current[d] /\ r[d].act = Max({current[d], r[d].last})
             /\ r[d].act # None
  <2>1. PICK u : u = s[d]
    OBVIOUS
  <2>2. u \in States /\ current[d] \in Nat
    BY <1>2, <2>1 DEF MemoryTypeOK
  <2>3. PICK c, a : c = current[d] /\ a = Max({current[d], u.last})
    OBVIOUS
  <2>4. a \in Nat
    <3>1. c \in Nat /\ c \in Int /\ u.last \in Int
      BY <2>2, <2>3, StateFields
    <3>2. a \in Int /\ c <= a
      BY <2>3, <3>1, LargerOne
    <3> QED
      BY <3>1, <3>2
  <2>5. PICK v : v = [u EXCEPT !.cur = c, !.act = a]
    OBVIOUS
  <2>6. r[d] = v
    BY <1>2, <2>1, <2>3, <2>5, Zenon DEF refresh_mem_actual
  <2>7. v.last = u.last /\ v.used = u.used /\ v.cur = c /\ v.act = a
    BY <2>2, <2>5 DEF States
  <2>8. v \in States
    <3>1. v = [cur |-> c, act |-> a, last |-> u.last, used |-> u.used, no_progress |-> u.no_progress]
      BY <2>2, <2>5 DEF States
    <3>2. c \in Int /\ a \in Nat \cup {None}
      BY <2>2, <2>3, <2>4
    <3> QED
      BY <2>2, <3>1, <3>2, StateFields, Zenon DEF States
  <2> QED
    BY <1>1, <2>1, <2>3, <2>4, <2>6, <2>7, <2>8
<1>3. ASSUME NEW d \in Doms, d \notin known \cap alive \cap D
      PROVE  r[d] = s[d] /\ r[d] \in States
  <2>1. r[d] = s[d]
    BY <1>3, Zenon DEF refresh_mem_actual
  <2> QED
    BY <2>1
<1>4. r \in [Doms -> States]
  <2>1. \A d \in Doms : r[d] \in States
    BY <1>2, <1>3
  <2>2. r = [d \in Doms |-> r[d]]
    BY Zenon DEF refresh_mem_actual
  <2> QED
    BY <2>1, <2>2, Zenon
<1> QED
  BY <1>2, <1>3, <1>4

(* A refresh does not change the last targets.                               *)
LEMMA RefreshKeepsLast ==
  ASSUME MemoryTypeOK, NEW s \in [Doms -> States], NEW D
  PROVE  /\ refresh_mem_actual(s, D) \in [Doms -> States]
         /\ \A d \in Doms : refresh_mem_actual(s, D)[d].last = s[d].last
<1>1. PICK r : r = refresh_mem_actual(s, D)
  OBVIOUS
<1>2. /\ r \in [Doms -> States]
      /\ \A d \in Doms : /\ r[d].last = s[d].last /\ r[d].used = s[d].used
                         /\ s[d].act # None => r[d].act # None
                         /\ d \in known \cap alive \cap D =>
                              (r[d].cur = current[d] /\ r[d].act = Max({current[d], r[d].last}))
  BY <1>1, Refreshed
<1> QED
  BY <1>1, <1>2

(* After a refresh the states say what Xen says.                             *)
LEMMA RefreshIsFresh ==
  ASSUME MemoryTypeOK, NEW D
  PROVE  Renewed(refresh_mem_actual(dom, D), D)
<1>1. dom \in [Doms -> States]
  BY DEF MemoryTypeOK
<1>2. ASSUME NEW s \in [Doms -> States], s = dom
      PROVE  Renewed(refresh_mem_actual(s, D), D)
  <2>1. PICK r : r = refresh_mem_actual(s, D)
    OBVIOUS
  <2>2. /\ r \in [Doms -> States]
        /\ \A d \in Doms : /\ r[d].last = s[d].last /\ r[d].used = s[d].used
                           /\ s[d].act # None => r[d].act # None
                           /\ d \in known \cap alive \cap D =>
                                (r[d].cur = current[d] /\ r[d].act = Max({current[d], r[d].last}))
    BY <2>1, Refreshed
  <2> QED
    BY <1>2, <2>1, <2>2 DEF Renewed
<1> QED
  BY <1>1, <1>2, Zenon

(* What a domain may still claim.                                            *)
Above(t, x) == Max({0, t[x] - current[x]})
Upto(t) == Sum([x \in alive |-> Above(t, x)], alive)

(* What a domain may still claim up to a target.                             *)
LEMMA AboveType ==
  ASSUME NEW t, NEW x, t[x] \in Int, current[x] \in Int
  PROVE  /\ Above(t, x) \in Int /\ 0 <= Above(t, x) /\ t[x] - current[x] <= Above(t, x)
         /\ Above(t, x) \in {0, t[x] - current[x]}
<1>1. PICK c : c = t[x] - current[x]
  OBVIOUS
<1>2. c \in Int /\ 0 \in Int
  BY <1>1
<1> QED
  BY <1>1, <1>2, LargerOne DEF Above

(* The claims are those up to the targets that Xen has.                      *)
LEMMA ClaimsAre == Claims = Upto(target)
BY DEF Claims, Upto, Claim, Above

(* Xen's own numbers of its domains.                                         *)
LEMMA AliveTypes ==
  ASSUME MemoryTypeOK
  PROVE  /\ IsFiniteSet(alive) /\ IsFiniteSet(known) /\ alive \subseteq Doms /\ known \subseteq Doms
         /\ Sum(current, alive) \in Int /\ Free \in Int /\ Total \in Int
         /\ \A d \in alive : current[d] \in Nat /\ target[d] \in Int /\ store[d] \in Int
<1>1. alive \subseteq Doms /\ known \subseteq Doms
  BY DEF MemoryTypeOK
<1>2. IsFiniteSet(alive) /\ IsFiniteSet(known)
  BY <1>1, DomsAreFinite
<1>3. \A d \in alive : current[d] \in Nat /\ target[d] \in Int /\ store[d] \in Int
  BY <1>1 DEF MemoryTypeOK
<1>4. \A d \in alive : current[d] \in Int
  BY <1>3
<1>5. Sum(current, alive) \in Int
  BY <1>2, <1>4, SumType
<1>6. Total \in Int
  BY MemoryAssumption
<1> QED
  BY <1>1, <1>2, <1>3, <1>5, <1>6 DEF Free

(* The claims up to given targets are a number.                              *)
LEMMA UptoType ==
  ASSUME MemoryTypeOK, NEW t, \A x \in alive : t[x] \in Int
  PROVE  Upto(t) \in Int /\ \A x \in alive : Above(t, x) \in Int
<1>1. PICK f : f = [x \in alive |-> Above(t, x)]
  BY Zenon
<1>2. \A x \in alive : current[x] \in Int
  BY AliveTypes
<1>3. \A x \in alive : Above(t, x) \in Int
  BY <1>2, AboveType
<1>4. \A x \in alive : f[x] \in Int
  BY <1>1, <1>3
<1>5. Upto(t) = Sum(f, alive)
  BY <1>1, Zenon DEF Upto
<1> QED
  BY <1>3, <1>4, <1>5, AliveTypes, SumType

(* Targets that are not above what was to be claimed anyway.                 *)
LEMMA UptoLess ==
  ASSUME MemoryTypeOK, NEW t, \A x \in alive : t[x] \in Int,
         \A x \in alive : Above(t, x) <= Above(target, x)
  PROVE  Upto(t) <= Claims
<1>1. PICK f : f = [x \in alive |-> Above(t, x)]
  BY Zenon
<1>2. PICK h : h = [x \in alive |-> Above(target, x)]
  BY Zenon
<1>3. \A x \in alive : target[x] \in Int
  BY AliveTypes
<1>4. \A x \in alive : f[x] \in Int /\ h[x] \in Int /\ f[x] <= h[x]
  <2>1. \A x \in alive : Above(t, x) \in Int
    BY UptoType
  <2>2. \A x \in alive : Above(target, x) \in Int
    BY <1>3, UptoType
  <2> QED
    BY <1>1, <1>2, <2>1, <2>2
<1>5. Sum(f, alive) <= Sum(h, alive)
  <2>1. alive \in SUBSET alive /\ IsFiniteSet(alive) /\ \A x \in alive \ alive : 0 <= h[x]
    BY AliveTypes
  <2> QED
    BY <1>4, <2>1, SumBound
<1>6. Upto(t) = Sum(f, alive) /\ Upto(target) = Sum(h, alive)
  BY <1>1, <1>2, Zenon DEF Upto
<1> QED
  BY <1>5, <1>6, ClaimsAre

(* What the daemon keeps out of the free memory for a domain.                *)
Kept(r, x) == Max({0, r[x].last - r[x].cur})

(* What the daemon keeps out of the free memory for a domain.                *)
LEMMA KeptType ==
  ASSUME NEW r \in [Doms -> States], NEW x \in Doms
  PROVE  /\ Kept(r, x) \in Int /\ 0 <= Kept(r, x) /\ r[x].last - r[x].cur <= Kept(r, x)
         /\ Kept(r, x) \in {0, r[x].last - r[x].cur}
<1>1. PICK c : c = r[x].last - r[x].cur
  OBVIOUS
<1>2. r[x].last \in Int /\ r[x].cur \in Int
  <2>1. r[x] \in States
    OBVIOUS
  <2> QED
    BY <2>1, StateFields
<1>3. c \in Int /\ 0 \in Int
  BY <1>1, <1>2
<1> QED
  BY <1>1, <1>3, LargerOne DEF Kept

(* It is what Xen lets that domain claim.                                    *)
LEMMA KeptIsClaim ==
  ASSUME MemoryTypeOK, HeardInv, NEW r, Renewed(r, Doms), NEW x \in alive \cap known
  PROVE  Kept(r, x) = Above(target, x) \/ Above(target, x) = 0
<1>1. x \in Doms /\ current[x] \in Int /\ target[x] \in Int
  BY AliveTypes
<1>2. r[x].cur = current[x] /\ r[x].last = dom[x].last
  BY <1>1 DEF Renewed
<1>3. dom[x].last = target[x] \/ target[x] = current[x]
  BY DEF HeardInv
<1>4. CASE dom[x].last = target[x]
  BY <1>2, <1>4 DEF Kept, Above
<1>5. CASE target[x] = current[x]
  BY <1>1, <1>5, AboveType
<1> QED
  BY <1>3, <1>4, <1>5

(* What the daemon takes for free is a number.                               *)
LEMMA UnclaimedType ==
  ASSUME MemoryTypeOK, NEW r \in [Doms -> States]
  PROVE  Unclaimed(r) \in Int /\ get_free_xen_mem(r) \in Int
<1>1. PICK h : h = [d \in known |-> Kept(r, d)]
  BY Zenon
<1>2. \A d \in known : h[d] \in Int
  BY <1>1, KeptType, AliveTypes
<1>3. Unclaimed(r) = Sum(h, known)
  BY <1>1, Zenon DEF Unclaimed, Kept
<1>4. Unclaimed(r) \in Int
  BY <1>2, <1>3, AliveTypes, SumType
<1> QED
  BY <1>4, AliveTypes DEF get_free_xen_mem

(* With a list of domains that leaves none out, nobody claims what was free. *)
LEMMA ClaimsAreKept ==
  ASSUME MemoryTypeOK, HeardInv, NEW r, Renewed(r, Doms), alive \subseteq known
  PROVE  Claims <= Unclaimed(r)
<1>1. PICK f : f = [x \in alive |-> Above(target, x)]
  BY Zenon
<1>2. PICK h : h = [x \in known |-> Kept(r, x)]
  BY Zenon
<1>3. r \in [Doms -> States] /\ known \subseteq Doms /\ IsFiniteSet(known)
  BY AliveTypes DEF Renewed
<1>4. \A x \in known : h[x] \in Int /\ 0 <= h[x]
  BY <1>2, <1>3, KeptType
<1>5. \A x \in alive : f[x] \in Int /\ f[x] <= h[x]
  <2>1. ASSUME NEW x \in alive
        PROVE  f[x] \in Int /\ f[x] <= h[x]
    <3>1. Above(target, x) \in Int
      BY AliveTypes, AboveType
    <3>2. h[x] = Above(target, x) \/ Above(target, x) = 0
      BY <1>2, KeptIsClaim
    <3> QED
      BY <1>1, <1>4, <3>1, <3>2
  <2> QED
    BY <2>1
<1>6. Sum(f, alive) <= Sum(h, known)
  BY <1>3, <1>4, <1>5, SumBound
<1>7. Claims = Sum(f, alive) /\ Unclaimed(r) = Sum(h, known)
  BY <1>1, <1>2, ClaimsAre, Zenon DEF Upto, Unclaimed, Kept
<1> QED
  BY <1>6, <1>7

(* A target is raised by no more than what is free beyond what others claim. *)
LEMMA RaiseIsBacked ==
  ASSUME MemoryTypeOK, HeardInv, NEW r, Renewed(r, Doms), alive \subseteq known,
         NEW d \in alive, NEW t, t[d] \in Int, \A x \in alive \ {d} : t[x] = target[x],
         t[d] - r[d].act <= get_free_xen_mem(r), Claims <= Free
  PROVE  Upto(t) <= Free
<1>1. PICK f : f = [x \in alive |-> Above(t, x)]
  BY Zenon
<1>2. PICK g : g = [x \in alive |-> Above(target, x)]
  BY Zenon
<1>3. PICK h : h = [x \in known |-> Kept(r, x)]
  BY Zenon
<1>4. PICK A, K : A = alive \ {d} /\ K = known \ {d}
  OBVIOUS
<1>5. /\ r \in [Doms -> States] /\ known \subseteq Doms /\ d \in known /\ d \in Doms
      /\ IsFiniteSet(alive) /\ IsFiniteSet(known) /\ IsFiniteSet(A) /\ IsFiniteSet(K)
      /\ A \subseteq K
  BY <1>4, AliveTypes, FS_Subset DEF Renewed
<1>6. \A x \in known : h[x] \in Int /\ 0 <= h[x]
  BY <1>3, <1>5, KeptType
<1>7. \A x \in alive : g[x] \in Int /\ 0 <= g[x]
  BY <1>2, AliveTypes, AboveType
<1>8. \A x \in alive : t[x] \in Int /\ f[x] \in Int
  <2>1. \A x \in alive : t[x] \in Int /\ current[x] \in Int
    BY AliveTypes
  <2> QED
    BY <1>1, <2>1, AboveType
<1>9. \A x \in A : f[x] = g[x]
  BY <1>1, <1>2, <1>4 DEF Above
<1>10. PICK P, Q, R : P = Sum(f, A) /\ Q = Sum(g, A) /\ R = Sum(h, K)
  OBVIOUS
<1>11. P = Q
  BY <1>5, <1>9, <1>10, SumSame
<1>12. /\ Sum(f, alive) = f[d] + P /\ Sum(g, alive) = g[d] + P /\ P \in Int
  <2>1. Sum(f, alive) = f[d] + P /\ P \in Int
    BY <1>4, <1>5, <1>8, <1>10, SumTake
  <2>2. Sum(g, alive) = g[d] + Q
    BY <1>4, <1>5, <1>7, <1>10, SumTake
  <2> QED
    BY <1>11, <2>1, <2>2
<1>13. Sum(h, known) = h[d] + R /\ R \in Int
  BY <1>4, <1>5, <1>6, <1>10, SumTake
<1>14. P <= R
  <2>1. \A x \in A : f[x] \in Int /\ f[x] <= h[x]
    <3>1. ASSUME NEW x \in A
          PROVE  f[x] \in Int /\ f[x] <= h[x]
      <4>1. x \in alive /\ x \in known
        BY <1>4, <1>5
      <4>2. h[x] = g[x] \/ g[x] = 0
        BY <1>2, <1>3, <4>1, KeptIsClaim
      <4> QED
        BY <1>6, <1>7, <1>9, <4>1, <4>2
    <3> QED
      BY <3>1
  <2>2. \A x \in K : h[x] \in Int
    BY <1>4, <1>6
  <2>3. \A x \in K \ A : 0 <= h[x]
    BY <1>4, <1>6
  <2>4. Sum(f, A) <= Sum(h, K)
    BY <1>5, <2>1, <2>2, <2>3, SumBound
  <2> QED
    BY <1>10, <2>4
<1>15. Upto(t) = f[d] + P /\ Claims = g[d] + P /\ Unclaimed(r) = h[d] + R
  BY <1>1, <1>2, <1>3, <1>12, <1>13, ClaimsAre, Zenon DEF Upto, Unclaimed, Kept
<1>16. PICK c, l, a : c = current[d] /\ l = r[d].last /\ a = r[d].act
  OBVIOUS
<1>17. c \in Int /\ l \in Int /\ a \in Int /\ r[d].cur = c /\ a = Max({c, l})
  <2>1. c \in Int /\ r[d].cur = c /\ a = Max({c, l})
    BY <1>5, <1>16, AliveTypes DEF Renewed
  <2>2. l \in Int
    <3>1. r[d] \in States
      BY <1>5
    <3> QED
      BY <1>16, <3>1, StateFields
  <2> QED
    BY <2>1, <2>2, LargerOne
<1>18. l - c <= h[d] /\ 0 <= h[d] /\ h[d] \in {0, l - c} /\ h[d] \in Int
  BY <1>3, <1>5, <1>16, <1>17, KeptType
<1>19. c <= a /\ l <= a /\ a \in {c, l}
  BY <1>17, LargerOne
<1>20. f[d] \in {0, t[d] - c} /\ f[d] \in Int /\ g[d] \in Int /\ 0 <= g[d]
  <2>1. Above(t, d) \in {0, t[d] - c}
    BY <1>16, <1>17, AboveType
  <2> QED
    BY <1>1, <1>7, <1>8, <2>1
<1>21. t[d] - a <= Free - (h[d] + R) /\ g[d] + P <= Free /\ Free \in Int
  BY <1>15, <1>16, AliveTypes DEF get_free_xen_mem
<1>22. f[d] + P <= Free
  BY <1>12, <1>13, <1>14, <1>17, <1>18, <1>19, <1>20, <1>21
<1> QED
  BY <1>15, <1>22

(* States that are fresh for some domains are fresh for none of them.        *)
LEMMA FreshLess ==
  ASSUME NEW r, NEW D, Renewed(r, D)
  PROVE  Renewed(r, {})
BY DEF Renewed

(* Marking or unmarking a state changes nothing else.                        *)
LEMMA MarkIsFresh ==
  ASSUME NEW r, NEW D, Renewed(r, D), NEW M, NEW b \in BOOLEAN
  PROVE  Renewed([d \in Doms |-> IF d \in M THEN [r[d] EXCEPT !.no_progress = b] ELSE r[d]], D)
<1>1. PICK s : s = [d \in Doms |-> IF d \in M THEN [r[d] EXCEPT !.no_progress = b] ELSE r[d]]
  BY Zenon
<1>2. ASSUME NEW d \in Doms
      PROVE  /\ s[d] \in States /\ s[d].last = r[d].last /\ s[d].used = r[d].used
             /\ s[d].cur = r[d].cur /\ s[d].act = r[d].act
  <2>1. r[d] \in States
    BY DEF Renewed
  <2>2. PICK u : u = [r[d] EXCEPT !.no_progress = b]
    OBVIOUS
  <2>3. u \in States
    BY <2>1, <2>2, StateChange, Zenon
  <2>4. u.last = r[d].last /\ u.used = r[d].used /\ u.cur = r[d].cur /\ u.act = r[d].act
    BY <2>1, <2>2 DEF States
  <2>5. s[d] = IF d \in M THEN u ELSE r[d]
    BY <1>1, <2>2, Zenon
  <2> QED
    BY <2>1, <2>3, <2>4, <2>5
<1>3. s \in [Doms -> States]
  <2>1. \A d \in Doms : s[d] \in States
    BY <1>2
  <2>2. s = [d \in Doms |-> s[d]]
    BY <1>1, Zenon
  <2> QED
    BY <2>1, <2>2, Zenon
<1>4. Renewed(s, D)
  BY <1>2, <1>3 DEF Renewed
<1> QED
  BY <1>1, <1>4, Zenon

(* The daemon's states are renewed, and Xen is left alone.                   *)
LEMMA DomKeeps ==
  ASSUME MemoryTypeOK, HeardInv, dom' \in [Doms -> States],
         \A d \in Doms : dom'[d].last = dom[d].last,
         UNCHANGED <<xen, known>>, reserved' \in Nat
  PROVE  MemoryTypeOK' /\ HeardInv'
<1>1. MemoryTypeOK'
  <2>1. UNCHANGED <<alive, current, target, store, meminfo, known>>
    BY DEF xen
  <2> QED
    BY <2>1, Zenon DEF MemoryTypeOK
<1>2. HeardInv'
  <2>1. \A d \in alive : dom'[d].last = dom[d].last
    BY AliveTypes
  <2>2. UNCHANGED <<alive, current, target, store, known>>
    BY DEF xen
  <2> QED
    BY <2>1, <2>2 DEF HeardInv
<1> QED
  BY <1>1, <1>2

(* The targets of known domains are set.                                     *)
LEMMA MemSetKeeps ==
  ASSUME MemoryTypeOK, HeardInv, NEW t, DOMAIN t \subseteq known, \A d \in DOMAIN t : t[d] \in Int,
         NEW r, Renewed(r, {}), mem_set(t, r), known' = known, reserved' \in Nat
  PROVE  /\ MemoryTypeOK' /\ HeardInv'
         /\ \A d \in Doms : /\ dom'[d].used = dom[d].used
                            /\ dom[d].act # None => dom'[d].act # None
         /\ \A x \in alive : /\ target'[x] = IF x \in DOMAIN t THEN t[x] ELSE target[x]
                             /\ target'[x] \in Int
<1>1. known \subseteq Doms /\ alive \subseteq Doms /\ r \in [Doms -> States]
  BY AliveTypes DEF Renewed
<1>2. UNCHANGED <<alive, current, meminfo>>
  BY DEF mem_set
<1>3. ASSUME NEW d \in Doms
      PROVE  /\ dom'[d] \in States /\ dom'[d].used = r[d].used /\ dom'[d].act = r[d].act
             /\ dom'[d].last = IF d \in DOMAIN t THEN t[d] ELSE r[d].last
  <2>1. r[d] \in States
    BY <1>1
  <2>2. CASE d \in DOMAIN t
    <3>1. PICK u : u = [r[d] EXCEPT !.last = t[d]]
      OBVIOUS
    <3>2. dom'[d] = u
      BY <2>2, <3>1, Zenon DEF mem_set
    <3>3. t[d] \in Int
      BY <2>2
    <3>4. u \in States
      BY <2>1, <3>1, <3>3, StateChange, Zenon
    <3>5. u.used = r[d].used /\ u.act = r[d].act /\ u.last = t[d]
      BY <2>1, <3>1 DEF States
    <3> QED
      BY <2>2, <3>2, <3>4, <3>5
  <2>3. CASE d \notin DOMAIN t
    <3>1. dom'[d] = r[d]
      BY <2>3, Zenon DEF mem_set
    <3> QED
      BY <2>1, <2>3, <3>1
  <2> QED
    BY <2>2, <2>3
<1>4. \A d \in Doms : target'[d] = IF d \in DOMAIN t \cap alive THEN t[d] ELSE target[d]
  BY Zenon DEF mem_set
<1>5. \A d \in Doms : store'[d] = IF d \in DOMAIN t \cap alive THEN t[d] - 16 ELSE store[d]
  BY Zenon DEF mem_set
<1>6. \A x \in alive : /\ target'[x] = IF x \in DOMAIN t THEN t[x] ELSE target[x]
                       /\ target'[x] \in Int
  BY <1>1, <1>4, AliveTypes
<1>7. MemoryTypeOK'
  <2>1. dom' \in [Doms -> States]
    <3>1. dom' = [d \in Doms |-> dom'[d]]
      BY Zenon DEF mem_set
    <3>2. \A d \in Doms : dom'[d] \in States
      BY <1>3
    <3> QED
      BY <3>1, <3>2, Zenon
  <2>2. target' \in [Doms -> Int \cup {None}]
    <3>1. target' = [d \in Doms |-> target'[d]]
      BY Zenon DEF mem_set
    <3>2. \A d \in Doms : target'[d] \in Int \cup {None}
      BY <1>4 DEF MemoryTypeOK
    <3> QED
      BY <3>1, <3>2, Zenon
  <2>3. store' \in [Doms -> Int \cup {None}]
    <3>1. store' = [d \in Doms |-> store'[d]]
      BY Zenon DEF mem_set
    <3>2. \A d \in Doms : store'[d] \in Int \cup {None}
      BY <1>5 DEF MemoryTypeOK
    <3> QED
      BY <3>1, <3>2, Zenon
  <2>4. \A d \in alive : store'[d] \in Int /\ current[d] \in Nat
    BY <1>1, <1>5, AliveTypes
  <2>5. \A d \in alive : None \notin {current[d], target'[d], store'[d]}
    <3>1. None \notin Int
      BY MemoryAssumption
    <3> QED
      BY <1>6, <2>4, <3>1
  <2> QED
    BY <1>2, <2>1, <2>2, <2>3, <2>5, Zenon DEF MemoryTypeOK
<1>8. HeardInv'
  <2>1. ASSUME NEW d \in alive
        PROVE  LET heard == IF d \in known THEN dom'[d].last ELSE store'[d]
               IN  heard = target'[d] \/ (heard <= target'[d] /\ target'[d] = current[d])
    <3>1. r[d].last = dom[d].last
      BY <1>1 DEF Renewed
    <3>2. d \in Doms
      BY <1>1
    <3>3. CASE d \in DOMAIN t
      BY <1>3, <1>6, <3>2, <3>3
    <3>4. CASE d \notin DOMAIN t
      <4>1. target'[d] = target[d] /\ store'[d] = store[d] /\ dom'[d].last = dom[d].last
        BY <1>3, <1>5, <1>6, <3>1, <3>2, <3>4
      <4> QED
        BY <4>1 DEF HeardInv
    <3> QED
      BY <3>3, <3>4
  <2> QED
    BY <1>2, <2>1 DEF HeardInv
<1>9. \A d \in Doms : /\ dom'[d].used = dom[d].used
                      /\ dom[d].act # None => dom'[d].act # None
  BY <1>3 DEF Renewed
<1> QED
  BY <1>6, <1>7, <1>8, <1>9

(* No domain gets more than it has or was to get.                            *)
LEMMA LowerKeepsClaims ==
  ASSUME MemoryTypeOK, HeardInv, NEW t, NEW r, NEW D, Renewed(r, D), mem_set(t, r),
         \A d \in DOMAIN t : t[d] \in Int /\ d \in known \cap D,
         \A d \in DOMAIN t \cap alive : t[d] <= r[d].act
  PROVE  Claims' \in Int /\ Claims' <= Claims
<1>1. \A x \in alive : /\ target'[x] = (IF x \in DOMAIN t THEN t[x] ELSE target[x])
                       /\ x \in Doms
  <2>1. \A d \in Doms : target'[d] = IF d \in DOMAIN t \cap alive THEN t[d] ELSE target[d]
    BY Zenon DEF mem_set
  <2> QED
    BY <2>1, AliveTypes
<1>2. ASSUME NEW x \in alive
      PROVE  target'[x] \in Int /\ Above(target', x) <= Above(target, x)
  <2>1. current[x] \in Int /\ target[x] \in Int /\ x \in Doms
    BY AliveTypes
  <2>2. Above(target, x) \in Int /\ 0 <= Above(target, x) /\ target[x] - current[x] <= Above(target, x)
    BY <2>1, AboveType
  <2>3. CASE x \in DOMAIN t
    <3>1. PICK c, l, a : c = current[x] /\ l = r[x].last /\ a = r[x].act
      OBVIOUS
    <3>2. l = dom[x].last /\ a = Max({c, l}) /\ x \in known
      BY <2>1, <2>3, <3>1 DEF Renewed
    <3>3. l \in Int
      <4>1. r[x] \in States
        BY <2>1 DEF Renewed
      <4> QED
        BY <3>1, <4>1, StateFields
    <3>4. a \in {c, l}
      BY <2>1, <3>1, <3>2, <3>3, LargerOne
    <3>5. l <= target[x]
      BY <2>1, <3>2 DEF HeardInv
    <3>6. target'[x] = t[x] /\ t[x] \in Int /\ t[x] <= a
      BY <1>1, <2>3, <3>1
    <3>7. Above(target', x) \in {0, target'[x] - c}
      BY <2>1, <3>1, <3>6, AboveType
    <3> QED
      BY <2>1, <2>2, <3>1, <3>3, <3>4, <3>5, <3>6, <3>7
  <2>4. CASE x \notin DOMAIN t
    <3>1. target'[x] = target[x]
      BY <1>1, <2>4
    <3>2. Above(target', x) = Above(target, x)
      BY <3>1 DEF Above
    <3> QED
      BY <2>1, <2>2, <3>1, <3>2
  <2> QED
    BY <2>3, <2>4
<1>3. PICK t2 : t2 = target'
  OBVIOUS
<1>4. Upto(t2) \in Int /\ Upto(t2) <= Claims
  BY <1>2, <1>3, UptoLess, UptoType
<1>5. alive' = alive /\ current' = current
  BY DEF mem_set
<1>6. Claims' = Upto(t2)
  BY <1>3, <1>5, Zenon DEF Claims, Claim, Upto, Above
<1> QED
  BY <1>4, <1>6

(* Steps of the daemon that leave the domains and their memory alone.        *)
LEMMA BackedKept ==
  ASSUME MemoryTypeOK, Backed, UNCHANGED <<xen, lent>>,
         unseen' = unseen, reserved' = reserved \/ reserved' = 0
  PROVE  Backed'
<1>1. Claims' = Claims /\ Free' = Free
  BY Zenon DEF xen, Claims, Claim, Free
<1>2. Claims \in Int /\ Free \in Int /\ reserved \in Nat
  BY AliveTypes, UptoType, ClaimsAre DEF MemoryTypeOK
<1>3. ~ (unseen \/ lent) => Claims + reserved <= Free
  BY DEF Backed
<1>4. ~ (unseen' \/ lent') => Claims' + reserved' <= Free'
  BY <1>1, <1>2, <1>3
<1> QED
  BY <1>4 DEF Backed

(* What a step of a client leaves alone.                                     *)
LEMMA XenKept ==
  ASSUME MemoryTypeOK, HeardInv, UNCHANGED <<xen, known, dom>>, reserved' \in Nat
  PROVE  MemoryTypeOK' /\ HeardInv'
<1>1. MemoryTypeOK'
  BY Zenon DEF MemoryTypeOK, xen
<1>2. HeardInv'
  BY Zenon DEF HeardInv, xen
<1> QED
  BY <1>1, <1>2

(* A client asks: only its own state changes.                                *)
LEMMA RequestStep ==
  ASSUME MemoryInv, NEW kind \in {"balloon", "set_mem"}, NEW size,
         kind = "balloon" => size \in Nat, Request(kind, size)
  PROVE  MemoryInv'
<1> USE DEF MemoryInv
<1>1. MemoryTypeOK' /\ HeardInv'
  BY XenKept DEF Request, daemon, MemoryTypeOK
<1>2. Backed'
  BY BackedKept DEF Request
<1>3. ClientInv'
  BY DEF ClientInv, Request, Idle, daemon
<1>4. WatchInv'
  BY Zenon DEF WatchInv, IsTargets, Request, xen, daemon
<1>5. FreshInv'
  BY DEF FreshInv, Request, Idle, xen, daemon
<1> QED
  BY <1>1, <1>2, <1>3, <1>4, <1>5

(* An event is taken from the queue by the watcher.                          *)
LEMMA TakeStep ==
  ASSUME MemoryInv, NEW e, Take(e)
  PROVE  MemoryInv'
<1> USE DEF MemoryInv
<1>1. MemoryTypeOK' /\ HeardInv'
  BY XenKept DEF Take, daemon, MemoryTypeOK
<1>2. Backed'
  BY BackedKept DEF Take
<1>3. ClientInv'
  BY Zenon DEF ClientInv, Take, daemon
<1>4. WatchInv'
  <2>1. lock # "watch" /\ lock' = lock
    BY DEF WatchInv, Take, Idle
  <2>2. CASE watch' = Idle
    BY <2>1, <2>2 DEF WatchInv, Idle
  <2>3. CASE watch' # Idle
    <3>1. PICK info : info = IF e \in Doms THEN meminfo[e] ELSE None
      OBVIOUS
    <3>2. watch' = [stage |-> "waits", of |-> e, info |-> info] /\ (e \in Doms => meminfo[e] # None)
      BY <2>3, <3>1, Zenon DEF Take
    <3>3. e \in Doms => info \in Nat
      BY <3>1, <3>2 DEF MemoryTypeOK
    <3> QED
      BY <2>1, <3>2, <3>3 DEF WatchInv
  <2> QED
    BY <2>2, <2>3
<1>5. FreshInv'
  BY Zenon DEF FreshInv, Take, xen, daemon
<1> QED
  BY <1>1, <1>2, <1>3, <1>4, <1>5

(* A client that got its memory leaves.                                      *)
LEMMA DisconnectStep ==
  ASSUME MemoryInv, Disconnect
  PROVE  MemoryInv'
<1> USE DEF MemoryInv
<1>1. MemoryTypeOK' /\ HeardInv'
  BY XenKept DEF Disconnect
<1>2. Backed'
  BY BackedKept DEF Disconnect
<1>3. ClientInv'
  BY DEF ClientInv, Disconnect, Idle
<1>4. WatchInv'
  <2>1. lock = "client" /\ lock' = "free"
    BY DEF ClientInv, Disconnect
  <2>2. watch' = watch /\ known' = known /\ dom' = dom
    BY DEF Disconnect
  <2> QED
    BY <2>1, <2>2 DEF WatchInv, IsTargets
<1>5. FreshInv'
  BY DEF FreshInv, Disconnect
<1> QED
  BY <1>1, <1>2, <1>3, <1>4, <1>5

(* The watcher waits for donors.                                             *)
LEMMA WaitStep ==
  ASSUME MemoryInv, NEW d, WaitForDonors(d)
  PROVE  MemoryInv'
<1> USE DEF MemoryInv
<1>1. MemoryTypeOK' /\ HeardInv'
  BY XenKept DEF WaitForDonors, daemon, MemoryTypeOK
<1>2. Backed'
  BY BackedKept DEF WaitForDonors
<1>3. ClientInv'
  BY Zenon DEF ClientInv, WaitForDonors, daemon
<1>4. WatchInv'
  <2>1. watch' = Sets("sleeps", watch.list, d, watch.tries, watch.done, watch.prev)
    BY DEF WaitForDonors
  <2>2. watch.stage = "sets" /\ d \in DOMAIN watch.list.to
    BY DEF WaitForDonors, Turn, Left
  <2>3. watch'.stage = "sleeps" /\ watch'.list = watch.list /\ watch'.at = d
    BY <2>1 DEF Sets
  <2>4. lock' = lock /\ alive' = alive /\ known' = known /\ dom' = dom
    BY DEF WaitForDonors, xen, daemon
  <2> QED
    BY <2>2, <2>3, <2>4 DEF WatchInv, IsTargets
<1>5. FreshInv'
  BY Zenon DEF FreshInv, WaitForDonors, xen, daemon
<1> QED
  BY <1>1, <1>2, <1>3, <1>4, <1>5

(* A domain reports its memory.                                              *)
LEMMA ReportStep ==
  ASSUME MemoryInv, NEW d, NEW used \in Uses, Report(d, used)
  PROVE  MemoryInv'
<1> USE DEF MemoryInv
<1>1. MemoryTypeOK'
  <2>1. used \in Nat
    BY MemoryAssumption
  <2>2. meminfo' \in [Doms -> Nat \cup {None}]
    BY <2>1 DEF Report, MemoryTypeOK
  <2>3. UNCHANGED <<alive, current, target, store, known, dom, reserved>>
    BY DEF Report, daemon
  <2> QED
    BY <2>2, <2>3, Zenon DEF MemoryTypeOK
<1>2. HeardInv'
  BY Zenon DEF Report, HeardInv, daemon
<1>3. Backed'
  BY Zenon DEF Report, Backed, Claims, Claim, Free
<1>4. ClientInv'
  BY Zenon DEF ClientInv, Report, daemon
<1>5. WatchInv'
  BY Zenon DEF WatchInv, IsTargets, Report, daemon
<1>6. FreshInv'
  BY Zenon DEF FreshInv, Report, daemon
<1> QED
  BY <1>1, <1>2, <1>3, <1>4, <1>5, <1>6

(* A domain that ends leaves what it had, and what it might have claimed.    *)
LEMMA DieStep ==
  ASSUME MemoryInv, NEW d, Die(d)
  PROVE  MemoryInv'
<1> USE DEF MemoryInv
<1>1. MemoryTypeOK'
  <2>1. alive' \subseteq Doms /\ \A x \in alive' : x \in alive
    BY DEF Die, MemoryTypeOK
  <2>2. UNCHANGED <<current, target, store, meminfo, known, dom, reserved>>
    BY DEF Die, daemon
  <2> QED
    BY <2>1, <2>2, Zenon DEF MemoryTypeOK
<1>2. HeardInv'
  <2>1. \A x \in alive' : x \in alive
    BY DEF Die
  <2>2. UNCHANGED <<current, target, store, known, dom>>
    BY DEF Die, daemon
  <2> QED
    BY <2>1, <2>2, Zenon DEF HeardInv
<1>3. Backed'
  <2>1. PICK A : A = alive \ {d}
    OBVIOUS
  <2>2. PICK f : f = [x \in alive |-> Claim(x)]
    BY Zenon
  <2>3. PICK h : h = [x \in A |-> Claim(x)]
    BY Zenon
  <2>4. d \in alive /\ IsFiniteSet(alive) /\ IsFiniteSet(A)
    BY <2>1, AliveTypes, FS_Subset DEF Die
  <2>5. \A x \in alive : current[x] \in Int /\ target[x] \in Int
    BY AliveTypes
  <2>6. \A x \in alive : Above(target, x) \in Int /\ 0 <= Above(target, x)
    BY <2>5, AboveType
  <2>7. \A x \in alive : f[x] \in Int /\ 0 <= f[x]
    BY <2>2, <2>6 DEF Claim, Above
  <2>8. \A x \in A : h[x] = f[x]
    BY <2>1, <2>2, <2>3
  <2>9. Sum(h, A) = Sum(f, A)
    BY <2>4, <2>8, SumSame
  <2>10. Sum(f, alive) = f[d] + Sum(f, A) /\ Sum(f, A) \in Int
    BY <2>1, <2>4, <2>7, SumTake
  <2>11. Sum(current, alive) = current[d] + Sum(current, A) /\ Sum(current, A) \in Int
    BY <2>1, <2>4, <2>5, SumTake
  <2>12. Claims = Sum(f, alive) /\ Free = Total - Sum(current, alive)
    BY <2>2, Zenon DEF Claims, Free
  <2>13. UNCHANGED <<current, target, reserved, unseen, lent>> /\ alive' = A
    BY <2>1 DEF Die
  <2>14. Claims' = Sum(h, A) /\ Free' = Total - Sum(current, A)
    BY <2>3, <2>13, Zenon DEF Claims, Claim, Free
  <2>15. ~ (unseen \/ lent) => Claims + reserved <= Free
    BY DEF Backed
  <2>16. current[d] \in Nat /\ f[d] \in Nat /\ reserved \in Nat /\ Total \in Int
    BY <2>4, <2>7, AliveTypes DEF MemoryTypeOK
  <2>17. ~ (unseen \/ lent) => Claims' + reserved <= Free'
    BY <2>9, <2>10, <2>11, <2>12, <2>14, <2>15, <2>16
  <2> QED
    BY <2>13, <2>17 DEF Backed
<1>4. ClientInv'
  BY Zenon DEF ClientInv, Die, daemon
<1>5. WatchInv'
  <2>1. alive' \subseteq alive
    BY DEF Die
  <2>2. UNCHANGED <<watch, lock, known, dom>>
    BY DEF Die, daemon
  <2> QED
    BY <2>1, <2>2 DEF WatchInv, IsTargets
<1>6. FreshInv'
  BY DEF FreshInv, Die, daemon
<1> QED
  BY <1>1, <1>2, <1>3, <1>4, <1>5, <1>6

(* A domain takes what it claims out of the free memory, or gives back.      *)
LEMMA FollowStep ==
  ASSUME MemoryInv, NEW d \in Doms, Follow(d)
  PROVE  MemoryInv'
<1> USE DEF MemoryInv
<1>1. d \in alive /\ target[d] > 0 /\ current' = [current EXCEPT ![d] = target[d]]
  BY DEF Follow
<1>2. UNCHANGED <<alive, target, store, meminfo, known, dom, reserved, unseen, lent>>
  BY DEF Follow, daemon
<1>3. \A x \in Doms : current'[x] = IF x = d THEN target[d] ELSE current[x]
  BY <1>1 DEF MemoryTypeOK
<1>4. target[d] \in Nat
  BY <1>1, AliveTypes
<1>5. MemoryTypeOK'
  <2>1. current' \in [Doms -> Nat \cup {None}]
    BY <1>1, <1>4 DEF MemoryTypeOK
  <2>2. None \notin Nat
    BY MemoryAssumption
  <2>3. \A x \in alive : None \notin {current'[x], target[x], store[x]}
    BY <1>3, <1>4, <2>2, AliveTypes DEF MemoryTypeOK
  <2>4. \A x \in known : current'[x] # None
    BY <1>3, <1>4, <2>2, AliveTypes DEF MemoryTypeOK
  <2> QED
    BY <1>2, <2>1, <2>3, <2>4, Zenon DEF MemoryTypeOK
<1>6. HeardInv'
  BY <1>2, <1>3, AliveTypes DEF HeardInv
<1>7. Backed'
  <2>1. PICK A : A = alive \ {d}
    OBVIOUS
  <2>2. PICK f : f = [x \in alive |-> Claim(x)]
    BY Zenon
  <2>3. PICK h : h = [x \in alive |-> Above(target, x)']
    BY Zenon
  <2>4. IsFiniteSet(alive) /\ IsFiniteSet(A)
    BY <2>1, AliveTypes, FS_Subset
  <2>5. \A x \in alive : current[x] \in Int /\ current'[x] \in Int /\ target[x] \in Int
    BY <1>3, AliveTypes
  <2>6. \A x \in alive : f[x] \in Int /\ 0 <= f[x] /\ target[x] - current[x] <= f[x]
                         /\ f[x] \in {0, target[x] - current[x]}
    <3>1. \A x \in alive : f[x] = Above(target, x)
      BY <2>2 DEF Claim, Above
    <3> QED
      BY <2>5, <3>1, AboveType
  <2>7. h[d] = 0 /\ \A x \in A : h[x] = f[x]
    <3>1. h[d] = Max({0, target[d] - target[d]})
      BY <1>1, <1>2, <1>3, <2>3 DEF Above
    <3>2. target[d] - target[d] = 0
      BY <1>4
    <3>3. Max({0, 0}) = 0
      BY LargerZero
    <3>4. ASSUME NEW x \in A
          PROVE  h[x] = f[x]
      BY <1>2, <1>3, <2>1, <2>2, <2>3, AliveTypes DEF Above, Claim
    <3> QED
      BY <3>1, <3>2, <3>3, <3>4
  <2>8. \A x \in alive : h[x] \in Int
    BY <2>1, <2>6, <2>7
  <2>9. \A x \in A : current'[x] = current[x]
    BY <1>3, <2>1, AliveTypes
  <2>10. PICK P, Q, C, c : P = Sum(f, A) /\ Q = Sum(h, A) /\ C = Sum(current, A) /\ c = current'
    OBVIOUS
  <2>11. P = Q /\ Sum(c, A) = C
    BY <2>4, <2>7, <2>9, <2>10, SumSame
  <2>12. Sum(f, alive) = f[d] + P /\ P \in Int
    BY <1>1, <2>1, <2>4, <2>6, <2>10, SumTake
  <2>13. Sum(h, alive) = P
    <3>1. Sum(h, alive) = h[d] + Q /\ Q \in Int
      BY <1>1, <2>1, <2>4, <2>8, <2>10, SumTake
    <3> QED
      BY <2>7, <2>11, <3>1
  <2>14. Sum(current, alive) = current[d] + C /\ C \in Int
    BY <1>1, <2>1, <2>4, <2>5, <2>10, SumTake
  <2>15. Sum(c, alive) = target[d] + C
    <3>1. \A x \in alive : c[x] \in Int
      BY <2>5, <2>10
    <3>2. Sum(c, alive) = c[d] + Sum(c, A)
      BY <1>1, <2>1, <2>4, <3>1, SumTake
    <3>3. c[d] = target[d]
      BY <1>3, <2>10
    <3> QED
      BY <2>11, <3>2, <3>3
  <2>16. Claims = Sum(f, alive) /\ Free = Total - Sum(current, alive)
    BY <2>2, Zenon DEF Claims, Free
  <2>17. Claims' = Sum(h, alive) /\ Free' = Total - Sum(c, alive)
    BY <1>2, <2>3, <2>10, Zenon DEF Claims, Claim, Above, Free
  <2>18. reserved \in Nat /\ Total \in Int /\ current[d] \in Int
    BY <1>1, AliveTypes DEF MemoryTypeOK
  <2>19. ~ (unseen \/ lent) => Claims + reserved <= Free
    BY DEF Backed
  <2>20. target[d] - current[d] <= f[d] /\ f[d] \in {0, target[d] - current[d]} /\ 0 <= f[d]
    BY <1>1, <2>6
  <2>21. ~ (unseen \/ lent) => Claims' + reserved <= Free'
    BY <1>4, <2>12, <2>13, <2>14, <2>15, <2>16, <2>17, <2>18, <2>19, <2>20
  <2> QED
    BY <1>2, <2>21 DEF Backed
<1>8. ClientInv'
  BY Zenon DEF ClientInv, Follow, daemon
<1>9. WatchInv'
  BY Zenon DEF WatchInv, IsTargets, Follow, daemon
<1>10. FreshInv'
  BY Zenon DEF FreshInv, Follow, daemon
<1> QED
  BY <1>5, <1>6, <1>7, <1>8, <1>9, <1>10

(* The new domain takes what was reserved, and claims the rest of it.        *)
LEMMA CreateStep ==
  ASSUME MemoryInv, NEW d \in Qubes, CreateDomain(d)
  PROVE  MemoryInv'
<1> USE DEF MemoryInv
<1>1. PICK used \in {reserved \div 2, reserved} : current' = [current EXCEPT ![d] = used]
  BY DEF CreateDomain
<1>2. reserved \in Nat /\ used \in Nat /\ used <= reserved
  BY <1>1 DEF MemoryTypeOK
<1>3. /\ alive' = alive \cup {d} /\ d \in Doms /\ d \notin alive /\ d \notin known
      /\ target' = [target EXCEPT ![d] = reserved] /\ store' = [store EXCEPT ![d] = reserved]
      /\ reserved' = 0
  BY DEF CreateDomain, MemoryTypeOK, Doms
<1>4. UNCHANGED <<meminfo, known, dom, unseen, lent, lock, client, watch, force_refresh_domain_list>>
  BY DEF CreateDomain, daemon
<1>5. \A x \in Doms : /\ current'[x] = IF x = d THEN used ELSE current[x]
                      /\ target'[x] = IF x = d THEN reserved ELSE target[x]
                      /\ store'[x] = IF x = d THEN reserved ELSE store[x]
  BY <1>1, <1>3 DEF MemoryTypeOK
<1>6. MemoryTypeOK'
  <2>1. current' \in [Doms -> Nat \cup {None}]
    BY <1>1, <1>2 DEF MemoryTypeOK
  <2>2. target' \in [Doms -> Int \cup {None}] /\ store' \in [Doms -> Int \cup {None}]
    BY <1>2, <1>3 DEF MemoryTypeOK
  <2>3. None \notin Int
    BY MemoryAssumption
  <2>4. \A x \in alive' : None \notin {current'[x], target'[x], store'[x]}
    BY <1>2, <1>3, <1>5, <2>3, AliveTypes DEF MemoryTypeOK
  <2>5. \A x \in known : current'[x] # None
    BY <1>3, <1>5, AliveTypes DEF MemoryTypeOK
  <2>6. alive' \subseteq Doms /\ reserved' \in Nat
    BY <1>3, AliveTypes
  <2> QED
    BY <1>4, <2>1, <2>2, <2>4, <2>5, <2>6, Zenon DEF MemoryTypeOK
<1>7. HeardInv'
  <2>1. ASSUME NEW x \in alive'
        PROVE  LET heard == IF x \in known' THEN dom'[x].last ELSE store'[x]
               IN  heard = target'[x] \/ (heard <= target'[x] /\ target'[x] = current'[x])
    <3>1. CASE x = d
      BY <1>3, <1>4, <1>5, <3>1
    <3>2. CASE x # d
      <4>1. x \in alive /\ x \in Doms
        BY <1>3, <3>2, AliveTypes
      <4>2. current'[x] = current[x] /\ target'[x] = target[x] /\ store'[x] = store[x]
        BY <1>5, <3>2, <4>1
      <4> QED
        BY <1>4, <4>1, <4>2 DEF HeardInv
    <3> QED
      BY <3>1, <3>2
  <2> QED
    BY <2>1 DEF HeardInv
<1>8. Backed'
  <2>1. PICK A : A = alive'
    OBVIOUS
  <2>2. PICK f : f = [x \in alive |-> Claim(x)]
    BY Zenon
  <2>3. PICK h : h = [x \in A |-> Above(target, x)']
    BY Zenon
  <2>4. A \ {d} = alive /\ d \in A /\ IsFiniteSet(alive) /\ IsFiniteSet(A)
    BY <1>3, <2>1, AliveTypes, FS_AddElement
  <2>5. \A x \in alive : current[x] \in Int /\ target[x] \in Int /\ x \in Doms /\ x # d
    BY <1>3, AliveTypes
  <2>6. \A x \in alive : current'[x] = current[x] /\ target'[x] = target[x]
    BY <1>5, <2>5
  <2>7. \A x \in alive : f[x] \in Int
    <3>1. \A x \in alive : f[x] = Above(target, x)
      BY <2>2 DEF Claim, Above
    <3> QED
      BY <2>5, <3>1, AboveType
  <2>8. \A x \in alive : h[x] = f[x]
    BY <2>2, <2>3, <2>4, <2>6 DEF Above, Claim
  <2>9. h[d] = reserved - used
    <3>1. PICK c : c = reserved - used
      OBVIOUS
    <3>2. c \in Int /\ 0 <= c
      BY <1>2, <3>1
    <3>3. Max({0, c}) = c
      <4>1. PICK m : m = Max({0, c})
        OBVIOUS
      <4>2. m \in {0, c} /\ c <= m
        <5>1. 0 \in Int
          OBVIOUS
        <5> QED
          BY <3>2, <4>1, <5>1, LargerOne, Zenon
      <4> QED
        BY <3>2, <4>1, <4>2
    <3>4. current'[d] = used /\ target'[d] = reserved
      BY <1>3, <1>5
    <3>5. h[d] = Max({0, target'[d] - current'[d]})
      BY <2>3, <2>4, Zenon DEF Above
    <3> QED
      BY <3>1, <3>3, <3>4, <3>5
  <2>10. \A x \in A : h[x] \in Int
    BY <1>2, <2>4, <2>7, <2>8, <2>9
  <2>11. PICK P, C, c : P = Sum(f, alive) /\ C = Sum(current, alive) /\ c = current'
    OBVIOUS
  <2>12. Sum(h, alive) = P /\ Sum(c, alive) = C
    BY <2>4, <2>6, <2>8, <2>11, SumSame
  <2>13. Sum(h, A) = reserved - used + P
    <3>1. Sum(h, A) = h[d] + Sum(h, A \ {d})
      BY <2>4, <2>10, SumTake
    <3> QED
      BY <2>4, <2>9, <2>12, <3>1
  <2>14. Sum(c, A) = used + C
    <3>1. \A x \in A : c[x] \in Int
      BY <1>2, <1>3, <1>5, <2>4, <2>5, <2>6, <2>11
    <3>2. Sum(c, A) = c[d] + Sum(c, A \ {d})
      BY <2>4, <3>1, SumTake
    <3>3. c[d] = used
      BY <1>3, <1>5, <2>11
    <3> QED
      BY <2>4, <2>12, <3>2, <3>3
  <2>15. P \in Int /\ C \in Int /\ Total \in Int
    BY <2>4, <2>7, <2>11, SumType, AliveTypes
  <2>16. Claims = P /\ Free = Total - C
    BY <2>2, <2>11, Zenon DEF Claims, Free
  <2>17. Claims' = Sum(h, A) /\ Free' = Total - Sum(c, A)
    BY <2>1, <2>3, <2>11, Zenon DEF Claims, Claim, Above, Free
  <2>18. ~ (unseen \/ lent) => Claims + reserved <= Free
    BY DEF Backed
  <2>19. ~ (unseen \/ lent) => Claims' + reserved' <= Free'
    BY <1>2, <1>3, <2>13, <2>14, <2>15, <2>16, <2>17, <2>18
  <2> QED
    BY <1>4, <2>19 DEF Backed
<1>9. client.stage = "granted" /\ lock = "client"
  BY DEF CreateDomain, ClientInv
<1>10. ClientInv'
  BY <1>3, <1>4, <1>9 DEF ClientInv
<1>11. WatchInv'
  BY <1>4, <1>9 DEF WatchInv, IsTargets
<1>12. FreshInv'
  BY <1>4, <1>9 DEF FreshInv
<1> QED
  BY <1>6, <1>7, <1>8, <1>10, <1>11, <1>12

(* The list of domains is Xen's, and a new state has what Xen was asked.     *)
LEMMA RefreshListStep ==
  ASSUME MemoryInv, RefreshList
  PROVE  MemoryInv'
<1> USE DEF MemoryInv
<1>1. known' = alive /\ dom' = Updated /\ lock' = "watch" /\ UNCHANGED <<xen, client, reserved, unseen, lent>>
  BY DEF RefreshList
<1>2. UNCHANGED <<alive, current, target, store, meminfo>>
  BY <1>1 DEF xen
<1>3. NewState \in States /\ NewState.act = None
  <2>1. 0 \in Int /\ None \in Int \cup {None} /\ None \in Nat \cup {None}
    OBVIOUS
  <2> QED
    BY <2>1, Zenon DEF NewState, States
<1>4. ASSUME NEW x \in Doms
      PROVE  /\ dom'[x] \in States
             /\ x \in alive \cap known => dom'[x] = dom[x]
             /\ x \in alive \ known => dom'[x].last = store[x]
  <2>1. CASE x \in alive \ known
    <3>1. PICK u : u = [NewState EXCEPT !.last = store[x]]
      OBVIOUS
    <3>2. dom'[x] = u
      BY <1>1, <2>1, <3>1, Zenon DEF Updated
    <3>3. store[x] \in Int
      BY <2>1, AliveTypes
    <3>4. u \in States /\ u.last = store[x]
      <4>1. u \in States
        BY <1>3, <3>1, <3>3, StateChange, Zenon
      <4>2. u.last = store[x]
        BY <3>1 DEF NewState
      <4> QED
        BY <4>1, <4>2
    <3> QED
      BY <2>1, <3>2, <3>4
  <2>2. CASE x \notin alive \ known
    <3>1. dom'[x] = IF x \in alive THEN dom[x] ELSE NewState
      BY <1>1, <2>2, Zenon DEF Updated
    <3> QED
      BY <1>3, <2>2, <3>1 DEF MemoryTypeOK
  <2> QED
    BY <2>1, <2>2
<1>5. MemoryTypeOK'
  <2>1. dom' \in [Doms -> States]
    <3>1. dom' = [x \in Doms |-> dom'[x]]
      BY <1>1, Zenon DEF Updated
    <3>2. \A x \in Doms : dom'[x] \in States
      BY <1>4
    <3> QED
      BY <3>1, <3>2, Zenon
  <2>2. \A x \in alive : current[x] # None
    BY DEF MemoryTypeOK
  <2> QED
    BY <1>1, <1>2, <2>1, <2>2, Zenon DEF MemoryTypeOK
<1>6. HeardInv'
  <2>1. ASSUME NEW x \in alive
        PROVE  dom'[x].last = IF x \in known THEN dom[x].last ELSE store[x]
    BY <1>4, AliveTypes
  <2> QED
    BY <1>1, <1>2, <2>1 DEF HeardInv
<1>7. Backed'
  BY <1>1, BackedKept
<1>8. lock = "free" /\ client' = client /\ reserved' = reserved
  BY <1>1 DEF RefreshList
<1>9. ClientInv'
  BY <1>1, <1>8 DEF ClientInv
<1>10. WatchInv'
  <2>1. watch' = [stage |-> "handles", of |-> watch.of, info |-> watch.info] /\ watch.stage = "waits"
    BY DEF RefreshList
  <2> QED
    BY <1>1, <1>2, <2>1 DEF WatchInv
<1>11. FreshInv'
  BY <1>1, <1>2 DEF FreshInv
<1> QED
  BY <1>5, <1>6, <1>7, <1>9, <1>10, <1>11

(* Whoever serves a client leaves what the watcher waits for alone.          *)
LEMMA WatcherWaits ==
  ASSUME WatchInv, lock # "watch", lock' # "watch", watch' = watch
  PROVE  WatchInv'
BY DEF WatchInv

(* A request gets the lock.                                                  *)
LEMMA ServeStep ==
  ASSUME MemoryInv, Serve
  PROVE  MemoryInv'
<1> USE DEF MemoryInv
<1>1. client.stage = "waits" /\ lock = "free" /\ client.kind \in {"balloon", "set_mem"}
  BY DEF Serve, ClientInv
<1>2. UNCHANGED <<xen, known, force_refresh_domain_list, reserved, watch, pending, unseen, lent>>
  BY DEF Serve
<1>3. lock' = (IF client' = Idle THEN "free" ELSE "client") /\ reserved' \in Nat
  BY <1>2 DEF Serve, MemoryTypeOK
<1>4. dom \in [Doms -> States] /\ known \subseteq Doms
  BY DEF MemoryTypeOK
<1>5. Renewed(dom, {})
  BY <1>4 DEF Renewed
<1>6. Renewed(dom', {})
  <2>1. CASE client.kind = "balloon"
    <3>1. dom' = [d \in Doms |-> [dom[d] EXCEPT !.no_progress = FALSE]]
      BY <2>1, Zenon DEF Serve
    <3>2. dom' = [d \in Doms |-> IF d \in Doms THEN [dom[d] EXCEPT !.no_progress = FALSE] ELSE dom[d]]
      BY <3>1, Zenon
    <3>3. FALSE \in BOOLEAN
      OBVIOUS
    <3> QED
      BY <1>5, <3>2, <3>3, MarkIsFresh, Zenon
  <2>2. CASE client.kind # "balloon" /\ dom' = dom
    BY <1>5, <2>2, Zenon
  <2>3. CASE client.kind # "balloon" /\ dom' # dom
    <3>1. dom' = [dom EXCEPT ![client.size].no_progress = FALSE] /\ client.size \in known
      BY <2>3 DEF Serve
    <3>2. dom' = [d \in Doms |-> IF d \in {client.size} THEN [dom[d] EXCEPT !.no_progress = FALSE] ELSE dom[d]]
      BY <1>4, <3>1
    <3>3. FALSE \in BOOLEAN
      OBVIOUS
    <3> QED
      BY <1>5, <3>2, <3>3, MarkIsFresh, Zenon
  <2> QED
    BY <2>1, <2>2, <2>3
<1>7. MemoryTypeOK' /\ HeardInv'
  <2>1. dom' \in [Doms -> States] /\ \A d \in Doms : dom'[d].last = dom[d].last
    BY <1>6 DEF Renewed
  <2> QED
    BY <1>2, <1>3, <2>1, DomKeeps
<1>8. Backed'
  BY <1>2, BackedKept
<1>9. reserved = 0
  BY <1>1 DEF ClientInv
<1>10. ClientInv'
  <2>1. CASE client.kind = "balloon"
    <3>1. client' = Balloons(client.size, 0, <<>>, NoTargets) /\ client.size \in Nat
      BY <1>1, <2>1 DEF Serve, ClientInv
    <3>2. client'.stage = "loop" /\ client'.kind = "balloon" /\ client'.size = client.size
      BY <3>1 DEF Balloons
    <3>3. lock' = "client"
      BY <1>3, <3>2 DEF Idle
    <3> QED
      BY <1>2, <1>9, <3>1, <3>2, <3>3 DEF ClientInv
  <2>2. CASE client' = Idle
    BY <1>2, <1>3, <1>9, <2>2 DEF ClientInv, Idle
  <2>3. CASE client' = [stage |-> "answered"]
    <3>1. lock' = "client"
      BY <1>3, <2>3 DEF Idle
    <3> QED
      BY <1>2, <1>9, <2>3, <3>1 DEF ClientInv
  <2>4. CASE client.kind # "balloon" /\ client' # Idle /\ client' # [stage |-> "answered"]
    <3>1. PICK want : want = pref_mem(dom, client.size)
      OBVIOUS
    <3>2. /\ client' = GivesBack(client.size, 0, <<>>, want) /\ client.size \in known
          /\ dom[client.size].used # None
      BY <2>4, <3>1 DEF Serve, Raises
    <3>3. want \in Int
      <4>1. want \in Nat \ {0}
        BY <1>4, <3>1, <3>2, PrefType
      <4> QED
        BY <4>1
    <3>4. /\ client'.stage = "loop" /\ client'.kind = "set_mem" /\ client'.size = client.size
          /\ client'.want = want
      BY <3>2 DEF GivesBack
    <3>5. lock' = "client"
      BY <1>3, <2>4
    <3>6. dom'[client.size].used = dom[client.size].used
      BY <1>4, <1>6, <3>2 DEF Renewed
    <3> QED
      BY <1>2, <1>9, <3>2, <3>3, <3>4, <3>5, <3>6 DEF ClientInv
  <2> QED
    BY <1>1, <2>1, <2>2, <2>3, <2>4
<1>11. WatchInv'
  BY <1>1, <1>2, <1>3, WatcherWaits
<1>12. FreshInv'
  <2>1. UNCHANGED <<alive, known, force_refresh_domain_list>>
    BY <1>2 DEF xen
  <2> QED
    BY <1>1, <2>1 DEF FreshInv
<1> QED
  BY <1>7, <1>8, <1>10, <1>11, <1>12

(* While it is served a client holds the lock, and no grant is used.         *)
LEMMA LoopHolds ==
  ASSUME ClientInv, client.stage = "loop"
  PROVE  lock = "client" /\ reserved = 0
BY DEF ClientInv

(* do_balloon() grants what is free beyond the claims, or lowers targets.    *)
LEMMA DoBalloonStep ==
  ASSUME MemoryInv, do_balloon
  PROVE  MemoryInv'
<1> USE DEF MemoryInv
<1>1. client.stage = "loop" /\ client.kind = "balloon" /\ client.size \in Nat /\ lock = "client" /\ reserved = 0
  BY LoopHolds DEF do_balloon, ClientInv
<1>2. UNCHANGED <<known, force_refresh_domain_list, watch, pending, lent>>
  BY DEF do_balloon
<1>3. PICK fresh : fresh = refresh_mem_actual(dom, Doms)
  OBVIOUS
<1>4. Renewed(fresh, Doms)
  BY <1>3, RefreshIsFresh
<1>5. PICK free : free = get_free_xen_mem(fresh)
  OBVIOUS
<1>6. free \in Int
  BY <1>4, <1>5, UnclaimedType DEF Renewed
<1>7. PICK stuck : stuck = {d \in DOMAIN client.prev : client.prev[d] = fresh[d].act}
  OBVIOUS
<1>8. PICK r : r = [d \in Doms |-> IF d \in stuck THEN [fresh[d] EXCEPT !.no_progress = TRUE] ELSE fresh[d]]
  BY Zenon
<1>9. Renewed(r, Doms)
  <2>1. TRUE \in BOOLEAN
    OBVIOUS
  <2> QED
    BY <1>4, <1>8, <2>1, MarkIsFresh, Zenon
<1>10. PICK to : to = balloon(r, client.size + XEN_FREE_MEM_LEFT - free)
  OBVIOUS
<1>11. \/ /\ free >= client.size + XEN_FREE_MEM_MIN
          /\ dom' = fresh /\ client' = [stage |-> "granted"] /\ reserved' = client.size
          /\ unseen' = (unseen \/ ~(alive \subseteq known)) /\ UNCHANGED <<xen, lock>>
       \/ /\ dom' \in {fresh, r} /\ UNCHANGED <<xen, reserved, unseen>>
          /\ \/ client' = [stage |-> "answered"] /\ lock' = lock
             \/ client' = Idle /\ lock' = "free"
       \/ /\ ~(free >= client.size + XEN_FREE_MEM_MIN)
          /\ ~Unmeasured(r, {d \in Doms : ~r[d].no_progress})
          /\ mem_set(to, r) /\ UNCHANGED <<reserved, unseen, lock>>
          /\ \E n, ring, prev : client' = Balloons(client.size, n, ring, prev)
  <2>1. PICK grants : grants = (free >= client.size + XEN_FREE_MEM_MIN)
    OBVIOUS
  <2> QED
    BY <1>3, <1>5, <1>7, <1>8, <1>10, Zenon DEF do_balloon, Fails, Raises
<1>12. Renewed(fresh, {}) /\ Renewed(r, {})
  BY <1>4, <1>9, FreshLess
<1>13. CASE /\ free >= client.size + XEN_FREE_MEM_MIN
            /\ dom' = fresh /\ client' = [stage |-> "granted"] /\ reserved' = client.size
            /\ unseen' = (unseen \/ ~(alive \subseteq known)) /\ UNCHANGED <<xen, lock>>
  <2>1. MemoryTypeOK' /\ HeardInv'
    <3>1. dom' \in [Doms -> States] /\ \A d \in Doms : dom'[d].last = dom[d].last
      BY <1>4, <1>13 DEF Renewed
    <3> QED
      BY <1>1, <1>2, <1>13, <3>1, DomKeeps
  <2>2. Backed'
    <3>1. Claims' = Claims /\ Free' = Free
      BY <1>13, Zenon DEF xen, Claims, Claim, Free
    <3>2. Claims \in Int /\ Free \in Int /\ Unclaimed(fresh) \in Int
      BY <1>4, AliveTypes, UptoType, ClaimsAre, UnclaimedType DEF Renewed
    <3>3. XEN_FREE_MEM_MIN \in Nat
      BY MemoryAssumption
    <3>4. free = Free - Unclaimed(fresh)
      BY <1>5 DEF get_free_xen_mem
    <3>5. alive \subseteq known => Claims <= Unclaimed(fresh)
      BY <1>4, ClaimsAreKept
    <3>6. alive \subseteq known => Claims + client.size <= Free
      BY <1>1, <1>13, <3>2, <3>3, <3>4, <3>5
    <3>7. ~ unseen' => alive \subseteq known
      BY <1>13
    <3> QED
      BY <1>13, <3>1, <3>6, <3>7 DEF Backed
  <2>3. ClientInv'
    BY <1>1, <1>13 DEF ClientInv
  <2>4. WatchInv'
    BY <1>1, <1>2, <1>13, WatcherWaits
  <2>5. FreshInv'
    BY <1>13 DEF FreshInv
  <2> QED
    BY <2>1, <2>2, <2>3, <2>4, <2>5
<1>14. CASE /\ dom' \in {fresh, r} /\ UNCHANGED <<xen, reserved, unseen>>
            /\ \/ client' = [stage |-> "answered"] /\ lock' = lock
               \/ client' = Idle /\ lock' = "free"
  <2>1. MemoryTypeOK' /\ HeardInv'
    <3>1. dom' \in [Doms -> States] /\ \A d \in Doms : dom'[d].last = dom[d].last
      BY <1>4, <1>9, <1>14 DEF Renewed
    <3> QED
      BY <1>1, <1>2, <1>14, <3>1, DomKeeps
  <2>2. Backed'
    BY <1>2, <1>14, BackedKept
  <2>3. ClientInv'
    BY <1>1, <1>14 DEF ClientInv, Idle
  <2>4. WatchInv'
    BY <1>1, <1>2, <1>14, WatcherWaits
  <2>5. FreshInv'
    <3>1. UNCHANGED <<alive, known, force_refresh_domain_list>>
      BY <1>2, <1>14 DEF xen
    <3> QED
      BY <1>1, <3>1 DEF FreshInv
  <2> QED
    BY <2>1, <2>2, <2>3, <2>4, <2>5
<1>15. CASE /\ ~(free >= client.size + XEN_FREE_MEM_MIN)
            /\ ~Unmeasured(r, {d \in Doms : ~r[d].no_progress})
            /\ mem_set(to, r) /\ UNCHANGED <<reserved, unseen, lock>>
            /\ \E n, ring, prev : client' = Balloons(client.size, n, ring, prev)
  <2>1. PICK size : size = client.size + XEN_FREE_MEM_LEFT - free
    OBVIOUS
  <2>2. size \in Int /\ size > 0
    <3>1. XEN_FREE_MEM_MIN \in Nat /\ XEN_FREE_MEM_LEFT \in Nat /\ XEN_FREE_MEM_MIN <= XEN_FREE_MEM_LEFT
      BY MemoryAssumption
    <3> QED
      BY <1>1, <1>6, <1>15, <2>1, <3>1
  <2>3. /\ known \subseteq Doms /\ r \in [Doms -> States]
        /\ \A d \in Counted(r) : r[d].act # None
    BY <1>9, <1>15 DEF Renewed, Counted, Unmeasured, MemoryTypeOK
  <2>4. /\ DOMAIN to \subseteq Counted(r)
        /\ \A d \in DOMAIN to : to[d] \in Int /\ to[d] <= r[d].act
    BY <1>10, <2>1, <2>2, <2>3, BalloonTargets DEF AreMeasured
  <2>5. DOMAIN to \subseteq known \cap Doms
    BY <2>3, <2>4 DEF Counted
  <2>6. /\ MemoryTypeOK' /\ HeardInv'
    BY <1>1, <1>2, <1>12, <1>15, <2>4, <2>5, MemSetKeeps
  <2>7. Claims' \in Int /\ Claims' <= Claims
    BY <1>9, <1>15, <2>4, <2>5, LowerKeepsClaims
  <2>8. Backed'
    <3>1. Free' = Free
      BY <1>15, Zenon DEF mem_set, Free
    <3>2. Claims \in Int /\ Free \in Int
      BY AliveTypes, UptoType, ClaimsAre
    <3>3. PICK c, k : c = Claims' /\ k = Claims
      OBVIOUS
    <3>4. c \in Int /\ c <= k /\ k \in Int
      BY <2>7, <3>2, <3>3
    <3>5. ~ (unseen \/ lent) => k <= Free
      BY <1>1, <3>2, <3>3 DEF Backed
    <3>6. ~ (unseen \/ lent) => c + reserved <= Free
      BY <1>1, <3>2, <3>4, <3>5
    <3> QED
      BY <1>2, <1>15, <3>1, <3>3, <3>6 DEF Backed
  <2>9. ClientInv'
    <3>1. client'.stage = "loop" /\ client'.kind = "balloon" /\ client'.size = client.size
      BY <1>15 DEF Balloons
    <3> QED
      BY <1>1, <1>15, <3>1 DEF ClientInv
  <2>10. WatchInv'
    BY <1>1, <1>2, <1>15, WatcherWaits
  <2>11. FreshInv'
    <3>1. UNCHANGED <<alive, known, force_refresh_domain_list>>
      BY <1>2, <1>15 DEF mem_set
    <3> QED
      BY <1>1, <3>1 DEF FreshInv
  <2> QED
    BY <2>6, <2>8, <2>9, <2>10, <2>11
<1> QED
  BY <1>11, <1>13, <1>14, <1>15

(* What a domain has, when it is refreshed.                                  *)
LEMMA FreshAct ==
  ASSUME MemoryTypeOK, NEW D, NEW r, Renewed(r, D), NEW d \in known \cap D
  PROVE  /\ r[d] \in States /\ r[d].act \in Int \cup {None} /\ r[d].used = dom[d].used
         /\ d \in alive => r[d].act \in Nat
<1>1. d \in Doms
  BY AliveTypes
<1>2. r[d] \in States /\ r[d].used = dom[d].used
  BY <1>1 DEF Renewed
<1>3. ASSUME d \in alive
      PROVE  r[d].act \in Nat
  <2>1. PICK c, l : c = current[d] /\ l = r[d].last
    OBVIOUS
  <2>2. c \in Nat /\ l \in Int
    BY <1>2, <1>3, <2>1, AliveTypes, StateFields
  <2>3. r[d].act = Max({c, l})
    BY <1>1, <1>3, <2>1 DEF Renewed
  <2>4. Max({c, l}) \in Int /\ c <= Max({c, l})
    <3>1. c \in Int /\ l \in Int
      BY <2>2
    <3> QED
      BY <3>1, LargerOne, Zenon
  <2> QED
    BY <2>2, <2>3, <2>4
<1> QED
  BY <1>2, <1>3, StateFields

(* do_balloon_dom() raises a target by what is free beyond the claims.       *)
LEMMA DoBalloonDomStep ==
  ASSUME MemoryInv, do_balloon_dom
  PROVE  MemoryInv'
<1> USE DEF MemoryInv
<1>1. PICK d : d = client.size
  OBVIOUS
<1>2. /\ client.stage = "loop" /\ client.kind = "set_mem" /\ lock = "client" /\ reserved = 0
      /\ d \in known /\ d \in Doms /\ dom[d].used # None /\ client.want \in Int
  BY <1>1, LoopHolds, AliveTypes DEF do_balloon_dom, ClientInv
<1>3. UNCHANGED <<known, force_refresh_domain_list, lock, reserved, watch, pending, unseen, lent>>
  BY DEF do_balloon_dom
<1>4. PICK r : r = refresh_mem_actual(dom, {d})
  OBVIOUS
<1>5. Renewed(r, {d}) /\ Renewed(r, {})
  BY <1>4, RefreshIsFresh, FreshLess
<1>6. r[d] \in States /\ r[d].used # None /\ (d \in alive => r[d].act \in Nat)
  BY <1>2, <1>5, FreshAct
<1>7. PICK want : want = IF client.niter > 0 /\ client.niter % 10 = 0 THEN pref_mem(r, d) ELSE client.want
  OBVIOUS
<1>8. want \in Int
  <2>1. pref_mem(r, d) \in Nat \ {0}
    BY <1>2, <1>5, <1>6, PrefType DEF Renewed
  <2> QED
    BY <1>2, <1>7, <2>1
<1>9. \/ dom' = r /\ client' = [stage |-> "answered"] /\ UNCHANGED xen
      \/ /\ r[d].act * 10 > want * 11
         /\ mem_set([x \in {d} |-> want], r)
         /\ \E n, ring : client' = GivesBack(d, n, ring, want)
  BY <1>1, <1>4, <1>7, Zenon DEF do_balloon_dom
<1>10. CASE dom' = r /\ client' = [stage |-> "answered"] /\ UNCHANGED xen
  <2>1. MemoryTypeOK' /\ HeardInv'
    <3>1. dom' \in [Doms -> States] /\ \A x \in Doms : dom'[x].last = dom[x].last
      BY <1>5, <1>10 DEF Renewed
    <3> QED
      BY <1>2, <1>3, <1>10, <3>1, DomKeeps
  <2>2. Backed'
    BY <1>3, <1>10, BackedKept
  <2>3. ClientInv'
    BY <1>2, <1>3, <1>10 DEF ClientInv
  <2>4. WatchInv'
    BY <1>2, <1>3, WatcherWaits
  <2>5. FreshInv'
    BY <1>10 DEF FreshInv
  <2> QED
    BY <2>1, <2>2, <2>3, <2>4, <2>5
<1>11. CASE /\ r[d].act * 10 > want * 11
            /\ mem_set([x \in {d} |-> want], r)
            /\ \E n, ring : client' = GivesBack(d, n, ring, want)
  <2>1. PICK t : t = [x \in {d} |-> want]
    BY Zenon
  <2>2. DOMAIN t = {d} /\ t[d] = want
    BY <2>1
  <2>3. DOMAIN t \subseteq known /\ \A x \in DOMAIN t : t[x] \in Int /\ x \in known \cap {d}
    BY <1>2, <1>8, <2>2
  <2>4. \A x \in DOMAIN t \cap alive : t[x] <= r[x].act
    BY <1>6, <1>8, <1>11, <2>2
  <2>5. mem_set(t, r)
    BY <1>11, <2>1
  <2>6. reserved' \in Nat /\ known' = known
    BY <1>2, <1>3
  <2>7. /\ MemoryTypeOK' /\ HeardInv'
        /\ \A x \in Doms : dom'[x].used = dom[x].used
    BY <1>5, <2>3, <2>5, <2>6, MemSetKeeps
  <2>8. Claims' \in Int /\ Claims' <= Claims
    BY <1>5, <2>3, <2>4, <2>5, LowerKeepsClaims
  <2>9. Backed'
    <3>1. Free' = Free
      BY <2>5, Zenon DEF mem_set, Free
    <3>2. Claims \in Int /\ Free \in Int
      BY AliveTypes, UptoType, ClaimsAre
    <3>3. PICK c, k : c = Claims' /\ k = Claims
      OBVIOUS
    <3>4. c \in Int /\ c <= k /\ k \in Int
      BY <2>8, <3>2, <3>3
    <3>5. ~ (unseen \/ lent) => k <= Free
      BY <1>2, <3>2, <3>3 DEF Backed
    <3>6. ~ (unseen \/ lent) => c + reserved <= Free
      BY <1>2, <3>2, <3>4, <3>5
    <3> QED
      BY <1>3, <3>1, <3>3, <3>6 DEF Backed
  <2>10. ClientInv'
    <3>1. /\ client'.stage = "loop" /\ client'.kind = "set_mem" /\ client'.size = d
          /\ client'.want = want
      BY <1>11 DEF GivesBack
    <3> QED
      BY <1>2, <1>3, <1>8, <2>7, <3>1 DEF ClientInv
  <2>11. WatchInv'
    BY <1>2, <1>3, WatcherWaits
  <2>12. FreshInv'
    <3>1. alive' = alive
      BY <2>5 DEF mem_set
    <3> QED
      BY <1>2, <1>3, <3>1 DEF FreshInv
  <2> QED
    BY <2>7, <2>9, <2>10, <2>11, <2>12
<1> QED
  BY <1>9, <1>10, <1>11

(* The watcher sets a target: what it leaves alone, and why it is backed.    *)
LEMMA WatcherSets ==
  ASSUME MemoryInv, lock = "watch", watch.stage \in {"sets", "sleeps"},
         NEW d \in DOMAIN watch.list.to, NEW v \in Int,
         NEW r, Renewed(r, Doms), NEW s, Renewed(s, {}), mem_set([x \in {d} |-> v], s),
         UNCHANGED <<known, client, reserved, unseen>>, lent => lent',
         d \in alive /\ ~ lent' => v - r[d].act <= get_free_xen_mem(r)
  PROVE  /\ MemoryTypeOK' /\ HeardInv' /\ Backed'
         /\ \A x \in Doms : dom[x].act # None => dom'[x].act # None
<1> USE DEF MemoryInv
<1>1. PICK t : t = [x \in {d} |-> v]
  BY Zenon
<1>2. DOMAIN t = {d} /\ t[d] = v /\ d \in known /\ alive \subseteq known
  BY <1>1 DEF WatchInv, IsTargets
<1>3. mem_set(t, s)
  BY <1>1
<1>4. reserved = 0
  BY DEF ClientInv
<1>5. DOMAIN t \subseteq known /\ (\A x \in DOMAIN t : t[x] \in Int) /\ reserved' \in Nat /\ known' = known
  BY <1>2, <1>4
<1>6. /\ MemoryTypeOK' /\ HeardInv'
      /\ \A x \in Doms : dom[x].act # None => dom'[x].act # None
      /\ \A x \in alive : /\ target'[x] = IF x \in DOMAIN t THEN t[x] ELSE target[x]
                          /\ target'[x] \in Int
  BY <1>3, <1>5, MemSetKeeps
<1>7. ASSUME ~ (unseen \/ lent')
      PROVE  Claims' + reserved' <= Free'
  <2>1. Claims <= Free /\ Claims \in Int
    <3>1. Claims \in Int /\ Free \in Int
      BY AliveTypes, UptoType, ClaimsAre
    <3> QED
      BY <1>4, <1>7, <3>1 DEF Backed
  <2>2. PICK t2 : t2 = target'
    OBVIOUS
  <2>3. Upto(t2) \in Int /\ Upto(t2) <= Free
    <3>1. \A x \in alive : t2[x] \in Int
      BY <1>6, <2>2
    <3>2. CASE d \in alive
      <4>1. t2[d] = v /\ \A x \in alive \ {d} : t2[x] = target[x]
        BY <1>2, <1>6, <2>2, <3>2
      <4>2. t2[d] - r[d].act <= get_free_xen_mem(r)
        BY <1>7, <3>2, <4>1
      <4>3. t2[d] \in Int
        BY <4>1
      <4>4. Upto(t2) <= Free
        BY <1>2, <2>1, <3>2, <4>1, <4>2, <4>3, RaiseIsBacked
      <4> QED
        BY <3>1, <4>4, UptoType
    <3>3. CASE d \notin alive
      <4>1. \A x \in alive : t2[x] = target[x]
        BY <1>2, <1>6, <2>2, <3>3
      <4>2. \A x \in alive : Above(t2, x) <= Above(target, x)
        <5>1. ASSUME NEW x \in alive
              PROVE  Above(t2, x) <= Above(target, x)
          <6>1. Above(t2, x) = Above(target, x)
            BY <4>1 DEF Above
          <6>2. Above(target, x) \in Int
            BY AliveTypes, AboveType
          <6> QED
            BY <6>1, <6>2
        <5> QED
          BY <5>1
      <4>3. Upto(t2) <= Claims /\ Upto(t2) \in Int
        BY <3>1, <4>2, UptoLess, UptoType
      <4> QED
        BY <2>1, <4>3, AliveTypes
    <3> QED
      BY <3>2, <3>3
  <2>4. alive' = alive /\ current' = current
    BY <1>3 DEF mem_set
  <2>5. Claims' = Upto(t2) /\ Free' = Free
    BY <2>2, <2>4, Zenon DEF Claims, Claim, Upto, Above, Free
  <2> QED
    BY <1>4, <2>3, <2>5
<1>8. Backed'
  BY <1>7 DEF Backed
<1> QED
  BY <1>6, <1>8

(* The watcher sets a target: lower, or what the free memory allows, or `lent`.*)
LEMMA SetTargetStep ==
  ASSUME MemoryInv, NEW d, SetTarget(d)
  PROVE  MemoryInv'
<1> USE DEF MemoryInv
<1>1. watch.stage = "sets" /\ lock = "watch" /\ d \in DOMAIN watch.list.to /\ alive \subseteq known
  BY DEF SetTarget, Turn, Left, WatchInv
<1>2. PICK v : v = watch.list.to[d]
  OBVIOUS
<1>3. v \in Int /\ d \in known /\ d \in Doms
  BY <1>1, <1>2, AliveTypes DEF WatchInv, IsTargets
<1>4. PICK r : r = refresh_mem_actual(dom, Doms)
  OBVIOUS
<1>5. Renewed(r, Doms) /\ Renewed(dom, {})
  <2>1. dom \in [Doms -> States]
    BY DEF MemoryTypeOK
  <2>2. Renewed(dom, {})
    BY <2>1 DEF Renewed
  <2> QED
    BY <1>4, <2>2, RefreshIsFresh
<1>6. /\ mem_set([x \in {d} |-> v], dom)
      /\ UNCHANGED <<known, force_refresh_domain_list, client, reserved, pending, unseen>>
      /\ lent' = (lent \/ ~EnoughFor(r, d))
      /\ \/ Release
         \/ watch' = Sets("sets", watch.list, None, Tries, watch.done \cup {d}, watch.prev) /\ UNCHANGED lock
  BY <1>2, <1>4, Zenon DEF SetTarget
<1>7. ASSUME d \in alive, ~ lent'
      PROVE  v - r[d].act <= get_free_xen_mem(r)
  <2>1. PICK g, a : g = get_free_xen_mem(r) /\ a = r[d].act
    OBVIOUS
  <2>2. g \in Int /\ a \in Int
    <3>1. r[d].act \in Nat
      BY <1>3, <1>5, <1>7, FreshAct
    <3>2. r \in [Doms -> States]
      BY <1>5 DEF Renewed
    <3> QED
      BY <2>1, <3>1, <3>2, UnclaimedType
  <2>3. 10 * (g - (v - a)) >= 9 * XEN_FREE_MEM_LEFT
    BY <1>2, <1>6, <1>7, <2>1 DEF EnoughFor
  <2>4. XEN_FREE_MEM_LEFT \in Nat
    BY MemoryAssumption
  <2> QED
    BY <1>3, <2>1, <2>2, <2>3, <2>4
<1>8. /\ MemoryTypeOK' /\ HeardInv' /\ Backed'
      /\ \A x \in Doms : dom[x].act # None => dom'[x].act # None
  BY <1>1, <1>3, <1>5, <1>6, <1>7, WatcherSets
<1>9. alive' = alive
  BY <1>6 DEF mem_set
<1>10. ClientInv'
  <2>1. client.stage \notin {"loop", "granted", "answered"} /\ lock' # "client"
    BY <1>1, <1>6 DEF ClientInv, Release
  <2> QED
    BY <1>6, <2>1 DEF ClientInv
<1>11. WatchInv'
  <2>1. CASE Release
    BY <2>1 DEF WatchInv, Release, Idle
  <2>2. CASE watch' = Sets("sets", watch.list, None, Tries, watch.done \cup {d}, watch.prev) /\ UNCHANGED lock
    <3>1. watch'.stage = "sets" /\ watch'.list = watch.list
      BY <2>2 DEF Sets
    <3>2. \A x \in DOMAIN watch.list.to : x \in Doms /\ dom[x].act # None
      BY <1>1, AliveTypes DEF WatchInv, IsTargets
    <3>3. IsTargets(watch.list.to)' /\ \A x \in DOMAIN watch.list.to : dom'[x].act # None
      BY <1>1, <1>6, <1>8, <3>1, <3>2 DEF WatchInv, IsTargets
    <3> QED
      BY <1>1, <1>6, <1>9, <2>2, <3>1, <3>3 DEF WatchInv, IsTargets
  <2> QED
    BY <1>6, <2>1, <2>2
<1>12. FreshInv'
  BY <1>6, <1>9 DEF FreshInv
<1> QED
  BY <1>8, <1>10, <1>11, <1>12

(* The watcher wakes up and measures again.                                  *)
LEMMA WakeUpStep ==
  ASSUME MemoryInv, WakeUp
  PROVE  MemoryInv'
<1> USE DEF MemoryInv
<1>1. /\ watch.stage = "sleeps" /\ lock = "watch" /\ alive \subseteq known
      /\ watch.at \in DOMAIN watch.list.to
  BY DEF WakeUp, WatchInv
<1>2. PICK r, d : r = refresh_mem_actual(dom, Doms) /\ d = watch.at
  OBVIOUS
<1>3. PICK marked : marked = [x \in Doms |-> IF x \in Stuck(r) THEN [r[x] EXCEPT !.no_progress = TRUE] ELSE r[x]]
  BY Zenon
<1>4. Renewed(r, Doms) /\ Renewed(marked, {})
  <2>1. TRUE \in BOOLEAN
    OBVIOUS
  <2>2. Renewed(r, Doms)
    BY <1>2, RefreshIsFresh
  <2>3. Renewed(marked, Doms)
    BY <1>3, <2>1, <2>2, MarkIsFresh, Zenon
  <2> QED
    BY <2>2, <2>3, FreshLess
<1>5. PICK v : v = get_free_xen_mem(r) + r[d].act - XEN_FREE_MEM_LEFT
  OBVIOUS
<1>6. UNCHANGED <<known, force_refresh_domain_list, client, reserved, pending, unseen, lent>>
  BY DEF WakeUp
<1>7. \/ /\ dom' = r /\ UNCHANGED <<xen, lock>>
         /\ watch' = Sets("sets", watch.list, d, watch.tries - 1, watch.done, watch.prev)
      \/ mem_set([x \in {d} |-> v], marked) /\ Release
  BY <1>2, <1>3, <1>5, Zenon DEF WakeUp
<1>8. ClientInv'
  <2>1. client.stage \notin {"loop", "granted", "answered"} /\ lock' # "client"
    BY <1>1, <1>7 DEF ClientInv, Release
  <2> QED
    BY <1>6, <2>1 DEF ClientInv
<1>9. alive' = alive
  BY <1>7 DEF mem_set, xen
<1>10. FreshInv'
  BY <1>6, <1>9 DEF FreshInv
<1>11. CASE /\ dom' = r /\ UNCHANGED <<xen, lock>>
            /\ watch' = Sets("sets", watch.list, d, watch.tries - 1, watch.done, watch.prev)
  <2>1. MemoryTypeOK' /\ HeardInv'
    <3>1. dom' \in [Doms -> States] /\ \A x \in Doms : dom'[x].last = dom[x].last
      BY <1>4, <1>11 DEF Renewed
    <3>2. reserved' \in Nat
      BY <1>6 DEF MemoryTypeOK
    <3> QED
      BY <1>6, <1>11, <3>1, <3>2, DomKeeps
  <2>2. Backed'
    BY <1>6, <1>11, BackedKept
  <2>3. WatchInv'
    <3>1. watch'.stage = "sets" /\ watch'.list = watch.list
      BY <1>11 DEF Sets
    <3>2. \A x \in DOMAIN watch.list.to : x \in Doms /\ dom[x].act # None
      BY <1>1, AliveTypes DEF WatchInv, IsTargets
    <3>3. \A x \in DOMAIN watch.list.to : dom'[x].act # None
      BY <1>4, <1>11, <3>2 DEF Renewed
    <3>4. IsTargets(watch.list.to)'
      BY <1>1, <1>6, <3>1 DEF WatchInv, IsTargets
    <3> QED
      BY <1>1, <1>6, <1>9, <1>11, <3>1, <3>3, <3>4 DEF WatchInv, IsTargets
  <2> QED
    BY <1>8, <1>10, <2>1, <2>2, <2>3
<1>12. CASE mem_set([x \in {d} |-> v], marked) /\ Release
  <2>1. d \in known /\ d \in Doms /\ dom[d].act # None
    BY <1>1, <1>2, AliveTypes DEF WatchInv, IsTargets
  <2>2. r[d].act \in Int /\ get_free_xen_mem(r) \in Int /\ XEN_FREE_MEM_LEFT \in Nat
    <3>1. r[d].act # None /\ r \in [Doms -> States]
      BY <1>4, <2>1 DEF Renewed
    <3>2. r[d].act \in Int \cup {None}
      BY <1>4, <2>1, FreshAct
    <3> QED
      BY <3>1, <3>2, UnclaimedType, MemoryAssumption
  <2>3. v \in Int /\ v - r[d].act <= get_free_xen_mem(r)
    BY <1>5, <2>2
  <2>4. MemoryTypeOK' /\ HeardInv' /\ Backed'
    BY <1>1, <1>2, <1>4, <1>6, <1>12, <2>3, WatcherSets
  <2>5. WatchInv'
    BY <1>12 DEF WatchInv, Release, Idle
  <2> QED
    BY <1>8, <1>10, <2>4, <2>5
<1> QED
  BY <1>7, <1>11, <1>12

(* do_balance() does nothing more than clear markers, or makes its list of   *)
(* what balance() says of the states it leaves.                              *)
LEMMA BalanceIs ==
  ASSUME MemoryTypeOK, NEW r0 \in [Doms -> States],
         \A x \in Doms : r0[x].last = dom[x].last, do_balance(r0)
  PROVE  \E r \in [Doms -> States] :
           /\ dom' = r /\ \A x \in Doms : r[x].last = dom[x].last
           /\ \/ Release
              \/ /\ lock' = "watch" /\ AreMeasured(r)
                 /\ \E prev : watch' = Sets("sets", balance(r, get_free_xen_mem(r) - XEN_FREE_MEM_LEFT),
                                            None, Tries, {}, prev)
<1>1. PICK M : M = {d \in Doms : /\ d \in known /\ r0[d].used # None
                                 /\ \/ r0[d].act <= r0[d].last + XEN_FREE_MEM_LEFT \div 2
                                    \/ needed_mem(r0, d) > 0}
  OBVIOUS
<1>2. PICK r : r = clear_outdated_error_markers(r0)
  OBVIOUS
<1>3. \A d \in Doms : r[d] = IF d \in M THEN [r0[d] EXCEPT !.no_progress = FALSE] ELSE r0[d]
  BY <1>1, <1>2 DEF clear_outdated_error_markers
<1>4. ASSUME NEW d \in Doms
      PROVE  r[d] \in States /\ r[d].last = r0[d].last /\ r[d].used = r0[d].used /\ r[d].act = r0[d].act
  <2>1. r0[d] \in States /\ FALSE \in BOOLEAN
    OBVIOUS
  <2>2. PICK u : u = [r0[d] EXCEPT !.no_progress = FALSE]
    OBVIOUS
  <2>3. u \in States
    BY <2>1, <2>2, StateChange, Zenon
  <2>4. u.last = r0[d].last /\ u.used = r0[d].used /\ u.act = r0[d].act
    BY <2>1, <2>2 DEF States
  <2>5. r[d] = u \/ r[d] = r0[d]
    BY <1>3, <2>2
  <2> QED
    BY <2>1, <2>3, <2>4, <2>5
<1>5. r \in [Doms -> States]
  <2>1. r = [d \in Doms |-> r[d]]
    BY <1>2, Zenon DEF clear_outdated_error_markers
  <2>2. \A d \in Doms : r[d] \in States
    BY <1>4
  <2> QED
    BY <2>1, <2>2, Zenon
<1>6. PICK free : free = get_free_xen_mem(r) - XEN_FREE_MEM_LEFT
  OBVIOUS
<1>7. PICK list : list = balance(r, free)
  OBVIOUS
<1>8. \/ Release /\ dom' = r0
      \/ Release /\ dom' = r
      \/ /\ ~ Unmeasured(r0, Doms) /\ dom' = r /\ lock' = "watch"
         /\ \E prev : watch' = Sets("sets", list, None, Tries, {}, prev)
  BY <1>2, <1>6, <1>7, Zenon DEF do_balance
<1>9. CASE Release /\ (dom' = r0 \/ dom' = r)
  BY <1>4, <1>5, <1>9
<1>10. CASE /\ ~ Unmeasured(r0, Doms) /\ dom' = r /\ lock' = "watch"
            /\ \E prev : watch' = Sets("sets", list, None, Tries, {}, prev)
  <2>1. \A x \in known : x \in Doms /\ (r[x].used # None => r[x].act # None)
    BY <1>4, <1>10, AliveTypes DEF Unmeasured
  <2>2. AreMeasured(r)
    BY <1>5, <2>1, AliveTypes DEF AreMeasured, Counted
  <2>3. \A x \in Doms : r[x].last = dom[x].last
    BY <1>4
  <2> QED
    BY <1>5, <1>6, <1>7, <1>10, <2>2, <2>3, Zenon
<1> QED
  BY <1>8, <1>9, <1>10

(* The daemon balances: a list of measured domains, or nothing.              *)
LEMMA BalanceStep ==
  ASSUME MemoryTypeOK, alive \subseteq known, NEW r0 \in [Doms -> States],
         \A x \in Doms : r0[x].last = dom[x].last, do_balance(r0), UNCHANGED <<alive, known>>
  PROVE  /\ dom' \in [Doms -> States] /\ \A x \in Doms : dom'[x].last = dom[x].last
         /\ WatchInv' /\ lock' # "client"
<1>1. PICK r \in [Doms -> States] :
        /\ dom' = r /\ \A x \in Doms : r[x].last = dom[x].last
        /\ \/ Release
           \/ /\ lock' = "watch" /\ AreMeasured(r)
              /\ \E prev : watch' = Sets("sets", balance(r, get_free_xen_mem(r) - XEN_FREE_MEM_LEFT),
                                         None, Tries, {}, prev)
  BY BalanceIs
<1>2. CASE Release
  BY <1>1, <1>2 DEF WatchInv, Release, Idle
<1>3. CASE /\ lock' = "watch" /\ AreMeasured(r)
           /\ \E prev : watch' = Sets("sets", balance(r, get_free_xen_mem(r) - XEN_FREE_MEM_LEFT),
                                      None, Tries, {}, prev)
  <2>1. PICK free, list, to : /\ free = get_free_xen_mem(r) - XEN_FREE_MEM_LEFT
                              /\ list = balance(r, free) /\ to = list.to
    OBVIOUS
  <2>2. free \in Int
    BY <2>1, UnclaimedType, MemoryAssumption
  <2>3. DOMAIN to \subseteq Counted(r) /\ to \in [DOMAIN to -> Int]
    BY <1>3, <2>1, <2>2, BalanceTargets
  <2>4. \A x \in DOMAIN to : x \in known /\ r[x].act # None
    BY <1>3, <2>3 DEF AreMeasured, Counted
  <2>5. watch'.stage = "sets" /\ watch'.list.to = to
    BY <1>3, <2>1 DEF Sets
  <2>6. WatchInv'
    BY <1>1, <1>3, <2>3, <2>4, <2>5 DEF WatchInv, IsTargets
  <2> QED
    BY <1>1, <1>3, <2>6
<1> QED
  BY <1>1, <1>2, <1>3

(* Handling an event is to do nothing, or to balance refreshed states.       *)
LEMMA HandleBalances ==
  ASSUME MemoryInv, Handle
  PROVE  \/ Done
         \/ /\ alive \subseteq known
            /\ \E r \in [Doms -> States] :
                 do_balance(r) /\ \A x \in Doms : r[x].last = dom[x].last
<1> USE DEF MemoryInv
<1>1. \/ Done
      \/ alive \subseteq known /\ do_balance(refresh_mem_actual(dom, Doms))
      \/ /\ alive \subseteq known /\ watch.of \in known
         /\ do_balance(refresh_mem_actual([dom EXCEPT ![watch.of].used = watch.info], Doms))
         /\ watch.stage \in {"waits", "handles"}
  <2>1. client.stage \notin {"loop", "granted", "answered"}
    BY DEF Handle, ClientInv, WatchInv
  <2> QED
    BY <2>1 DEF Handle, Refreshes, FreshInv, WatchInv
<1>2. dom \in [Doms -> States]
  BY DEF MemoryTypeOK
<1>3. CASE alive \subseteq known /\ do_balance(refresh_mem_actual(dom, Doms))
  <2>1. PICK r : r = refresh_mem_actual(dom, Doms)
    OBVIOUS
  <2>2. r \in [Doms -> States] /\ \A x \in Doms : r[x].last = dom[x].last
    BY <1>2, <2>1, RefreshKeepsLast
  <2> QED
    BY <1>3, <2>1, <2>2
<1>4. CASE /\ alive \subseteq known /\ watch.of \in known
           /\ do_balance(refresh_mem_actual([dom EXCEPT ![watch.of].used = watch.info], Doms))
           /\ watch.stage \in {"waits", "handles"}
  <2>1. PICK s : s = [dom EXCEPT ![watch.of].used = watch.info]
    OBVIOUS
  <2>2. watch.of \in Doms /\ watch.info \in Nat
    BY <1>4, AliveTypes DEF WatchInv
  <2>3. s \in [Doms -> States] /\ \A x \in Doms : s[x].last = dom[x].last
    <3>1. PICK u : u = [dom[watch.of] EXCEPT !.used = watch.info]
      OBVIOUS
    <3>2. dom[watch.of] \in States /\ watch.info \in Nat \cup {None}
      BY <1>2, <2>2
    <3>3. u \in States
      BY <3>1, <3>2, StateChange, Zenon
    <3>4. u.last = dom[watch.of].last
      BY <3>1, <3>2 DEF States
    <3>5. s = [dom EXCEPT ![watch.of] = u]
      BY <2>1, <3>1
    <3> QED
      BY <1>2, <2>2, <3>3, <3>4, <3>5
  <2>4. PICK r : r = refresh_mem_actual(s, Doms)
    OBVIOUS
  <2>5. r \in [Doms -> States] /\ \A x \in Doms : r[x].last = s[x].last
    BY <2>3, <2>4, RefreshKeepsLast
  <2>6. do_balance(r) /\ \A x \in Doms : r[x].last = dom[x].last
    BY <1>4, <2>1, <2>3, <2>4, <2>5
  <2> QED
    BY <1>4, <2>5, <2>6
<1> QED
  BY <1>1, <1>3, <1>4

(* An event is handled: the list of domains, then the balance.               *)
LEMMA HandleStep ==
  ASSUME MemoryInv, Handle
  PROVE  MemoryInv'
<1> USE DEF MemoryInv
<1>1. UNCHANGED <<xen, known, force_refresh_domain_list, client, reserved, unseen, lent>> /\ alive' = alive
  BY DEF Handle, xen
<1>2. client.stage \notin {"loop", "granted", "answered"} /\ reserved' \in Nat
  BY <1>1 DEF Handle, ClientInv, WatchInv, MemoryTypeOK
<1>3. \/ Done
      \/ /\ alive \subseteq known
         /\ \E r \in [Doms -> States] : do_balance(r) /\ \A x \in Doms : r[x].last = dom[x].last
  BY HandleBalances, Zenon
<1>4. /\ dom' \in [Doms -> States] /\ \A x \in Doms : dom'[x].last = dom[x].last
      /\ WatchInv' /\ lock' # "client"
  <2>1. CASE Done
    <3>1. dom \in [Doms -> States]
      BY DEF MemoryTypeOK
    <3> QED
      BY <2>1, <3>1 DEF Done, Release, WatchInv, Idle
  <2>2. CASE /\ alive \subseteq known
             /\ \E r \in [Doms -> States] : do_balance(r) /\ \A x \in Doms : r[x].last = dom[x].last
    BY <1>1, <2>2, BalanceStep
  <2> QED
    BY <1>3, <2>1, <2>2
<1>5. MemoryTypeOK' /\ HeardInv'
  BY <1>1, <1>2, <1>4, DomKeeps
<1>6. Backed'
  BY <1>1, BackedKept
<1>7. ClientInv'
  BY <1>1, <1>2, <1>4 DEF ClientInv
<1>8. FreshInv'
  BY <1>1 DEF FreshInv
<1> QED
  BY <1>4, <1>5, <1>6, <1>7, <1>8

(* It holds before anything is asked.                                        *)
LEMMA MemoryInitInv == MemoryInit => MemoryInv
<1> SUFFICES ASSUME MemoryInit
             PROVE  MemoryInv
  OBVIOUS
<1>1. /\ alive \subseteq Doms /\ known = {} /\ reserved = 0 /\ current = target
      /\ target \in [Doms -> Sizes \cup {None}]
  BY DEF MemoryInit
<1>2. None \notin Int /\ Sizes \subseteq Nat /\ Uses \subseteq Nat /\ XEN_FREE_MEM_MIN \in Nat
  BY MemoryAssumption
<1>3. \A d \in Doms : target[d] \in Nat \cup {None} /\ target[d] \in Int \cup {None}
  <2>1. ASSUME NEW d \in Doms
        PROVE  target[d] \in Nat \cup {None} /\ target[d] \in Int \cup {None}
    <3>1. target[d] \in Sizes \/ target[d] = None
      BY <1>1
    <3>2. target[d] \in Sizes => target[d] \in Nat
      BY <1>2, Zenon
    <3>3. target[d] \in Nat \/ target[d] = None
      BY <3>1, <3>2
    <3> QED
      BY <3>3
  <2> QED
    BY <2>1
<1>4. \A d \in Doms : d \in alive => target[d] \in Nat
  BY <1>1, <1>2 DEF MemoryInit
<1>5. /\ store \in [Doms -> Int \cup {None}]
      /\ \A d \in alive : store[d] \in Int /\ (store[d] = target[d] \/ store[d] <= target[d])
  <2>1. PICK s : s = [d \in Doms |-> IF d \in alive THEN target[d] - 16 ELSE None]
    BY Zenon
  <2>2. \A d \in alive : s[d] \in Int /\ s[d] <= target[d]
    BY <1>1, <1>4, <2>1
  <2>3. s \in [Doms -> Int \cup {None}]
    BY <1>4, <2>1
  <2>4. store = target \/ store = s
    BY <2>1, Zenon DEF MemoryInit
  <2>5. CASE store = target
    <3>2. target \in [Doms -> Int \cup {None}]
      BY <1>1, <1>3
    <3> QED
      BY <1>1, <1>4, <2>5, <3>2
  <2>6. CASE store = s
    BY <2>2, <2>3, <2>6
  <2> QED
    BY <2>4, <2>5, <2>6
<1>6. NewState \in States
  <2>1. 0 \in Int /\ None \in Int \cup {None} /\ None \in Nat \cup {None}
    OBVIOUS
  <2> QED
    BY <2>1, Zenon DEF NewState, States
<1>7. dom \in [Doms -> States]
  BY <1>6, Zenon DEF MemoryInit
<1>8. meminfo \in [Doms -> Nat \cup {None}]
  BY <1>2 DEF MemoryInit
<1>9. MemoryTypeOK
  <2>1. target \in [Doms -> Nat \cup {None}] /\ target \in [Doms -> Int \cup {None}]
    <3>2. target = [d \in Doms |-> target[d]]
      BY <1>1
    <3> QED
      BY <1>3, <3>2, Zenon
  <2>2. \A d \in alive : None \notin {current[d], target[d], store[d]}
    BY <1>1, <1>2, <1>4, <1>5
  <2> QED
    BY <1>1, <1>5, <1>7, <1>8, <2>1, <2>2 DEF MemoryTypeOK
<1>10. HeardInv
  BY <1>1, <1>4, <1>5 DEF HeardInv
<1>11. ClientInv /\ WatchInv /\ FreshInv
  BY DEF MemoryInit, ClientInv, WatchInv, FreshInv, Idle
<1>12. Backed
  <2>1. PICK f : f = [x \in alive |-> Claim(x)]
    BY Zenon
  <2>2. ASSUME NEW x \in alive
        PROVE  f[x] = 0
    <3>1. PICK c : c = target[x] - current[x]
      OBVIOUS
    <3>2. c = 0
      BY <1>1, <1>4, <3>1
    <3>3. Max({0, 0}) = 0
      BY LargerZero
    <3> QED
      BY <2>1, <3>1, <3>2, <3>3 DEF Claim
  <2>4. Sum(f, alive) = 0
    BY <1>9, <2>2, AliveTypes, SumZero
  <2>5. Claims = 0
    BY <2>1, <2>4, Zenon DEF Claims
  <2>6. Free \in Int /\ Free >= XEN_FREE_MEM_MIN
    BY <1>9, AliveTypes DEF MemoryInit
  <2> QED
    BY <1>1, <1>2, <2>5, <2>6 DEF Backed
<1> QED
  BY <1>9, <1>10, <1>11, <1>12 DEF MemoryInv

(* The invariant is kept by every step.                                      *)
LEMMA MemoryStep == MemoryInv /\ [MemoryNext]_memoryVars => MemoryInv'
<1> SUFFICES ASSUME MemoryInv, [MemoryNext]_memoryVars
             PROVE  MemoryInv'
  OBVIOUS
<1>1. CASE MemoryNext
  <2>1. ASSUME NEW n \in Sizes, Request("balloon", n)
        PROVE  MemoryInv'
    <3>1. n \in Nat
      BY MemoryAssumption
    <3> QED
      BY <2>1, <3>1, RequestStep
  <2>2. ASSUME NEW d \in Qubes, Request("set_mem", d)
        PROVE  MemoryInv'
    BY <2>2, RequestStep
  <2>3. ASSUME NEW d \in Qubes, CreateDomain(d) \/ Die(d)
        PROVE  MemoryInv'
    BY <2>3, CreateStep, DieStep
  <2>4. ASSUME NEW e \in Doms \cup {"list"}, Take(e)
        PROVE  MemoryInv'
    BY <2>4, TakeStep
  <2>5. ASSUME NEW d \in Doms, SetTarget(d) \/ WaitForDonors(d) \/ Follow(d)
        PROVE  MemoryInv'
    BY <2>5, SetTargetStep, WaitStep, FollowStep
  <2>6. ASSUME NEW d \in Doms, NEW used \in Uses, Report(d, used)
        PROVE  MemoryInv'
    BY <2>6, ReportStep
  <2>7. CASE Serve \/ do_balloon \/ do_balloon_dom
    BY <2>7, ServeStep, DoBalloonStep, DoBalloonDomStep
  <2>8. CASE Disconnect \/ RefreshList \/ Handle \/ WakeUp
    BY <2>8, DisconnectStep, RefreshListStep, HandleStep, WakeUpStep
  <2> QED
    BY <1>1, <2>1, <2>2, <2>3, <2>4, <2>5, <2>6, <2>7, <2>8, Zenon DEF MemoryNext
<1>2. CASE UNCHANGED memoryVars
  BY <1>2, Zenon DEF memoryVars, xen, daemon, MemoryInv, MemoryTypeOK, ClientInv, WatchInv,
     IsTargets, FreshInv, HeardInv, Backed, Claims, Claim, Free
<1> QED
  BY <1>1, <1>2

(* The inductive invariant of the memory manager: who holds the lock, what the*)
(* other thread left behind, and that the last target is the one that Xen has.*)
THEOREM MemoryInvariant == MemorySpec => []MemoryInv
<1>1. MemoryInit => MemoryInv
  BY MemoryInitInv
<1>2. MemoryInv /\ [MemoryNext]_memoryVars => MemoryInv'
  BY MemoryStep
<1> QED
  BY <1>1, <1>2, PTL DEF MemorySpec

(* What set_mem() and the request of a starting qube promise: whatever was   *)
(* granted and may still be claimed is free in Xen, for any number of qubes, any*)
(* sizes, requests and events, but for the two races that Backed excepts.    *)
THEOREM MemoryIsBacked == MemorySpec => []Backed
<1>1. MemoryInv => Backed
  BY DEF MemoryInv
<1> QED
  BY <1>1, MemoryInvariant, PTL

(* The list of a balance is covered by what is free.                         *)
LEMMA HandleCovered ==
  ASSUME MemoryInv
  PROVE  BalanceIsCovered
<1> SUFFICES ASSUME Handle, watch'.stage = "sets"
             PROVE  LET to == watch'.list.to
                        more == [d \in DOMAIN to |-> to[d] - dom'[d].act]
                    IN  \/ \A d \in DOMAIN to : more[d] <= 0
                        \/ Sum(more, DOMAIN to) <= get_free_xen_mem(dom)' - XEN_FREE_MEM_LEFT
  BY Zenon DEF BalanceIsCovered
<1>1. MemoryTypeOK
  BY DEF MemoryInv
<1>2. ~ Done /\ ~ Release
  BY DEF Done, Release, Idle
<1>3. PICK r0 \in [Doms -> States] : do_balance(r0) /\ \A x \in Doms : r0[x].last = dom[x].last
  BY <1>2, HandleBalances
<1>4. PICK r \in [Doms -> States] :
        /\ dom' = r /\ AreMeasured(r)
        /\ \E prev : watch' = Sets("sets", balance(r, get_free_xen_mem(r) - XEN_FREE_MEM_LEFT),
                                   None, Tries, {}, prev)
  BY <1>1, <1>2, <1>3, BalanceIs
<1>5. PICK free, to : /\ free = get_free_xen_mem(r) - XEN_FREE_MEM_LEFT
                      /\ to = balance(r, free).to
  OBVIOUS
<1>6. free \in Int
  BY <1>1, <1>5, UnclaimedType, MemoryAssumption
<1>7. watch'.list.to = to
  BY <1>4, <1>5 DEF Sets
<1>8. get_free_xen_mem(dom)' - XEN_FREE_MEM_LEFT = free
  <2>1. UNCHANGED <<current, alive, known>>
    BY DEF Handle, xen
  <2>2. get_free_xen_mem(dom)' = get_free_xen_mem(r)
    BY <1>4, <2>1, Zenon DEF get_free_xen_mem, Free, Unclaimed
  <2> QED
    BY <1>5, <2>2
<1>9. PICK more : more = [d \in DOMAIN to |-> to[d] - r[d].act]
  BY Zenon
<1>10. (\A d \in DOMAIN to : to[d] <= r[d].act) \/ Sum(more, DOMAIN to) <= free
  BY <1>4, <1>5, <1>6, <1>9, BalanceFits, Zenon
<1>11. ASSUME \A d \in DOMAIN to : to[d] <= r[d].act
       PROVE  \A d \in DOMAIN to : more[d] <= 0
  <2>1. ASSUME NEW d \in DOMAIN to
        PROVE  more[d] <= 0
    <3>1. DOMAIN to \subseteq Counted(r) /\ to \in [DOMAIN to -> Int]
      BY <1>4, <1>5, <1>6, BalanceTargets
    <3>2. to[d] \in Int /\ r[d].act \in Int
      BY <1>4, <3>1, SpareType
    <3> QED
      BY <1>9, <1>11, <3>2
  <2> QED
    BY <2>1
<1> QED
  BY <1>4, <1>7, <1>8, <1>9, <1>10, <1>11, Zenon

(* The targets that do_balloon() sets give back what the request misses.     *)
LEMMA LoopAsksForAll ==
  ASSUME MemoryInv
  PROVE  AsksForAll
<1> SUFFICES ASSUME do_balloon, client'.stage = "loop"
             PROVE  LET had == client'.prev
                        missing == client.size + XEN_FREE_MEM_LEFT
                                     - get_free_xen_mem(refresh_mem_actual(dom, Doms))
                    IN  Sum([d \in DOMAIN had |-> had[d] - dom'[d].last], DOMAIN had) >= missing
  BY Zenon DEF AsksForAll
<1>1. MemoryTypeOK /\ ClientInv
  BY DEF MemoryInv
<1>2. client.size \in Nat
  BY <1>1 DEF do_balloon, ClientInv
<1> DEFINE fresh == refresh_mem_actual(dom, Doms)
           free == get_free_xen_mem(fresh)
           size == client.size + XEN_FREE_MEM_LEFT - free
           stuck == {d \in DOMAIN client.prev : client.prev[d] = fresh[d].act}
           r == [d \in Doms |-> IF d \in stuck THEN [fresh[d] EXCEPT !.no_progress = TRUE] ELSE fresh[d]]
           to == balloon(r, size)
<1>3. /\ ~ (free >= client.size + XEN_FREE_MEM_MIN)
      /\ ~ Unmeasured(r, {d \in Doms : ~r[d].no_progress}) /\ to # NoTargets
      /\ mem_set(to, r)
      /\ \E n, ring : client' = Balloons(client.size, n, ring, [d \in DOMAIN to |-> r[d].act])
  <2>1. client' # [stage |-> "granted"] /\ client' # [stage |-> "answered"] /\ client' # Idle
    BY DEF Idle
  <2> QED
    BY <2>1, Zenon DEF do_balloon, Fails, Raises
<1>4. Renewed(fresh, Doms)
  BY <1>1, RefreshIsFresh
<1> HIDE DEF fresh
<1>5. free \in Int
  BY <1>1, <1>4, UnclaimedType DEF Renewed
<1> HIDE DEF stuck
<1>6. Renewed(r, Doms)
  <2>1. TRUE \in BOOLEAN
    OBVIOUS
  <2> QED
    BY <1>4, <2>1, MarkIsFresh, Zenon
<1> HIDE DEF r, free
<1>7. size \in Int /\ size > 0
  <2>1. XEN_FREE_MEM_MIN \in Nat /\ XEN_FREE_MEM_LEFT \in Nat /\ XEN_FREE_MEM_MIN <= XEN_FREE_MEM_LEFT
    BY MemoryAssumption
  <2> QED
    BY <1>2, <1>3, <1>5, <2>1
<1>8. AreMeasured(r)
  BY <1>1, <1>3, <1>6 DEF Renewed, Counted, Unmeasured, MemoryTypeOK, AreMeasured
<1> HIDE DEF size
<1>9. PICK f : f = [d \in DOMAIN to |-> r[d].act - to[d]]
  BY Zenon
<1>10. Sum(f, DOMAIN to) >= size
  BY <1>3, <1>7, <1>8, <1>9, BalloonReaches, Zenon
<1>11. DOMAIN to \subseteq Doms
  BY <1>7, <1>8, BalloonTargets DEF AreMeasured, Counted
<1> HIDE DEF to
<1>12. PICK had : had = client'.prev
  OBVIOUS
<1>13. DOMAIN had = DOMAIN to /\ \A d \in DOMAIN to : had[d] = r[d].act /\ dom'[d].last = to[d]
  <2>1. client'.prev = [d \in DOMAIN to |-> r[d].act]
    BY <1>3 DEF Balloons
  <2>2. \A d \in DOMAIN to : r[d] \in States /\ dom'[d] = [r[d] EXCEPT !.last = to[d]]
    BY <1>3, <1>6, <1>11 DEF mem_set, Renewed
  <2>3. ASSUME NEW d \in DOMAIN to
        PROVE  dom'[d].last = to[d]
    <3>1. PICK u, v : u = r[d] /\ v = [u EXCEPT !.last = to[d]]
      OBVIOUS
    <3>2. u \in States /\ dom'[d] = v
      BY <2>2, <3>1
    <3> QED
      BY <3>1, <3>2 DEF States
  <2> QED
    BY <1>12, <2>1, <2>3
<1>14. [d \in DOMAIN had |-> had[d] - dom'[d].last] = f
  BY <1>9, <1>13
<1> QED
  BY <1>10, <1>12, <1>13, <1>14, Zenon DEF size, free, fresh

(* balance(): the memory that one balance deals out to some domains is there, *)
(* of what is free and what it takes from others, however the shares are     *)
(* rounded and capped, for any number of domains and any measures.           *)
THEOREM BalancesAreCovered == MemorySpec => [][BalanceIsCovered]_memoryVars
<1>1. MemoryInv /\ [MemoryNext]_memoryVars => [BalanceIsCovered]_memoryVars
  BY HandleCovered
<1> QED
  BY <1>1, MemoryInvariant, PTL DEF MemorySpec

(* balloon(): what the donors are asked for together is at least what the    *)
(* request misses, in spite of the rounding: a request is not refused, nor   *)
(* waits in vain, because too little was asked.                              *)
THEOREM DonorsAreAskedForAll == MemorySpec => [][AsksForAll]_memoryVars
<1>1. MemoryInv /\ [MemoryNext]_memoryVars => [AsksForAll]_memoryVars
  BY LoopAsksForAll
<1> QED
  BY <1>1, MemoryInvariant, PTL DEF MemorySpec
==============================================================================
