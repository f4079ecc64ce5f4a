---------------------------- MODULE ZfsVolume_proofs ----------------------------
(***************************************************************************)
(* Proofs about ZfsVolume, for any number of writes, snapshots, clones and *)
(* failures, and any values of revisions_to_keep.                          *)
(***************************************************************************)
EXTENDS ZfsVolume, TLAPS

USE ZfsAssumption DEF ZfsAssumption

ZfsInv == TypeOK /\ CallInv /\ VolumeInv

(* TypeOK but for the flags, which need another prover.                    *)
TypeRest ==
    /\ main \in Wholes \cup {0}
    /\ imp \in Data \cup {0, Torn} /\ tmp \in {0, Foreign}
    /\ snaps \subseteq Snaps /\ made \in 0..MaxSnaps
    /\ cloned \subseteq 1..MaxSnaps
    /\ \A list \in stale : stale = {list} /\ list \subseteq Snaps
    /\ issued \in {"none", "call", "reader"}
    /\ keep \in Keeps
    /\ qube \in {"off", "starting", "stored", "ready", "on", "ended",
                 "recovering"}
    /\ op \in Ops /\ pc \in Pcs /\ todo \subseteq Snaps
    /\ rpc \in ReaderPcs /\ src \in Snaps \cup {NoSnap} /\ rtodo \subseteq Snaps
    /\ last \in 0..MaxData /\ upsets \in 0..MaxUpsets
    /\ committed \in Wholes

(* Every variable keeps its type.                                          *)
LEMMA TypeStep == ZfsInv /\ [Next]_vars => TypeOK'
<1> SUFFICES ASSUME TypeOK, CallInv, VolumeInv, [Next]_vars
             PROVE TypeOK'
  BY DEF ZfsInv
<1>1. CASE Look
  BY <1>1, SMT
    DEF Look, TypeOK, CallInv, VolumeInv, Data, Foreign, Torn, Wholes, Snaps,
        NoSnap, Ops, Pcs, ReaderPcs, pool, domain, callVars, reader, count,
        past
<1>2. CASE Issue
  BY <1>2, SMT
    DEF Issue, Free, Forgetful, TypeOK, CallInv, VolumeInv, Data, Foreign,
        Torn, Wholes, Snaps, NoSnap, Ops, Pcs, ReaderPcs, pool, domain,
        callVars, reader, count, past
<1>3. CASE Raise
  BY <1>3, SMT
    DEF Raise, EndCall, QubeAfter, Upset, Forgetful, TypeOK, CallInv, VolumeInv,
        Data, Foreign, Torn, Wholes, Snaps, NoSnap, Ops, Pcs, ReaderPcs,
        pool, domain, callVars, reader, count, past
<1>4. CASE StartBegin
  BY <1>4, SMT
    DEF StartBegin, StartsWith, Begin, CreateRevision, Surplus, Revisions, Seen, TypeOK,
        CallInv, VolumeInv, Data, Foreign, Torn, Wholes, Snaps, NoSnap,
        Ops, Pcs, ReaderPcs, pool, domain, callVars, reader, count, past
<1>5. CASE Revision
  BY <1>5, SMT
    DEF Revision, Issued, Goto, TakeSnapshot, Snapshot, Surplus, Revisions,
        Seen, TypeOK, CallInv, VolumeInv, Data, Foreign, Torn, Wholes, Snaps,
        NoSnap, Ops, Pcs, ReaderPcs, pool, domain, callVars, reader, count,
        past
<1>6. CASE Purge
  BY <1>6, SMT
    DEF Purge, At, Destroy, TypeOK, CallInv, VolumeInv, Data, Foreign, Torn,
        Wholes, Snaps, NoSnap, Ops, Pcs, ReaderPcs, pool, domain, callVars,
        reader, count, past
<1>7. CASE PurgeEnd
  BY <1>7, SMT
    DEF PurgeEnd, At, Goto, AfterRevision, TypeOK, CallInv, VolumeInv, Data,
        Foreign, Torn, Wholes, Snaps, NoSnap, Ops, Pcs, ReaderPcs, pool,
        domain, callVars, reader, count, past
<1>8. CASE SetDirty
  BY <1>8, SMT
    DEF SetDirty, At, EndCall, QubeAfter, TypeOK, CallInv, VolumeInv, Data,
        Foreign, Torn, Wholes, Snaps, NoSnap, Ops, Pcs, ReaderPcs, pool,
        domain, callVars, reader, count, past
<1>9. CASE StateFile
  BY <1>9, SMT
    DEF StateFile, TypeOK, CallInv, VolumeInv, Data, Foreign, Torn, Wholes,
        Snaps, NoSnap, Ops, Pcs, ReaderPcs, pool, domain, callVars, reader,
        count, past
<1>10. CASE DomainStart
  BY <1>10, SMT
    DEF DomainStart, TypeOK, CallInv, VolumeInv, Data, Foreign, Torn, Wholes,
        Snaps, NoSnap, Ops, Pcs, ReaderPcs, pool, domain, callVars, reader,
        count, past
<1>11. CASE Write
  BY <1>11, SMT
    DEF Write, TypeOK, CallInv, VolumeInv, Data, Foreign, Torn, Wholes,
        Snaps, NoSnap, Ops, Pcs, ReaderPcs, pool, domain, callVars, reader,
        count, past
<1>12. CASE DomainEnds
  BY <1>12, SMT
    DEF DomainEnds, TypeOK, CallInv, VolumeInv, Data, Foreign, Torn, Wholes,
        Snaps, NoSnap, Ops, Pcs, ReaderPcs, pool, domain, callVars, reader,
        count, past
<1>13. CASE StopBegin
  <2>1. dirty' \in BOOLEAN /\ active' \in BOOLEAN /\ doubtful' \in BOOLEAN
    BY <1>13, Zenon
      DEF StopBegin, Begin, TypeOK, pool, domain, callVars, reader, count,
          past
  <2>2. TypeRest'
    BY <1>13, SMT
      DEF StopBegin, Begin, TypeRest, TypeOK, CallInv, VolumeInv, Data,
          Foreign, Torn, Wholes, Snaps, NoSnap, Ops, Pcs, ReaderPcs,
          pool, domain, callVars, reader, count, past
  <2>3. QED
    BY <2>1, <2>2 DEF TypeOK, TypeRest
<1>14. CASE ClearDirty
  <2>1. dirty' \in BOOLEAN /\ active' \in BOOLEAN /\ doubtful' \in BOOLEAN
    BY <1>14, Zenon
      DEF ClearDirty, At, Goto, TypeOK, pool, domain, callVars, reader, count,
          past
  <2>2. TypeRest'
    BY <1>14, SMT
      DEF ClearDirty, At, Goto, TypeRest, TypeOK, CallInv, VolumeInv,
          Data, Foreign, Torn, Wholes, Snaps, NoSnap, Ops, Pcs,
          ReaderPcs, pool, domain, callVars, reader, count, past
  <2>3. QED
    BY <2>1, <2>2 DEF TypeOK, TypeRest
<1>15. CASE List
  BY <1>15, SMT
    DEF List, At, Goto, ListCleans, Cleans, Seen, SnapshotsDisabled, TypeOK,
        CallInv, VolumeInv, Data, Foreign, Torn, Wholes, Snaps, NoSnap,
        Ops, Pcs, ReaderPcs, pool, domain, callVars, reader, count, past
<1>16. CASE MarkClean
  BY <1>16, SMT
    DEF MarkClean, Issued, Goto, TakeSnapshot, Snapshot, TypeOK, CallInv,
        VolumeInv, Data, Foreign, Torn, Wholes, Snaps, NoSnap, Ops, Pcs,
        ReaderPcs, pool, domain, callVars, reader, count, past
<1>17. CASE Drop
  BY <1>17, SMT
    DEF Drop, At, Destroy, TypeOK, CallInv, VolumeInv, Data, Foreign, Torn,
        Wholes, Snaps, NoSnap, Ops, Pcs, ReaderPcs, pool, domain, callVars,
        reader, count, past
<1>18. CASE DropEnd
  BY <1>18, SMT
    DEF DropEnd, At, EndCall, QubeAfter, TypeOK, CallInv, VolumeInv, Data,
        Foreign, Torn, Wholes, Snaps, NoSnap, Ops, Pcs, ReaderPcs, pool,
        domain, callVars, reader, count, past
<1>19. CASE ImportData
  BY <1>19, SMT
    DEF ImportData, MayReplace, Free, TypeOK, CallInv, VolumeInv, Data,
        Foreign, Torn, Wholes, Snaps, NoSnap, Ops, Pcs, ReaderPcs, pool,
        domain, callVars, reader, count, past
<1>20. CASE Upload
  BY <1>20, SMT
    DEF Upload, TypeOK, CallInv, VolumeInv, Data, Foreign, Torn, Wholes,
        Snaps, NoSnap, Ops, Pcs, ReaderPcs, pool, domain, callVars, reader,
        count, past
<1>21. CASE ImportEnd
  BY <1>21, SMT
    DEF ImportEnd, Begin, TypeOK, CallInv, VolumeInv, Data, Foreign, Torn,
        Wholes, Snaps, NoSnap, Ops, Pcs, ReaderPcs, pool, domain, callVars,
        reader, count, past
<1>22. CASE ImportFailed
  BY <1>22, SMT
    DEF ImportFailed, Free, TypeOK, CallInv, VolumeInv, Data, Foreign, Torn,
        Wholes, Snaps, NoSnap, Ops, Pcs, ReaderPcs, pool, domain, callVars,
        reader, count, past
<1>23. CASE CloneBegin
  BY <1>23, SMT
    DEF CloneBegin, Begin, MayReplace, TypeOK, CallInv, VolumeInv, Data,
        Foreign, Torn, Wholes, Snaps, NoSnap, Ops, Pcs, ReaderPcs, pool,
        domain, callVars, reader, count, past
<1>24. CASE Copy
  BY <1>24, SMT
    DEF Copy, At, Goto, TypeOK, CallInv, VolumeInv, Data, Foreign, Torn,
        Wholes, Snaps, NoSnap, Ops, Pcs, ReaderPcs, pool, domain, callVars,
        reader, count, past
<1>25. CASE Replace
  <2>1. dirty' \in BOOLEAN /\ active' \in BOOLEAN /\ doubtful' \in BOOLEAN
    BY <1>25, Zenon
      DEF Replace, At, Goto, TypeOK, pool, domain, callVars, reader, count,
          past
  <2>2. TypeRest'
    BY <1>25, SMT
      DEF Replace, At, Goto, TypeRest, TypeOK, CallInv, VolumeInv, Data,
          Foreign, Torn, Wholes, Snaps, NoSnap, Ops, Pcs, ReaderPcs,
          pool, domain, callVars, reader, count, past
  <2>3. QED
    BY <2>1, <2>2 DEF TypeOK, TypeRest
<1>26. CASE Rename
  BY <1>26, SMT
    DEF Rename, At, Goto, CanWork, CreateRevision, TypeOK, CallInv,
        VolumeInv, Data, Foreign, Torn, Wholes, Snaps, NoSnap, Ops, Pcs,
        ReaderPcs, pool, domain, callVars, reader, count, past
<1>27. CASE RevertBegin
  BY <1>27, SMT
    DEF RevertBegin, MayReplace, Begin, Revisions, Seen, TypeOK, CallInv,
        VolumeInv, Data, Foreign, Torn, Wholes, Snaps, NoSnap, Ops, Pcs,
        ReaderPcs, pool, domain, callVars, reader, count, past
<1>28. CASE Rollback
  BY <1>28, SMT
    DEF Rollback, Issued, Goto, TypeOK, CallInv, VolumeInv, Data, Foreign,
        Torn, Wholes, Snaps, NoSnap, Ops, Pcs, ReaderPcs, pool, domain,
        callVars, reader, count, past
<1>29. CASE RemoveRevision
  BY <1>29, SMT
    DEF RemoveRevision, At, Goto, Destroy, TypeOK, CallInv, VolumeInv, Data,
        Foreign, Torn, Wholes, Snaps, NoSnap, Ops, Pcs, ReaderPcs, pool,
        domain, callVars, reader, count, past
<1>30. CASE ReadBegin
  BY <1>30, SMT
    DEF ReadBegin, ReaderUnchanged, SnapshotsDisabled, Pick, IsSource,
        Newest, Cleans, Revisions, Seen, TypeOK, CallInv, VolumeInv, Data,
        Foreign, Torn, Wholes, Snaps, NoSnap, Ops, Pcs, ReaderPcs, pool,
        domain, callVars, reader, count, past
<1>31. CASE ReadIssue
  BY <1>31, SMT
    DEF ReadIssue, Waits, ReaderUnchanged, TypeOK, CallInv, VolumeInv, Data,
        Foreign, Torn, Wholes, Snaps, NoSnap, Ops, Pcs, ReaderPcs, pool,
        domain, callVars, reader, count, past
<1>32. CASE ReadSnapshot
  BY <1>32, SMT
    DEF ReadSnapshot, TakeSnapshot, Snapshot, ReaderUnchanged, Pick,
        IsSource, Newest, Cleans, Revisions, Seen, TypeOK, CallInv,
        VolumeInv, Data, Foreign, Torn, Wholes, Snaps, NoSnap, Ops, Pcs,
        ReaderPcs, pool, domain, callVars, reader, count, past
<1>33. CASE ReadMark
  BY <1>33, SMT
    DEF ReadMark, TakeSnapshot, Snapshot, ReaderUnchanged, TypeOK, CallInv,
        VolumeInv, Data, Foreign, Torn, Wholes, Snaps, NoSnap, Ops, Pcs,
        ReaderPcs, pool, domain, callVars, reader, count, past
<1>34. CASE ReadClone
  <2>1. src.id \in 1..MaxSnaps
    BY <1>34, SMT DEF ReadClone, Exists, TypeOK, Snaps
  <2>2. rpc' \in ReaderPcs /\ src' \in Snaps \cup {NoSnap}
    BY <1>34 DEF ReadClone, ReaderPcs
  <2>3. UNCHANGED <<main, dirty, imp, tmp, snaps, made, stale, issued, rtodo,
                    doubtful, keep, qube, active, op, pc, todo, last, upsets,
                    committed>>
    BY <1>34 DEF ReadClone, ReaderUnchanged, domain, callVars, count
  <2>4. cloned' \subseteq 1..MaxSnaps
    BY <1>34, <2>1 DEF ReadClone, TypeOK
  <2>5. QED
    BY <2>2, <2>3, <2>4 DEF TypeOK
<1>35. CASE ReadList
  BY <1>35, SMT
    DEF ReadList, Free, SnapshotsDisabled, ReaderUnchanged, Cleans, Seen,
        TypeOK, CallInv, VolumeInv, Data, Foreign, Torn, Wholes, Snaps,
        NoSnap, Ops, Pcs, ReaderPcs, pool, domain, callVars, reader, count,
        past
<1>36. CASE ReadDrop
  <2>1. dirty' \in BOOLEAN /\ active' \in BOOLEAN /\ doubtful' \in BOOLEAN
    BY <1>36, Zenon
      DEF ReadDrop, Free, Destroy, ReaderUnchanged, TypeOK, pool, domain,
          callVars, reader, count, past
  <2>2. TypeRest'
    BY <1>36, SMT
      DEF ReadDrop, Free, Destroy, ReaderUnchanged, TypeRest, TypeOK,
          CallInv, VolumeInv, Data, Foreign, Torn, Wholes, Snaps, NoSnap,
          Ops, Pcs, ReaderPcs, pool, domain, callVars, reader, count, past
  <2>3. QED
    BY <2>1, <2>2 DEF TypeOK, TypeRest
<1>37. CASE ReadRaise
  BY <1>37, SMT
    DEF ReadRaise, Upset, TypeOK, CallInv, VolumeInv, Data, Foreign, Torn,
        Wholes, Snaps, NoSnap, Ops, Pcs, ReaderPcs, pool, domain, callVars,
        reader, count, past
<1>38. CASE CloneRemoved
  BY <1>38, SMT
    DEF CloneRemoved, Free, ReaderUnchanged, TypeOK, CallInv, VolumeInv,
        Data, Foreign, Torn, Wholes, Snaps, NoSnap, Ops, Pcs, ReaderPcs,
        pool, domain, callVars, reader, count, past
<1>39. CASE SetKeep
  BY <1>39, SMT
    DEF SetKeep, Upset, TypeOK, CallInv, VolumeInv, Data, Foreign, Torn,
        Wholes, Snaps, NoSnap, Ops, Pcs, ReaderPcs, pool, domain, callVars,
        reader, count, past
<1>40. CASE Crash
  <2>1. dirty' \in BOOLEAN /\ active' \in BOOLEAN /\ doubtful' \in BOOLEAN
    BY <1>40, Zenon
      DEF Crash, Upset, EndCall, TypeOK, pool, domain, callVars, reader, count,
          past
  <2>2. TypeRest'
    BY <1>40, SMT
      DEF Crash, Upset, EndCall, TypeRest, TypeOK, CallInv, VolumeInv, Data,
          Foreign, Torn, Wholes, Snaps, NoSnap, Ops, Pcs, ReaderPcs,
          pool, domain, callVars, reader, count, past
  <2>3. QED
    BY <2>1, <2>2 DEF TypeOK, TypeRest
<1>41. CASE UNCHANGED vars
  BY <1>41, SMT
    DEF vars, TypeOK, CallInv, VolumeInv, Data, Foreign, Torn, Wholes, Snaps,
        NoSnap, Ops, Pcs, ReaderPcs, pool, domain, callVars, reader, count,
        past
<1>42. QED
  BY <1>1, <1>2, <1>3, <1>4, <1>5, <1>6, <1>7, <1>8, <1>9, <1>10, <1>11,
     <1>12, <1>13, <1>14, <1>15, <1>16, <1>17, <1>18, <1>19, <1>20, <1>21,
     <1>22, <1>23, <1>24, <1>25, <1>26, <1>27, <1>28, <1>29, <1>30, <1>31,
     <1>32, <1>33, <1>34, <1>35, <1>36, <1>37, <1>38, <1>39, <1>40, <1>41
    DEF Next

(* A call goes through its own steps, and ends.                            *)
LEMMA CallStep == ZfsInv /\ [Next]_vars => CallInv'
<1> SUFFICES ASSUME CallInv, VolumeInv, [Next]_vars
             PROVE CallInv'
  BY DEF ZfsInv
<1>1. CASE Look
  BY <1>1, SMT
    DEF Look, CallInv, VolumeInv, Forgetful, pool, domain, callVars, reader,
        count, past
<1>2. CASE Issue
  BY <1>2, SMT
    DEF Issue, Free, Forgetful, CallInv, VolumeInv, pool, domain, callVars,
        reader, count, past
<1>3. CASE Raise
  BY <1>3, SMT
    DEF Raise, EndCall, QubeAfter, Upset, Forgetful, CallInv, VolumeInv, pool,
        domain, callVars, reader, count, past
<1>4. CASE StartBegin
  BY <1>4, SMT
    DEF StartBegin, StartsWith, Begin, CreateRevision, Surplus, Revisions, Seen,
        CallInv, VolumeInv, Forgetful, pool, domain, callVars, reader, count,
        past
<1>5. CASE Revision
  BY <1>5, SMT
    DEF Revision, Issued, Goto, TakeSnapshot, Snapshot, Surplus, Revisions,
        Seen, CallInv, VolumeInv, Forgetful, pool, domain, callVars, reader,
        count, past
<1>6. CASE Purge
  BY <1>6, SMT
    DEF Purge, At, Destroy, CallInv, VolumeInv, Forgetful, pool, domain,
        callVars, reader, count, past
<1>7. CASE PurgeEnd
  BY <1>7, SMT
    DEF PurgeEnd, At, Goto, AfterRevision, CallInv, VolumeInv, Forgetful,
        pool, domain, callVars, reader, count, past
<1>8. CASE SetDirty
  BY <1>8, SMT
    DEF SetDirty, At, EndCall, QubeAfter, CallInv, VolumeInv, Forgetful, pool,
        domain, callVars, reader, count, past
<1>9. CASE StateFile
  BY <1>9, SMT
    DEF StateFile, CallInv, VolumeInv, Forgetful, pool, domain, callVars,
        reader, count, past
<1>10. CASE DomainStart
  BY <1>10, SMT
    DEF DomainStart, CallInv, VolumeInv, Forgetful, pool, domain, callVars,
        reader, count, past
<1>11. CASE Write
  BY <1>11, SMT
    DEF Write, CallInv, VolumeInv, Forgetful, pool, domain, callVars, reader,
        count, past
<1>12. CASE DomainEnds
  BY <1>12, SMT
    DEF DomainEnds, CallInv, VolumeInv, Forgetful, pool, domain, callVars,
        reader, count, past
<1>13. CASE StopBegin
  BY <1>13, SMT
    DEF StopBegin, Begin, CallInv, VolumeInv, Forgetful, pool, domain, callVars,
        reader, count, past
<1>14. CASE ClearDirty
  BY <1>14, SMT
    DEF ClearDirty, At, Goto, CallInv, VolumeInv, Forgetful, pool, domain,
        callVars, reader, count, past
<1>15. CASE List
  BY <1>15, SMT
    DEF List, At, Goto, ListCleans, Cleans, Seen, SnapshotsDisabled,
        CallInv, VolumeInv, Forgetful, pool, domain, callVars, reader, count,
        past
<1>16. CASE MarkClean
  BY <1>16, SMT
    DEF MarkClean, Issued, Goto, TakeSnapshot, Snapshot, CallInv, VolumeInv,
        Forgetful, pool, domain, callVars, reader, count, past
<1>17. CASE Drop
  BY <1>17, SMT
    DEF Drop, At, Destroy, CallInv, VolumeInv, Forgetful, pool, domain,
        callVars, reader, count, past
<1>18. CASE DropEnd
  BY <1>18, SMT
    DEF DropEnd, At, EndCall, QubeAfter, CallInv, VolumeInv, Forgetful, pool,
        domain, callVars, reader, count, past
<1>19. CASE ImportData
  BY <1>19, SMT
    DEF ImportData, MayReplace, Free, CallInv, VolumeInv, Forgetful, pool,
        domain, callVars, reader, count, past
<1>20. CASE Upload
  BY <1>20, SMT
    DEF Upload, CallInv, VolumeInv, Forgetful, pool, domain, callVars, reader,
        count, past
<1>21. CASE ImportEnd
  BY <1>21, SMT
    DEF ImportEnd, Begin, CallInv, VolumeInv, Forgetful, pool, domain, callVars,
        reader, count, past
<1>22. CASE ImportFailed
  BY <1>22, SMT
    DEF ImportFailed, Free, CallInv, VolumeInv, Forgetful, pool, domain,
        callVars, reader, count, past
<1>23. CASE CloneBegin
  BY <1>23, SMT
    DEF CloneBegin, Begin, MayReplace, CallInv, VolumeInv, Forgetful, pool,
        domain, callVars, reader, count, past
<1>24. CASE Copy
  BY <1>24, SMT
    DEF Copy, At, Goto, CallInv, VolumeInv, Forgetful, pool, domain, callVars,
        reader, count, past
<1>25. CASE Replace
  BY <1>25, SMT
    DEF Replace, At, Goto, CallInv, VolumeInv, Forgetful, pool, domain,
        callVars, reader, count, past
<1>26. CASE Rename
  BY <1>26, SMT
    DEF Rename, At, Goto, CanWork, CreateRevision, CallInv, VolumeInv,
        Forgetful, pool, domain, callVars, reader, count, past
<1>27. CASE RevertBegin
  BY <1>27, SMT
    DEF RevertBegin, MayReplace, Begin, Revisions, Seen, CallInv, VolumeInv,
        Forgetful, pool, domain, callVars, reader, count, past
<1>28. CASE Rollback
  BY <1>28, SMT
    DEF Rollback, Issued, Goto, CallInv, VolumeInv, Forgetful, pool, domain,
        callVars, reader, count, past
<1>29. CASE RemoveRevision
  BY <1>29, SMT
    DEF RemoveRevision, At, Goto, Destroy, CallInv, VolumeInv, Forgetful,
        pool, domain, callVars, reader, count, past
<1>30. CASE ReadBegin
  BY <1>30, SMT
    DEF ReadBegin, ReaderUnchanged, SnapshotsDisabled, Pick, IsSource,
        Newest, Cleans, Revisions, Seen, CallInv, VolumeInv, Forgetful,
        pool, domain, callVars, reader, count, past
<1>31. CASE ReadIssue
  BY <1>31, SMT
    DEF ReadIssue, Waits, ReaderUnchanged, CallInv, VolumeInv, Forgetful,
        pool, domain, callVars, reader, count, past
<1>32. CASE ReadSnapshot
  BY <1>32, SMT
    DEF ReadSnapshot, TakeSnapshot, Snapshot, ReaderUnchanged, Pick,
        IsSource, Newest, Cleans, Revisions, Seen, CallInv, VolumeInv,
        Forgetful, pool, domain, callVars, reader, count, past
<1>33. CASE ReadMark
  BY <1>33, SMT
    DEF ReadMark, TakeSnapshot, Snapshot, ReaderUnchanged, CallInv,
        VolumeInv, Forgetful, pool, domain, callVars, reader, count, past
<1>34. CASE ReadClone
  BY <1>34, SMT
    DEF ReadClone, Exists, SnapshotsDisabled, ReaderUnchanged, CallInv,
        VolumeInv, Forgetful, pool, domain, callVars, reader, count, past
<1>35. CASE ReadList
  BY <1>35, SMT
    DEF ReadList, Free, SnapshotsDisabled, ReaderUnchanged, Cleans, Seen,
        CallInv, VolumeInv, Forgetful, pool, domain, callVars, reader, count,
        past
<1>36. CASE ReadDrop
  BY <1>36, SMT
    DEF ReadDrop, Free, Destroy, ReaderUnchanged, CallInv, VolumeInv,
        Forgetful, pool, domain, callVars, reader, count, past
<1>37. CASE ReadRaise
  BY <1>37, SMT
    DEF ReadRaise, Upset, CallInv, VolumeInv, Forgetful, pool, domain, callVars,
        reader, count, past
<1>38. CASE CloneRemoved
  BY <1>38, SMT
    DEF CloneRemoved, Free, ReaderUnchanged, CallInv, VolumeInv, Forgetful,
        pool, domain, callVars, reader, count, past
<1>39. CASE SetKeep
  BY <1>39, SMT
    DEF SetKeep, Upset, CallInv, VolumeInv, Forgetful, pool, domain, callVars,
        reader, count, past
<1>40. CASE Crash
  BY <1>40, SMT
    DEF Crash, Upset, EndCall, CallInv, VolumeInv, Forgetful, pool, domain,
        callVars, reader, count, past
<1>41. CASE UNCHANGED vars
  BY <1>41, SMT
    DEF vars, CallInv, VolumeInv, Forgetful, pool, domain, callVars, reader,
        count, past
<1>42. QED
  BY <1>1, <1>2, <1>3, <1>4, <1>5, <1>6, <1>7, <1>8, <1>9, <1>10, <1>11,
     <1>12, <1>13, <1>14, <1>15, <1>16, <1>17, <1>18, <1>19, <1>20, <1>21,
     <1>22, <1>23, <1>24, <1>25, <1>26, <1>27, <1>28, <1>29, <1>30, <1>31,
     <1>32, <1>33, <1>34, <1>35, <1>36, <1>37, <1>38, <1>39, <1>40, <1>41
    DEF Next

(* No call has the volume while a domain runs on it.                       *)
LEMMA VolumeStep == ZfsInv /\ [Next]_vars => VolumeInv'
<1> SUFFICES ASSUME TypeOK, CallInv, VolumeInv, [Next]_vars
             PROVE VolumeInv'
  BY DEF ZfsInv
<1>1. CASE Look
  BY <1>1, SMT
    DEF Look, TypeOK, CallInv, VolumeInv, Forgetful, Data, Foreign, Torn,
        Wholes, Snaps, pool, domain, callVars, reader, count, past
<1>2. CASE Issue
  BY <1>2, SMT
    DEF Issue, Free, Forgetful, TypeOK, CallInv, VolumeInv, Data, Foreign,
        Torn, Wholes, Snaps, pool, domain, callVars, reader, count, past
<1>3. CASE Raise
  BY <1>3, SMT
    DEF Raise, EndCall, QubeAfter, Upset, Forgetful, TypeOK, CallInv, VolumeInv,
        Data, Foreign, Torn, Wholes, Snaps, pool, domain, callVars, reader,
        count, past
<1>4. CASE StartBegin
  BY <1>4, SMT
    DEF StartBegin, StartsWith, Begin, CreateRevision, Surplus, Revisions, Seen, TypeOK,
        CallInv, VolumeInv, Forgetful, Data, Foreign, Torn, Wholes, Snaps,
        pool, domain, callVars, reader, count, past
<1>5. CASE Revision
  BY <1>5, SMT
    DEF Revision, Issued, Goto, TakeSnapshot, Snapshot, Surplus, Revisions,
        Seen, TypeOK, CallInv, VolumeInv, Forgetful, Data, Foreign, Torn,
        Wholes, Snaps, pool, domain, callVars, reader, count, past
<1>6. CASE Purge
  BY <1>6, SMT
    DEF Purge, At, Destroy, TypeOK, CallInv, VolumeInv, Forgetful, Data,
        Foreign, Torn, Wholes, Snaps, pool, domain, callVars, reader, count, past
<1>7. CASE PurgeEnd
  BY <1>7, SMT
    DEF PurgeEnd, At, Goto, AfterRevision, TypeOK, CallInv, VolumeInv,
        Forgetful, Data, Foreign, Torn, Wholes, Snaps, pool, domain, callVars,
        reader, count, past
<1>8. CASE SetDirty
  BY <1>8, SMT
    DEF SetDirty, At, EndCall, QubeAfter, TypeOK, CallInv, VolumeInv, Forgetful,
        Data, Foreign, Torn, Wholes, Snaps, pool, domain, callVars, reader,
        count, past
<1>9. CASE StateFile
  BY <1>9, SMT
    DEF StateFile, TypeOK, CallInv, VolumeInv, Forgetful, Data, Foreign,
        Torn, Wholes, Snaps, pool, domain, callVars, reader, count, past
<1>10. CASE DomainStart
  BY <1>10, SMT
    DEF DomainStart, TypeOK, CallInv, VolumeInv, Forgetful, Data, Foreign,
        Torn, Wholes, Snaps, pool, domain, callVars, reader, count, past
<1>11. CASE Write
  BY <1>11, SMT
    DEF Write, TypeOK, CallInv, VolumeInv, Forgetful, Data, Foreign, Torn,
        Wholes, Snaps, pool, domain, callVars, reader, count, past
<1>12. CASE DomainEnds
  BY <1>12, SMT
    DEF DomainEnds, TypeOK, CallInv, VolumeInv, Forgetful, Data, Foreign,
        Torn, Wholes, Snaps, pool, domain, callVars, reader, count, past
<1>13. CASE StopBegin
  BY <1>13, SMT
    DEF StopBegin, Begin, TypeOK, CallInv, VolumeInv, Forgetful, Data,
        Foreign, Torn, Wholes, Snaps, pool, domain, callVars, reader, count, past
<1>14. CASE ClearDirty
  BY <1>14, SMT
    DEF ClearDirty, At, Goto, TypeOK, CallInv, VolumeInv, Forgetful, Data,
        Foreign, Torn, Wholes, Snaps, pool, domain, callVars, reader, count, past
<1>15. CASE List
  BY <1>15, SMT
    DEF List, At, Goto, ListCleans, Cleans, Seen, SnapshotsDisabled, TypeOK,
        CallInv, VolumeInv, Forgetful, Data, Foreign, Torn, Wholes, Snaps,
        pool, domain, callVars, reader, count, past
<1>16. CASE MarkClean
  BY <1>16, SMT
    DEF MarkClean, Issued, Goto, TakeSnapshot, Snapshot, TypeOK, CallInv,
        VolumeInv, Forgetful, Data, Foreign, Torn, Wholes, Snaps, pool,
        domain, callVars, reader, count, past
<1>17. CASE Drop
  BY <1>17, SMT
    DEF Drop, At, Destroy, TypeOK, CallInv, VolumeInv, Forgetful, Data,
        Foreign, Torn, Wholes, Snaps, pool, domain, callVars, reader, count, past
<1>18. CASE DropEnd
  BY <1>18, SMT
    DEF DropEnd, At, EndCall, QubeAfter, TypeOK, CallInv, VolumeInv, Forgetful,
        Data, Foreign, Torn, Wholes, Snaps, pool, domain, callVars, reader,
        count, past
<1>19. CASE ImportData
  BY <1>19, SMT
    DEF ImportData, MayReplace, Free, TypeOK, CallInv, VolumeInv, Forgetful,
        Data, Foreign, Torn, Wholes, Snaps, pool, domain, callVars, reader,
        count, past
<1>20. CASE Upload
  BY <1>20, SMT
    DEF Upload, TypeOK, CallInv, VolumeInv, Forgetful, Data, Foreign, Torn,
        Wholes, Snaps, pool, domain, callVars, reader, count, past
<1>21. CASE ImportEnd
  BY <1>21, SMT
    DEF ImportEnd, Begin, TypeOK, CallInv, VolumeInv, Forgetful, Data,
        Foreign, Torn, Wholes, Snaps, pool, domain, callVars, reader, count, past
<1>22. CASE ImportFailed
  BY <1>22, SMT
    DEF ImportFailed, Free, TypeOK, CallInv, VolumeInv, Forgetful, Data,
        Foreign, Torn, Wholes, Snaps, pool, domain, callVars, reader, count, past
<1>23. CASE CloneBegin
  BY <1>23, SMT
    DEF CloneBegin, Begin, MayReplace, TypeOK, CallInv, VolumeInv,
        Forgetful, Data, Foreign, Torn, Wholes, Snaps, pool, domain, callVars,
        reader, count, past
<1>24. CASE Copy
  BY <1>24, SMT
    DEF Copy, At, Goto, TypeOK, CallInv, VolumeInv, Forgetful, Data,
        Foreign, Torn, Wholes, Snaps, pool, domain, callVars, reader, count, past
<1>25. CASE Replace
  BY <1>25, SMT
    DEF Replace, At, Goto, TypeOK, CallInv, VolumeInv, Forgetful, Data,
        Foreign, Torn, Wholes, Snaps, pool, domain, callVars, reader, count, past
<1>26. CASE Rename
  BY <1>26, SMT
    DEF Rename, At, Goto, CanWork, CreateRevision, TypeOK, CallInv,
        VolumeInv, Forgetful, Data, Foreign, Torn, Wholes, Snaps, pool,
        domain, callVars, reader, count, past
<1>27. CASE RevertBegin
  BY <1>27, SMT
    DEF RevertBegin, MayReplace, Begin, Revisions, Seen, TypeOK, CallInv,
        VolumeInv, Forgetful, Data, Foreign, Torn, Wholes, Snaps, pool,
        domain, callVars, reader, count, past
<1>28. CASE Rollback
  BY <1>28, SMT
    DEF Rollback, Issued, Goto, TypeOK, CallInv, VolumeInv, Forgetful, Data,
        Foreign, Torn, Wholes, Snaps, pool, domain, callVars, reader, count, past
<1>29. CASE RemoveRevision
  BY <1>29, SMT
    DEF RemoveRevision, At, Goto, Destroy, TypeOK, CallInv, VolumeInv,
        Forgetful, Data, Foreign, Torn, Wholes, Snaps, pool, domain, callVars,
        reader, count, past
<1>30. CASE ReadBegin
  BY <1>30, SMT
    DEF ReadBegin, ReaderUnchanged, SnapshotsDisabled, Pick, IsSource,
        Newest, Cleans, Revisions, Seen, TypeOK, CallInv, VolumeInv,
        Forgetful, Data, Foreign, Torn, Wholes, Snaps, pool, domain, callVars,
        reader, count, past
<1>31. CASE ReadIssue
  BY <1>31, SMT
    DEF ReadIssue, Waits, ReaderUnchanged, TypeOK, CallInv, VolumeInv,
        Forgetful, Data, Foreign, Torn, Wholes, Snaps, pool, domain, callVars,
        reader, count, past
<1>32. CASE ReadSnapshot
  BY <1>32, SMT
    DEF ReadSnapshot, TakeSnapshot, Snapshot, ReaderUnchanged, Pick,
        IsSource, Newest, Cleans, Revisions, Seen, TypeOK, CallInv,
        VolumeInv, Forgetful, Data, Foreign, Torn, Wholes, Snaps, pool,
        domain, callVars, reader, count, past
<1>33. CASE ReadMark
  BY <1>33, SMT
    DEF ReadMark, TakeSnapshot, Snapshot, ReaderUnchanged, TypeOK, CallInv,
        VolumeInv, Forgetful, Data, Foreign, Torn, Wholes, Snaps, pool,
        domain, callVars, reader, count, past
<1>34. CASE ReadClone
  BY <1>34, SMT
    DEF ReadClone, Exists, SnapshotsDisabled, ReaderUnchanged, TypeOK,
        CallInv, VolumeInv, Forgetful, Data, Foreign, Torn, Wholes, Snaps,
        pool, domain, callVars, reader, count, past
<1>35. CASE ReadList
  BY <1>35, SMT
    DEF ReadList, Free, SnapshotsDisabled, ReaderUnchanged, Cleans, Seen,
        TypeOK, CallInv, VolumeInv, Forgetful, Data, Foreign, Torn, Wholes,
        Snaps, pool, domain, callVars, reader, count, past
<1>36. CASE ReadDrop
  BY <1>36, SMT
    DEF ReadDrop, Free, Destroy, ReaderUnchanged, TypeOK, CallInv,
        VolumeInv, Forgetful, Data, Foreign, Torn, Wholes, Snaps, pool,
        domain, callVars, reader, count, past
<1>37. CASE ReadRaise
  BY <1>37, SMT
    DEF ReadRaise, Upset, TypeOK, CallInv, VolumeInv, Forgetful, Data,
        Foreign, Torn, Wholes, Snaps, pool, domain, callVars, reader, count, past
<1>38. CASE CloneRemoved
  BY <1>38, SMT
    DEF CloneRemoved, Free, ReaderUnchanged, TypeOK, CallInv, VolumeInv,
        Forgetful, Data, Foreign, Torn, Wholes, Snaps, pool, domain, callVars,
        reader, count, past
<1>39. CASE SetKeep
  BY <1>39, SMT
    DEF SetKeep, Upset, TypeOK, CallInv, VolumeInv, Forgetful, Data,
        Foreign, Torn, Wholes, Snaps, pool, domain, callVars, reader, count, past
<1>40. CASE Crash
  BY <1>40, SMT
    DEF Crash, Upset, EndCall, TypeOK, CallInv, VolumeInv, Forgetful, Data,
        Foreign, Torn, Wholes, Snaps, pool, domain, callVars, reader, count, past
<1>41. CASE UNCHANGED vars
  BY <1>41, SMT
    DEF vars, TypeOK, CallInv, VolumeInv, Forgetful, Data, Foreign, Torn,
        Wholes, Snaps, pool, domain, callVars, reader, count, past
<1>42. QED
  BY <1>1, <1>2, <1>3, <1>4, <1>5, <1>6, <1>7, <1>8, <1>9, <1>10, <1>11,
     <1>12, <1>13, <1>14, <1>15, <1>16, <1>17, <1>18, <1>19, <1>20, <1>21,
     <1>22, <1>23, <1>24, <1>25, <1>26, <1>27, <1>28, <1>29, <1>30, <1>31,
     <1>32, <1>33, <1>34, <1>35, <1>36, <1>37, <1>38, <1>39, <1>40, <1>41
    DEF Next

LEMMA ZfsInvariant == Spec => []ZfsInv
<1>1. Init => ZfsInv
  <2> SUFFICES ASSUME Init PROVE TypeOK /\ CallInv /\ VolumeInv
    BY DEF ZfsInv
  <2>1. dirty \in BOOLEAN /\ active \in BOOLEAN /\ doubtful \in BOOLEAN
    BY Zenon DEF Init
  <2>2. TypeRest /\ CallInv /\ VolumeInv
    BY SMT DEF Init, TypeRest, CallInv, VolumeInv, Forgetful, Snapshot,
               Data, Foreign, Torn, Wholes, Snaps, NoSnap, Ops, Pcs, ReaderPcs
  <2>3. QED
    BY <2>1, <2>2 DEF TypeOK, TypeRest
<1>2. ZfsInv /\ [Next]_vars => ZfsInv'
  BY TypeStep, CallStep, VolumeStep DEF ZfsInv
<1> QED
  BY <1>1, <1>2, PTL DEF Spec

(* The volume goes only when what takes its place is whole.                *)
LEMMA ReplaceStep ==
    ZfsInv /\ [Next]_vars => (main # 0 /\ main' = 0 => imp \in Data \/ tmp # 0)
<1> SUFFICES ASSUME TypeOK, CallInv, VolumeInv, [Next]_vars, main # 0, main' = 0
             PROVE imp \in Data \/ tmp # 0
  BY DEF ZfsInv
<1>1. CASE Look
  BY <1>1, SMT
    DEF Look, TypeOK, CallInv, VolumeInv, Data, Foreign, Torn, Wholes, Snaps,
        pool, domain, callVars, reader, count, past
<1>2. CASE Issue
  BY <1>2, SMT
    DEF Issue, Free, Forgetful, TypeOK, CallInv, VolumeInv, Data, Foreign,
        Torn, Wholes, Snaps, pool, domain, callVars, reader, count, past
<1>3. CASE Raise
  BY <1>3, SMT
    DEF Raise, EndCall, QubeAfter, Upset, Forgetful, TypeOK, CallInv, VolumeInv,
        Data, Foreign, Torn, Wholes, Snaps, pool, domain, callVars, reader,
        count, past
<1>4. CASE StartBegin
  BY <1>4, SMT
    DEF StartBegin, StartsWith, Begin, CreateRevision, Surplus, Revisions, Seen, TypeOK,
        CallInv, VolumeInv, Data, Foreign, Torn, Wholes, Snaps, pool, domain,
        callVars, reader, count, past
<1>5. CASE Revision
  BY <1>5, SMT
    DEF Revision, Issued, Goto, TakeSnapshot, Snapshot, Surplus, Revisions,
        Seen, TypeOK, CallInv, VolumeInv, Data, Foreign, Torn, Wholes, Snaps,
        pool, domain, callVars, reader, count, past
<1>6. CASE Purge
  BY <1>6, SMT
    DEF Purge, At, Destroy, TypeOK, CallInv, VolumeInv, Data, Foreign, Torn,
        Wholes, Snaps, pool, domain, callVars, reader, count, past
<1>7. CASE PurgeEnd
  BY <1>7, SMT
    DEF PurgeEnd, At, Goto, AfterRevision, TypeOK, CallInv, VolumeInv, Data,
        Foreign, Torn, Wholes, Snaps, pool, domain, callVars, reader, count, past
<1>8. CASE SetDirty
  BY <1>8, SMT
    DEF SetDirty, At, EndCall, QubeAfter, TypeOK, CallInv, VolumeInv, Data,
        Foreign, Torn, Wholes, Snaps, pool, domain, callVars, reader, count, past
<1>9. CASE StateFile
  BY <1>9, SMT
    DEF StateFile, TypeOK, CallInv, VolumeInv, Data, Foreign, Torn, Wholes,
        Snaps, pool, domain, callVars, reader, count, past
<1>10. CASE DomainStart
  BY <1>10, SMT
    DEF DomainStart, TypeOK, CallInv, VolumeInv, Data, Foreign, Torn, Wholes,
        Snaps, pool, domain, callVars, reader, count, past
<1>11. CASE Write
  BY <1>11, SMT
    DEF Write, TypeOK, CallInv, VolumeInv, Data, Foreign, Torn, Wholes,
        Snaps, pool, domain, callVars, reader, count, past
<1>12. CASE DomainEnds
  BY <1>12, SMT
    DEF DomainEnds, TypeOK, CallInv, VolumeInv, Data, Foreign, Torn, Wholes,
        Snaps, pool, domain, callVars, reader, count, past
<1>13. CASE StopBegin
  BY <1>13, SMT
    DEF StopBegin, Begin, TypeOK, CallInv, VolumeInv, Data, Foreign, Torn,
        Wholes, Snaps, pool, domain, callVars, reader, count, past
<1>14. CASE ClearDirty
  BY <1>14, SMT
    DEF ClearDirty, At, Goto, TypeOK, CallInv, VolumeInv, Data, Foreign,
        Torn, Wholes, Snaps, pool, domain, callVars, reader, count, past
<1>15. CASE List
  BY <1>15, SMT
    DEF List, At, Goto, ListCleans, Cleans, Seen, SnapshotsDisabled, TypeOK,
        CallInv, VolumeInv, Data, Foreign, Torn, Wholes, Snaps, pool, domain,
        callVars, reader, count, past
<1>16. CASE MarkClean
  BY <1>16, SMT
    DEF MarkClean, Issued, Goto, TakeSnapshot, Snapshot, TypeOK, CallInv,
        VolumeInv, Data, Foreign, Torn, Wholes, Snaps, pool, domain, callVars,
        reader, count, past
<1>17. CASE Drop
  BY <1>17, SMT
    DEF Drop, At, Destroy, TypeOK, CallInv, VolumeInv, Data, Foreign, Torn,
        Wholes, Snaps, pool, domain, callVars, reader, count, past
<1>18. CASE DropEnd
  BY <1>18, SMT
    DEF DropEnd, At, EndCall, QubeAfter, TypeOK, CallInv, VolumeInv, Data,
        Foreign, Torn, Wholes, Snaps, pool, domain, callVars, reader, count, past
<1>19. CASE ImportData
  BY <1>19, SMT
    DEF ImportData, MayReplace, Free, TypeOK, CallInv, VolumeInv, Data,
        Foreign, Torn, Wholes, Snaps, pool, domain, callVars, reader, count, past
<1>20. CASE Upload
  BY <1>20, SMT
    DEF Upload, TypeOK, CallInv, VolumeInv, Data, Foreign, Torn, Wholes,
        Snaps, pool, domain, callVars, reader, count, past
<1>21. CASE ImportEnd
  BY <1>21, SMT
    DEF ImportEnd, Begin, TypeOK, CallInv, VolumeInv, Data, Foreign, Torn,
        Wholes, Snaps, pool, domain, callVars, reader, count, past
<1>22. CASE ImportFailed
  BY <1>22, SMT
    DEF ImportFailed, Free, TypeOK, CallInv, VolumeInv, Data, Foreign, Torn,
        Wholes, Snaps, pool, domain, callVars, reader, count, past
<1>23. CASE CloneBegin
  BY <1>23, SMT
    DEF CloneBegin, Begin, MayReplace, TypeOK, CallInv, VolumeInv, Data,
        Foreign, Torn, Wholes, Snaps, pool, domain, callVars, reader, count, past
<1>24. CASE Copy
  BY <1>24, SMT
    DEF Copy, At, Goto, TypeOK, CallInv, VolumeInv, Data, Foreign, Torn,
        Wholes, Snaps, pool, domain, callVars, reader, count, past
<1>25. CASE Replace
  BY <1>25, SMT
    DEF Replace, At, Goto, TypeOK, CallInv, VolumeInv, Data, Foreign, Torn,
        Wholes, Snaps, pool, domain, callVars, reader, count, past
<1>26. CASE Rename
  BY <1>26, SMT
    DEF Rename, At, Goto, CanWork, CreateRevision, TypeOK, CallInv,
        VolumeInv, Data, Foreign, Torn, Wholes, Snaps, pool, domain, callVars,
        reader, count, past
<1>27. CASE RevertBegin
  BY <1>27, SMT
    DEF RevertBegin, MayReplace, Begin, Revisions, Seen, TypeOK, CallInv,
        VolumeInv, Data, Foreign, Torn, Wholes, Snaps, pool, domain, callVars,
        reader, count, past
<1>28. CASE Rollback
  BY <1>28, SMT
    DEF Rollback, Issued, Goto, TypeOK, CallInv, VolumeInv, Data, Foreign,
        Torn, Wholes, Snaps, pool, domain, callVars, reader, count, past
<1>29. CASE RemoveRevision
  BY <1>29, SMT
    DEF RemoveRevision, At, Goto, Destroy, TypeOK, CallInv, VolumeInv, Data,
        Foreign, Torn, Wholes, Snaps, pool, domain, callVars, reader, count, past
<1>30. CASE ReadBegin
  BY <1>30, SMT
    DEF ReadBegin, ReaderUnchanged, SnapshotsDisabled, Pick, IsSource,
        Newest, Cleans, Revisions, Seen, TypeOK, CallInv, VolumeInv, Data,
        Foreign, Torn, Wholes, Snaps, pool, domain, callVars, reader, count, past
<1>31. CASE ReadIssue
  BY <1>31, SMT
    DEF ReadIssue, Waits, ReaderUnchanged, TypeOK, CallInv, VolumeInv, Data,
        Foreign, Torn, Wholes, Snaps, pool, domain, callVars, reader, count, past
<1>32. CASE ReadSnapshot
  BY <1>32, SMT
    DEF ReadSnapshot, TakeSnapshot, Snapshot, ReaderUnchanged, Pick,
        IsSource, Newest, Cleans, Revisions, Seen, TypeOK, CallInv,
        VolumeInv, Data, Foreign, Torn, Wholes, Snaps, pool, domain, callVars,
        reader, count, past
<1>33. CASE ReadMark
  BY <1>33, SMT
    DEF ReadMark, TakeSnapshot, Snapshot, ReaderUnchanged, TypeOK, CallInv,
        VolumeInv, Data, Foreign, Torn, Wholes, Snaps, pool, domain, callVars,
        reader, count, past
<1>34. CASE ReadClone
  BY <1>34, SMT
    DEF ReadClone, Exists, SnapshotsDisabled, ReaderUnchanged, TypeOK,
        CallInv, VolumeInv, Data, Foreign, Torn, Wholes, Snaps, pool, domain,
        callVars, reader, count, past
<1>35. CASE ReadList
  BY <1>35, SMT
    DEF ReadList, Free, SnapshotsDisabled, ReaderUnchanged, Cleans, Seen,
        TypeOK, CallInv, VolumeInv, Data, Foreign, Torn, Wholes, Snaps, pool,
        domain, callVars, reader, count, past
<1>36. CASE ReadDrop
  BY <1>36, SMT
    DEF ReadDrop, Free, Destroy, ReaderUnchanged, TypeOK, CallInv,
        VolumeInv, Data, Foreign, Torn, Wholes, Snaps, pool, domain, callVars,
        reader, count, past
<1>37. CASE ReadRaise
  BY <1>37, SMT
    DEF ReadRaise, Upset, TypeOK, CallInv, VolumeInv, Data, Foreign, Torn,
        Wholes, Snaps, pool, domain, callVars, reader, count, past
<1>38. CASE CloneRemoved
  BY <1>38, SMT
    DEF CloneRemoved, Free, ReaderUnchanged, TypeOK, CallInv, VolumeInv,
        Data, Foreign, Torn, Wholes, Snaps, pool, domain, callVars, reader,
        count, past
<1>39. CASE SetKeep
  BY <1>39, SMT
    DEF SetKeep, Upset, TypeOK, CallInv, VolumeInv, Data, Foreign, Torn,
        Wholes, Snaps, pool, domain, callVars, reader, count, past
<1>40. CASE Crash
  BY <1>40, SMT
    DEF Crash, Upset, EndCall, TypeOK, CallInv, VolumeInv, Data, Foreign, Torn,
        Wholes, Snaps, pool, domain, callVars, reader, count, past
<1>41. CASE UNCHANGED vars
  BY <1>41, SMT
    DEF vars, TypeOK, CallInv, VolumeInv, Data, Foreign, Torn, Wholes, Snaps,
        pool, domain, callVars, reader, count, past
<1>42. QED
  BY <1>1, <1>2, <1>3, <1>4, <1>5, <1>6, <1>7, <1>8, <1>9, <1>10, <1>11,
     <1>12, <1>13, <1>14, <1>15, <1>16, <1>17, <1>18, <1>19, <1>20, <1>21,
     <1>22, <1>23, <1>24, <1>25, <1>26, <1>27, <1>28, <1>29, <1>30, <1>31,
     <1>32, <1>33, <1>34, <1>35, <1>36, <1>37, <1>38, <1>39, <1>40, <1>41
    DEF Next

(* Whatever fails, no import or clone takes the volume away before what is *)
(* to replace it has come to its end.                                      *)
THEOREM ReplacedWhenReady == Spec => ReplacementReady
  BY ZfsInvariant, ReplaceStep, PTL DEF Spec, ReplacementReady

(* Ids are numbers.                                                         *)
LEMMA KnownIds == TypeRest => \A s \in Known : s.id \in Int
<1> SUFFICES ASSUME TypeRest, NEW s \in Known PROVE s.id \in Int
  OBVIOUS
<1>1. s \in snaps \/ s \in todo \/ s \in rtodo \/ \E list \in stale : s \in list
  BY DEF Known
<1>2. \A list \in stale : list \subseteq Snaps
  BY DEF TypeRest
<1>3. s \in Snaps
  BY <1>1, <1>2 DEF TypeRest
<1> QED
  BY <1>3, SMT DEF Snaps

(* What a step leaves of the snapshots that are known, or adds to them.     *)
LEMMA NothingNew ==
    ASSUME KnownInv, made' = made, Known' \subseteq Known,
           pc' \in {"purge", "rollback", "unrevision"} =>
               \A s \in todo' : s.clean = "revision"
    PROVE KnownInv'
  BY SMT DEF KnownInv

(* A snapshot that is taken gets an id nobody knows.                        *)
LEMMA OneMore ==
    ASSUME NEW k, TypeRest, KnownInv, made' = made + 1,
           Known' \subseteq Known \cup {Snapshot(k, made + 1)},
           pc' \in {"purge", "rollback", "unrevision"} =>
               \A s \in todo' : s.clean = "revision"
    PROVE KnownInv'
<1>1. \A s \in Known : s.id \in Int
  BY KnownIds
<1>2. Snapshot(k, made + 1).id = made + 1 /\ made \in Int
  BY SMT DEF Snapshot, TypeRest
<1> QED
  BY <1>1, <1>2, SMT DEF KnownInv

(* Code sees what is listed.                                                *)
LEMMA SeenIsKnown == Seen \subseteq Known /\ Revisions \subseteq Seen /\ Cleans \subseteq Seen
  BY SMT DEF Seen, Known, Revisions, Cleans

(* Every step keeps what an id means.                                       *)
LEMMA KnownStep == ZfsInv /\ ReadInv /\ [Next]_vars => KnownInv'
<1> SUFFICES ASSUME TypeRest, CallInv, VolumeInv, KnownInv, RestInv, SourceInv, [Next]_vars
             PROVE KnownInv'
  BY DEF ZfsInv, ReadInv, TypeOK, TypeRest
<1>1. CASE Look
  BY <1>1, SMT
    DEF Look, TypeRest, KnownInv, Known, Snaps, vars, pool, domain, callVars,
        reader, count, past
<1>2. CASE Issue
  BY <1>2, SMT
    DEF Issue, Free, Forgetful, TypeRest, KnownInv, Known, Snaps, vars, pool,
        domain, callVars, reader, count, past
<1>3. CASE Raise
  BY <1>3, SMT
    DEF Raise, EndCall, QubeAfter, Upset, Forgetful, TypeRest, KnownInv, Known,
        Snaps, vars, pool, domain, callVars, reader, count, past
<1>4. CASE StartBegin
  <2> todo' \subseteq Seen /\ UNCHANGED <<snaps, stale, rtodo>>
    BY <1>4, SeenIsKnown, SMT
      DEF StartBegin, Begin, Surplus, Surplus, pool, domain, callVars, reader,
          count
  <2>1. Known' \subseteq Known
    BY SeenIsKnown, Zenon DEF Known
  <2>2. made' = made
    BY <1>4, SMT DEF StartBegin, pool
  <2>3. pc' \in {"purge", "rollback", "unrevision"} =>
           \A s \in todo' : s.clean = "revision"
    BY <1>4, SMT
      DEF StartBegin, StartsWith, Begin, CreateRevision, Surplus, Revisions, KnownInv
  <2>4. QED
    BY <2>1, <2>2, <2>3, NothingNew
<1>5. CASE Revision
  <2>1. todo' \subseteq Revisions'
    BY <1>5, SMT DEF Revision, Surplus
  <2>2. Revisions' \subseteq snaps' \cup (UNION stale')
    BY SMT DEF Revisions, Seen
  <2>3. Known' \subseteq Known \cup {Snapshot("revision", made + 1)}
    <3>1. snaps' = snaps \cup {Snapshot("revision", made + 1)} /\ UNCHANGED <<stale, rtodo>>
      BY <1>5, SMT DEF Revision, TakeSnapshot, reader
    <3>2. UNION stale' = UNION stale
      BY <3>1
    <3>3. QED
      BY <2>1, <2>2, <3>1, <3>2, SMT DEF Known
  <2>4. made' = made + 1
    BY <1>5, SMT DEF Revision, TakeSnapshot
  <2>5. \A s \in todo' : s.clean = "revision"
    BY <2>1, SMT DEF Revisions
  <2>6. QED
    BY <2>3, <2>4, <2>5, OneMore
<1>6. CASE Purge
  BY <1>6, SMT
    DEF Purge, At, Destroy, TypeRest, KnownInv, Known, Snaps, vars, pool,
        domain, callVars, reader, count, past
<1>7. CASE PurgeEnd
  BY <1>7, SMT
    DEF PurgeEnd, At, Goto, AfterRevision, TypeRest, KnownInv, Known, Snaps,
        vars, pool, domain, callVars, reader, count, past
<1>8. CASE SetDirty
  BY <1>8, SMT
    DEF SetDirty, At, EndCall, QubeAfter, TypeRest, KnownInv, Known, Snaps, vars,
        pool, domain, callVars, reader, count, past
<1>9. CASE StateFile
  BY <1>9, SMT
    DEF StateFile, TypeRest, KnownInv, Known, Snaps, vars, pool, domain,
        callVars, reader, count, past
<1>10. CASE DomainStart
  BY <1>10, SMT
    DEF DomainStart, TypeRest, KnownInv, Known, Snaps, vars, pool, domain,
        callVars, reader, count, past
<1>11. CASE Write
  BY <1>11, SMT
    DEF Write, TypeRest, KnownInv, Known, Snaps, vars, pool, domain, callVars,
        reader, count, past
<1>12. CASE DomainEnds
  BY <1>12, SMT
    DEF DomainEnds, TypeRest, KnownInv, Known, Snaps, vars, pool, domain,
        callVars, reader, count, past
<1>13. CASE StopBegin
  BY <1>13, SMT
    DEF StopBegin, Begin, TypeRest, KnownInv, Known, Snaps, vars, pool,
        domain, callVars, reader, count, past
<1>14. CASE ClearDirty
  BY <1>14, SMT
    DEF ClearDirty, At, Goto, TypeRest, KnownInv, Known, Snaps, vars, pool,
        domain, callVars, reader, count, past
<1>15. CASE List
  <2> todo' \subseteq Seen /\ UNCHANGED <<snaps, stale, rtodo>>
    BY <1>15, SeenIsKnown, SMT
      DEF List, callVars, pool, domain, callVars, reader, count
  <2>1. Known' \subseteq Known
    BY SeenIsKnown, Zenon DEF Known
  <2>2. made' = made
    BY <1>15, SMT DEF List, pool
  <2>3. pc' \in {"purge", "rollback", "unrevision"} =>
           \A s \in todo' : s.clean = "revision"
    BY <1>15, SMT
      DEF List, Goto, ListCleans, KnownInv
  <2>4. QED
    BY <2>1, <2>2, <2>3, NothingNew
<1>16. CASE MarkClean
  <2>1. Known' \subseteq Known \cup {Snapshot("clean", made + 1)}
    BY <1>16, SeenIsKnown, SMT
      DEF MarkClean, TakeSnapshot, Known, pool, domain, callVars, reader, count
  <2>2. made' = made + 1
    BY <1>16, SMT DEF MarkClean, TakeSnapshot
  <2>3. pc' \in {"purge", "rollback", "unrevision"} =>
           \A s \in todo' : s.clean = "revision"
    BY <1>16, SMT
      DEF MarkClean, Goto, KnownInv
  <2>4. QED
    BY <2>1, <2>2, <2>3, OneMore
<1>17. CASE Drop
  BY <1>17, SMT
    DEF Drop, At, Destroy, TypeRest, KnownInv, Known, Snaps, vars, pool,
        domain, callVars, reader, count, past
<1>18. CASE DropEnd
  BY <1>18, SMT
    DEF DropEnd, At, EndCall, QubeAfter, TypeRest, KnownInv, Known, Snaps, vars,
        pool, domain, callVars, reader, count, past
<1>19. CASE ImportData
  BY <1>19, SMT
    DEF ImportData, MayReplace, Free, TypeRest, KnownInv, Known, Snaps, vars,
        pool, domain, callVars, reader, count, past
<1>20. CASE Upload
  BY <1>20, SMT
    DEF Upload, TypeRest, KnownInv, Known, Snaps, vars, pool, domain, callVars,
        reader, count, past
<1>21. CASE ImportEnd
  BY <1>21, SMT
    DEF ImportEnd, Begin, TypeRest, KnownInv, Known, Snaps, vars, pool,
        domain, callVars, reader, count, past
<1>22. CASE ImportFailed
  BY <1>22, SMT
    DEF ImportFailed, Free, TypeRest, KnownInv, Known, Snaps, vars, pool,
        domain, callVars, reader, count, past
<1>23. CASE CloneBegin
  BY <1>23, SMT
    DEF CloneBegin, Begin, MayReplace, TypeRest, KnownInv, Known, Snaps,
        vars, pool, domain, callVars, reader, count, past
<1>24. CASE Copy
  BY <1>24, SMT
    DEF Copy, At, Goto, TypeRest, KnownInv, Known, Snaps, vars, pool, domain,
        callVars, reader, count, past
<1>25. CASE Replace
  BY <1>25, SMT
    DEF Replace, At, Goto, TypeRest, KnownInv, Known, Snaps, vars, pool,
        domain, callVars, reader, count, past
<1>26. CASE Rename
  BY <1>26, SMT
    DEF Rename, At, Goto, CanWork, CreateRevision, TypeRest, KnownInv, Known,
        Snaps, vars, pool, domain, callVars, reader, count, past
<1>27. CASE RevertBegin
  <2> todo' \subseteq Seen /\ UNCHANGED <<snaps, stale, rtodo>>
    BY <1>27, SeenIsKnown, SMT
      DEF RevertBegin, callVars, pool, domain, callVars, reader, count
  <2>1. Known' \subseteq Known
    BY SeenIsKnown, Zenon DEF Known
  <2>2. made' = made
    BY <1>27, SMT DEF RevertBegin, pool
  <2>3. pc' \in {"purge", "rollback", "unrevision"} =>
           \A s \in todo' : s.clean = "revision"
    BY <1>27, SMT
      DEF RevertBegin, Begin, Revisions, KnownInv
  <2>4. QED
    BY <2>1, <2>2, <2>3, NothingNew
<1>28. CASE Rollback
  BY <1>28, SMT
    DEF Rollback, Issued, Goto, TypeRest, KnownInv, Known, Snaps, vars, pool,
        domain, callVars, reader, count, past
<1>29. CASE RemoveRevision
  BY <1>29, SMT
    DEF RemoveRevision, At, Goto, Destroy, TypeRest, KnownInv, Known, Snaps,
        vars, pool, domain, callVars, reader, count, past
<1>30. CASE ReadBegin
  BY <1>30, SMT
    DEF ReadBegin, ReaderUnchanged, SnapshotsDisabled, Pick, IsSource,
        Newest, Cleans, Revisions, Seen, TypeRest, KnownInv, Known, Snaps,
        vars, pool, domain, callVars, reader, count, past
<1>31. CASE ReadIssue
  BY <1>31, SMT
    DEF ReadIssue, Waits, ReaderUnchanged, TypeRest, KnownInv, Known, Snaps,
        vars, pool, domain, callVars, reader, count, past
<1>32. CASE ReadSnapshot
  <2>1. Known' \subseteq Known \cup {Snapshot("clean", made + 1)}
    BY <1>32, SeenIsKnown, SMT
      DEF ReadSnapshot, TakeSnapshot, ReaderUnchanged, Known, Pick, pool,
          domain, callVars, reader, count
  <2>2. made' = made + 1
    BY <1>32, SMT DEF ReadSnapshot, TakeSnapshot
  <2>3. pc' \in {"purge", "rollback", "unrevision"} =>
           \A s \in todo' : s.clean = "revision"
    BY <1>32, SMT
      DEF ReadSnapshot, ReaderUnchanged, callVars, KnownInv
  <2>4. QED
    BY <2>1, <2>2, <2>3, OneMore
<1>33. CASE ReadMark
  <2>1. Known' \subseteq Known \cup {Snapshot("clean", made + 1)}
    BY <1>33, SeenIsKnown, SMT
      DEF ReadMark, TakeSnapshot, ReaderUnchanged, Known, pool, domain, callVars,
          reader, count
  <2>2. made' = made + 1
    BY <1>33, SMT DEF ReadMark, TakeSnapshot
  <2>3. pc' \in {"purge", "rollback", "unrevision"} =>
           \A s \in todo' : s.clean = "revision"
    BY <1>33, SMT
      DEF ReadMark, ReaderUnchanged, callVars, KnownInv
  <2>4. QED
    BY <2>1, <2>2, <2>3, OneMore
<1>34. CASE ReadClone
  BY <1>34, SMT
    DEF ReadClone, Exists, SnapshotsDisabled, ReaderUnchanged, TypeRest,
        KnownInv, Known, Snaps, vars, pool, domain, callVars, reader, count, past
<1>35. CASE ReadList
  <2> rtodo' \subseteq Seen /\ UNCHANGED <<snaps, stale, todo>>
    BY <1>35, SeenIsKnown, SMT
      DEF ReadList, ReaderUnchanged, callVars, pool, domain, callVars, reader, count
  <2>1. Known' \subseteq Known
    BY SeenIsKnown, Zenon DEF Known
  <2>2. made' = made
    BY <1>35, SMT DEF ReadList, pool
  <2>3. pc' \in {"purge", "rollback", "unrevision"} =>
           \A s \in todo' : s.clean = "revision"
    BY <1>35, SMT
      DEF ReadList, ReaderUnchanged, callVars, KnownInv
  <2>4. QED
    BY <2>1, <2>2, <2>3, NothingNew
<1>36. CASE ReadDrop
  BY <1>36, SMT
    DEF ReadDrop, Free, Destroy, ReaderUnchanged, TypeRest, KnownInv, Known,
        Snaps, vars, pool, domain, callVars, reader, count, past
<1>37. CASE ReadRaise
  BY <1>37, SMT
    DEF ReadRaise, Upset, TypeRest, KnownInv, Known, Snaps, vars, pool,
        domain, callVars, reader, count, past
<1>38. CASE CloneRemoved
  BY <1>38, SMT
    DEF CloneRemoved, Free, ReaderUnchanged, TypeRest, KnownInv, Known,
        Snaps, vars, pool, domain, callVars, reader, count, past
<1>39. CASE SetKeep
  BY <1>39, SMT
    DEF SetKeep, Upset, TypeRest, KnownInv, Known, Snaps, vars, pool, domain,
        callVars, reader, count, past
<1>40. CASE Crash
  BY <1>40, SMT
    DEF Crash, Upset, EndCall, TypeRest, KnownInv, Known, Snaps, vars, pool,
        domain, callVars, reader, count, past
<1>41. CASE UNCHANGED vars
  BY <1>41, SMT
    DEF vars, TypeRest, KnownInv, Known, Snaps, pool, domain, callVars, reader,
        count, past
<1>42. QED
  BY <1>1, <1>2, <1>3, <1>4, <1>5, <1>6, <1>7, <1>8, <1>9, <1>10, <1>11,
     <1>12, <1>13, <1>14, <1>15, <1>16, <1>17, <1>18, <1>19, <1>20, <1>21,
     <1>22, <1>23, <1>24, <1>25, <1>26, <1>27, <1>28, <1>29, <1>30, <1>31,
     <1>32, <1>33, <1>34, <1>35, <1>36, <1>37, <1>38, <1>39, <1>40, <1>41
    DEF Next

(* From the change of a volume to its clean snapshot a call keeps it.        *)
LEMMA RestStep == ZfsInv /\ ReadInv /\ [Next]_vars => RestInv'
<1> SUFFICES ASSUME TypeRest, CallInv, VolumeInv, KnownInv, RestInv, SourceInv, [Next]_vars
             PROVE RestInv'
  BY DEF ZfsInv, ReadInv, TypeOK, TypeRest
<1>1. CASE Look
  BY <1>1, SMT
    DEF Look, TypeRest, CallInv, VolumeInv, RestInv, vars, pool, domain,
        callVars, reader, count, past
<1>2. CASE Issue
  BY <1>2, SMT
    DEF Issue, Free, Forgetful, TypeRest, CallInv, VolumeInv, RestInv, vars,
        pool, domain, callVars, reader, count, past
<1>3. CASE Raise
  BY <1>3, SMT
    DEF Raise, EndCall, QubeAfter, Upset, Forgetful, TypeRest, CallInv,
        VolumeInv, RestInv, vars, pool, domain, callVars, reader, count, past
<1>4. CASE StartBegin
  BY <1>4, SMT
    DEF StartBegin, StartsWith, Begin, CreateRevision, Surplus, Revisions, Seen,
        TypeRest, CallInv, VolumeInv, RestInv, vars, pool, domain, callVars,
        reader, count, past
<1>5. CASE Revision
  BY <1>5, SMT
    DEF Revision, Issued, Goto, TakeSnapshot, Snapshot, Surplus, Revisions,
        Seen, TypeRest, CallInv, VolumeInv, RestInv, vars, pool, domain,
        callVars, reader, count, past
<1>6. CASE Purge
  BY <1>6, SMT
    DEF Purge, At, Destroy, TypeRest, CallInv, VolumeInv, RestInv, vars,
        pool, domain, callVars, reader, count, past
<1>7. CASE PurgeEnd
  BY <1>7, SMT
    DEF PurgeEnd, At, Goto, AfterRevision, TypeRest, CallInv, VolumeInv,
        RestInv, vars, pool, domain, callVars, reader, count, past
<1>8. CASE SetDirty
  BY <1>8, SMT
    DEF SetDirty, At, EndCall, QubeAfter, TypeRest, CallInv, VolumeInv, RestInv,
        vars, pool, domain, callVars, reader, count, past
<1>9. CASE StateFile
  BY <1>9, SMT
    DEF StateFile, TypeRest, CallInv, VolumeInv, RestInv, vars, pool, domain,
        callVars, reader, count, past
<1>10. CASE DomainStart
  BY <1>10, SMT
    DEF DomainStart, TypeRest, CallInv, VolumeInv, RestInv, vars, pool,
        domain, callVars, reader, count, past
<1>11. CASE Write
  BY <1>11, SMT
    DEF Write, TypeRest, CallInv, VolumeInv, RestInv, vars, pool, domain,
        callVars, reader, count, past
<1>12. CASE DomainEnds
  BY <1>12, SMT
    DEF DomainEnds, TypeRest, CallInv, VolumeInv, RestInv, vars, pool,
        domain, callVars, reader, count, past
<1>13. CASE StopBegin
  BY <1>13, SMT
    DEF StopBegin, Begin, TypeRest, CallInv, VolumeInv, RestInv, vars, pool,
        domain, callVars, reader, count, past
<1>14. CASE ClearDirty
  BY <1>14, SMT
    DEF ClearDirty, At, Goto, TypeRest, CallInv, VolumeInv, RestInv, vars,
        pool, domain, callVars, reader, count, past
<1>15. CASE List
  BY <1>15, SMT
    DEF List, At, Goto, ListCleans, Cleans, Seen, SnapshotsDisabled,
        TypeRest, CallInv, VolumeInv, RestInv, vars, pool, domain, callVars,
        reader, count, past
<1>16. CASE MarkClean
  BY <1>16, SMT
    DEF MarkClean, Issued, Goto, TakeSnapshot, Snapshot, TypeRest, CallInv,
        VolumeInv, RestInv, vars, pool, domain, callVars, reader, count, past
<1>17. CASE Drop
  BY <1>17, SMT
    DEF Drop, At, Destroy, TypeRest, CallInv, VolumeInv, RestInv, vars, pool,
        domain, callVars, reader, count, past
<1>18. CASE DropEnd
  BY <1>18, SMT
    DEF DropEnd, At, EndCall, QubeAfter, TypeRest, CallInv, VolumeInv, RestInv,
        vars, pool, domain, callVars, reader, count, past
<1>19. CASE ImportData
  BY <1>19, SMT
    DEF ImportData, MayReplace, Free, TypeRest, CallInv, VolumeInv, RestInv,
        vars, pool, domain, callVars, reader, count, past
<1>20. CASE Upload
  BY <1>20, SMT
    DEF Upload, TypeRest, CallInv, VolumeInv, RestInv, vars, pool, domain,
        callVars, reader, count, past
<1>21. CASE ImportEnd
  BY <1>21, SMT
    DEF ImportEnd, Begin, TypeRest, CallInv, VolumeInv, RestInv, vars, pool,
        domain, callVars, reader, count, past
<1>22. CASE ImportFailed
  BY <1>22, SMT
    DEF ImportFailed, Free, TypeRest, CallInv, VolumeInv, RestInv, vars,
        pool, domain, callVars, reader, count, past
<1>23. CASE CloneBegin
  BY <1>23, SMT
    DEF CloneBegin, Begin, MayReplace, TypeRest, CallInv, VolumeInv, RestInv,
        vars, pool, domain, callVars, reader, count, past
<1>24. CASE Copy
  BY <1>24, SMT
    DEF Copy, At, Goto, TypeRest, CallInv, VolumeInv, RestInv, vars, pool,
        domain, callVars, reader, count, past
<1>25. CASE Replace
  BY <1>25, SMT
    DEF Replace, At, Goto, TypeRest, CallInv, VolumeInv, RestInv, vars, pool,
        domain, callVars, reader, count, past
<1>26. CASE Rename
  BY <1>26, SMT
    DEF Rename, At, Goto, CanWork, CreateRevision, TypeRest, CallInv,
        VolumeInv, RestInv, vars, pool, domain, callVars, reader, count, past
<1>27. CASE RevertBegin
  BY <1>27, SMT
    DEF RevertBegin, MayReplace, Begin, Revisions, Seen, TypeRest, CallInv,
        VolumeInv, RestInv, vars, pool, domain, callVars, reader, count, past
<1>28. CASE Rollback
  <2>1. /\ pc = "rollback" /\ op' = op /\ pc' = "unrevision"
        /\ committed' = main' /\ dirty' = dirty
    BY <1>28 DEF Rollback, Issued, Goto
  <2>2. main' # 0
    BY <1>28, SMT DEF Rollback, TypeRest, Snaps, Wholes, Foreign
  <2>3. doubtful'
    BY <1>28, Zenon DEF Rollback
  <2>4. QED
    BY <2>1, <2>2, <2>3 DEF RestInv
<1>29. CASE RemoveRevision
  BY <1>29, SMT
    DEF RemoveRevision, At, Goto, Destroy, TypeRest, CallInv, VolumeInv,
        RestInv, vars, pool, domain, callVars, reader, count, past
<1>30. CASE ReadBegin
  BY <1>30, SMT
    DEF ReadBegin, ReaderUnchanged, SnapshotsDisabled, Pick, IsSource,
        Newest, Cleans, Revisions, Seen, TypeRest, CallInv, VolumeInv,
        RestInv, vars, pool, domain, callVars, reader, count, past
<1>31. CASE ReadIssue
  BY <1>31, SMT
    DEF ReadIssue, Waits, ReaderUnchanged, TypeRest, CallInv, VolumeInv,
        RestInv, vars, pool, domain, callVars, reader, count, past
<1>32. CASE ReadSnapshot
  <2>1. (doubtful => doubtful') /\ (~doubtful' => ~doubtful)
    BY <1>32, Zenon DEF ReadSnapshot
  <2>2. UNCHANGED <<main, dirty, committed, op, pc>>
    BY <1>32, SMT DEF ReadSnapshot, TakeSnapshot, ReaderUnchanged, callVars, pool
  <2>3. QED
    BY <2>1, <2>2 DEF RestInv
<1>33. CASE ReadMark
  <2>1. (doubtful => doubtful') /\ (~doubtful' => ~doubtful)
    BY <1>33, Zenon DEF ReadMark
  <2>2. UNCHANGED <<main, dirty, committed, op, pc>>
    BY <1>33, SMT DEF ReadMark, TakeSnapshot, ReaderUnchanged, callVars, pool
  <2>3. QED
    BY <2>1, <2>2 DEF RestInv
<1>34. CASE ReadClone
  BY <1>34, SMT
    DEF ReadClone, Exists, SnapshotsDisabled, ReaderUnchanged, TypeRest,
        CallInv, VolumeInv, RestInv, vars, pool, domain, callVars, reader, count,
        past
<1>35. CASE ReadList
  <2>1. (doubtful => doubtful') /\ (~doubtful' => ~doubtful)
    BY <1>35, Zenon DEF ReadList
  <2>2. UNCHANGED <<main, dirty, committed, op, pc>>
    BY <1>35, SMT DEF ReadList, TakeSnapshot, ReaderUnchanged, callVars, pool
  <2>3. QED
    BY <2>1, <2>2 DEF RestInv
<1>36. CASE ReadDrop
  BY <1>36, SMT
    DEF ReadDrop, Free, Destroy, ReaderUnchanged, TypeRest, CallInv,
        VolumeInv, RestInv, vars, pool, domain, callVars, reader, count, past
<1>37. CASE ReadRaise
  BY <1>37, SMT
    DEF ReadRaise, Upset, TypeRest, CallInv, VolumeInv, RestInv, vars, pool,
        domain, callVars, reader, count, past
<1>38. CASE CloneRemoved
  BY <1>38, SMT
    DEF CloneRemoved, Free, ReaderUnchanged, TypeRest, CallInv, VolumeInv,
        RestInv, vars, pool, domain, callVars, reader, count, past
<1>39. CASE SetKeep
  BY <1>39, SMT
    DEF SetKeep, Upset, TypeRest, CallInv, VolumeInv, RestInv, vars, pool,
        domain, callVars, reader, count, past
<1>40. CASE Crash
  BY <1>40, SMT
    DEF Crash, Upset, EndCall, TypeRest, CallInv, VolumeInv, RestInv, vars, pool,
        domain, callVars, reader, count, past
<1>41. CASE UNCHANGED vars
  BY <1>41, SMT
    DEF vars, TypeRest, CallInv, VolumeInv, RestInv, pool, domain, callVars,
        reader, count, past
<1>42. QED
  BY <1>1, <1>2, <1>3, <1>4, <1>5, <1>6, <1>7, <1>8, <1>9, <1>10, <1>11,
     <1>12, <1>13, <1>14, <1>15, <1>16, <1>17, <1>18, <1>19, <1>20, <1>21,
     <1>22, <1>23, <1>24, <1>25, <1>26, <1>27, <1>28, <1>29, <1>30, <1>31,
     <1>32, <1>33, <1>34, <1>35, <1>36, <1>37, <1>38, <1>39, <1>40, <1>41
    DEF Next

(* A clean snapshot taken at rest says so, is the newest, and is not among  *)
(* those that any call is about to remove.                                  *)
LEMMA NewSays ==
    ASSUME TypeRest, KnownInv, main = committed, NEW n,
           n = Snapshot("clean", made + 1), snaps' = snaps \cup {n},
           UNCHANGED <<todo, rtodo, committed>>
    PROVE n \in snaps' /\ Says(n, snaps)' /\ Stays(n)'
<1>1. n.id = made + 1 /\ n.clean = "clean" /\ n.gone = "no" /\ n.data = committed
  BY SMT DEF Snapshot
<1>2. \A s \in snaps \cup todo \cup rtodo : s.id < n.id
  <2>1. \A s \in snaps \cup todo \cup rtodo : s \in Snaps /\ s.id <= made
    BY DEF TypeRest, KnownInv, Known
  <2>2. QED
    BY <1>1, <2>1, SMT DEF Snaps, TypeRest
<1>3. n.id <= n.id
  BY <1>1, SMT DEF TypeRest
<1>4. \A t \in snaps \cup {n} : t.id <= n.id
  <2> SUFFICES ASSUME NEW t \in snaps PROVE t.id <= n.id
    BY <1>3
  <2>1. t.id \in Int /\ n.id \in Int /\ t.id < n.id
    BY <1>1, <1>2, SMT DEF TypeRest, Snaps
  <2>2. QED
    BY <2>1, SMT
<1> QED
  BY <1>1, <1>2, <1>4 DEF Says, Stays

(* A list that is cached stays as good as it is.                            *)
LEMMA ListsStay ==
    ASSUME ~doubtful, SourceInv, UNCHANGED <<stale, committed>>
    PROVE \A list \in stale' : Alike(list)' \/ \E s \in list : Says(s, list)'
  BY DEF SourceInv, Alike, Says

(* The newest clean snapshot stays what the volume said at rest.             *)
LEMMA SourceStep == ZfsInv /\ ReadInv /\ [Next]_vars => SourceInv'
<1> SUFFICES ASSUME TypeRest, CallInv, VolumeInv, KnownInv, RestInv, SourceInv, [Next]_vars
             PROVE SourceInv'
  BY DEF ZfsInv, ReadInv, TypeOK, TypeRest
<1>1. CASE Look
  BY <1>1, SMT
    DEF Look, TypeRest, VolumeInv, KnownInv, Known, RestInv, SourceInv, Says,
        Alike, Stays, Snaps, vars, pool, domain, callVars, reader, count, past
<1>2. CASE Issue
  BY <1>2, SMT
    DEF Issue, Free, Forgetful, TypeRest, VolumeInv, KnownInv, Known,
        RestInv, SourceInv, Says, Alike, Stays, Snaps, vars, pool, domain,
        callVars, reader, count, past
<1>3. CASE Raise
  BY <1>3, SMT
    DEF Raise, EndCall, QubeAfter, Upset, Forgetful, TypeRest, VolumeInv,
        KnownInv, Known, RestInv, SourceInv, Says, Alike, Stays, Snaps, vars,
        pool, domain, callVars, reader, count, past
<1>4. CASE StartBegin
  BY <1>4, SMT
    DEF StartBegin, StartsWith, Begin, CreateRevision, Surplus, Revisions, Seen,
        TypeRest, VolumeInv, KnownInv, Known, RestInv, SourceInv, Says,
        Alike, Stays, Snaps, vars, pool, domain, callVars, reader, count, past
<1>5. CASE Revision
  <2>1. CASE doubtful'
    BY <2>1 DEF SourceInv
  <2>2. CASE ~doubtful'
    <3>1. ~doubtful /\ pc = "revision" /\ pc' = "purge"
      BY <1>5, <2>2 DEF Revision, Issued, Goto, past
    <3>2. main = committed
      BY <3>1, SMT DEF RestInv, CallInv, VolumeInv
    <3>3. snaps' = snaps \cup {Snapshot("revision", made + 1)}
          /\ UNCHANGED <<stale, committed, rpc, rtodo>>
      BY <1>5 DEF Revision, TakeSnapshot, reader, past
    <3>4. \A list \in stale' : Alike(list)' \/ \E s \in list : Says(s, list)'
      BY <3>1, <3>3, ListsStay
    <3>5. CASE Alike(snaps)
      BY <3>2, <3>3, <3>4, <3>5 DEF Alike, Snapshot, SourceInv
    <3>6. CASE \E s \in snaps : Says(s, snaps) /\ Stays(s)
      <4> PICK s \in snaps : Says(s, snaps) /\ Stays(s)
        BY <3>6
      <4>1. Says(s, snaps)' /\ Stays(s)'
        BY <3>1, <3>3, SMT DEF Says, Stays, Snapshot
      <4>2. QED
        BY <3>3, <3>4, <4>1 DEF SourceInv
    <3>7. QED
      BY <3>1, <3>5, <3>6 DEF SourceInv
  <2>3. QED
    BY <2>1, <2>2
<1>6. CASE Purge
  <2>1. CASE doubtful'
    BY <2>1 DEF SourceInv
  <2>2. CASE ~doubtful'
    <3>1. ~doubtful /\ pc = "purge" /\ pc' = "purge" /\ stale' = {}
          /\ UNCHANGED <<cloned, committed, rpc, rtodo>>
      BY <1>6, <2>2 DEF Purge, At, reader, past
    <3> PICK d \in todo : Destroy(d)
      BY <1>6 DEF Purge
    <3>2. \A s \in snaps : s.id # d.id => s \in snaps'
      BY SMT DEF Destroy
    <3>3. \A s \in snaps' : \E t \in snaps :
              t.id = s.id /\ t.clean = s.clean /\ t.data = s.data
      BY SMT DEF Destroy, TypeRest, Snaps
    <3>4. CASE Alike(snaps)
      BY <3>1, <3>3, <3>4 DEF Alike, SourceInv
    <3>5. CASE \E s \in snaps : Says(s, snaps) /\ Stays(s)
      <4> PICK s \in snaps : Says(s, snaps) /\ Stays(s)
        BY <3>5
      <4>1. d.clean = "revision" /\ s.clean = "clean"
        BY <3>1 DEF KnownInv, Says
      <4>2. s.id # d.id
        BY <4>1 DEF KnownInv, Known
      <4>3. Says(s, snaps)' /\ Stays(s)'
        BY <3>1, <3>3 DEF Says, Stays
      <4>4. QED
        BY <3>1, <3>2, <4>2, <4>3 DEF SourceInv
    <3>6. QED
      BY <3>1, <3>4, <3>5 DEF SourceInv
  <2>3. QED
    BY <2>1, <2>2
<1>7. CASE PurgeEnd
  BY <1>7, SMT
    DEF PurgeEnd, At, Goto, AfterRevision, TypeRest, VolumeInv, KnownInv,
        Known, RestInv, SourceInv, Says, Alike, Stays, Snaps, vars, pool,
        domain, callVars, reader, count, past
<1>8. CASE SetDirty
  BY <1>8, SMT
    DEF SetDirty, At, EndCall, QubeAfter, TypeRest, VolumeInv, KnownInv, Known,
        RestInv, SourceInv, Says, Alike, Stays, Snaps, vars, pool, domain,
        callVars, reader, count, past
<1>9. CASE StateFile
  BY <1>9, SMT
    DEF StateFile, TypeRest, VolumeInv, KnownInv, Known, RestInv, SourceInv,
        Says, Alike, Stays, Snaps, vars, pool, domain, callVars, reader, count,
        past
<1>10. CASE DomainStart
  BY <1>10, SMT
    DEF DomainStart, TypeRest, VolumeInv, KnownInv, Known, RestInv,
        SourceInv, Says, Alike, Stays, Snaps, vars, pool, domain, callVars,
        reader, count, past
<1>11. CASE Write
  BY <1>11, SMT
    DEF Write, TypeRest, VolumeInv, KnownInv, Known, RestInv, SourceInv,
        Says, Alike, Stays, Snaps, vars, pool, domain, callVars, reader, count,
        past
<1>12. CASE DomainEnds
  BY <1>12, SMT
    DEF DomainEnds, TypeRest, VolumeInv, KnownInv, Known, RestInv, SourceInv,
        Says, Alike, Stays, Snaps, vars, pool, domain, callVars, reader, count,
        past
<1>13. CASE StopBegin
  BY <1>13, SMT
    DEF StopBegin, Begin, TypeRest, VolumeInv, KnownInv, Known, RestInv,
        SourceInv, Says, Alike, Stays, Snaps, vars, pool, domain, callVars,
        reader, count, past
<1>14. CASE ClearDirty
  BY <1>14, SMT
    DEF ClearDirty, At, Goto, TypeRest, VolumeInv, KnownInv, Known, RestInv,
        SourceInv, Says, Alike, Stays, Snaps, vars, pool, domain, callVars,
        reader, count, past
<1>15. CASE List
  <2>1. doubtful' = doubtful /\ pc = "list"
    BY <1>15 DEF List, At, past
  <2>2. doubtful
    BY <2>1, SMT DEF RestInv, CallInv
  <2>3. QED
    BY <2>1, <2>2 DEF SourceInv
<1>16. CASE MarkClean
  <2>1. CASE doubtful'
    BY <2>1 DEF SourceInv
  <2>2. CASE ~doubtful'
    <3>1. pc = "clean" /\ stale' = {}
      BY <1>16, <2>2 DEF MarkClean, Issued, TakeSnapshot
    <3>2. main = committed
      BY <3>1, SMT DEF RestInv, CallInv
    <3>3. snaps' = snaps \cup {Snapshot("clean", made + 1)}
          /\ UNCHANGED <<committed, todo, rtodo>>
      BY <1>16 DEF MarkClean, TakeSnapshot, reader
    <3> PICK n : n = Snapshot("clean", made + 1)
      OBVIOUS
    <3>4. n \in snaps' /\ Says(n, snaps)' /\ Stays(n)'
      BY <3>2, <3>3, NewSays
    <3>5. QED
      BY <3>1, <3>4 DEF SourceInv
  <2>3. QED
    BY <2>1, <2>2
<1>17. CASE Drop
  BY <1>17, SMT
    DEF Drop, At, Destroy, TypeRest, VolumeInv, KnownInv, Known, RestInv,
        SourceInv, Says, Alike, Stays, Snaps, vars, pool, domain, callVars,
        reader, count, past
<1>18. CASE DropEnd
  BY <1>18, SMT
    DEF DropEnd, At, EndCall, QubeAfter, TypeRest, VolumeInv, KnownInv, Known,
        RestInv, SourceInv, Says, Alike, Stays, Snaps, vars, pool, domain,
        callVars, reader, count, past
<1>19. CASE ImportData
  BY <1>19, SMT
    DEF ImportData, MayReplace, Free, TypeRest, VolumeInv, KnownInv, Known,
        RestInv, SourceInv, Says, Alike, Stays, Snaps, vars, pool, domain,
        callVars, reader, count, past
<1>20. CASE Upload
  BY <1>20, SMT
    DEF Upload, TypeRest, VolumeInv, KnownInv, Known, RestInv, SourceInv,
        Says, Alike, Stays, Snaps, vars, pool, domain, callVars, reader, count,
        past
<1>21. CASE ImportEnd
  BY <1>21, SMT
    DEF ImportEnd, Begin, TypeRest, VolumeInv, KnownInv, Known, RestInv,
        SourceInv, Says, Alike, Stays, Snaps, vars, pool, domain, callVars,
        reader, count, past
<1>22. CASE ImportFailed
  BY <1>22, SMT
    DEF ImportFailed, Free, TypeRest, VolumeInv, KnownInv, Known, RestInv,
        SourceInv, Says, Alike, Stays, Snaps, vars, pool, domain, callVars,
        reader, count, past
<1>23. CASE CloneBegin
  BY <1>23, SMT
    DEF CloneBegin, Begin, MayReplace, TypeRest, VolumeInv, KnownInv, Known,
        RestInv, SourceInv, Says, Alike, Stays, Snaps, vars, pool, domain,
        callVars, reader, count, past
<1>24. CASE Copy
  BY <1>24, SMT
    DEF Copy, At, Goto, TypeRest, VolumeInv, KnownInv, Known, RestInv,
        SourceInv, Says, Alike, Stays, Snaps, vars, pool, domain, callVars,
        reader, count, past
<1>25. CASE Replace
  BY <1>25, SMT
    DEF Replace, At, Goto, TypeRest, VolumeInv, KnownInv, Known, RestInv,
        SourceInv, Says, Alike, Stays, Snaps, vars, pool, domain, callVars,
        reader, count, past
<1>26. CASE Rename
  BY <1>26, SMT
    DEF Rename, At, Goto, CanWork, CreateRevision, TypeRest, VolumeInv,
        KnownInv, Known, RestInv, SourceInv, Says, Alike, Stays, Snaps, vars,
        pool, domain, callVars, reader, count, past
<1>27. CASE RevertBegin
  BY <1>27, SMT
    DEF RevertBegin, MayReplace, Begin, Revisions, Seen, TypeRest, VolumeInv,
        KnownInv, Known, RestInv, SourceInv, Says, Alike, Stays, Snaps, vars,
        pool, domain, callVars, reader, count, past
<1>28. CASE Rollback
  BY <1>28, SMT
    DEF Rollback, Issued, Goto, TypeRest, VolumeInv, KnownInv, Known,
        RestInv, SourceInv, Says, Alike, Stays, Snaps, vars, pool, domain,
        callVars, reader, count, past
<1>29. CASE RemoveRevision
  <2>1. doubtful' = doubtful /\ pc = "unrevision"
    BY <1>29 DEF RemoveRevision, At, past
  <2>2. doubtful
    BY <2>1, SMT DEF RestInv, CallInv
  <2>3. QED
    BY <2>1, <2>2 DEF SourceInv
<1>30. CASE ReadBegin
  BY <1>30, SMT
    DEF ReadBegin, ReaderUnchanged, SnapshotsDisabled, Pick, IsSource,
        Newest, Cleans, Revisions, Seen, TypeRest, VolumeInv, KnownInv,
        Known, RestInv, SourceInv, Says, Alike, Stays, Snaps, vars, pool,
        domain, callVars, reader, count, past
<1>31. CASE ReadIssue
  BY <1>31, SMT
    DEF ReadIssue, Waits, ReaderUnchanged, TypeRest, VolumeInv, KnownInv,
        Known, RestInv, SourceInv, Says, Alike, Stays, Snaps, vars, pool,
        domain, callVars, reader, count, past
<1>32. CASE ReadSnapshot
  <2>1. CASE doubtful'
    BY <2>1 DEF SourceInv
  <2>2. CASE ~doubtful'
    <3>1. ~doubtful /\ ~dirty
      BY <1>32, <2>2, Zenon DEF ReadSnapshot
    <3>2. main = committed
      BY <1>32, <3>1 DEF ReadSnapshot, RestInv
    <3>3. snaps' = snaps \cup {Snapshot("clean", made + 1)}
          /\ UNCHANGED <<stale, committed, todo, rtodo>>
      BY <1>32 DEF ReadSnapshot, TakeSnapshot, ReaderUnchanged, callVars
    <3> PICK n : n = Snapshot("clean", made + 1)
      OBVIOUS
    <3>4. n \in snaps' /\ Says(n, snaps)' /\ Stays(n)'
      BY <3>2, <3>3, NewSays
    <3>5. QED
      BY <3>1, <3>3, <3>4, ListsStay DEF SourceInv
  <2>3. QED
    BY <2>1, <2>2
<1>33. CASE ReadMark
  <2>1. CASE doubtful'
    BY <2>1 DEF SourceInv
  <2>2. CASE ~doubtful'
    <3>1. ~doubtful /\ ~dirty
      BY <1>33, <2>2, Zenon DEF ReadMark
    <3>2. main = committed
      BY <1>33, <3>1 DEF ReadMark, RestInv
    <3>3. snaps' = snaps \cup {Snapshot("clean", made + 1)}
          /\ UNCHANGED <<stale, committed, todo, rtodo>>
      BY <1>33 DEF ReadMark, TakeSnapshot, ReaderUnchanged, callVars
    <3> PICK n : n = Snapshot("clean", made + 1)
      OBVIOUS
    <3>4. n \in snaps' /\ Says(n, snaps)' /\ Stays(n)'
      BY <3>2, <3>3, NewSays
    <3>5. QED
      BY <3>1, <3>3, <3>4, ListsStay DEF SourceInv
  <2>3. QED
    BY <2>1, <2>2
<1>34. CASE ReadClone
  BY <1>34, SMT
    DEF ReadClone, Exists, SnapshotsDisabled, ReaderUnchanged, TypeRest,
        VolumeInv, KnownInv, Known, RestInv, SourceInv, Says, Alike, Stays,
        Snaps, vars, pool, domain, callVars, reader, count, past
<1>35. CASE ReadList
  <2>1. CASE doubtful'
    BY <2>1 DEF SourceInv
  <2>2. CASE ~doubtful'
    <3>1. ~doubtful /\ ~SnapshotsDisabled
      BY <1>35, <2>2, Zenon DEF ReadList
    <3>2. rpc' = "remark" /\ UNCHANGED <<snaps, stale, committed, pc, todo>>
      BY <1>35, <3>1 DEF ReadList, ReaderUnchanged, callVars, pool
    <3>3. \A s : Stays(s) => Stays(s)'
      BY <3>2 DEF Stays
    <3>4. QED
      BY <3>1, <3>2, <3>3, ListsStay DEF SourceInv, Alike, Says
  <2>3. QED
    BY <2>1, <2>2
<1>36. CASE ReadDrop
  BY <1>36, SMT
    DEF ReadDrop, Free, Destroy, ReaderUnchanged, TypeRest, VolumeInv,
        KnownInv, Known, RestInv, SourceInv, Says, Alike, Stays, Snaps, vars,
        pool, domain, callVars, reader, count, past
<1>37. CASE ReadRaise
  BY <1>37, SMT
    DEF ReadRaise, Upset, TypeRest, VolumeInv, KnownInv, Known, RestInv,
        SourceInv, Says, Alike, Stays, Snaps, vars, pool, domain, callVars,
        reader, count, past
<1>38. CASE CloneRemoved
  BY <1>38, SMT
    DEF CloneRemoved, Free, ReaderUnchanged, TypeRest, VolumeInv, KnownInv,
        Known, RestInv, SourceInv, Says, Alike, Stays, Snaps, vars, pool,
        domain, callVars, reader, count, past
<1>39. CASE SetKeep
  BY <1>39, SMT
    DEF SetKeep, Upset, TypeRest, VolumeInv, KnownInv, Known, RestInv,
        SourceInv, Says, Alike, Stays, Snaps, vars, pool, domain, callVars,
        reader, count, past
<1>40. CASE Crash
  BY <1>40, SMT
    DEF Crash, Upset, EndCall, TypeRest, VolumeInv, KnownInv, Known, RestInv,
        SourceInv, Says, Alike, Stays, Snaps, vars, pool, domain, callVars,
        reader, count, past
<1>41. CASE UNCHANGED vars
  BY <1>41, SMT
    DEF vars, TypeRest, VolumeInv, KnownInv, Known, RestInv, SourceInv, Says,
        Alike, Stays, Snaps, pool, domain, callVars, reader, count, past
<1>42. QED
  BY <1>1, <1>2, <1>3, <1>4, <1>5, <1>6, <1>7, <1>8, <1>9, <1>10, <1>11,
     <1>12, <1>13, <1>14, <1>15, <1>16, <1>17, <1>18, <1>19, <1>20, <1>21,
     <1>22, <1>23, <1>24, <1>25, <1>26, <1>27, <1>28, <1>29, <1>30, <1>31,
     <1>32, <1>33, <1>34, <1>35, <1>36, <1>37, <1>38, <1>39, <1>40, <1>41
    DEF Next

(* What IsSource finds is what the volume said at rest, in a list that is   *)
(* good; without a clean snapshot, it is a revision.                        *)
LEMMA SourceSays ==
    TypeRest /\ KnownInv /\ SourceInv /\ ~doubtful =>
        \A s \in Seen : IsSource(s) => s.data = committed
<1> SUFFICES ASSUME TypeRest, KnownInv, SourceInv, ~doubtful,
                    NEW s \in Seen, IsSource(s)
             PROVE s.data = committed
  OBVIOUS
<1>1. Alike(Seen) \/ \E n \in Seen : Says(n, Seen)
  <2>1. CASE stale = {}
    BY <2>1 DEF Seen, SourceInv
  <2>2. CASE stale # {}
    <3> PICK list \in stale : TRUE
      BY <2>2
    <3>1. stale = {list}
      BY DEF TypeRest
    <3>2. Seen = list
      BY <2>2, <3>1, Zenon DEF Seen
    <3>3. QED
      BY <3>2 DEF SourceInv
  <2>3. QED
    BY <2>1, <2>2
<1>2. CASE Alike(Seen)
  BY <1>2 DEF Alike
<1>3. CASE \E n \in Seen : Says(n, Seen)
  <2> PICK n \in Seen : Says(n, Seen)
    BY <1>3
  <2>1. n \in Cleans
    BY DEF Cleans, Says
  <2>2. s \in Cleans /\ n.id <= s.id
    BY <2>1 DEF IsSource, Newest
  <2>3. s.id <= n.id
    BY <2>2 DEF Cleans, Says
  <2>4. s \in Known /\ n \in Known
    BY SeenIsKnown
  <2>5. s.id \in Int /\ n.id \in Int
    BY <2>4, KnownIds
  <2>6. s.id = n.id
    BY <2>2, <2>3, <2>5, SMT
  <2>7. QED
    BY <2>4, <2>6 DEF KnownInv, Says
<1>4. QED
  BY <1>1, <1>2, <1>3

(* Whoever picks a snapshot to clone picks a good one.                      *)
LEMMA PickStep ==
    ZfsInv /\ ReadInv /\ ZfsInv' /\ ReadInv' /\ [Next]_vars =>
        (rpc' = "clone" /\ rpc # "clone" => src'.data = committed \/ doubtful')
<1> SUFFICES ASSUME TypeRest, KnownInv, SourceInv, TypeRest', KnownInv', SourceInv',
                    [Next]_vars, rpc' = "clone", rpc # "clone"
             PROVE src'.data = committed \/ doubtful'
  BY DEF ZfsInv, ReadInv, TypeOK, TypeRest
<1>1. CASE Look
  BY <1>1, SMT
    DEF Look, reader, vars
<1>2. CASE Issue
  BY <1>2, SMT
    DEF Issue, Free, Forgetful, reader, vars
<1>3. CASE Raise
  BY <1>3, SMT
    DEF Raise, EndCall, QubeAfter, Upset, Forgetful, reader, vars
<1>4. CASE StartBegin
  BY <1>4, SMT
    DEF StartBegin, StartsWith, Begin, CreateRevision, Surplus, Revisions, Seen, reader,
        vars
<1>5. CASE Revision
  BY <1>5, SMT
    DEF Revision, Issued, Goto, TakeSnapshot, Snapshot, Surplus, Revisions,
        Seen, reader, vars
<1>6. CASE Purge
  BY <1>6, SMT
    DEF Purge, At, Destroy, reader, vars
<1>7. CASE PurgeEnd
  BY <1>7, SMT
    DEF PurgeEnd, At, Goto, AfterRevision, reader, vars
<1>8. CASE SetDirty
  BY <1>8, SMT
    DEF SetDirty, At, EndCall, QubeAfter, reader, vars
<1>9. CASE StateFile
  BY <1>9, SMT
    DEF StateFile, reader, vars
<1>10. CASE DomainStart
  BY <1>10, SMT
    DEF DomainStart, reader, vars
<1>11. CASE Write
  BY <1>11, SMT
    DEF Write, reader, vars
<1>12. CASE DomainEnds
  BY <1>12, SMT
    DEF DomainEnds, reader, vars
<1>13. CASE StopBegin
  BY <1>13, SMT
    DEF StopBegin, Begin, reader, vars
<1>14. CASE ClearDirty
  BY <1>14, SMT
    DEF ClearDirty, At, Goto, reader, vars
<1>15. CASE List
  BY <1>15, SMT
    DEF List, At, Goto, ListCleans, Cleans, Seen, SnapshotsDisabled, reader,
        vars
<1>16. CASE MarkClean
  BY <1>16, SMT
    DEF MarkClean, Issued, Goto, TakeSnapshot, Snapshot, reader, vars
<1>17. CASE Drop
  BY <1>17, SMT
    DEF Drop, At, Destroy, reader, vars
<1>18. CASE DropEnd
  BY <1>18, SMT
    DEF DropEnd, At, EndCall, QubeAfter, reader, vars
<1>19. CASE ImportData
  BY <1>19, SMT
    DEF ImportData, MayReplace, Free, reader, vars
<1>20. CASE Upload
  BY <1>20, SMT
    DEF Upload, reader, vars
<1>21. CASE ImportEnd
  BY <1>21, SMT
    DEF ImportEnd, Begin, reader, vars
<1>22. CASE ImportFailed
  BY <1>22, SMT
    DEF ImportFailed, Free, reader, vars
<1>23. CASE CloneBegin
  BY <1>23, SMT
    DEF CloneBegin, Begin, MayReplace, reader, vars
<1>24. CASE Copy
  BY <1>24, SMT
    DEF Copy, At, Goto, reader, vars
<1>25. CASE Replace
  BY <1>25, SMT
    DEF Replace, At, Goto, reader, vars
<1>26. CASE Rename
  BY <1>26, SMT
    DEF Rename, At, Goto, CanWork, CreateRevision, reader, vars
<1>27. CASE RevertBegin
  BY <1>27, SMT
    DEF RevertBegin, MayReplace, Begin, Revisions, Seen, reader, vars
<1>28. CASE Rollback
  BY <1>28, SMT
    DEF Rollback, Issued, Goto, reader, vars
<1>29. CASE RemoveRevision
  BY <1>29, SMT
    DEF RemoveRevision, At, Goto, Destroy, reader, vars
<1>30. CASE ReadBegin
  <2>1. CASE doubtful
    BY <1>30, <2>1 DEF ReadBegin
  <2>2. CASE ~doubtful
    BY <1>30, <2>2, SourceSays DEF ReadBegin, Pick
  <2>3. QED
    BY <2>1, <2>2
<1>31. CASE ReadIssue
  BY <1>31, SMT
    DEF ReadIssue, Waits, ReaderUnchanged, reader, vars
<1>32. CASE ReadSnapshot
  <2>1. CASE doubtful'
    BY <2>1
  <2>2. CASE ~doubtful'
    <3>1. (\A s \in Seen : IsSource(s) => s.data = committed)'
      BY <2>2, SourceSays, PTL
    <3>2. committed' = committed
      BY <1>32 DEF ReadSnapshot, ReaderUnchanged
    <3>3. \E s \in Seen' : IsSource(s)' /\ src' = s
      BY <1>32 DEF ReadSnapshot, Pick
    <3>4. QED
      BY <3>1, <3>2, <3>3
  <2>3. QED
    BY <2>1, <2>2
<1>33. CASE ReadMark
  BY <1>33, SMT
    DEF ReadMark, TakeSnapshot, Snapshot, ReaderUnchanged, reader, vars
<1>34. CASE ReadClone
  BY <1>34, SMT
    DEF ReadClone, Exists, SnapshotsDisabled, ReaderUnchanged, reader, vars
<1>35. CASE ReadList
  BY <1>35, SMT
    DEF ReadList, Free, SnapshotsDisabled, ReaderUnchanged, Cleans, Seen,
        reader, vars
<1>36. CASE ReadDrop
  BY <1>36, SMT
    DEF ReadDrop, Free, Destroy, ReaderUnchanged, reader, vars
<1>37. CASE ReadRaise
  BY <1>37, SMT
    DEF ReadRaise, Upset, reader, vars
<1>38. CASE CloneRemoved
  BY <1>38, SMT
    DEF CloneRemoved, Free, ReaderUnchanged, reader, vars
<1>39. CASE SetKeep
  BY <1>39, SMT
    DEF SetKeep, Upset, reader, vars
<1>40. CASE Crash
  BY <1>40, SMT
    DEF Crash, Upset, EndCall, reader, vars
<1>41. CASE UNCHANGED vars
  BY <1>41, SMT
    DEF vars, reader
<1>42. QED
  BY <1>1, <1>2, <1>3, <1>4, <1>5, <1>6, <1>7, <1>8, <1>9, <1>10, <1>11,
     <1>12, <1>13, <1>14, <1>15, <1>16, <1>17, <1>18, <1>19, <1>20, <1>21,
     <1>22, <1>23, <1>24, <1>25, <1>26, <1>27, <1>28, <1>29, <1>30, <1>31,
     <1>32, <1>33, <1>34, <1>35, <1>36, <1>37, <1>38, <1>39, <1>40, <1>41
    DEF Next

(* ReadInv holds from the beginning, whatever list is cached when.          *)
THEOREM ReadInvariant == Spec => []ReadInv
<1>1. Init => ReadInv
  <2> SUFFICES ASSUME Init PROVE KnownInv /\ RestInv /\ SourceInv
    BY DEF ReadInv
  <2>1. pc = "idle" /\ rpc = "idle" /\ todo = {} /\ rtodo = {} /\ stale = {} /\ op = "none"
        /\ main = committed /\ main = 1
    BY DEF Init
  <2>2. snaps = {Snapshot(IF n = made THEN "clean" ELSE "revision", n) : n \in 1..made}
        /\ made \in {0, 1, 2}
    BY SMT DEF Init
  <2>3. \A s \in snaps : \E n \in 1..made :
            s.id = n /\ s.data = committed /\ s.gone = "no"
            /\ s.clean = IF n = made THEN "clean" ELSE "revision"
    BY <2>1, <2>2, SMT DEF Snapshot
  <2>4. Known = snaps
    BY <2>1 DEF Known
  <2>5. KnownInv
    BY <2>1, <2>2, <2>3, <2>4, SMT DEF KnownInv
  <2>6. RestInv
    BY <2>1 DEF RestInv
  <2>7. Alike(snaps) \/ \E s \in snaps : Says(s, snaps) /\ Stays(s)
    <3>1. CASE made = 0
      BY <2>3, <3>1, SMT DEF Alike
    <3>2. CASE made # 0
      <4>1. made \in 1..made
        BY <2>2, <3>2, SMT
      <4>2. Snapshot("clean", made) \in snaps
        BY <2>2, <4>1
      <4> PICK s \in snaps : s.id = made
        BY <4>2, SMT DEF Snapshot
      <4>3. Says(s, snaps)
        BY <2>2, <2>3, SMT DEF Says
      <4>4. QED
        BY <2>1, <4>3 DEF Stays
    <3>3. QED
      BY <3>1, <3>2
  <2>8. QED
    BY <2>1, <2>5, <2>6, <2>7 DEF SourceInv
<1>2. ZfsInv /\ ReadInv /\ [Next]_vars => ReadInv'
  BY KnownStep, RestStep, SourceStep DEF ReadInv
<1> QED
  BY <1>1, <1>2, ZfsInvariant, PTL DEF Spec

(* Only _create_revision() makes a revision.                                *)
LEMMA RevisionTaken ==
    ASSUME ZfsInv, ReadInv, [Next]_vars, NEW s \in snaps', s.id > made,
           s.clean = "revision"
    PROVE Revision /\ s.data = main
<1>1. made \in Int /\ \A t \in snaps : t.id \in Int /\ t.id <= made
  BY SMT DEF ZfsInv, TypeOK, Snaps, ReadInv, KnownInv, Known
<1>2. s \notin snaps
  BY <1>1, SMT
<1>3. made' # made
  <2>1. KnownInv' /\ TypeOK'
    BY KnownStep, TypeStep
  <2>2. s.id \in Int /\ s.id <= made'
    BY <2>1, SMT DEF KnownInv, Known, TypeOK, Snaps
  <2>3. QED
    BY <1>1, <2>2, SMT
<1>4. Revision \/ MarkClean \/ ReadSnapshot \/ ReadMark
  <2>1. ~(Look \/ Issue \/ Raise \/ Purge \/ PurgeEnd)
    BY <1>3, Zenon DEF Look, Issue, Raise, Purge, PurgeEnd, pool
  <2>2. ~StartBegin
    BY <1>3, Zenon DEF StartBegin, pool
  <2>3. ~(StateFile \/ DomainStart \/ Write \/ DomainEnds \/ StopBegin)
    BY <1>3, SMT DEF StateFile, DomainStart, Write, DomainEnds, StopBegin, pool
  <2>4. ~(SetDirty \/ ClearDirty \/ List \/ Drop \/ DropEnd)
    BY <1>3, Zenon DEF SetDirty, ClearDirty, List, Drop, DropEnd, pool
  <2>5. ~(ImportData \/ Upload \/ ImportEnd \/ ImportFailed \/
          CloneBegin \/ Copy \/ Replace \/ Rename \/ RevertBegin \/
          Rollback \/ RemoveRevision)
    BY <1>3, SMT
      DEF ImportData, Upload, ImportEnd, ImportFailed, CloneBegin, Copy,
          Replace, Rename, RevertBegin, Rollback, RemoveRevision, pool
  <2>6. ~(ReadBegin \/ ReadIssue \/ ReadClone \/ ReadList \/ ReadDrop
          \/ ReadRaise \/ CloneRemoved \/ SetKeep \/ Crash)
    BY <1>3, SMT
      DEF ReadBegin, ReadIssue, ReadClone, ReadList, ReadDrop, ReadRaise,
          CloneRemoved, SetKeep, Crash, pool
  <2>7. ~UNCHANGED vars
    BY <1>3 DEF vars, pool
  <2> QED
    BY <2>1, <2>2, <2>3, <2>4, <2>5, <2>6, <2>7 DEF Next
<1>5. MarkClean \/ ReadSnapshot \/ ReadMark =>
        snaps' = snaps \cup {Snapshot("clean", made + 1)}
  BY DEF MarkClean, ReadSnapshot, ReadMark, TakeSnapshot
<1>6. ~(MarkClean \/ ReadSnapshot \/ ReadMark)
  BY <1>2, <1>5, SMT DEF Snapshot
<1>7. Revision => snaps' = snaps \cup {Snapshot("revision", made + 1)}
  BY DEF Revision, TakeSnapshot
<1> QED
  BY <1>2, <1>4, <1>6, <1>7, SMT DEF Snapshot

(* Whatever fails, and whenever qubesd restarts or the power is cut, every *)
(* revision is taken of a volume at rest.                                  *)
THEOREM RevisionsTakenClean == Spec => RevisionsClean
<1>1. ZfsInv /\ ReadInv /\ [Next]_vars =>
        \A s \in snaps' : s.id > made /\ s.clean = "revision" =>
            qube # "on" /\ s.data = committed
  <2> SUFFICES ASSUME ZfsInv, ReadInv, [Next]_vars, NEW s \in snaps',
                      s.id > made, s.clean = "revision"
               PROVE  qube # "on" /\ s.data = committed
    OBVIOUS
  <2>1. Revision /\ s.data = main
    BY RevisionTaken
  <2>2. pc = "revision"
    BY <2>1 DEF Revision, Issued
  <2>3. qube # "on" /\ main # 0
    BY <2>2, SMT DEF ZfsInv, CallInv, VolumeInv
  <2>4. main = committed
    BY <2>2, <2>3, SMT DEF ReadInv, RestInv
  <2> QED
    BY <2>1, <2>3, <2>4
<1> QED
  BY <1>1, ZfsInvariant, ReadInvariant, PTL DEF Spec, RevisionsClean

(* Whatever is made from the volume gets what it last said at rest, however *)
(* its commands interleave with start, stop, import, revert and clone, but  *)
(* for the calls that did not come to their _mark_clean().                  *)
THEOREM MadeFromCommitted == Spec => SourceIsCommitted
<1>1. ZfsInv /\ ReadInv /\ ZfsInv' /\ ReadInv' /\ [Next]_vars =>
        (rpc' = "clone" /\ rpc # "clone" => src'.data = committed \/ doubtful')
  BY PickStep
<1> QED
  BY <1>1, ZfsInvariant, ReadInvariant, PTL DEF Spec, SourceIsCommitted
=============================================================================
