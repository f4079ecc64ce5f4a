--------------------------- MODULE XmlStore_proofs ---------------------------
(***************************************************************************)
(* Proofs about XmlStore, for any number of processes, files, updates and  *)
(* crashes, and about what is written in it (QubeCollection), for any      *)
(* number of qubes, calls, labels, pools and restarts.                     *)
(***************************************************************************)
EXTENDS XmlStore, QubeCollection, TLAPS

USE WritersAreProcs, BoundsAreNaturals

(* Every variable keeps its type.                                          *)
LEMMA TypeInductive == TypeOK /\ OpenInv /\ [Next]_vars => TypeOK'
<1> SUFFICES ASSUME TypeOK, OpenInv, [Next]_vars PROVE TypeOK'
  OBVIOUS
<1>1. ASSUME NEW p \in Procs, Start(p) PROVE TypeOK'
  BY <1>1, SMT
    DEF Start, Go, TypeOK, Files, Pcs, OpenInv, Saving, Acquiring, diskVars,
        procVars, countVars
<1>2. ASSUME NEW p \in Procs, Open(p) PROVE TypeOK'
  BY <1>2, SMT
    DEF Open, Go, TypeOK, Files, Pcs, OpenInv, Saving, Acquiring, diskVars,
        procVars, countVars
<1>3. ASSUME NEW p \in Procs, Check(p) PROVE TypeOK'
  BY <1>3, SMT
    DEF Check, Go, TypeOK, Files, Pcs, OpenInv, Saving, Acquiring, diskVars,
        procVars, countVars
<1>4. ASSUME NEW p \in Procs, Reopen(p) PROVE TypeOK'
  BY <1>4, SMT
    DEF Reopen, Go, Close, TypeOK, Files, Pcs, OpenInv, Saving, Acquiring,
        diskVars, procVars, countVars
<1>5. ASSUME NEW p \in Procs, Stamp(p) PROVE TypeOK'
  BY <1>5, SMT
    DEF Stamp, Go, TypeOK, Files, Pcs, OpenInv, Saving, Acquiring, diskVars,
        procVars, countVars
<1>6. ASSUME NEW p \in Procs, Refuse(p) PROVE TypeOK'
  BY <1>6, SMT
    DEF Refuse, Go, Close, IsCurrent, TypeOK, Files, Pcs, OpenInv, Saving,
        Acquiring, diskVars, procVars, countVars
<1>7. ASSUME NEW p \in Procs, Lock(p) PROVE TypeOK'
  BY <1>7, SMT
    DEF Lock, Go, TypeOK, Files, Pcs, OpenInv, Saving, Acquiring, diskVars,
        procVars, countVars
<1>8. ASSUME NEW p \in Procs, Parse(p) PROVE TypeOK'
  BY <1>8, SMT
    DEF Parse, Go, TypeOK, Files, Pcs, OpenInv, Saving, Acquiring, diskVars,
        procVars, countVars
<1>9. ASSUME NEW p \in Procs, LoadEnd(p) PROVE TypeOK'
  BY <1>9, SMT
    DEF LoadEnd, Go, Close, TypeOK, Files, Pcs, OpenInv, Saving, Acquiring,
        diskVars, procVars, countVars
<1>10. ASSUME NEW p \in Procs, Change(p) PROVE TypeOK'
  BY <1>10, SMT
    DEF Change, TypeOK, Files, Pcs, OpenInv, Saving, Acquiring, diskVars,
        procVars, countVars
<1>11. ASSUME NEW p \in Procs, Save(p) PROVE TypeOK'
  BY <1>11, SMT
    DEF Save, Go, TypeOK, Files, Pcs, OpenInv, Saving, Acquiring, diskVars,
        procVars, countVars
<1>12. ASSUME NEW p \in Procs, Write(p) PROVE TypeOK'
  BY <1>12, SMT
    DEF Write, Go, TypeOK, Files, Pcs, OpenInv, Saving, Acquiring, diskVars,
        procVars, countVars
<1>13. ASSUME NEW p \in Procs, SyncFile(p) PROVE TypeOK'
  BY <1>13, SMT
    DEF SyncFile, Go, Sync, TypeOK, Files, Pcs, OpenInv, Saving, Acquiring,
        diskVars, procVars, countVars
<1>14. ASSUME NEW p \in Procs, Rename(p) PROVE TypeOK'
  BY <1>14, SMT
    DEF Rename, Go, TypeOK, Files, Pcs, OpenInv, Saving, Acquiring,
        diskVars, procVars, countVars
<1>15. ASSUME NEW p \in Procs, SyncDirectory(p) PROVE TypeOK'
  BY <1>15, SMT
    DEF SyncDirectory, Go, SyncDir, TypeOK, Files, Pcs, OpenInv, Saving,
        Acquiring, diskVars, procVars, countVars
<1>16. ASSUME NEW p \in Procs, Swap(p) PROVE TypeOK'
  BY <1>16, SMT
    DEF Swap, Go, Close, TypeOK, Files, Pcs, OpenInv, Saving, Acquiring,
        diskVars, procVars, countVars
<1>17. ASSUME NEW p \in Procs, SaveFails(p) PROVE TypeOK'
  BY <1>17, SMT
    DEF SaveFails, Go, LeaveLock, TypeOK, Files, Pcs, OpenInv, Saving,
        Acquiring, diskVars, procVars, countVars
<1>18. ASSUME NEW p \in Procs, Exit(p) PROVE TypeOK'
  BY <1>18, SMT
    DEF Exit, Crash, Forget, CloseAll, TypeOK, Files, Pcs, OpenInv, Saving,
        Acquiring, diskVars, procVars, countVars
<1>19. CASE Writeback
  BY <1>19, SMT
    DEF Writeback, SyncDir, TypeOK, Files, Pcs, OpenInv, Saving, Acquiring,
        diskVars, procVars, countVars
<1>20. CASE PowerCut
  BY <1>20, SMT
    DEF PowerCut, Crash, Forget, TypeOK, Files, Pcs, OpenInv, Saving,
        Acquiring, diskVars, procVars, countVars
<1>21. CASE UNCHANGED vars
  BY <1>21, SMT
    DEF vars, TypeOK, Files, Pcs, OpenInv, Saving, Acquiring, diskVars,
        procVars, countVars
<1>22. QED
  BY <1>1, <1>2, <1>3, <1>4, <1>5, <1>6, <1>7, <1>8, <1>9, <1>10, <1>11,
     <1>12, <1>13, <1>14, <1>15, <1>16, <1>17, <1>18, <1>19, <1>20, <1>21
    DEF Next, Step

LEMMA OpenInductive == TypeOK /\ OpenInv /\ [Next]_vars => OpenInv'
<1> SUFFICES ASSUME TypeOK, OpenInv, [Next]_vars PROVE OpenInv'
  OBVIOUS
<1>1. ASSUME NEW p \in Procs, Start(p) PROVE OpenInv'
  BY <1>1, SMT
    DEF Start, Go, TypeOK, Files, Pcs, OpenInv, Saving, Acquiring, diskVars,
        procVars, countVars
<1>2. ASSUME NEW p \in Procs, Open(p) PROVE OpenInv'
  BY <1>2, SMT
    DEF Open, Go, TypeOK, Files, Pcs, OpenInv, Saving, Acquiring, diskVars,
        procVars, countVars
<1>3. ASSUME NEW p \in Procs, Check(p) PROVE OpenInv'
  BY <1>3, SMT
    DEF Check, Go, TypeOK, Files, Pcs, OpenInv, Saving, Acquiring, diskVars,
        procVars, countVars
<1>4. ASSUME NEW p \in Procs, Reopen(p) PROVE OpenInv'
  BY <1>4, SMT
    DEF Reopen, Go, Close, TypeOK, Files, Pcs, OpenInv, Saving, Acquiring,
        diskVars, procVars, countVars
<1>5. ASSUME NEW p \in Procs, Stamp(p) PROVE OpenInv'
  BY <1>5, SMT
    DEF Stamp, Go, TypeOK, Files, Pcs, OpenInv, Saving, Acquiring, diskVars,
        procVars, countVars
<1>6. ASSUME NEW p \in Procs, Refuse(p) PROVE OpenInv'
  BY <1>6, SMT
    DEF Refuse, Go, Close, IsCurrent, TypeOK, Files, Pcs, OpenInv, Saving,
        Acquiring, diskVars, procVars, countVars
<1>7. ASSUME NEW p \in Procs, Lock(p) PROVE OpenInv'
  BY <1>7, SMT
    DEF Lock, Go, TypeOK, Files, Pcs, OpenInv, Saving, Acquiring, diskVars,
        procVars, countVars
<1>8. ASSUME NEW p \in Procs, Parse(p) PROVE OpenInv'
  BY <1>8, SMT
    DEF Parse, Go, TypeOK, Files, Pcs, OpenInv, Saving, Acquiring, diskVars,
        procVars, countVars
<1>9. ASSUME NEW p \in Procs, LoadEnd(p) PROVE OpenInv'
  BY <1>9, SMT
    DEF LoadEnd, Go, Close, TypeOK, Files, Pcs, OpenInv, Saving, Acquiring,
        diskVars, procVars, countVars
<1>10. ASSUME NEW p \in Procs, Change(p) PROVE OpenInv'
  BY <1>10, SMT
    DEF Change, TypeOK, Files, Pcs, OpenInv, Saving, Acquiring, diskVars,
        procVars, countVars
<1>11. ASSUME NEW p \in Procs, Save(p) PROVE OpenInv'
  BY <1>11, SMT
    DEF Save, Go, TypeOK, Files, Pcs, OpenInv, Saving, Acquiring, diskVars,
        procVars, countVars
<1>12. ASSUME NEW p \in Procs, Write(p) PROVE OpenInv'
  BY <1>12, SMT
    DEF Write, Go, TypeOK, Files, Pcs, OpenInv, Saving, Acquiring, diskVars,
        procVars, countVars
<1>13. ASSUME NEW p \in Procs, SyncFile(p) PROVE OpenInv'
  BY <1>13, SMT
    DEF SyncFile, Go, Sync, TypeOK, Files, Pcs, OpenInv, Saving, Acquiring,
        diskVars, procVars, countVars
<1>14. ASSUME NEW p \in Procs, Rename(p) PROVE OpenInv'
  BY <1>14, SMT
    DEF Rename, Go, TypeOK, Files, Pcs, OpenInv, Saving, Acquiring,
        diskVars, procVars, countVars
<1>15. ASSUME NEW p \in Procs, SyncDirectory(p) PROVE OpenInv'
  BY <1>15, SMT
    DEF SyncDirectory, Go, SyncDir, TypeOK, Files, Pcs, OpenInv, Saving,
        Acquiring, diskVars, procVars, countVars
<1>16. ASSUME NEW p \in Procs, Swap(p) PROVE OpenInv'
  BY <1>16, SMT
    DEF Swap, Go, Close, TypeOK, Files, Pcs, OpenInv, Saving, Acquiring,
        diskVars, procVars, countVars
<1>17. ASSUME NEW p \in Procs, SaveFails(p) PROVE OpenInv'
  BY <1>17, SMT
    DEF SaveFails, Go, LeaveLock, TypeOK, Files, Pcs, OpenInv, Saving,
        Acquiring, diskVars, procVars, countVars
<1>18. ASSUME NEW p \in Procs, Exit(p) PROVE OpenInv'
  BY <1>18, SMT
    DEF Exit, Crash, Forget, CloseAll, TypeOK, Files, Pcs, OpenInv, Saving,
        Acquiring, diskVars, procVars, countVars
<1>19. CASE Writeback
  BY <1>19, SMT
    DEF Writeback, SyncDir, TypeOK, Files, Pcs, OpenInv, Saving, Acquiring,
        diskVars, procVars, countVars
<1>20. CASE PowerCut
  BY <1>20, SMT
    DEF PowerCut, Crash, Forget, TypeOK, Files, Pcs, OpenInv, Saving,
        Acquiring, diskVars, procVars, countVars
<1>21. CASE UNCHANGED vars
  BY <1>21, SMT
    DEF vars, TypeOK, Files, Pcs, OpenInv, Saving, Acquiring, diskVars,
        procVars, countVars
<1>22. QED
  BY <1>1, <1>2, <1>3, <1>4, <1>5, <1>6, <1>7, <1>8, <1>9, <1>10, <1>11,
     <1>12, <1>13, <1>14, <1>15, <1>16, <1>17, <1>18, <1>19, <1>20, <1>21
    DEF Next, Step

LEMMA TypeInit == Init => TypeOK
  BY DEF Init, TypeOK, Files, Pcs

(* The files of saves under way stay apart from each other and from the    *)
(* store.                                                                  *)
LEMMA FilesInductive == WholeInv /\ [Next]_vars => FilesInv'
<1> SUFFICES ASSUME TypeOK, OpenInv, FilesInv, [Next]_vars PROVE FilesInv'
  BY DEF WholeInv
<1>1. ASSUME NEW p \in Procs, Start(p) PROVE FilesInv'
  BY <1>1, SMT
    DEF Start, Go, TypeOK, Files, Pcs, OpenInv, Saving, Acquiring, FilesInv,
        diskVars, procVars, countVars
<1>2. ASSUME NEW p \in Procs, Open(p) PROVE FilesInv'
  BY <1>2, SMT
    DEF Open, Go, TypeOK, Files, Pcs, OpenInv, Saving, Acquiring, FilesInv,
        diskVars, procVars, countVars
<1>3. ASSUME NEW p \in Procs, Check(p) PROVE FilesInv'
  BY <1>3, SMT
    DEF Check, Go, TypeOK, Files, Pcs, OpenInv, Saving, Acquiring, FilesInv,
        diskVars, procVars, countVars
<1>4. ASSUME NEW p \in Procs, Reopen(p) PROVE FilesInv'
  BY <1>4, SMT
    DEF Reopen, Go, Close, TypeOK, Files, Pcs, OpenInv, Saving, Acquiring,
        FilesInv, diskVars, procVars, countVars
<1>5. ASSUME NEW p \in Procs, Stamp(p) PROVE FilesInv'
  BY <1>5, SMT
    DEF Stamp, Go, TypeOK, Files, Pcs, OpenInv, Saving, Acquiring, FilesInv,
        diskVars, procVars, countVars
<1>6. ASSUME NEW p \in Procs, Refuse(p) PROVE FilesInv'
  BY <1>6, SMT
    DEF Refuse, Go, Close, IsCurrent, TypeOK, Files, Pcs, OpenInv, Saving,
        Acquiring, FilesInv, diskVars, procVars, countVars
<1>7. ASSUME NEW p \in Procs, Lock(p) PROVE FilesInv'
  BY <1>7, SMT
    DEF Lock, Go, TypeOK, Files, Pcs, OpenInv, Saving, Acquiring, FilesInv,
        diskVars, procVars, countVars
<1>8. ASSUME NEW p \in Procs, Parse(p) PROVE FilesInv'
  BY <1>8, SMT
    DEF Parse, Go, TypeOK, Files, Pcs, OpenInv, Saving, Acquiring, FilesInv,
        diskVars, procVars, countVars
<1>9. ASSUME NEW p \in Procs, LoadEnd(p) PROVE FilesInv'
  BY <1>9, SMT
    DEF LoadEnd, Go, Close, TypeOK, Files, Pcs, OpenInv, Saving, Acquiring,
        FilesInv, diskVars, procVars, countVars
<1>10. ASSUME NEW p \in Procs, Change(p) PROVE FilesInv'
  BY <1>10, SMT
    DEF Change, TypeOK, Files, Pcs, OpenInv, Saving, Acquiring, FilesInv,
        diskVars, procVars, countVars
<1>11. ASSUME NEW p \in Procs, Save(p) PROVE FilesInv'
  BY <1>11, SMT
    DEF Save, Go, TypeOK, Files, Pcs, OpenInv, Saving, Acquiring, FilesInv,
        diskVars, procVars, countVars
<1>12. ASSUME NEW p \in Procs, Write(p) PROVE FilesInv'
  BY <1>12, SMT
    DEF Write, Go, TypeOK, Files, Pcs, OpenInv, Saving, Acquiring, FilesInv,
        diskVars, procVars, countVars
<1>13. ASSUME NEW p \in Procs, SyncFile(p) PROVE FilesInv'
  BY <1>13, SMT
    DEF SyncFile, Go, Sync, TypeOK, Files, Pcs, OpenInv, Saving, Acquiring,
        FilesInv, diskVars, procVars, countVars
<1>14. ASSUME NEW p \in Procs, Rename(p) PROVE FilesInv'
  BY <1>14, SMT
    DEF Rename, Go, TypeOK, Files, Pcs, OpenInv, Saving, Acquiring,
        FilesInv, diskVars, procVars, countVars
<1>15. ASSUME NEW p \in Procs, SyncDirectory(p) PROVE FilesInv'
  BY <1>15, SMT
    DEF SyncDirectory, Go, SyncDir, TypeOK, Files, Pcs, OpenInv, Saving,
        Acquiring, FilesInv, diskVars, procVars, countVars
<1>16. ASSUME NEW p \in Procs, Swap(p) PROVE FilesInv'
  BY <1>16, SMT
    DEF Swap, Go, Close, TypeOK, Files, Pcs, OpenInv, Saving, Acquiring,
        FilesInv, diskVars, procVars, countVars
<1>17. ASSUME NEW p \in Procs, SaveFails(p) PROVE FilesInv'
  BY <1>17, SMT
    DEF SaveFails, Go, LeaveLock, TypeOK, Files, Pcs, OpenInv, Saving,
        Acquiring, FilesInv, diskVars, procVars, countVars
<1>18. ASSUME NEW p \in Procs, Exit(p) PROVE FilesInv'
  BY <1>18, SMT
    DEF Exit, Crash, Forget, CloseAll, TypeOK, Files, Pcs, OpenInv, Saving,
        Acquiring, FilesInv, diskVars, procVars, countVars
<1>19. CASE Writeback
  BY <1>19, SMT
    DEF Writeback, SyncDir, TypeOK, Files, Pcs, OpenInv, Saving, Acquiring,
        FilesInv, diskVars, procVars, countVars
<1>20. CASE PowerCut
  BY <1>20, SMT
    DEF PowerCut, Crash, Forget, TypeOK, Files, Pcs, OpenInv, Saving,
        Acquiring, FilesInv, diskVars, procVars, countVars
<1>21. CASE UNCHANGED vars
  BY <1>21, SMT
    DEF vars, TypeOK, Files, Pcs, OpenInv, Saving, Acquiring, FilesInv,
        diskVars, procVars, countVars
<1>22. QED
  BY <1>1, <1>2, <1>3, <1>4, <1>5, <1>6, <1>7, <1>8, <1>9, <1>10, <1>11,
     <1>12, <1>13, <1>14, <1>15, <1>16, <1>17, <1>18, <1>19, <1>20, <1>21
    DEF Next, Step

(* The store is whole, now and after a power cut, whoever writes it and    *)
(* whatever fails (replace_file() and rename_file() of qubes/utils.py).    *)
THEOREM StoreAlwaysWhole == Spec => []StoreWhole
<1>1. Init => WholeInv
  BY TypeInit, SMT
    DEF Init, WholeInv, OpenInv, FilesInv, Saving, Acquiring, TypeOK, Files
<1>2. WholeInv /\ [Next]_vars => WholeInv'
  BY TypeInductive, OpenInductive, FilesInductive DEF WholeInv
<1>3. WholeInv => StoreWhole
  BY DEF WholeInv, FilesInv, StoreWhole
<1>4. QED
  BY <1>1, <1>2, <1>3, PTL DEF Spec

---------------------------------------------------------------------------
(* From here on there is one writer, as qubesd is one: readers may come and *)
(* go beside it.                                                           *)
OneWriter == \A p, q \in Writers : p = q

LEMMA ReadersInductive == TypeOK /\ ReadersInv /\ [Next]_vars => ReadersInv'
<1> SUFFICES ASSUME TypeOK, ReadersInv, [Next]_vars PROVE ReadersInv'
  OBVIOUS
<1>1. ASSUME NEW p \in Procs, Start(p) PROVE ReadersInv'
  BY <1>1, SMT
    DEF Start, Go, TypeOK, Files, Pcs, ReadersInv, Saving, Acquiring,
        diskVars, procVars, countVars
<1>2. ASSUME NEW p \in Procs, Open(p) PROVE ReadersInv'
  BY <1>2, SMT
    DEF Open, Go, TypeOK, Files, Pcs, ReadersInv, Saving, Acquiring,
        diskVars, procVars, countVars
<1>3. ASSUME NEW p \in Procs, Check(p) PROVE ReadersInv'
  BY <1>3, SMT
    DEF Check, Go, TypeOK, Files, Pcs, ReadersInv, Saving, Acquiring,
        diskVars, procVars, countVars
<1>4. ASSUME NEW p \in Procs, Reopen(p) PROVE ReadersInv'
  BY <1>4, SMT
    DEF Reopen, Go, Close, TypeOK, Files, Pcs, ReadersInv, Saving,
        Acquiring, diskVars, procVars, countVars
<1>5. ASSUME NEW p \in Procs, Stamp(p) PROVE ReadersInv'
  BY <1>5, SMT
    DEF Stamp, Go, TypeOK, Files, Pcs, ReadersInv, Saving, Acquiring,
        diskVars, procVars, countVars
<1>6. ASSUME NEW p \in Procs, Refuse(p) PROVE ReadersInv'
  BY <1>6, SMT
    DEF Refuse, Go, Close, IsCurrent, TypeOK, Files, Pcs, ReadersInv,
        Saving, Acquiring, diskVars, procVars, countVars
<1>7. ASSUME NEW p \in Procs, Lock(p) PROVE ReadersInv'
  BY <1>7, SMT
    DEF Lock, Go, TypeOK, Files, Pcs, ReadersInv, Saving, Acquiring,
        diskVars, procVars, countVars
<1>8. ASSUME NEW p \in Procs, Parse(p) PROVE ReadersInv'
  BY <1>8, SMT
    DEF Parse, Go, TypeOK, Files, Pcs, ReadersInv, Saving, Acquiring,
        diskVars, procVars, countVars
<1>9. ASSUME NEW p \in Procs, LoadEnd(p) PROVE ReadersInv'
  BY <1>9, SMT
    DEF LoadEnd, Go, Close, TypeOK, Files, Pcs, ReadersInv, Saving,
        Acquiring, diskVars, procVars, countVars
<1>10. ASSUME NEW p \in Procs, Change(p) PROVE ReadersInv'
  BY <1>10, SMT
    DEF Change, TypeOK, Files, Pcs, ReadersInv, Saving, Acquiring, diskVars,
        procVars, countVars
<1>11. ASSUME NEW p \in Procs, Save(p) PROVE ReadersInv'
  BY <1>11, SMT
    DEF Save, Go, TypeOK, Files, Pcs, ReadersInv, Saving, Acquiring,
        diskVars, procVars, countVars
<1>12. ASSUME NEW p \in Procs, Write(p) PROVE ReadersInv'
  BY <1>12, SMT
    DEF Write, Go, TypeOK, Files, Pcs, ReadersInv, Saving, Acquiring,
        diskVars, procVars, countVars
<1>13. ASSUME NEW p \in Procs, SyncFile(p) PROVE ReadersInv'
  BY <1>13, SMT
    DEF SyncFile, Go, Sync, TypeOK, Files, Pcs, ReadersInv, Saving,
        Acquiring, diskVars, procVars, countVars
<1>14. ASSUME NEW p \in Procs, Rename(p) PROVE ReadersInv'
  BY <1>14, SMT
    DEF Rename, Go, TypeOK, Files, Pcs, ReadersInv, Saving, Acquiring,
        diskVars, procVars, countVars
<1>15. ASSUME NEW p \in Procs, SyncDirectory(p) PROVE ReadersInv'
  BY <1>15, SMT
    DEF SyncDirectory, Go, SyncDir, TypeOK, Files, Pcs, ReadersInv, Saving,
        Acquiring, diskVars, procVars, countVars
<1>16. ASSUME NEW p \in Procs, Swap(p) PROVE ReadersInv'
  BY <1>16, SMT
    DEF Swap, Go, Close, TypeOK, Files, Pcs, ReadersInv, Saving, Acquiring,
        diskVars, procVars, countVars
<1>17. ASSUME NEW p \in Procs, SaveFails(p) PROVE ReadersInv'
  BY <1>17, SMT
    DEF SaveFails, Go, LeaveLock, TypeOK, Files, Pcs, ReadersInv, Saving,
        Acquiring, diskVars, procVars, countVars
<1>18. ASSUME NEW p \in Procs, Exit(p) PROVE ReadersInv'
  BY <1>18, SMT
    DEF Exit, Crash, Forget, CloseAll, TypeOK, Files, Pcs, ReadersInv,
        Saving, Acquiring, diskVars, procVars, countVars
<1>19. CASE Writeback
  BY <1>19, SMT
    DEF Writeback, SyncDir, TypeOK, Files, Pcs, ReadersInv, Saving,
        Acquiring, diskVars, procVars, countVars
<1>20. CASE PowerCut
  BY <1>20, SMT
    DEF PowerCut, Crash, Forget, TypeOK, Files, Pcs, ReadersInv, Saving,
        Acquiring, diskVars, procVars, countVars
<1>21. CASE UNCHANGED vars
  BY <1>21, SMT
    DEF vars, TypeOK, Files, Pcs, ReadersInv, Saving, Acquiring, diskVars,
        procVars, countVars
<1>22. QED
  BY <1>1, <1>2, <1>3, <1>4, <1>5, <1>6, <1>7, <1>8, <1>9, <1>10, <1>11,
     <1>12, <1>13, <1>14, <1>15, <1>16, <1>17, <1>18, <1>19, <1>20, <1>21
    DEF Next, Step

(* What was saved stays in the store and in what the writer knows.         *)
LEMMA PromiseInductive ==
  OneWriter /\ WholeInv /\ ReadersInv /\ CurrentInv /\ PromiseInv /\ [Next]_vars
    => PromiseInv'
<1> SUFFICES ASSUME OneWriter, TypeOK, OpenInv, FilesInv, ReadersInv, CurrentInv,
                    PromiseInv, [Next]_vars
             PROVE PromiseInv'
  BY DEF WholeInv
<1>1. ASSUME NEW p \in Procs, Start(p) PROVE PromiseInv'
  BY <1>1, SMT
    DEF Start, Go, TypeOK, Files, Pcs, OpenInv, Saving, Acquiring, FilesInv,
        OneWriter, ReadersInv, PromiseInv, diskVars, procVars, countVars
<1>2. ASSUME NEW p \in Procs, Open(p) PROVE PromiseInv'
  BY <1>2, SMT
    DEF Open, Go, TypeOK, Files, Pcs, OpenInv, Saving, Acquiring, FilesInv,
        OneWriter, ReadersInv, PromiseInv, diskVars, procVars, countVars
<1>3. ASSUME NEW p \in Procs, Check(p) PROVE PromiseInv'
  BY <1>3, SMT
    DEF Check, Go, TypeOK, Files, Pcs, OpenInv, Saving, Acquiring, FilesInv,
        OneWriter, ReadersInv, PromiseInv, diskVars, procVars, countVars
<1>4. ASSUME NEW p \in Procs, Reopen(p) PROVE PromiseInv'
  BY <1>4, SMT
    DEF Reopen, Go, Close, TypeOK, Files, Pcs, OpenInv, Saving, Acquiring,
        FilesInv, OneWriter, ReadersInv, PromiseInv, diskVars, procVars,
        countVars
<1>5. ASSUME NEW p \in Procs, Stamp(p) PROVE PromiseInv'
  BY <1>5, SMT
    DEF Stamp, Go, TypeOK, Files, Pcs, OpenInv, Saving, Acquiring, FilesInv,
        OneWriter, ReadersInv, PromiseInv, diskVars, procVars, countVars
<1>6. ASSUME NEW p \in Procs, Refuse(p) PROVE PromiseInv'
  <2>1. p \notin Writers
    BY <1>6, SMT
      DEF Refuse, Go, Close, IsCurrent, TypeOK, Files, Pcs, OpenInv,
          Saving, Acquiring, CurrentInv
  <2>2. QED
    BY <1>6, <2>1, SMT
      DEF Refuse, Go, Close, IsCurrent, TypeOK, Files, Pcs, OpenInv,
          Saving, Acquiring, FilesInv, OneWriter, ReadersInv, PromiseInv,
          diskVars, procVars, countVars
<1>7. ASSUME NEW p \in Procs, Lock(p) PROVE PromiseInv'
  BY <1>7, SMT
    DEF Lock, Go, TypeOK, Files, Pcs, OpenInv, Saving, Acquiring, FilesInv,
        OneWriter, ReadersInv, PromiseInv, diskVars, procVars, countVars
<1>8. ASSUME NEW p \in Procs, Parse(p) PROVE PromiseInv'
  BY <1>8, SMT
    DEF Parse, Go, TypeOK, Files, Pcs, OpenInv, Saving, Acquiring, FilesInv,
        OneWriter, ReadersInv, PromiseInv, diskVars, procVars, countVars
<1>9. ASSUME NEW p \in Procs, LoadEnd(p) PROVE PromiseInv'
  BY <1>9, SMT
    DEF LoadEnd, Go, Close, TypeOK, Files, Pcs, OpenInv, Saving, Acquiring,
        FilesInv, OneWriter, ReadersInv, PromiseInv, diskVars, procVars,
        countVars
<1>10. ASSUME NEW p \in Procs, Change(p) PROVE PromiseInv'
  BY <1>10, SMT
    DEF Change, TypeOK, Files, Pcs, OpenInv, Saving, Acquiring, FilesInv,
        OneWriter, ReadersInv, PromiseInv, diskVars, procVars, countVars
<1>11. ASSUME NEW p \in Procs, Save(p) PROVE PromiseInv'
  BY <1>11, SMT
    DEF Save, Go, TypeOK, Files, Pcs, OpenInv, Saving, Acquiring, FilesInv,
        OneWriter, ReadersInv, PromiseInv, diskVars, procVars, countVars
<1>12. ASSUME NEW p \in Procs, Write(p) PROVE PromiseInv'
  BY <1>12, SMT
    DEF Write, Go, TypeOK, Files, Pcs, OpenInv, Saving, Acquiring, FilesInv,
        OneWriter, ReadersInv, PromiseInv, diskVars, procVars, countVars
<1>13. ASSUME NEW p \in Procs, SyncFile(p) PROVE PromiseInv'
  BY <1>13, SMT
    DEF SyncFile, Go, Sync, TypeOK, Files, Pcs, OpenInv, Saving, Acquiring,
        FilesInv, OneWriter, ReadersInv, PromiseInv, diskVars, procVars,
        countVars
<1>14. ASSUME NEW p \in Procs, Rename(p) PROVE PromiseInv'
  BY <1>14, SMT
    DEF Rename, Go, TypeOK, Files, Pcs, OpenInv, Saving, Acquiring,
        FilesInv, OneWriter, ReadersInv, PromiseInv, diskVars, procVars,
        countVars
<1>15. ASSUME NEW p \in Procs, SyncDirectory(p) PROVE PromiseInv'
  BY <1>15, SMT
    DEF SyncDirectory, Go, SyncDir, TypeOK, Files, Pcs, OpenInv, Saving,
        Acquiring, FilesInv, OneWriter, ReadersInv, PromiseInv, diskVars,
        procVars, countVars
<1>16. ASSUME NEW p \in Procs, Swap(p) PROVE PromiseInv'
  BY <1>16, SMT
    DEF Swap, Go, Close, TypeOK, Files, Pcs, OpenInv, Saving, Acquiring,
        FilesInv, OneWriter, ReadersInv, PromiseInv, diskVars, procVars,
        countVars
<1>17. ASSUME NEW p \in Procs, SaveFails(p) PROVE PromiseInv'
  BY <1>17, SMT
    DEF SaveFails, Go, LeaveLock, TypeOK, Files, Pcs, OpenInv, Saving,
        Acquiring, FilesInv, OneWriter, ReadersInv, PromiseInv, diskVars,
        procVars, countVars
<1>18. ASSUME NEW p \in Procs, Exit(p) PROVE PromiseInv'
  BY <1>18, SMT
    DEF Exit, Crash, Forget, CloseAll, TypeOK, Files, Pcs, OpenInv, Saving,
        Acquiring, FilesInv, OneWriter, ReadersInv, PromiseInv, diskVars,
        procVars, countVars
<1>19. CASE Writeback
  BY <1>19, SMT
    DEF Writeback, SyncDir, TypeOK, Files, Pcs, OpenInv, Saving, Acquiring,
        FilesInv, OneWriter, ReadersInv, PromiseInv, diskVars, procVars,
        countVars
<1>20. CASE PowerCut
  BY <1>20, SMT
    DEF PowerCut, Crash, Forget, TypeOK, Files, Pcs, OpenInv, Saving,
        Acquiring, FilesInv, OneWriter, ReadersInv, PromiseInv, diskVars,
        procVars, countVars
<1>21. CASE UNCHANGED vars
  BY <1>21, SMT
    DEF vars, TypeOK, Files, Pcs, OpenInv, Saving, Acquiring, FilesInv,
        OneWriter, ReadersInv, PromiseInv, diskVars, procVars, countVars
<1>22. QED
  BY <1>1, <1>2, <1>3, <1>4, <1>5, <1>6, <1>7, <1>8, <1>9, <1>10, <1>11,
     <1>12, <1>13, <1>14, <1>15, <1>16, <1>17, <1>18, <1>19, <1>20, <1>21
    DEF Next, Step

(* The modification time the writer remembers is that of the store.        *)
LEMMA CurrentInductive ==
  OneWriter /\ WholeInv /\ ReadersInv /\ CurrentInv /\ PromiseInv /\ [Next]_vars
    => CurrentInv'
<1> SUFFICES ASSUME OneWriter, TypeOK, OpenInv, FilesInv, ReadersInv, CurrentInv,
                    PromiseInv, [Next]_vars
             PROVE CurrentInv'
  BY DEF WholeInv
<1>1. ASSUME NEW p \in Procs, Start(p) PROVE CurrentInv'
  BY <1>1, SMT
    DEF Start, Go, TypeOK, Files, Pcs, OpenInv, Saving, Acquiring,
        OneWriter, ReadersInv, CurrentInv, PromiseInv, diskVars, procVars,
        countVars
<1>2. ASSUME NEW p \in Procs, Open(p) PROVE CurrentInv'
  BY <1>2, SMT
    DEF Open, Go, TypeOK, Files, Pcs, OpenInv, Saving, Acquiring, OneWriter,
        ReadersInv, CurrentInv, PromiseInv, diskVars, procVars, countVars
<1>3. ASSUME NEW p \in Procs, Check(p) PROVE CurrentInv'
  BY <1>3, SMT
    DEF Check, Go, TypeOK, Files, Pcs, OpenInv, Saving, Acquiring,
        OneWriter, ReadersInv, CurrentInv, PromiseInv, diskVars, procVars,
        countVars
<1>4. ASSUME NEW p \in Procs, Reopen(p) PROVE CurrentInv'
  BY <1>4, SMT
    DEF Reopen, Go, Close, TypeOK, Files, Pcs, OpenInv, Saving, Acquiring,
        OneWriter, ReadersInv, CurrentInv, PromiseInv, diskVars, procVars,
        countVars
<1>5. ASSUME NEW p \in Procs, Stamp(p) PROVE CurrentInv'
  BY <1>5, SMT
    DEF Stamp, Go, TypeOK, Files, Pcs, OpenInv, Saving, Acquiring,
        OneWriter, ReadersInv, CurrentInv, PromiseInv, diskVars, procVars,
        countVars
<1>6. ASSUME NEW p \in Procs, Refuse(p) PROVE CurrentInv'
  <2>1. p \notin Writers
    BY <1>6, SMT
      DEF Refuse, Go, Close, IsCurrent, TypeOK, Files, Pcs, OpenInv,
          Saving, Acquiring, CurrentInv
  <2>2. QED
    BY <1>6, <2>1, SMT
      DEF Refuse, Go, Close, IsCurrent, TypeOK, Files, Pcs, OpenInv,
          Saving, Acquiring, OneWriter, ReadersInv, CurrentInv,
          PromiseInv, diskVars, procVars, countVars
<1>7. ASSUME NEW p \in Procs, Lock(p) PROVE CurrentInv'
  BY <1>7, SMT
    DEF Lock, Go, TypeOK, Files, Pcs, OpenInv, Saving, Acquiring, OneWriter,
        ReadersInv, CurrentInv, PromiseInv, diskVars, procVars, countVars
<1>8. ASSUME NEW p \in Procs, Parse(p) PROVE CurrentInv'
  BY <1>8, SMT
    DEF Parse, Go, TypeOK, Files, Pcs, OpenInv, Saving, Acquiring,
        OneWriter, ReadersInv, CurrentInv, PromiseInv, diskVars, procVars,
        countVars
<1>9. ASSUME NEW p \in Procs, LoadEnd(p) PROVE CurrentInv'
  BY <1>9, SMT
    DEF LoadEnd, Go, Close, TypeOK, Files, Pcs, OpenInv, Saving, Acquiring,
        OneWriter, ReadersInv, CurrentInv, PromiseInv, diskVars, procVars,
        countVars
<1>10. ASSUME NEW p \in Procs, Change(p) PROVE CurrentInv'
  BY <1>10, SMT
    DEF Change, TypeOK, Files, Pcs, OpenInv, Saving, Acquiring, OneWriter,
        ReadersInv, CurrentInv, PromiseInv, diskVars, procVars, countVars
<1>11. ASSUME NEW p \in Procs, Save(p) PROVE CurrentInv'
  BY <1>11, SMT
    DEF Save, Go, TypeOK, Files, Pcs, OpenInv, Saving, Acquiring, OneWriter,
        ReadersInv, CurrentInv, PromiseInv, diskVars, procVars, countVars
<1>12. ASSUME NEW p \in Procs, Write(p) PROVE CurrentInv'
  BY <1>12, SMT
    DEF Write, Go, TypeOK, Files, Pcs, OpenInv, Saving, Acquiring,
        OneWriter, ReadersInv, CurrentInv, PromiseInv, diskVars, procVars,
        countVars
<1>13. ASSUME NEW p \in Procs, SyncFile(p) PROVE CurrentInv'
  BY <1>13, SMT
    DEF SyncFile, Go, Sync, TypeOK, Files, Pcs, OpenInv, Saving, Acquiring,
        OneWriter, ReadersInv, CurrentInv, PromiseInv, diskVars, procVars,
        countVars
<1>14. ASSUME NEW p \in Procs, Rename(p) PROVE CurrentInv'
  BY <1>14, SMT
    DEF Rename, Go, TypeOK, Files, Pcs, OpenInv, Saving, Acquiring,
        OneWriter, ReadersInv, CurrentInv, PromiseInv, diskVars, procVars,
        countVars
<1>15. ASSUME NEW p \in Procs, SyncDirectory(p) PROVE CurrentInv'
  BY <1>15, SMT
    DEF SyncDirectory, Go, SyncDir, TypeOK, Files, Pcs, OpenInv, Saving,
        Acquiring, OneWriter, ReadersInv, CurrentInv, PromiseInv, diskVars,
        procVars, countVars
<1>16. ASSUME NEW p \in Procs, Swap(p) PROVE CurrentInv'
  BY <1>16, SMT
    DEF Swap, Go, Close, TypeOK, Files, Pcs, OpenInv, Saving, Acquiring,
        OneWriter, ReadersInv, CurrentInv, PromiseInv, diskVars, procVars,
        countVars
<1>17. ASSUME NEW p \in Procs, SaveFails(p) PROVE CurrentInv'
  BY <1>17, SMT
    DEF SaveFails, Go, LeaveLock, TypeOK, Files, Pcs, OpenInv, Saving,
        Acquiring, OneWriter, ReadersInv, CurrentInv, PromiseInv, diskVars,
        procVars, countVars
<1>18. ASSUME NEW p \in Procs, Exit(p) PROVE CurrentInv'
  BY <1>18, SMT
    DEF Exit, Crash, Forget, CloseAll, TypeOK, Files, Pcs, OpenInv, Saving,
        Acquiring, OneWriter, ReadersInv, CurrentInv, PromiseInv, diskVars,
        procVars, countVars
<1>19. CASE Writeback
  BY <1>19, SMT
    DEF Writeback, SyncDir, TypeOK, Files, Pcs, OpenInv, Saving, Acquiring,
        OneWriter, ReadersInv, CurrentInv, PromiseInv, diskVars, procVars,
        countVars
<1>20. CASE PowerCut
  BY <1>20, SMT
    DEF PowerCut, Crash, Forget, TypeOK, Files, Pcs, OpenInv, Saving,
        Acquiring, OneWriter, ReadersInv, CurrentInv, PromiseInv, diskVars,
        procVars, countVars
<1>21. CASE UNCHANGED vars
  BY <1>21, SMT
    DEF vars, TypeOK, Files, Pcs, OpenInv, Saving, Acquiring, OneWriter,
        ReadersInv, CurrentInv, PromiseInv, diskVars, procVars, countVars
<1>22. QED
  BY <1>1, <1>2, <1>3, <1>4, <1>5, <1>6, <1>7, <1>8, <1>9, <1>10, <1>11,
     <1>12, <1>13, <1>14, <1>15, <1>16, <1>17, <1>18, <1>19, <1>20, <1>21
    DEF Next, Step

LEMMA SingleInit == Init => SingleInv
  BY TypeInit, SMT
  DEF Init, SingleInv, WholeInv, OpenInv, FilesInv, ReadersInv, PromiseInv,
      CurrentInv, Saving, Acquiring, TypeOK, Files

LEMMA SingleInductive == OneWriter /\ SingleInv /\ [Next]_vars => SingleInv'
  BY TypeInductive, OpenInductive, FilesInductive, ReadersInductive,
     PromiseInductive, CurrentInductive
  DEF SingleInv, WholeInv

(* With one writer the inductive invariant holds, for any number of        *)
(* readers, files, updates and crashes.                                    *)
THEOREM SingleWriterInvariant == ASSUME OneWriter PROVE Spec => []SingleInv
<1>1. SingleInv /\ [Next]_vars => SingleInv'
  BY SingleInductive
<1>2. QED
  BY <1>1, SingleInit, PTL DEF Spec

(* The save of the only writer is never refused with "Someone else         *)
(* modified qubes.xml in the meantime".                                    *)
THEOREM OnlyWriterNotRefused == ASSUME OneWriter PROVE Spec => []OnlyWriterIsCurrent
<1>1. SingleInv => OnlyWriterIsCurrent
  BY SMT
    DEF SingleInv, WholeInv, TypeOK, CurrentInv, OnlyWriterIsCurrent,
        IsCurrent, Acquiring
<1>2. QED
  BY <1>1, SingleWriterInvariant, PTL

(* A step of the processes is a step of the durable store or none.         *)
LEMMA StepKeepsPromises ==
  OneWriter /\ SingleInv /\ [Next]_vars
    => [Promises!StoreNext]_<<content[link], content[synced], acked>>
<1> SUFFICES ASSUME OneWriter, TypeOK, OpenInv, FilesInv, ReadersInv, PromiseInv,
                    [Next]_vars
             PROVE [Promises!StoreNext]_<<content[link], content[synced], acked>>
  BY DEF SingleInv, WholeInv
<1>1. ASSUME NEW p \in Procs, Start(p) PROVE [Promises!StoreNext]_<<content[link], content[synced], acked>>
  BY <1>1, SMT
    DEF Start, Go, TypeOK, Files, Pcs, OpenInv, Saving, Acquiring, FilesInv,
        OneWriter, ReadersInv, PromiseInv, Promises!StoreNext,
        Promises!Replace, Promises!Persist, Promises!Promise,
        Promises!PowerCut, diskVars, procVars, countVars
<1>2. ASSUME NEW p \in Procs, Open(p) PROVE [Promises!StoreNext]_<<content[link], content[synced], acked>>
  BY <1>2, SMT
    DEF Open, Go, TypeOK, Files, Pcs, OpenInv, Saving, Acquiring, FilesInv,
        OneWriter, ReadersInv, PromiseInv, Promises!StoreNext,
        Promises!Replace, Promises!Persist, Promises!Promise,
        Promises!PowerCut, diskVars, procVars, countVars
<1>3. ASSUME NEW p \in Procs, Check(p) PROVE [Promises!StoreNext]_<<content[link], content[synced], acked>>
  BY <1>3, SMT
    DEF Check, Go, TypeOK, Files, Pcs, OpenInv, Saving, Acquiring, FilesInv,
        OneWriter, ReadersInv, PromiseInv, Promises!StoreNext,
        Promises!Replace, Promises!Persist, Promises!Promise,
        Promises!PowerCut, diskVars, procVars, countVars
<1>4. ASSUME NEW p \in Procs, Reopen(p) PROVE [Promises!StoreNext]_<<content[link], content[synced], acked>>
  BY <1>4, SMT
    DEF Reopen, Go, Close, TypeOK, Files, Pcs, OpenInv, Saving, Acquiring,
        FilesInv, OneWriter, ReadersInv, PromiseInv, Promises!StoreNext,
        Promises!Replace, Promises!Persist, Promises!Promise,
        Promises!PowerCut, diskVars, procVars, countVars
<1>5. ASSUME NEW p \in Procs, Stamp(p) PROVE [Promises!StoreNext]_<<content[link], content[synced], acked>>
  BY <1>5, SMT
    DEF Stamp, Go, TypeOK, Files, Pcs, OpenInv, Saving, Acquiring, FilesInv,
        OneWriter, ReadersInv, PromiseInv, Promises!StoreNext,
        Promises!Replace, Promises!Persist, Promises!Promise,
        Promises!PowerCut, diskVars, procVars, countVars
<1>6. ASSUME NEW p \in Procs, Refuse(p) PROVE [Promises!StoreNext]_<<content[link], content[synced], acked>>
  BY <1>6, SMT
    DEF Refuse, Go, Close, IsCurrent, TypeOK, Files, Pcs, OpenInv, Saving,
        Acquiring, FilesInv, OneWriter, ReadersInv, PromiseInv,
        Promises!StoreNext, Promises!Replace, Promises!Persist,
        Promises!Promise, Promises!PowerCut, diskVars, procVars, countVars
<1>7. ASSUME NEW p \in Procs, Lock(p) PROVE [Promises!StoreNext]_<<content[link], content[synced], acked>>
  BY <1>7, SMT
    DEF Lock, Go, TypeOK, Files, Pcs, OpenInv, Saving, Acquiring, FilesInv,
        OneWriter, ReadersInv, PromiseInv, Promises!StoreNext,
        Promises!Replace, Promises!Persist, Promises!Promise,
        Promises!PowerCut, diskVars, procVars, countVars
<1>8. ASSUME NEW p \in Procs, Parse(p) PROVE [Promises!StoreNext]_<<content[link], content[synced], acked>>
  BY <1>8, SMT
    DEF Parse, Go, TypeOK, Files, Pcs, OpenInv, Saving, Acquiring, FilesInv,
        OneWriter, ReadersInv, PromiseInv, Promises!StoreNext,
        Promises!Replace, Promises!Persist, Promises!Promise,
        Promises!PowerCut, diskVars, procVars, countVars
<1>9. ASSUME NEW p \in Procs, LoadEnd(p) PROVE [Promises!StoreNext]_<<content[link], content[synced], acked>>
  BY <1>9, SMT
    DEF LoadEnd, Go, Close, TypeOK, Files, Pcs, OpenInv, Saving, Acquiring,
        FilesInv, OneWriter, ReadersInv, PromiseInv, Promises!StoreNext,
        Promises!Replace, Promises!Persist, Promises!Promise,
        Promises!PowerCut, diskVars, procVars, countVars
<1>10. ASSUME NEW p \in Procs, Change(p) PROVE [Promises!StoreNext]_<<content[link], content[synced], acked>>
  BY <1>10, SMT
    DEF Change, TypeOK, Files, Pcs, OpenInv, Saving, Acquiring, FilesInv,
        OneWriter, ReadersInv, PromiseInv, Promises!StoreNext,
        Promises!Replace, Promises!Persist, Promises!Promise,
        Promises!PowerCut, diskVars, procVars, countVars
<1>11. ASSUME NEW p \in Procs, Save(p) PROVE [Promises!StoreNext]_<<content[link], content[synced], acked>>
  BY <1>11, SMT
    DEF Save, Go, TypeOK, Files, Pcs, OpenInv, Saving, Acquiring, FilesInv,
        OneWriter, ReadersInv, PromiseInv, Promises!StoreNext,
        Promises!Replace, Promises!Persist, Promises!Promise,
        Promises!PowerCut, diskVars, procVars, countVars
<1>12. ASSUME NEW p \in Procs, Write(p) PROVE [Promises!StoreNext]_<<content[link], content[synced], acked>>
  BY <1>12, SMT
    DEF Write, Go, TypeOK, Files, Pcs, OpenInv, Saving, Acquiring, FilesInv,
        OneWriter, ReadersInv, PromiseInv, Promises!StoreNext,
        Promises!Replace, Promises!Persist, Promises!Promise,
        Promises!PowerCut, diskVars, procVars, countVars
<1>13. ASSUME NEW p \in Procs, SyncFile(p) PROVE [Promises!StoreNext]_<<content[link], content[synced], acked>>
  BY <1>13, SMT
    DEF SyncFile, Go, Sync, TypeOK, Files, Pcs, OpenInv, Saving, Acquiring,
        FilesInv, OneWriter, ReadersInv, PromiseInv, Promises!StoreNext,
        Promises!Replace, Promises!Persist, Promises!Promise,
        Promises!PowerCut, diskVars, procVars, countVars
<1>14. ASSUME NEW p \in Procs, Rename(p) PROVE [Promises!StoreNext]_<<content[link], content[synced], acked>>
  BY <1>14, SMT
    DEF Rename, Go, TypeOK, Files, Pcs, OpenInv, Saving, Acquiring,
        FilesInv, OneWriter, ReadersInv, PromiseInv, Promises!StoreNext,
        Promises!Replace, Promises!Persist, Promises!Promise,
        Promises!PowerCut, diskVars, procVars, countVars
<1>15. ASSUME NEW p \in Procs, SyncDirectory(p) PROVE [Promises!StoreNext]_<<content[link], content[synced], acked>>
  BY <1>15, SMT
    DEF SyncDirectory, Go, SyncDir, TypeOK, Files, Pcs, OpenInv, Saving,
        Acquiring, FilesInv, OneWriter, ReadersInv, PromiseInv,
        Promises!StoreNext, Promises!Replace, Promises!Persist,
        Promises!Promise, Promises!PowerCut, diskVars, procVars, countVars
<1>16. ASSUME NEW p \in Procs, Swap(p) PROVE [Promises!StoreNext]_<<content[link], content[synced], acked>>
  BY <1>16, SMT
    DEF Swap, Go, Close, TypeOK, Files, Pcs, OpenInv, Saving, Acquiring,
        FilesInv, OneWriter, ReadersInv, PromiseInv, Promises!StoreNext,
        Promises!Replace, Promises!Persist, Promises!Promise,
        Promises!PowerCut, diskVars, procVars, countVars
<1>17. ASSUME NEW p \in Procs, SaveFails(p) PROVE [Promises!StoreNext]_<<content[link], content[synced], acked>>
  BY <1>17, SMT
    DEF SaveFails, Go, LeaveLock, TypeOK, Files, Pcs, OpenInv, Saving,
        Acquiring, FilesInv, OneWriter, ReadersInv, PromiseInv,
        Promises!StoreNext, Promises!Replace, Promises!Persist,
        Promises!Promise, Promises!PowerCut, diskVars, procVars, countVars
<1>18. ASSUME NEW p \in Procs, Exit(p) PROVE [Promises!StoreNext]_<<content[link], content[synced], acked>>
  BY <1>18, SMT
    DEF Exit, Crash, Forget, CloseAll, TypeOK, Files, Pcs, OpenInv, Saving,
        Acquiring, FilesInv, OneWriter, ReadersInv, PromiseInv,
        Promises!StoreNext, Promises!Replace, Promises!Persist,
        Promises!Promise, Promises!PowerCut, diskVars, procVars, countVars
<1>19. CASE Writeback
  BY <1>19, SMT
    DEF Writeback, SyncDir, TypeOK, Files, Pcs, OpenInv, Saving, Acquiring,
        FilesInv, OneWriter, ReadersInv, PromiseInv, Promises!StoreNext,
        Promises!Replace, Promises!Persist, Promises!Promise,
        Promises!PowerCut, diskVars, procVars, countVars
<1>20. CASE PowerCut
  BY <1>20, SMT
    DEF PowerCut, Crash, Forget, TypeOK, Files, Pcs, OpenInv, Saving,
        Acquiring, FilesInv, OneWriter, ReadersInv, PromiseInv,
        Promises!StoreNext, Promises!Replace, Promises!Persist,
        Promises!Promise, Promises!PowerCut, diskVars, procVars, countVars
<1>21. CASE UNCHANGED vars
  BY <1>21, SMT
    DEF vars, TypeOK, Files, Pcs, OpenInv, Saving, Acquiring, FilesInv,
        OneWriter, ReadersInv, PromiseInv, Promises!StoreNext,
        Promises!Replace, Promises!Persist, Promises!Promise,
        Promises!PowerCut, diskVars, procVars, countVars
<1>22. QED
  BY <1>1, <1>2, <1>3, <1>4, <1>5, <1>6, <1>7, <1>8, <1>9, <1>10, <1>11,
     <1>12, <1>13, <1>14, <1>15, <1>16, <1>17, <1>18, <1>19, <1>20, <1>21
    DEF Next, Step

(* qubes.xml with one writer is an atomic durable store: a save replaces   *)
(* it as a whole, and a save that has returned outlives every crash.       *)
THEOREM StoreKeepsPromises == ASSUME OneWriter PROVE Spec => KeepsPromises
<1>1. Init => Promises!StoreInit
  BY SMT DEF Init, Promises!StoreInit, Files
<1>2. SingleInv /\ [Next]_vars
        => [Promises!StoreNext]_<<content[link], content[synced], acked>>
  BY StepKeepsPromises
<1>3. QED
  BY <1>1, <1>2, SingleWriterInvariant, PTL
    DEF Spec, KeepsPromises, Promises!StoreSpec

----------------------------------------------------------------------------
(* QubeCollection: what Store writes and load() reads.                     *)

(* What memory must satisfy for the store written from it to load.         *)
MemoryLoads(doms, labs, pls, glob, lost, loose) ==
    LET listed == {n \in Names : doms[n] # NoQube} IN
    /\ glob \in listed \cup {NoQube}
    /\ \A n \in listed :
        /\ pls[doms[n].pool.name] # 0 \/ doms[n].pool.name \in lost
        /\ doms[n].label \in labs
        /\ doms[n].obj \in loose \/ doms[n].ref \in listed \cup {NoQube}

(* SavedQube keeps everything of a qube but the object of its pool.        *)
LEMMA SavedQubeFields ==
    ASSUME NEW q \in Qubes
    PROVE  /\ SavedQube(q) \in SavedQubes
           /\ SavedQube(q).obj = q.obj /\ SavedQube(q).label = q.label
           /\ SavedQube(q).ref = q.ref /\ SavedQube(q).pool = q.pool.name
           /\ SavedQube(q).kind = q.kind
  BY DEF SavedQube, Qubes, SavedQubes, Kinds

(* What Store writes.                                                      *)
Holds(s, doms, labs, pls, glob) ==
    /\ DOMAIN s.qubes = {n \in Names : doms[n] # NoQube}
    /\ s.qubes \in [DOMAIN s.qubes -> SavedQubes]
    /\ \A n \in DOMAIN s.qubes :
        /\ s.qubes[n].obj = doms[n].obj /\ s.qubes[n].label = doms[n].label
        /\ s.qubes[n].ref = doms[n].ref
        /\ s.qubes[n].pool = doms[n].pool.name
    /\ s.labels = labs /\ s.pools = {p \in Pools : pls[p] # 0}
    /\ s.sys = glob

(* Store writes that.                                                      *)
LEMMA StoreHolds ==
    ASSUME NEW doms \in [Names -> Qubes \cup {NoQube}], NEW labs, NEW pls, NEW glob
    PROVE  Holds(Store(doms, labs, pls, glob), doms, labs, pls, glob)
<1> DEFINE D == {n \in Names : doms[n] # NoQube}
<1>1. PICK s : s = Store(doms, labs, pls, glob)
  OBVIOUS
<1>2. /\ s.qubes = [n \in D |-> SavedQube(doms[n])]
      /\ s.labels = labs /\ s.pools = {p \in Pools : pls[p] # 0}
      /\ s.sys = glob
  BY <1>1 DEF Store
<1>3. \A n \in D : doms[n] \in Qubes
  OBVIOUS
<1>4. DOMAIN s.qubes = D /\ \A n \in D : s.qubes[n] = SavedQube(doms[n])
  BY <1>2
<1>5. s.qubes \in [D -> SavedQubes]
  BY <1>2, <1>3, SavedQubeFields
<1>6. Holds(s, doms, labs, pls, glob)
  BY <1>2, <1>3, <1>4, <1>5, SavedQubeFields DEF Holds
<1> QED
  BY <1>1, <1>6

(* Whether the store written from memory loads.                            *)
LEMMA LoadsStore ==
    ASSUME NEW doms \in [Names -> Qubes \cup {NoQube}], NEW labs, NEW pls, NEW glob,
           NEW lost, NEW loose
    PROVE  Loads(Store(doms, labs, pls, glob), lost, loose)
             <=> MemoryLoads(doms, labs, pls, glob, lost, loose)
<1> DEFINE D == {n \in Names : doms[n] # NoQube}
<1>1. PICK s : s = Store(doms, labs, pls, glob)
  OBVIOUS
<1>2. Holds(s, doms, labs, pls, glob)
  BY <1>1, StoreHolds
<1>3. \A n \in D : doms[n].pool.name \in Pools
  BY DEF Qubes
<1>4. Loads(s, lost, loose) <=> MemoryLoads(doms, labs, pls, glob, lost, loose)
  BY <1>2, <1>3 DEF Loads, LoadsProperties, MemoryLoads, Holds
<1> QED
  BY <1>1, <1>4

(* Loaded gives back a qube in the pool of that name.                      *)
LEMMA LoadedFields ==
    ASSUME CollectionTypeOK, NEW n \in DOMAIN saved.qubes, NEW q, NEW kept,
           q = saved.qubes[n]
    PROVE  /\ q \in SavedQubes /\ Loaded(n, kept) \in Qubes /\ Loaded(n, kept) # NoQube
           /\ Loaded(n, kept).obj = q.obj /\ Loaded(n, kept).label = q.label
           /\ Loaded(n, kept).ref = q.ref /\ Loaded(n, kept).pool = VolumeIn(q.pool)
           /\ Loaded(n, kept).pool.name = q.pool
<1>1. q \in SavedQubes
  BY DEF CollectionTypeOK
<1>2. VolumeIn(q.pool) \in [name : Pools, object : Nat]
      /\ VolumeIn(q.pool).name = q.pool
  BY <1>1 DEF CollectionTypeOK, VolumeIn, SavedQubes
<1>3. Loaded(n, kept) \in Qubes
      /\ Loaded(n, kept).obj = q.obj /\ Loaded(n, kept).label = q.label
      /\ Loaded(n, kept).ref = q.ref /\ Loaded(n, kept).pool = VolumeIn(q.pool)
  <2> DEFINE k == IF q.kind = "preload" /\ n \notin kept THEN "disposable" ELSE q.kind
  <2>1. k \in Kinds
    BY <1>1 DEF SavedQubes, Kinds
  <2>2. Loaded(n, kept) = [q EXCEPT !.pool = VolumeIn(q.pool), !.kind = k]
    BY DEF Loaded
  <2>3. q = [obj |-> q.obj, label |-> q.label, ref |-> q.ref, pool |-> q.pool, kind |-> q.kind]
    BY <1>1 DEF SavedQubes
  <2> HIDE DEF k
  <2>4. Loaded(n, kept) = [obj |-> q.obj, label |-> q.label, ref |-> q.ref,
                           pool |-> VolumeIn(q.pool), kind |-> k]
    BY <2>2, <2>3
  <2> QED
    BY <1>1, <1>2, <2>1, <2>4 DEF SavedQubes, Qubes
<1> QED
  BY <1>1, <1>2, <1>3, CollectionAssumption

(* The types of memory and of the store.                                   *)
MemoryType ==
    /\ domains \in [Names -> Qubes \cup {NoQube}]
    /\ labels \subseteq Labels /\ pools \in [Pools -> Nat]
    /\ sys \in Names \cup {NoQube}

SavedType ==
    /\ DOMAIN saved.qubes \subseteq Names
    /\ saved.qubes \in [DOMAIN saved.qubes -> SavedQubes]
    /\ saved.labels \subseteq Labels /\ saved.sys \in Names \cup {NoQube}

RestType ==
    /\ files \in [Names -> Nat] /\ calls \in [Callers -> CallsAwaiting]
    /\ answer \in [Names -> {"none", "created", "removed"}]
    /\ harmed \subseteq Names /\ overwritten \subseteq Pools /\ orphans \subseteq Nat
    /\ objects \in Nat /\ setups \in Nat /\ edits \in Nat /\ restarts \in Nat

(* The type invariant in three parts, before a step and after it.          *)
LEMMA TypeParts == CollectionTypeOK <=> MemoryType /\ SavedType /\ RestType
  BY DEF CollectionTypeOK, MemoryType, SavedType, RestType

LEMMA TypePartsPrime == CollectionTypeOK' <=> MemoryType' /\ SavedType' /\ RestType'
  BY DEF CollectionTypeOK, MemoryType, SavedType, RestType

(* After a save the store is memory.                                       *)
LEMMA SaveHolds ==
    ASSUME MemoryType', SaveMemory
    PROVE  /\ Holds(saved', domains', labels', pools', sys')
           /\ SavedType'
<1>1. Holds(saved', domains', labels', pools', sys')
  BY StoreHolds DEF SaveMemory, MemoryType
<1> QED
  BY <1>1 DEF Holds, SavedType, MemoryType

(* What a call waits for tells what it has.                                *)
LEMMA CallShape ==
    ASSUME CollectionTypeOK, NEW c \in Callers
    PROVE  /\ calls[c] \in CallsAwaiting
           /\ calls[c].op = "adding" => calls[c].name \in Pools /\ calls[c].obj \in Nat \ {0}
           /\ calls[c].op \in Work =>
                calls[c].name \in Names /\ calls[c].obj \in Nat
  BY DEF CollectionTypeOK, CallsAwaiting, Work

(* A listed name has a qube.                                               *)
LEMMA ListedQube ==
    ASSUME CollectionTypeOK, NEW n \in Listed
    PROVE  /\ n \in Names /\ domains[n] \in Qubes /\ domains[n].obj \in Nat
           /\ domains[n].label \in Labels /\ domains[n].ref \in Names \cup {NoQube}
           /\ domains[n].pool.name \in Pools /\ domains[n] # NoQube
  BY DEF CollectionTypeOK, Listed, Qubes

(* Disposables that are no longer preloaded stay what else they were.       *)
LEMMA OnlyKinds ==
    ASSUME CollectionTypeOK, NEW S \in SUBSET Listed,
           domains' = [m \in Names |-> IF m \in S THEN [domains[m] EXCEPT !.kind = "disposable"]
                                                  ELSE domains[m]]
    PROVE  /\ domains' \in [Names -> Qubes \cup {NoQube}] /\ Listed' = Listed
           /\ {m \in Names : domains'[m] # NoQube} = Listed
           /\ \A m \in Listed :
                /\ domains'[m].obj = domains[m].obj /\ domains'[m].label = domains[m].label
                /\ domains'[m].ref = domains[m].ref /\ domains'[m].pool = domains[m].pool
<1>1. ASSUME NEW m \in Listed
      PROVE  /\ domains'[m] \in Qubes
             /\ domains'[m].obj = domains[m].obj /\ domains'[m].label = domains[m].label
             /\ domains'[m].ref = domains[m].ref /\ domains'[m].pool = domains[m].pool
  <2>1. domains[m] \in Qubes /\ m \in Names
    BY ListedQube
  <2>2. domains'[m] = domains[m] \/ domains'[m] = [domains[m] EXCEPT !.kind = "disposable"]
    BY <2>1
  <2> QED
    BY <2>1, <2>2 DEF Qubes, Kinds
<1>2. \A m \in Names \ Listed : domains'[m] = NoQube
  BY DEF Listed
<1>3. domains' \in [Names -> Qubes \cup {NoQube}]
  BY <1>1, <1>2 DEF Listed
<1>4. {m \in Names : domains'[m] # NoQube} = Listed
  BY <1>1, <1>2, CollectionAssumption DEF Listed
<1> QED
  BY <1>1, <1>3, <1>4 DEF Listed

(* So it is when one of them changes.                                      *)
LEMMA OneKind ==
    ASSUME CollectionTypeOK, NEW n \in Listed,
           domains' = [domains EXCEPT ![n].kind = "disposable"]
    PROVE  /\ domains' \in [Names -> Qubes \cup {NoQube}] /\ Listed' = Listed
           /\ {m \in Names : domains'[m] # NoQube} = Listed
           /\ \A m \in Listed :
                /\ domains'[m].obj = domains[m].obj /\ domains'[m].label = domains[m].label
                /\ domains'[m].ref = domains[m].ref /\ domains'[m].pool = domains[m].pool
<1>1. domains' = [m \in Names |->
          IF m \in {n} THEN [domains[m] EXCEPT !.kind = "disposable"] ELSE domains[m]]
  BY DEF CollectionTypeOK, Listed
<1>2. {n} \in SUBSET Listed
  OBVIOUS
<1> QED
  BY <1>1, <1>2, OnlyKinds

(* Every variable keeps its type.                                          *)
LEMMA CollectionTypeStep == CollectionTypeOK /\ [CollectionNext]_collectionVars => CollectionTypeOK'
<1> SUFFICES ASSUME CollectionTypeOK, [CollectionNext]_collectionVars
             PROVE  CollectionTypeOK'
  OBVIOUS
<1> USE TypeParts, TypePartsPrime DEF Work
<1>1. ASSUME NEW c \in Callers, NEW n \in Names,
                  NEW arg \in Names \cup {"default", NoQube}, NEW l \in Labels,
                  NEW p \in Pools,
                  CreateBegin(c, n, arg, l, p)
           PROVE  CollectionTypeOK'
  <2> DEFINE q == NewQube(objects + 1, TemplateOf(arg), l, p, "qube")
  <2>0. q \in Qubes
    BY <1>1 DEF CreateBegin, NewQube, VolumeIn, Listed, Qubes, Kinds, MemoryType, RestType
  <2>1. MemoryType'
    BY <1>1, <2>0 DEF MemoryType, CreateBegin
  <2>2. RestType'
    BY <1>1 DEF RestType, CreateBegin, CallsAwaiting
  <2>3. SavedType'
    BY <1>1 DEF SavedType, CreateBegin
  <2> QED
    BY <2>1, <2>2, <2>3
<1>2. ASSUME NEW c \in Callers,
                  CreateDone(c)
           PROVE  CollectionTypeOK'
  <2>1. MemoryType'
    BY <1>2 DEF MemoryType, CreateDone, memory
  <2>2. RestType'
    BY <1>2 DEF RestType, CreateDone, CallsAwaiting, Idle, counters
  <2>3. SavedType'
    BY <1>2, <2>1, SaveHolds DEF CreateDone
  <2> QED
    BY <2>1, <2>2, <2>3
<1>3. ASSUME NEW c \in Callers,
                  CreateFails(c)
           PROVE  CollectionTypeOK'
  <2>1. MemoryType'
    BY <1>3 DEF MemoryType, CreateFails, memory
  <2>2. RestType'
    BY <1>3 DEF RestType, CreateFails, CallsAwaiting, histories, counters
  <2>3. SavedType'
    BY <1>3 DEF SavedType, CreateFails
  <2> QED
    BY <2>1, <2>2, <2>3
<1>4. ASSUME NEW c \in Callers, NEW n \in Names,
                  RemoveBegin(c, n)
           PROVE  CollectionTypeOK'
  <2>1. MemoryType'
    BY <1>4 DEF MemoryType, RemoveBegin, Unlist
  <2>2. RestType'
    BY <1>4, ListedQube DEF RestType, RemoveBegin, Unlist, PreloadsOf, CallsAwaiting, counters
  <2>3. SavedType'
    BY <1>4 DEF SavedType, RemoveBegin
  <2> QED
    BY <2>1, <2>2, <2>3
<1>5. ASSUME NEW c \in Callers, NEW cleaned \in BOOLEAN,
                  Undone(c, cleaned)
           PROVE  CollectionTypeOK'
  <2>1. MemoryType'
    BY <1>5 DEF MemoryType, Undone, Unlist, memory
  <2>2. RestType'
    BY <1>5, ListedQube DEF RestType, Undone, Unlist, PreloadsOf, CallsAwaiting, Idle, counters
  <2>3. SavedType'
    BY <1>5 DEF SavedType, Undone
  <2> QED
    BY <2>1, <2>2, <2>3
<1>6. ASSUME NEW c \in Callers, NEW cleaned \in BOOLEAN,
                  RemoveDone(c, cleaned)
           PROVE  CollectionTypeOK'
  <2>1. MemoryType'
    BY <1>6 DEF MemoryType, RemoveDone, memory
  <2>2. RestType'
    BY <1>6 DEF RestType, RemoveDone, CallsAwaiting, Idle, counters
  <2>3. SavedType'
    BY <1>6, <2>1, SaveHolds DEF RemoveDone
  <2> QED
    BY <2>1, <2>2, <2>3
<1>7. ASSUME NEW c \in Callers, NEW p \in Pools,
                  PoolAddBegin(c, p)
           PROVE  CollectionTypeOK'
  <2>1. MemoryType'
    BY <1>7 DEF MemoryType, PoolAddBegin, memory
  <2>2. RestType'
    BY <1>7 DEF RestType, PoolAddBegin, CallsAwaiting, histories
  <2>3. SavedType'
    BY <1>7 DEF SavedType, PoolAddBegin
  <2> QED
    BY <2>1, <2>2, <2>3
<1>8. ASSUME NEW c \in Callers,
                  PoolAdded(c)
           PROVE  CollectionTypeOK'
  <2>1. MemoryType'
    BY <1>8, CallShape DEF MemoryType, PoolAdded
  <2>2. RestType'
    BY <1>8 DEF RestType, PoolAdded, CallsAwaiting, Idle, counters
  <2>3. SavedType'
    BY <1>8, <2>1, SaveHolds DEF PoolAdded
  <2> QED
    BY <2>1, <2>2, <2>3
<1>9. ASSUME NEW c \in Callers,
                  PoolSetupFails(c)
           PROVE  CollectionTypeOK'
  <2>1. MemoryType'
    BY <1>9 DEF MemoryType, PoolSetupFails, memory
  <2>2. RestType'
    BY <1>9 DEF RestType, PoolSetupFails, CallsAwaiting, Idle, histories,
      counters
  <2>3. SavedType'
    BY <1>9 DEF SavedType, PoolSetupFails
  <2> QED
    BY <2>1, <2>2, <2>3
<1>10. ASSUME NEW p \in Pools,
                  PoolRemove(p)
           PROVE  CollectionTypeOK'
  <2>1. MemoryType'
    BY <1>10 DEF MemoryType, PoolRemove
  <2>2. RestType'
    BY <1>10 DEF RestType, PoolRemove, histories, counters
  <2>3. SavedType'
    BY <1>10, <2>1, SaveHolds DEF PoolRemove
  <2> QED
    BY <2>1, <2>2, <2>3
<1>11. ASSUME NEW l \in Labels,
                  LabelCreate(l)
           PROVE  CollectionTypeOK'
  <2>1. MemoryType'
    BY <1>11 DEF MemoryType, LabelCreate
  <2>2. RestType'
    BY <1>11 DEF RestType, LabelCreate, Edit, histories
  <2>3. SavedType'
    BY <1>11, <2>1, SaveHolds DEF LabelCreate
  <2> QED
    BY <2>1, <2>2, <2>3
<1>12. ASSUME NEW l \in Labels,
                  LabelRemove(l)
           PROVE  CollectionTypeOK'
  <2>1. MemoryType'
    BY <1>12 DEF MemoryType, LabelRemove
  <2>2. RestType'
    BY <1>12 DEF RestType, LabelRemove, Edit, histories
  <2>3. SavedType'
    BY <1>12, <2>1, SaveHolds DEF LabelRemove
  <2> QED
    BY <2>1, <2>2, <2>3
<1>13. ASSUME NEW n \in Names, NEW l \in Labels,
                  SetLabel(n, l)
           PROVE  CollectionTypeOK'
  <2>1. MemoryType'
    BY <1>13 DEF MemoryType, SetLabel, Listed, Qubes
  <2>2. RestType'
    BY <1>13 DEF RestType, SetLabel, Edit, histories
  <2>3. SavedType'
    BY <1>13, <2>1, SaveHolds DEF SetLabel
  <2> QED
    BY <2>1, <2>2, <2>3
<1>14. ASSUME NEW n \in Names, NEW raises \in BOOLEAN,
                  ResetReference(n, raises)
           PROVE  CollectionTypeOK'
  <2>1. MemoryType'
    BY <1>14 DEF MemoryType, ResetReference, Listed, Qubes
  <2>2. RestType'
    BY <1>14 DEF RestType, ResetReference, Edit, histories
  <2>3. SavedType'
    BY <1>14, <2>1, SaveHolds DEF SavedType, ResetReference
  <2> QED
    BY <2>1, <2>2, <2>3
<1>15. ASSUME NEW n \in Names, NEW raises \in BOOLEAN, NEW m \in Names,
                  SetReference(n, m, raises)
           PROVE  CollectionTypeOK'
  <2>1. MemoryType'
    BY <1>15 DEF MemoryType, SetReference, Listed, Resolves, Qubes
  <2>2. RestType'
    BY <1>15 DEF RestType, SetReference, Edit, histories
  <2>3. SavedType'
    BY <1>15, <2>1, SaveHolds DEF SavedType, SetReference
  <2> QED
    BY <2>1, <2>2, <2>3
<1>16. ASSUME NEW m \in Names \cup {NoQube},
                  SetGlobal(m)
           PROVE  CollectionTypeOK'
  <2>1. MemoryType'
    BY <1>16 DEF MemoryType, SetGlobal
  <2>2. RestType'
    BY <1>16 DEF RestType, SetGlobal, Edit, histories
  <2>3. SavedType'
    BY <1>16, <2>1, SaveHolds DEF SetGlobal
  <2> QED
    BY <2>1, <2>2, <2>3
<1>17. CASE Restart
  <2>1. MemoryType'
    BY <1>17, LoadedFields DEF MemoryType, SavedType, Restart
  <2>2. RestType'
    BY <1>17 DEF RestType, Restart, CallsAwaiting, Idle
  <2>3. SavedType'
    BY <1>17, <2>1, SaveHolds DEF Restart
  <2> QED
    BY <2>1, <2>2, <2>3
<1>19. ASSUME NEW c \in Callers, NEW n \in Names, NEW t \in Names,
                   PreloadBegin(c, n, t)
           PROVE  CollectionTypeOK'
  <2> DEFINE q == NewQube(objects + 1, t, domains[t].label, domains[t].pool.name, "preload")
  <2>0. q \in Qubes
    BY <1>19, ListedQube
      DEF PreloadBegin, NewQube, VolumeIn, Qubes, Kinds, MemoryType, RestType
  <2>1. MemoryType'
    BY <1>19, <2>0 DEF MemoryType, PreloadBegin
  <2>2. RestType'
    BY <1>19 DEF RestType, PreloadBegin, CallsAwaiting
  <2>3. SavedType'
    BY <1>19 DEF SavedType, PreloadBegin
  <2> QED
    BY <2>1, <2>2, <2>3
<1>20. ASSUME NEW c \in Callers, NEW starts \in BOOLEAN,
                   PreloadDone(c, starts)
           PROVE  CollectionTypeOK'
  <2>1. MemoryType'
    BY <1>20 DEF MemoryType, PreloadDone, memory
  <2>2. RestType'
    BY <1>20, CallShape DEF RestType, PreloadDone, CallsAwaiting, Idle, counters
  <2>3. SavedType'
    BY <1>20, <2>1, SaveHolds DEF SavedType, PreloadDone
  <2> QED
    BY <2>1, <2>2, <2>3
<1>21. ASSUME NEW c \in Callers, NEW cleaned \in BOOLEAN,
                   PreloadFails(c, cleaned) \/ CleanupFails(c, cleaned)
           PROVE  CollectionTypeOK'
  <2>1. MemoryType' /\ SavedType'
    BY <1>21 DEF MemoryType, SavedType, PreloadFails, CleanupFails, memory
  <2>2. RestType'
    BY <1>21, CallShape DEF RestType, PreloadFails, CleanupFails, CallsAwaiting, Idle, counters
  <2> QED
    BY <2>1, <2>2
<1>22. ASSUME NEW n \in Names, NEW saves \in BOOLEAN,
                   PreloadEnds(n, saves)
           PROVE  CollectionTypeOK'
  <2>1. MemoryType'
    BY <1>22, OneKind DEF MemoryType, PreloadEnds
  <2>2. RestType'
    BY <1>22 DEF RestType, PreloadEnds, histories, counters
  <2>3. SavedType'
    BY <1>22, <2>1, SaveHolds DEF SavedType, PreloadEnds
  <2> QED
    BY <2>1, <2>2, <2>3
<1>23. ASSUME NEW c \in Callers, NEW n \in Names,
                   CleanupBegin(c, n)
           PROVE  CollectionTypeOK'
  <2>1. MemoryType'
    BY <1>23 DEF MemoryType, CleanupBegin, Unlist
  <2>2. RestType'
    BY <1>23, ListedQube
      DEF RestType, CleanupBegin, Unlist, PreloadsOf, CallsAwaiting, counters
  <2>3. SavedType'
    BY <1>23 DEF SavedType, CleanupBegin
  <2> QED
    BY <2>1, <2>2, <2>3
<1>24. ASSUME NEW c \in Callers,
                   CleanupDone(c)
           PROVE  CollectionTypeOK'
  <2>1. MemoryType'
    BY <1>24 DEF MemoryType, CleanupDone, memory
  <2>2. RestType'
    BY <1>24 DEF RestType, CleanupDone, CallsAwaiting, Idle, histories, counters
  <2>3. SavedType'
    BY <1>24, <2>1, SaveHolds DEF CleanupDone
  <2> QED
    BY <2>1, <2>2, <2>3
<1>25. ASSUME NEW c \in Callers,
                   RemovePreloads(c)
           PROVE  CollectionTypeOK'
  <2>1. Leaves(c) \in SUBSET Listed
    BY DEF Leaves, PreloadsOf
  <2>2. MemoryType'
    BY <1>25, <2>1, OnlyKinds DEF MemoryType, RemovePreloads
  <2>3. RestType' /\ SavedType'
    BY <1>25 DEF RestType, SavedType, RemovePreloads, histories, counters
  <2> QED
    BY <2>2, <2>3
<1>18. CASE UNCHANGED collectionVars
  BY <1>18 DEF CollectionTypeOK, collectionVars, memory, histories, counters
<1> QED
  BY <1>1, <1>2, <1>3, <1>4, <1>5, <1>6, <1>7, <1>8, <1>9, <1>10, <1>11, <1>12, <1>13, <1>14, <1>15, <1>16, <1>17, <1>18, <1>19, <1>20,
     <1>21, <1>22, <1>23, <1>24, <1>25 DEF CollectionNext

----------------------------------------------------------------------------
(* The store and memory load.                                              *)

(* LoadInv without Store, before a step and after it.                      *)
LEMMA LoadParts ==
    ASSUME CollectionTypeOK
    PROVE  LoadInv <=> /\ PoolInv /\ Loads(saved, overwritten, orphans)
                       /\ MemoryLoads(domains, labels, pools, sys, overwritten, orphans)
<1>1. Loads(Store(domains, labels, pools, sys), overwritten, orphans)
        <=> MemoryLoads(domains, labels, pools, sys, overwritten, orphans)
  BY LoadsStore DEF CollectionTypeOK
<1> QED
  BY <1>1 DEF LoadInv, StoreLoads

LEMMA LoadPartsPrime ==
    ASSUME CollectionTypeOK'
    PROVE  LoadInv' <=> /\ PoolInv' /\ Loads(saved', overwritten', orphans')
                        /\ MemoryLoads(domains', labels', pools', sys', overwritten', orphans')
<1>1. Loads(Store(domains', labels', pools', sys'), overwritten', orphans')
        <=> MemoryLoads(domains', labels', pools', sys', overwritten', orphans')
  BY LoadsStore DEF CollectionTypeOK
<1> QED
  BY <1>1 DEF LoadInv, StoreLoads

(* A step that leaves memory, the store and the history alone.             *)
LEMMA LoadKept ==
    ASSUME LoadInv, UNCHANGED <<memory, saved, overwritten, orphans>>
    PROVE  LoadInv'
  BY DEF LoadInv, PoolInv, PoolsStay, StoreLoads, Loads, LoadsProperties, Listed,
         VolumeIn, memory, Store, SavedQube

(* A step that saves.                                                      *)
LEMMA LoadSaved ==
    ASSUME CollectionTypeOK', SaveMemory, PoolsStay',
           MemoryLoads(domains', labels', pools', sys', overwritten', orphans')
    PROVE  LoadInv'
<1>1. Holds(saved', domains', labels', pools', sys')
  BY SaveHolds, TypePartsPrime
<1>2. Loads(saved', overwritten', orphans')
  BY LoadsStore DEF SaveMemory, CollectionTypeOK
<1>3. PoolInv'
  BY <1>1 DEF PoolInv, Holds
<1> QED
  BY <1>2, <1>3, LoadPartsPrime

(* A step that changes qubes and does not save.                            *)
LEMMA LoadUnsaved ==
    ASSUME CollectionTypeOK, CollectionTypeOK', LoadInv, PoolsStay',
           UNCHANGED <<saved, pools, overwritten>>, orphans \subseteq orphans',
           MemoryLoads(domains', labels', pools', sys', overwritten', orphans')
    PROVE  LoadInv'
<1>1. PoolInv' /\ Loads(saved', overwritten', orphans')
  BY DEF LoadInv, StoreLoads, PoolInv, Loads, LoadsProperties
<1> QED
  BY <1>1, LoadPartsPrime

(* A volume's pool is there as the object it keeps.                        *)
Stays(pool, pls) ==
    pls[pool.name] # 0 /\ pool = [name |-> pool.name, object |-> pls[pool.name]]

(* When all pools in use stay, PoolsStay holds after the step.             *)
LEMMA StayPrime ==
    ASSUME \A n \in Listed' : Stays(domains'[n].pool, pools')
    PROVE  PoolsStay'
<1> SUFFICES ASSUME NEW n \in Listed'
             PROVE  pools'[domains'[n].pool.name] # 0
                    /\ domains'[n].pool = [name |-> domains'[n].pool.name,
                                          object |-> pools'[domains'[n].pool.name]]
  BY Zenon DEF PoolsStay, VolumeIn
<1> QED
  BY DEF Stays

(* Every step keeps the store and memory such that they load.              *)
LEMMA CollectionLoadStep ==
    CollectionTypeOK /\ LoadInv /\ [CollectionNext]_collectionVars => LoadInv'
<1> SUFFICES ASSUME CollectionTypeOK, LoadInv, [CollectionNext]_collectionVars
             PROVE  LoadInv'
  OBVIOUS
<1>t. CollectionTypeOK'
  BY CollectionTypeStep
<1>m. MemoryLoads(domains, labels, pools, sys, overwritten, orphans) /\ PoolInv /\ PoolsStay
  BY LoadParts DEF PoolInv
<1>1. ASSUME NEW c \in Callers, NEW n \in Names,
                  NEW arg \in Names \cup {"default", NoQube}, NEW l \in Labels,
                  NEW p \in Pools,
                  CreateBegin(c, n, arg, l, p)
           PROVE  LoadInv'
  <2>1. MemoryLoads(domains', labels', pools', sys', overwritten', orphans')
    BY <1>1, <1>m, CollectionAssumption, CallShape, ListedQube DEF
      MemoryLoads, PoolsStay, CreateBegin, NewQube, VolumeIn, Listed, Free,
      TemplateOf
  <2>2. PoolsStay'
    BY <1>1, <1>m, CollectionAssumption, CallShape, ListedQube DEF PoolsStay,
      CreateBegin, NewQube, VolumeIn, Listed, Free, TemplateOf
  <2> QED
    BY <1>1, <1>t, <2>1, <2>2, LoadUnsaved DEF CreateBegin
<1>2. ASSUME NEW c \in Callers,
                  CreateDone(c)
           PROVE  LoadInv'
  <2>1. PoolsStay' /\ MemoryLoads(domains', labels', pools', sys', overwritten', orphans')
    BY <1>2, <1>m DEF CreateDone, memory, PoolsStay, Listed, VolumeIn
  <2> QED
    BY <1>2, <1>t, <2>1, LoadSaved DEF CreateDone
<1>3. ASSUME NEW c \in Callers,
                  CreateFails(c)
           PROVE  LoadInv'
  BY <1>3, LoadKept DEF CreateFails, histories
<1>4. ASSUME NEW c \in Callers, NEW n \in Names,
                  RemoveBegin(c, n)
           PROVE  LoadInv'
  <2>1. MemoryLoads(domains', labels', pools', sys', overwritten', orphans')
    BY <1>4, <1>m, CollectionAssumption, CallShape, ListedQube DEF
      MemoryLoads, PoolsStay, RemoveBegin, Unlist, MayDelete, Dependants, PreloadsOf,
      Listed, VolumeIn
  <2>2. PoolsStay'
    BY <1>4, <1>m, CollectionAssumption, CallShape, ListedQube DEF PoolsStay,
      RemoveBegin, Unlist, MayDelete, Dependants, PreloadsOf, Listed, VolumeIn
  <2> QED
    BY <1>4, <1>t, <2>1, <2>2, LoadUnsaved DEF RemoveBegin, Unlist, memory
<1>5. ASSUME NEW c \in Callers, NEW cleaned \in BOOLEAN,
                  Undone(c, cleaned)
           PROVE  LoadInv'
  <2> DEFINE n == calls[c].name
  <2>1. CASE Is(n, calls[c].obj) /\ MayDelete(n)
    <3>1. Unlist(n) /\ n \in Names /\ UNCHANGED <<saved, overwritten>>
      BY <1>5, <2>1, CallShape DEF Undone, Work
    <3> HIDE DEF n
    <3>2. MemoryLoads(domains', labels', pools', sys', overwritten', orphans')
      BY <2>1, <3>1, <1>m, CollectionAssumption, ListedQube
        DEF MemoryLoads, Unlist, MayDelete, Dependants, PreloadsOf, Listed
    <3>3. PoolsStay'
      BY <2>1, <3>1, <1>m, ListedQube DEF PoolsStay, Unlist, Listed, VolumeIn
    <3> QED
      BY <3>1, <3>2, <3>3, <1>t, LoadUnsaved DEF Unlist
  <2>2. CASE ~(Is(n, calls[c].obj) /\ MayDelete(n))
    BY <1>5, <2>2, LoadKept DEF Undone
  <2> QED
    BY <2>1, <2>2
<1>6. ASSUME NEW c \in Callers, NEW cleaned \in BOOLEAN,
                  RemoveDone(c, cleaned)
           PROVE  LoadInv'
  <2>1. PoolsStay' /\ MemoryLoads(domains', labels', pools', sys', overwritten', orphans')
    BY <1>6, <1>m DEF RemoveDone, memory, PoolsStay, Listed, VolumeIn
  <2> QED
    BY <1>6, <1>t, <2>1, LoadSaved DEF RemoveDone
<1>7. ASSUME NEW c \in Callers, NEW p \in Pools,
                  PoolAddBegin(c, p)
           PROVE  LoadInv'
  BY <1>7, LoadKept DEF PoolAddBegin, histories
<1>8. ASSUME NEW c \in Callers,
                  PoolAdded(c)
           PROVE  LoadInv'
  <2> DEFINE p == calls[c].name
  <2>1. /\ p \in Pools /\ calls[c].obj # 0 /\ UNCHANGED <<domains, labels, sys, orphans>>
        /\ pools' = [pools EXCEPT ![p] = calls[c].obj] /\ SaveMemory
        /\ overwritten' = IF pools[p] # 0 THEN overwritten \cup {p} ELSE overwritten
    BY <1>8, CallShape DEF PoolAdded
  <2> HIDE DEF p
  <2>2. pools' \in [Pools -> Nat] /\ \A r \in Pools \ {p} : pools'[r] = pools[r]
    BY <2>1, <1>t DEF CollectionTypeOK
  <2>3. pools'[p] # 0
    BY <2>1 DEF CollectionTypeOK
  <2>4. MemoryLoads(domains', labels', pools', sys', overwritten', orphans')
    BY <2>1, <2>2, <2>3, <1>m, ListedQube DEF MemoryLoads, Listed
  <2>5. PoolsStay'
    <3> SUFFICES ASSUME NEW n \in Listed, domains[n].pool.name \notin overwritten'
                 PROVE  LET r == domains[n].pool IN
                        pools'[r.name] # 0 /\ r = [name |-> r.name, object |-> pools'[r.name]]
      BY <2>1 DEF PoolsStay, Listed, VolumeIn
    <3>1. /\ domains[n].pool.name \in Pools /\ pools[domains[n].pool.name] # 0
          /\ domains[n].pool = VolumeIn(domains[n].pool.name)
      BY <2>1, <1>m, ListedQube DEF PoolsStay
    <3>2. domains[n].pool.name # p
      BY <2>1, <3>1
    <3> QED
      BY <2>2, <3>1, <3>2 DEF VolumeIn
  <2> QED
    BY <1>t, <2>1, <2>4, <2>5, LoadSaved
<1>9. ASSUME NEW c \in Callers,
                  PoolSetupFails(c)
           PROVE  LoadInv'
  BY <1>9, LoadKept DEF PoolSetupFails, histories
<1>10. ASSUME NEW p \in Pools,
                  PoolRemove(p)
           PROVE  LoadInv'
  <2>1. MemoryLoads(domains', labels', pools', sys', overwritten', orphans')
    BY <1>10, <1>m, CollectionAssumption, CallShape, ListedQube DEF
      MemoryLoads, PoolsStay, PoolRemove, Listed, VolumeIn, InPool, histories
  <2>2. PoolsStay'
    BY <1>10, <1>m, CollectionAssumption, CallShape, ListedQube DEF PoolsStay,
      PoolRemove, Listed, VolumeIn, InPool, histories
  <2> QED
    BY <1>10, <1>t, <2>1, <2>2, LoadSaved DEF PoolRemove
<1>11. ASSUME NEW l \in Labels,
                  LabelCreate(l)
           PROVE  LoadInv'
  <2>1. MemoryLoads(domains', labels', pools', sys', overwritten', orphans')
    BY <1>11, <1>m, CollectionAssumption, CallShape, ListedQube DEF
      MemoryLoads, PoolsStay, LabelCreate, Edit, histories, Listed, VolumeIn
  <2>2. PoolsStay'
    BY <1>11, <1>m, CollectionAssumption, CallShape, ListedQube DEF PoolsStay,
      LabelCreate, Edit, histories, Listed, VolumeIn
  <2> QED
    BY <1>11, <1>t, <2>1, <2>2, LoadSaved DEF LabelCreate
<1>12. ASSUME NEW l \in Labels,
                  LabelRemove(l)
           PROVE  LoadInv'
  <2>1. MemoryLoads(domains', labels', pools', sys', overwritten', orphans')
    BY <1>12, <1>m, CollectionAssumption, CallShape, ListedQube DEF
      MemoryLoads, PoolsStay, LabelRemove, Edit, histories, Listed, VolumeIn
  <2>2. PoolsStay'
    BY <1>12, <1>m, CollectionAssumption, CallShape, ListedQube DEF PoolsStay,
      LabelRemove, Edit, histories, Listed, VolumeIn
  <2> QED
    BY <1>12, <1>t, <2>1, <2>2, LoadSaved DEF LabelRemove
<1>13. ASSUME NEW n \in Names, NEW l \in Labels,
                  SetLabel(n, l)
           PROVE  LoadInv'
  <2>1. /\ n \in Listed /\ l \in labels /\ domains' = [domains EXCEPT ![n].label = l]
        /\ UNCHANGED <<labels, pools, sys, overwritten, orphans>>
        /\ SaveMemory
    BY <1>13 DEF SetLabel, Edit, histories
  <2>2. domains'[n] = [domains[n] EXCEPT !.label = l]
        /\ \A m \in Names \ {n} : domains'[m] = domains[m]
    BY <2>1 DEF CollectionTypeOK, Listed
  <2>3. domains'[n] \in Qubes
    BY <2>1, <2>2, ListedQube DEF Qubes, Listed, CollectionTypeOK
  <2>4. domains'[n].label = l /\ \A m \in Listed :
           /\ domains'[m].pool = domains[m].pool
           /\ m # n => domains'[m].label = domains[m].label
           /\ domains'[m].ref = domains[m].ref /\ domains'[m].obj = domains[m].obj
    BY <2>1, <2>2, ListedQube DEF Qubes
  <2>5. {m \in Names : domains'[m] # NoQube} = Listed
    BY <2>1, <2>2, <2>3, CollectionAssumption DEF Listed
  <2>6. MemoryLoads(domains', labels', pools', sys', overwritten', orphans')
    BY <2>1, <2>4, <2>5, <1>m DEF MemoryLoads, Listed
  <2>7. PoolsStay'
    BY <2>1, <2>4, <2>5, <1>m DEF PoolsStay, Listed, VolumeIn
  <2> QED
    BY <1>t, <2>1, <2>6, <2>7, LoadSaved, LoadUnsaved
<1>14. ASSUME NEW n \in Names, NEW raises \in BOOLEAN,
                  ResetReference(n, raises)
           PROVE  LoadInv'
  <2>1. /\ n \in Listed /\ domains' = [domains EXCEPT ![n].ref = NoQube]
        /\ UNCHANGED <<labels, pools, sys, overwritten, orphans>>
        /\ (SaveMemory \/ UNCHANGED saved)
    BY <1>14 DEF ResetReference, Edit, histories
  <2>2. domains'[n] = [domains[n] EXCEPT !.ref = NoQube]
        /\ \A m \in Names \ {n} : domains'[m] = domains[m]
    BY <2>1 DEF CollectionTypeOK, Listed
  <2>3. domains'[n] \in Qubes
    BY <2>1, <2>2, ListedQube DEF Qubes, Listed, CollectionTypeOK
  <2>4. domains'[n].ref = NoQube /\ \A m \in Listed :
           /\ domains'[m].pool = domains[m].pool
           /\ m # n => domains'[m].ref = domains[m].ref
           /\ domains'[m].label = domains[m].label /\ domains'[m].obj = domains[m].obj
    BY <2>1, <2>2, ListedQube DEF Qubes
  <2>5. {m \in Names : domains'[m] # NoQube} = Listed
    BY <2>1, <2>2, <2>3, CollectionAssumption DEF Listed
  <2>6. MemoryLoads(domains', labels', pools', sys', overwritten', orphans')
    BY <2>1, <2>4, <2>5, <1>m DEF MemoryLoads, Listed
  <2>7. PoolsStay'
    BY <2>1, <2>4, <2>5, <1>m DEF PoolsStay, Listed, VolumeIn
  <2> QED
    BY <1>t, <2>1, <2>6, <2>7, LoadSaved, LoadUnsaved
<1>15. ASSUME NEW n \in Names, NEW raises \in BOOLEAN, NEW m \in Names,
                  SetReference(n, m, raises)
           PROVE  LoadInv'
  <2>1. /\ n \in Listed /\ m \in Listed /\ domains' = [domains EXCEPT ![n].ref = m]
        /\ UNCHANGED <<labels, pools, sys, overwritten, orphans>>
        /\ (SaveMemory \/ UNCHANGED saved)
    BY <1>15, CollectionAssumption DEF SetReference, Edit, histories, Resolves
  <2>2. domains'[n] = [domains[n] EXCEPT !.ref = m]
        /\ \A k \in Names \ {n} : domains'[k] = domains[k]
    BY <2>1 DEF CollectionTypeOK, Listed
  <2>3. domains'[n] \in Qubes
    BY <2>1, <2>2, ListedQube DEF Qubes, Listed, CollectionTypeOK
  <2>4. domains'[n].ref = m /\ \A k \in Listed :
           /\ domains'[k].pool = domains[k].pool
           /\ k # n => domains'[k].ref = domains[k].ref
           /\ domains'[k].label = domains[k].label /\ domains'[k].obj = domains[k].obj
    BY <2>1, <2>2, ListedQube DEF Qubes
  <2>5. {k \in Names : domains'[k] # NoQube} = Listed
    BY <2>1, <2>2, <2>3, CollectionAssumption DEF Listed
  <2>6. MemoryLoads(domains', labels', pools', sys', overwritten', orphans')
    BY <2>1, <2>4, <2>5, <1>m DEF MemoryLoads, Listed
  <2>7. PoolsStay'
    BY <2>1, <2>4, <2>5, <1>m DEF PoolsStay, Listed, VolumeIn
  <2> QED
    BY <1>t, <2>1, <2>6, <2>7, LoadSaved, LoadUnsaved
<1>16. ASSUME NEW m \in Names \cup {NoQube},
                  SetGlobal(m)
           PROVE  LoadInv'
  <2>1. MemoryLoads(domains', labels', pools', sys', overwritten', orphans')
    BY <1>16, <1>m, CollectionAssumption, CallShape, ListedQube DEF
      MemoryLoads, PoolsStay, SetGlobal, Edit, histories, Listed, VolumeIn,
      Resolves
  <2>2. PoolsStay'
    BY <1>16, <1>m, CollectionAssumption, CallShape, ListedQube DEF PoolsStay,
      SetGlobal, Edit, histories, Listed, VolumeIn, Resolves
  <2> QED
    BY <1>16, <1>t, <2>1, <2>2, LoadSaved DEF SetGlobal
<1>17. CASE Restart
  <2>1. \A p \in saved.pools : pools'[p] = pools[p] /\ pools[p] # 0 /\ p \in Pools
    BY <1>17, <1>m DEF Restart, PoolInv
  <2>2. pools' = pools
    BY <1>17, <1>m, <1>t DEF Restart, PoolInv, CollectionTypeOK
  <2>0. PICK kept : domains' = [n \in Names |->
              IF n \in DOMAIN saved.qubes THEN Loaded(n, kept) ELSE NoQube]
    BY <1>17 DEF Restart
  <2>3. \A n \in DOMAIN saved.qubes :
           /\ n \in Names /\ domains'[n] = Loaded(n, kept) /\ Loaded(n, kept) # NoQube
           /\ Loaded(n, kept).label = saved.qubes[n].label
           /\ Loaded(n, kept).ref = saved.qubes[n].ref
           /\ Loaded(n, kept).pool.name = saved.qubes[n].pool
           /\ Loaded(n, kept).pool = VolumeIn(saved.qubes[n].pool)
    BY <2>0, LoadedFields DEF CollectionTypeOK
  <2>4. {n \in Names : domains'[n] # NoQube} = DOMAIN saved.qubes
    BY <2>0, <2>3
  <2>5. MemoryLoads(domains', labels', pools', sys', overwritten', orphans')
    <3>1. /\ labels' = saved.labels /\ sys' = saved.sys
          /\ saved.sys \in DOMAIN saved.qubes \cup {NoQube}
          /\ \A n \in DOMAIN saved.qubes :
               /\ saved.qubes[n].pool \in saved.pools
               /\ saved.qubes[n].label \in saved.labels
               /\ saved.qubes[n].ref \in DOMAIN saved.qubes \cup {NoQube}
      BY <1>17 DEF Restart, Loads, LoadsProperties
    <3>2. \A n \in DOMAIN saved.qubes : pools'[saved.qubes[n].pool] # 0
      BY <2>1, <2>2, <3>1
    <3> QED
      BY <2>3, <2>4, <3>1, <3>2 DEF MemoryLoads
  <2>6. PoolsStay'
    <3>1. \A n \in DOMAIN saved.qubes : saved.qubes[n].pool \in saved.pools
      BY <1>17 DEF Restart, Loads
    <3>2. Listed' = DOMAIN saved.qubes
      BY <2>4 DEF Listed
    <3>3. ASSUME NEW n \in DOMAIN saved.qubes
          PROVE  Stays(domains'[n].pool, pools')
      <4>1. domains'[n].pool = VolumeIn(saved.qubes[n].pool)
            /\ domains'[n].pool.name = saved.qubes[n].pool
        BY <2>3
      <4> QED
        BY <4>1, <2>1, <2>2, <3>1 DEF VolumeIn, Stays
    <3> QED
      BY <3>2, <3>3, StayPrime
  <2> QED
    BY <1>17, <1>t, <2>5, <2>6, LoadSaved DEF Restart
<1>19. ASSUME NEW c \in Callers, NEW n \in Names, NEW t \in Names,
                   PreloadBegin(c, n, t)
           PROVE  LoadInv'
  <2>1. MemoryLoads(domains', labels', pools', sys', overwritten', orphans')
    BY <1>19, <1>m, CollectionAssumption, CallShape, ListedQube DEF
      MemoryLoads, PoolsStay, PreloadBegin, NewQube, VolumeIn, Listed, Free
  <2>2. PoolsStay'
    BY <1>19, <1>m, CollectionAssumption, CallShape, ListedQube DEF PoolsStay,
      PreloadBegin, NewQube, VolumeIn, Listed, Free
  <2> QED
    BY <1>19, <1>t, <2>1, <2>2, LoadUnsaved DEF PreloadBegin
<1>20. ASSUME NEW c \in Callers, NEW starts \in BOOLEAN,
                   PreloadDone(c, starts)
           PROVE  LoadInv'
  <2>1. PoolsStay' /\ MemoryLoads(domains', labels', pools', sys', overwritten', orphans')
    BY <1>20, <1>m DEF PreloadDone, memory, PoolsStay, Listed, VolumeIn
  <2>2. UNCHANGED <<memory, overwritten, orphans>> /\ (SaveMemory \/ UNCHANGED saved)
    BY <1>20 DEF PreloadDone
  <2> QED
    BY <1>t, <2>1, <2>2, LoadSaved, LoadKept
<1>21. ASSUME NEW c \in Callers, NEW cleaned \in BOOLEAN,
                   PreloadFails(c, cleaned) \/ CleanupFails(c, cleaned)
           PROVE  LoadInv'
  BY <1>21, LoadKept DEF PreloadFails, CleanupFails
<1>22. ASSUME NEW n \in Names, NEW saves \in BOOLEAN,
                   PreloadEnds(n, saves)
           PROVE  LoadInv'
  <2>1. /\ n \in Listed /\ domains' = [domains EXCEPT ![n].kind = "disposable"]
        /\ UNCHANGED <<labels, pools, sys, overwritten, orphans>>
        /\ (SaveMemory \/ UNCHANGED saved)
    BY <1>22 DEF PreloadEnds, histories
  <2>2. /\ {m \in Names : domains'[m] # NoQube} = Listed /\ Listed' = Listed
        /\ \A m \in Listed :
             /\ domains'[m].obj = domains[m].obj /\ domains'[m].label = domains[m].label
             /\ domains'[m].ref = domains[m].ref /\ domains'[m].pool = domains[m].pool
    BY <2>1, OneKind
  <2>3. MemoryLoads(domains', labels', pools', sys', overwritten', orphans')
    BY <2>1, <2>2, <1>m DEF MemoryLoads, Listed
  <2>4. PoolsStay'
    BY <2>1, <2>2, <1>m DEF PoolsStay, VolumeIn
  <2> QED
    BY <1>t, <2>1, <2>3, <2>4, LoadSaved, LoadUnsaved
<1>23. ASSUME NEW c \in Callers, NEW n \in Names,
                   CleanupBegin(c, n)
           PROVE  LoadInv'
  <2>1. MemoryLoads(domains', labels', pools', sys', overwritten', orphans')
    BY <1>23, <1>m, CollectionAssumption, CallShape, ListedQube DEF
      MemoryLoads, PoolsStay, CleanupBegin, Unlist, MayDelete, Dependants, PreloadsOf,
      Listed, VolumeIn
  <2>2. PoolsStay'
    BY <1>23, <1>m, CollectionAssumption, CallShape, ListedQube DEF PoolsStay,
      CleanupBegin, Unlist, Listed, VolumeIn
  <2> QED
    BY <1>23, <1>t, <2>1, <2>2, LoadUnsaved DEF CleanupBegin, Unlist, memory
<1>24. ASSUME NEW c \in Callers,
                   CleanupDone(c)
           PROVE  LoadInv'
  <2>1. PoolsStay' /\ MemoryLoads(domains', labels', pools', sys', overwritten', orphans')
    BY <1>24, <1>m DEF CleanupDone, memory, histories, PoolsStay, Listed, VolumeIn
  <2> QED
    BY <1>24, <1>t, <2>1, LoadSaved DEF CleanupDone
<1>25. ASSUME NEW c \in Callers,
                   RemovePreloads(c)
           PROVE  LoadInv'
  <2>1. UNCHANGED <<labels, pools, sys, saved, overwritten, orphans>>
    BY <1>25 DEF RemovePreloads, histories
  <2>2. /\ {m \in Names : domains'[m] # NoQube} = Listed /\ Listed' = Listed
        /\ \A m \in Listed :
             /\ domains'[m].obj = domains[m].obj /\ domains'[m].label = domains[m].label
             /\ domains'[m].ref = domains[m].ref /\ domains'[m].pool = domains[m].pool
    <3>1. Leaves(c) \in SUBSET Listed
      BY DEF Leaves, PreloadsOf
    <3> QED
      BY <1>25, <3>1, OnlyKinds DEF RemovePreloads
  <2>3. MemoryLoads(domains', labels', pools', sys', overwritten', orphans')
    BY <2>1, <2>2, <1>m DEF MemoryLoads, Listed
  <2>4. PoolsStay'
    BY <2>1, <2>2, <1>m DEF PoolsStay, VolumeIn
  <2> QED
    BY <1>t, <2>1, <2>3, <2>4, LoadUnsaved
<1>18. CASE UNCHANGED collectionVars
  BY <1>18, LoadKept DEF collectionVars, histories
<1> QED
  BY <1>1, <1>2, <1>3, <1>4, <1>5, <1>6, <1>7, <1>8, <1>9, <1>10, <1>11, <1>12, <1>13, <1>14, <1>15, <1>16, <1>17, <1>18, <1>19, <1>20,
     <1>21, <1>22, <1>23, <1>24, <1>25 DEF CollectionNext

----------------------------------------------------------------------------
(* Objects, volumes and answers.                                           *)

WorkInv == ObjectInv /\ VolumesInv /\ AnswerInv

(* After a save the store has the listed qubes.                            *)
SavedListed ==
    /\ DOMAIN saved.qubes = Listed
    /\ \A n \in Listed : saved.qubes[n].obj = domains[n].obj

(* A save makes it so.                                                     *)
LEMMA SaveListed ==
    ASSUME CollectionTypeOK', SaveMemory
    PROVE  SavedListed'
  BY SaveHolds, TypePartsPrime DEF Holds, SavedListed, Listed

(* A step that changes no qube's object, and nothing for the calls that    *)
(* work on volumes.                                                        *)
LEMMA SameWork ==
    ASSUME CollectionTypeOK, WorkInv,
           Listed' = Listed, \A n \in Listed : domains'[n].obj = domains[n].obj,
           UNCHANGED saved \/ SavedListed',
           UNCHANGED <<files, answer, harmed, objects>>,
           \A c \in Callers, n \in Names : WorksOn(c, n)' <=> WorksOn(c, n),
           \A c \in Callers :
               /\ Making(c)' <=> Making(c)
               /\ Making(c) => calls'[c].name = calls[c].name /\ calls'[c].obj = calls[c].obj
    PROVE  WorkInv'
<1>n. Listed \subseteq Names /\ DOMAIN saved.qubes \subseteq Names
  BY DEF Listed, CollectionTypeOK
<1>s. \/ UNCHANGED saved
      \/ /\ DOMAIN saved'.qubes = Listed
         /\ \A n \in Listed : saved'.qubes[n].obj = domains[n].obj
  BY DEF SavedListed
<1>o. /\ \A n \in Listed : domains[n].obj <= objects
      /\ \A n \in DOMAIN saved.qubes : saved.qubes[n].obj <= objects
      /\ \A c \in Callers : Making(c) => calls[c].obj <= objects
      /\ \A c, d \in Callers : Making(c) /\ Making(d) /\ c # d => calls[c].obj # calls[d].obj
  BY DEF WorkInv, ObjectInv
<1>1. ObjectInv'
  <2>1. \A n \in Listed' : domains'[n].obj <= objects'
    BY <1>o
  <2>2. \A n \in DOMAIN saved'.qubes : saved'.qubes[n].obj <= objects'
    BY <1>s, <1>o
  <2>3. \A c \in Callers : Making(c)' => calls'[c].obj <= objects'
    BY <1>o
  <2>4. \A c, d \in Callers : Making(c)' /\ Making(d)' /\ c # d => calls'[c].obj # calls'[d].obj
    BY <1>o
  <2> QED
    BY <2>1, <2>2, <2>3, <2>4 DEF ObjectInv
<1>2. VolumesInv'
  <2> DEFINE Whole(n) == files[n] = domains[n].obj /\ \A c \in Callers : ~WorksOn(c, n)
             Made(n) == \E c \in Callers :
                            /\ Making(c) /\ calls[c].name = n /\ calls[c].obj = domains[n].obj
                            /\ \A d \in Callers \ {c} : ~WorksOn(d, n)
  <2>1. \A n \in Listed \ harmed : Whole(n) \/ Made(n)
    BY DEF WorkInv, VolumesInv
  <2>2. \A n \in Listed : Whole(n) => Whole(n)'
    BY <1>n
  <2>3. \A n \in Listed : Made(n) => Made(n)'
    <3> SUFFICES ASSUME NEW n \in Listed, NEW c \in Callers, Making(c),
                        calls[c].name = n, calls[c].obj = domains[n].obj,
                        \A d \in Callers \ {c} : ~WorksOn(d, n)
                 PROVE  Made(n)'
      OBVIOUS
    <3>1. /\ Making(c)' /\ calls'[c].name = n /\ calls'[c].obj = domains'[n].obj
          /\ \A d \in Callers \ {c} : ~WorksOn(d, n)'
      BY <1>n
    <3> QED
      BY <3>1
  <2>4. \A n \in Listed' \ harmed' : Whole(n)' \/ Made(n)'
    BY <2>1, <2>2, <2>3
  <2>5. \A n \in DOMAIN saved'.qubes \ harmed' :
           (\A c \in Callers : ~WorksOn(c, n)') => files'[n] = saved'.qubes[n].obj
    <3> SUFFICES ASSUME NEW n \in DOMAIN saved'.qubes \ harmed',
                        \A c \in Callers : ~WorksOn(c, n)'
                 PROVE  files'[n] = saved'.qubes[n].obj
      OBVIOUS
    <3>1. CASE UNCHANGED saved
      BY <3>1, <1>n DEF WorkInv, VolumesInv
    <3>2. CASE n \in Listed /\ saved'.qubes[n].obj = domains[n].obj
      <4>1. \A c \in Callers : ~WorksOn(c, n)
        BY <1>n, <3>2
      <4>2. ~Made(n)
        BY <1>n, <4>1, <3>2 DEF Making, WorksOn, Work
      <4> QED
        BY <2>1, <4>2, <3>2
    <3> QED
      BY <3>1, <3>2, <1>s
  <2> QED
    BY <2>4, <2>5 DEF VolumesInv
<1>3. AnswerInv'
  <2> SUFFICES ASSUME NEW n \in Names
               PROVE  /\ answer[n] = "created" =>
                            /\ n \in Listed /\ n \in DOMAIN saved'.qubes
                            /\ \A c \in Callers :
                                 Making(c)' /\ calls'[c].name = n => calls'[c].obj # domains'[n].obj
                      /\ answer[n] = "removed" => n \notin Listed /\ n \notin DOMAIN saved'.qubes
    BY DEF AnswerInv
  <2>1. /\ answer[n] = "created" =>
            /\ n \in Listed /\ n \in DOMAIN saved.qubes
            /\ \A c \in Callers : Making(c) /\ calls[c].name = n => calls[c].obj # domains[n].obj
        /\ answer[n] = "removed" => n \notin Listed /\ n \notin DOMAIN saved.qubes
    BY DEF WorkInv, AnswerInv
  <2>2. n \in Listed /\ n \in DOMAIN saved.qubes => n \in DOMAIN saved'.qubes
    BY <1>s
  <2>3. n \notin Listed /\ n \notin DOMAIN saved.qubes => n \notin DOMAIN saved'.qubes
    BY <1>s
  <2> QED
    BY <2>1, <2>2, <2>3
<1> QED
  BY <1>1, <1>2, <1>3 DEF WorkInv

(* What a call is at when another one goes on.                             *)
LEMMA OtherCalls ==
    ASSUME CollectionTypeOK, NEW c \in Callers, NEW v,
           calls' = [calls EXCEPT ![c] = v]
    PROVE  /\ calls'[c] = v
           /\ \A d \in Callers \ {c} :
                /\ calls'[d] = calls[d] /\ (Making(d)' <=> Making(d))
                /\ \A n \in Names : WorksOn(d, n)' <=> WorksOn(d, n)
  BY DEF CollectionTypeOK, Making, WorksOn

(* The object of a saved qube.                                             *)
LEMMA SavedQubeObj ==
    ASSUME CollectionTypeOK, NEW n \in DOMAIN saved.qubes
    PROVE  saved.qubes[n].obj \in Nat
  BY DEF CollectionTypeOK, SavedQubes

(* A call lists a new qube under a free name, and makes its volumes.         *)
LEMMA WorkBegins ==
    ASSUME CollectionTypeOK, CollectionTypeOK', WorkInv, NEW c \in Callers, NEW n \in Names,
           NEW q \in Qubes, NEW op \in {"creating", "preloading"}, q.obj = objects + 1,
           calls[c] = Idle, n \notin Listed, domains' = [domains EXCEPT ![n] = q],
           objects' = objects + 1,
           calls' = [calls EXCEPT ![c] = [op |-> op, name |-> n, obj |-> objects + 1]],
           harmed' = IF \E d \in Callers : WorksOn(d, n) THEN harmed \cup {n}
                                                         ELSE harmed \ {n},
           answer' = [answer EXCEPT ![n] = "none"], UNCHANGED <<saved, files>>
    PROVE  WorkInv'
<1> DEFINE v == [op |-> op, name |-> n, obj |-> objects + 1]
<1>n. Listed \subseteq Names /\ Listed' \subseteq Names
      /\ DOMAIN saved.qubes \subseteq Names /\ objects \in Nat
  BY DEF Listed, CollectionTypeOK
<1>2. domains'[n] = q /\ \A m \in Names \ {n} : domains'[m] = domains[m]
  BY DEF CollectionTypeOK
<1>3. /\ Listed' \ {n} = Listed
      /\ Making(c)' /\ calls'[c].name = n /\ calls'[c].obj = objects + 1
      /\ ~Making(c) /\ \A m \in Names : ~WorksOn(c, m) /\ (WorksOn(c, m)' <=> m = n)
  <2>1. calls'[c] = v
    BY DEF CollectionTypeOK
  <2>2. domains'[n] # NoQube
    BY <1>2, CollectionAssumption
  <2> QED
    BY <1>2, <2>1, <2>2 DEF Listed, Idle, Making, WorksOn, Work
<1>4. \A d \in Callers \ {c} :
         /\ calls'[d] = calls[d] /\ (Making(d)' <=> Making(d))
         /\ \A m \in Names : WorksOn(d, m)' <=> WorksOn(d, m)
  BY OtherCalls
<1> HIDE DEF v
<1>5. ObjectInv'
  <2>1. \A m \in Listed' : domains'[m].obj <= objects'
    BY <1>n, <1>2, <1>3, ListedQube DEF WorkInv, ObjectInv
  <2>2. \A m \in DOMAIN saved'.qubes : saved'.qubes[m].obj <= objects'
    BY <1>n, SavedQubeObj DEF WorkInv, ObjectInv
  <2>3. \A d \in Callers : Making(d)' => calls'[d].obj <= objects'
    BY <1>n, <1>3, <1>4, CallShape DEF WorkInv, ObjectInv, Making, Work
  <2>4. \A d \in Callers \ {c} : Making(d)' => calls'[d].obj # objects + 1
    BY <1>n, <1>4, CallShape DEF WorkInv, ObjectInv, Making, Work
  <2>5. \A e, d \in Callers : Making(e)' /\ Making(d)' /\ e # d => calls'[e].obj # calls'[d].obj
    BY <1>3, <1>4, <2>4 DEF WorkInv, ObjectInv
  <2> QED
    BY <2>1, <2>2, <2>3, <2>5 DEF ObjectInv
<1>6. VolumesInv'
  BY <1>n, <1>2, <1>3, <1>4 DEF WorkInv, VolumesInv
<1>7. AnswerInv'
  BY <1>n, <1>2, <1>3, <1>4 DEF WorkInv, AnswerInv, CollectionTypeOK
<1> QED
  BY <1>5, <1>6, <1>7 DEF WorkInv

(* A call unlists a qube, and removes its volumes.                          *)
LEMMA WorkUnlists ==
    ASSUME CollectionTypeOK, CollectionTypeOK', WorkInv, NEW c \in Callers, NEW n \in Listed,
           NEW op \in {"removing", "cleaning"}, calls[c] = Idle,
           domains' = [domains EXCEPT ![n] = NoQube],
           calls' = [calls EXCEPT ![c] = [op |-> op, name |-> n, obj |-> domains[n].obj]],
           answer' = [answer EXCEPT ![n] = "none"],
           UNCHANGED <<saved, files, harmed, objects>>
    PROVE  WorkInv'
<1> DEFINE v == [op |-> op, name |-> n, obj |-> domains[n].obj]
<1>n. Listed \subseteq Names /\ Listed' \subseteq Names /\ DOMAIN saved.qubes \subseteq Names
  BY DEF Listed, CollectionTypeOK
<1>2. /\ calls'[c] = v /\ ~Making(c) /\ ~Making(c)'
      /\ \A m \in Names : ~WorksOn(c, m) /\ (WorksOn(c, m)' <=> m = n)
  <2> HIDE DEF v
  <2>1. calls'[c] = v
    BY DEF CollectionTypeOK, v
  <2> QED
    BY <2>1 DEF v, Idle, Making, WorksOn, Work
<1>3. \A d \in Callers \ {c} :
         /\ calls'[d] = calls[d] /\ (Making(d)' <=> Making(d))
         /\ \A m \in Names : WorksOn(d, m)' <=> WorksOn(d, m)
  BY OtherCalls
<1> HIDE DEF v
<1>4. Listed' = Listed \ {n} /\ \A m \in Names \ {n} : domains'[m] = domains[m]
  BY DEF Listed, CollectionTypeOK
<1>5. ObjectInv'
  BY <1>n, <1>2, <1>3, <1>4 DEF WorkInv, ObjectInv
<1>6. VolumesInv'
  BY <1>n, <1>2, <1>3, <1>4 DEF WorkInv, VolumesInv
<1>7. AnswerInv'
  BY <1>n, <1>2, <1>3, <1>4 DEF WorkInv, AnswerInv, CollectionTypeOK
<1> QED
  BY <1>5, <1>6, <1>7 DEF WorkInv

(* A call ends and leaves the name with its volumes, or harmed.             *)
LEMMA WorkEnds ==
    ASSUME CollectionTypeOK, CollectionTypeOK', WorkInv, NEW c \in Callers, NEW n \in Names,
           calls[c].op \in Work, calls[c].name = n, calls' = [calls EXCEPT ![c] = Idle],
           UNCHANGED <<domains, objects>>,
           \A m \in Names \ {n} : files'[m] = files[m],
           harmed \subseteq harmed', harmed' \subseteq harmed \cup {n},
           SavedListed' \/ (UNCHANGED saved /\ n \in harmed'),
           n \in Listed \ harmed' =>
               files'[n] = domains[n].obj /\ \A d \in Callers \ {c} : ~WorksOn(d, n)
    PROVE  ObjectInv' /\ VolumesInv'
<1>n. Listed \subseteq Names /\ DOMAIN saved.qubes \subseteq Names
  BY DEF Listed, CollectionTypeOK
<1>1. ~Making(c)' /\ \A m \in Names : ~WorksOn(c, m)'
  <2>1. calls'[c] = Idle
    BY OtherCalls
  <2> QED
    BY <2>1 DEF Idle, Making, WorksOn, Work
<1>2. \A d \in Callers \ {c} :
         /\ calls'[d] = calls[d] /\ (Making(d)' <=> Making(d))
         /\ \A m \in Names : WorksOn(d, m)' <=> WorksOn(d, m)
  BY OtherCalls
<1>3. \A m \in Names : WorksOn(c, m) <=> m = n
  BY DEF WorksOn
<1>4. Listed' = Listed
  BY DEF Listed
<1>5. ObjectInv'
  BY <1>1, <1>2, <1>4 DEF WorkInv, ObjectInv, SavedListed
<1>6. VolumesInv'
  <2> DEFINE Whole(m) == files[m] = domains[m].obj /\ \A d \in Callers : ~WorksOn(d, m)
             Made(m) == \E e \in Callers :
                          /\ Making(e) /\ calls[e].name = m /\ calls[e].obj = domains[m].obj
                          /\ \A d \in Callers \ {e} : ~WorksOn(d, m)
  <2>1. \A m \in Listed \ harmed : Whole(m) \/ Made(m)
    BY DEF WorkInv, VolumesInv
  <2>2. ASSUME NEW m \in Listed' \ harmed' PROVE Whole(m)' \/ Made(m)'
    <3>1. CASE m # n
      <4>1. m \in Listed \ harmed /\ domains'[m] = domains[m] /\ files'[m] = files[m]
        BY <1>n, <1>4, <3>1
      <4>2. Whole(m) => Whole(m)'
        BY <1>n, <1>1, <1>2, <3>1, <4>1
      <4>3. ASSUME Made(m) PROVE Made(m)'
        <5>1. PICK e \in Callers :
                  /\ Making(e) /\ calls[e].name = m /\ calls[e].obj = domains[m].obj
                  /\ \A d \in Callers \ {e} : ~WorksOn(d, m)
          BY <4>3
        <5>2. WorksOn(e, m) /\ e # c
          BY <1>3, <3>1, <4>1, <5>1, <1>n DEF Making, WorksOn, Work
        <5>3. /\ Making(e)' /\ calls'[e].name = m /\ calls'[e].obj = domains'[m].obj
              /\ \A d \in Callers \ {e} : ~WorksOn(d, m)'
          BY <1>n, <1>1, <1>2, <4>1, <5>1, <5>2
        <5> QED
          BY <5>3
      <4> QED
        BY <2>1, <4>1, <4>2, <4>3
    <3>2. CASE m = n
      BY <1>n, <1>1, <1>2, <1>4, <3>2
    <3> QED
      BY <3>1, <3>2
  <2>3. ASSUME NEW m \in DOMAIN saved'.qubes \ harmed', \A d \in Callers : ~WorksOn(d, m)'
        PROVE  files'[m] = saved'.qubes[m].obj
    <3>1. CASE SavedListed'
      <4>1. m \in Listed' /\ saved'.qubes[m].obj = domains'[m].obj
        BY <2>3, <3>1 DEF SavedListed
      <4>2. ~Made(m)'
        BY <1>n, <1>4, <2>3, <4>1 DEF Making, WorksOn, Work
      <4> QED
        BY <2>2, <4>1, <4>2
    <3>2. CASE UNCHANGED saved /\ n \in harmed'
      <4>1. m # n /\ m \in DOMAIN saved.qubes \ harmed /\ m \in Names
        BY <1>n, <3>2
      <4>2. \A d \in Callers : ~WorksOn(d, m)
        BY <1>2, <1>3, <2>3, <4>1
      <4> QED
        BY <3>2, <4>1, <4>2 DEF WorkInv, VolumesInv
    <3> QED
      BY <3>1, <3>2
  <2> QED
    BY <2>2, <2>3 DEF VolumesInv
<1> QED
  BY <1>5, <1>6

(* What was answered still holds when a call ends that changes no qube.     *)
LEMMA WorkAnswers ==
    ASSUME CollectionTypeOK, WorkInv, NEW c \in Callers, calls' = [calls EXCEPT ![c] = Idle],
           UNCHANGED <<domains, answer>>, SavedListed' \/ UNCHANGED saved
    PROVE  AnswerInv'
<1>1. ~Making(c)'
  <2>1. calls'[c] = Idle
    BY OtherCalls
  <2> QED
    BY <2>1 DEF Idle, Making
<1>2. \A d \in Callers \ {c} : calls'[d] = calls[d] /\ (Making(d)' <=> Making(d))
  BY OtherCalls
<1>3. Listed' = Listed
  BY DEF Listed
<1> QED
  BY <1>1, <1>2, <1>3 DEF WorkInv, AnswerInv, SavedListed

(* Every step keeps the objects, the volumes and the answers.              *)
LEMMA WorkStep ==
    CollectionTypeOK /\ WorkInv /\ [CollectionNext]_collectionVars => WorkInv'
<1> SUFFICES ASSUME CollectionTypeOK, WorkInv, [CollectionNext]_collectionVars
             PROVE  WorkInv'
  OBVIOUS
<1>t. CollectionTypeOK'
  BY CollectionTypeStep
<1>n. Listed \subseteq Names /\ Listed' \subseteq Names
      /\ DOMAIN saved.qubes \subseteq Names /\ objects \in Nat
  BY <1>t DEF Listed, CollectionTypeOK
<1>1. ASSUME NEW c \in Callers, NEW n \in Names,
                  NEW arg \in Names \cup {"default", NoQube}, NEW l \in Labels,
                  NEW p \in Pools,
                  CreateBegin(c, n, arg, l, p)
           PROVE  WorkInv'
  <2> DEFINE q == NewQube(objects + 1, TemplateOf(arg), l, p, "qube")
  <2>1. q \in Qubes /\ q.obj = objects + 1
    BY <1>1 DEF CreateBegin, NewQube, VolumeIn, Listed, Qubes, Kinds, CollectionTypeOK
  <2> HIDE DEF q
  <2> QED
    BY <1>1, <1>t, <2>1, WorkBegins DEF CreateBegin, Free, q
<1>2. ASSUME NEW c \in Callers,
                  CreateDone(c)
           PROVE  WorkInv'
  <2> DEFINE n == calls[c].name
             obj == calls[c].obj
  <2>1. /\ calls[c].op = "creating" /\ files' = [files EXCEPT ![n] = obj]
        /\ calls' = [calls EXCEPT ![c] = Idle] /\ UNCHANGED <<domains, harmed, objects>>
        /\ SaveMemory /\ answer' = IF Is(n, obj) THEN [answer EXCEPT ![n] = "created"] ELSE answer
    BY <1>2 DEF CreateDone, memory, counters
  <2>2. n \in Names /\ Making(c) /\ WorksOn(c, n) /\ calls[c].op \in Work
    BY <2>1, CallShape DEF Making, WorksOn, Work
  <2>3. calls'[c] = Idle /\ ~Making(c)' /\ \A d \in Callers \ {c} :
           calls'[d] = calls[d] /\ (Making(d)' <=> Making(d))
    <3>1. calls'[c] = Idle
      BY <2>1, OtherCalls
    <3> QED
      BY <2>1, <3>1, OtherCalls DEF Idle, Making
  <2>4. SavedListed' /\ Listed' = Listed
    BY <2>1, <1>t, SaveListed DEF Listed
  <2>5. \A m \in Names : files'[m] = IF m = n THEN obj ELSE files[m]
    BY <2>1 DEF CollectionTypeOK
  <2>6. n \in Listed \ harmed =>
           obj = domains[n].obj /\ \A d \in Callers \ {c} : ~WorksOn(d, n)
    BY <2>2 DEF WorkInv, VolumesInv, Making, WorksOn, Work
  <2>7. ObjectInv' /\ VolumesInv'
    BY <1>t, <2>1, <2>2, <2>4, <2>5, <2>6, WorkEnds
  <2>8. AnswerInv'
    BY <1>n, <2>1, <2>2, <2>3, <2>4
      DEF WorkInv, AnswerInv, ObjectInv, SavedListed, Is, CollectionTypeOK
  <2> QED
    BY <2>7, <2>8 DEF WorkInv
<1>3. ASSUME NEW c \in Callers,
                  CreateFails(c)
           PROVE  WorkInv'
  <2>1. /\ calls'[c] = [calls[c] EXCEPT !.op = "undoing"]
        /\ calls[c].op = "creating" /\ UNCHANGED <<memory, saved, histories, files, objects>>
    BY <1>3 DEF CreateFails, CollectionTypeOK, counters
  <2>2. calls'[c].op = "undoing" /\ calls'[c].name = calls[c].name /\ calls'[c].obj = calls[c].obj
    BY <2>1, CallShape DEF CallsAwaiting
  <2>3. \A d \in Callers \ {c} : calls'[d] = calls[d]
    BY <1>3 DEF CreateFails, CollectionTypeOK
  <2> QED
    BY <2>1, <2>2, <2>3, SameWork DEF memory, histories, Making, WorksOn, Listed, Work
<1>4. ASSUME NEW c \in Callers, NEW n \in Names,
                  RemoveBegin(c, n)
           PROVE  WorkInv'
  BY <1>4, <1>t, WorkUnlists DEF RemoveBegin, Unlist, counters
<1>5. ASSUME NEW c \in Callers, NEW cleaned \in BOOLEAN,
                  Undone(c, cleaned)
           PROVE  WorkInv'
  <2> DEFINE n == calls[c].name
             obj == calls[c].obj
             gone == Is(n, obj) /\ MayDelete(n)
  <2>1. /\ calls[c].op = "undoing"
        /\ files' = IF cleaned THEN [files EXCEPT ![n] = 0] ELSE files
        /\ calls' = [calls EXCEPT ![c] = Idle]
        /\ domains' = IF gone THEN [domains EXCEPT ![n] = NoQube] ELSE domains
        /\ harmed' = harmed \cup {n} /\ UNCHANGED <<saved, answer, objects>>
    BY <1>5 DEF Undone, Unlist, memory, counters

  <2>2. calls'[c] = Idle /\ ~Making(c)' /\ \A m \in Names : ~WorksOn(c, m)'
    <3>1. calls'[c] = Idle
      BY <2>1, OtherCalls
    <3> QED
      BY <3>1 DEF Idle, Making, WorksOn, Work
  <2>3. \A d \in Callers \ {c} :
           /\ calls'[d] = calls[d] /\ (Making(d)' <=> Making(d))
           /\ \A m \in Names : WorksOn(d, m)' <=> WorksOn(d, m)
    BY <2>1, OtherCalls

  <2>4. n \in Names /\ Making(c) /\ \A m \in Names : WorksOn(c, m) <=> m = n
    BY <2>1, CallShape DEF Making, WorksOn, Work
  <2>5. /\ \A m \in Names \ {n} : domains'[m] = domains[m] /\ files'[m] = files[m]
        /\ Listed' = IF gone THEN Listed \ {n} ELSE Listed
        /\ \A m \in Listed' : domains'[m] = domains[m]
    BY <2>1, <2>4 DEF CollectionTypeOK, Listed
  <2>6. gone => answer[n] # "created"
    BY <2>4 DEF WorkInv, AnswerInv, Is
  <2> HIDE DEF n, obj, gone
  <2>7. ObjectInv'
    BY <1>n, <2>1, <2>2, <2>3, <2>5 DEF WorkInv, ObjectInv
  <2>8. VolumesInv'
    <3> DEFINE Whole(m) == files[m] = domains[m].obj /\ \A d \in Callers : ~WorksOn(d, m)
               Made(m) == \E e \in Callers :
                            /\ Making(e) /\ calls[e].name = m /\ calls[e].obj = domains[m].obj
                            /\ \A d \in Callers \ {e} : ~WorksOn(d, m)
    <3>1. \A m \in Listed \ harmed : Whole(m) \/ Made(m)
      BY DEF WorkInv, VolumesInv
    <3>2. ASSUME NEW m \in Listed' \ harmed' PROVE Whole(m)' \/ Made(m)'
      <4>1. CASE m # n
        <5>1. m \in Listed \ harmed /\ domains'[m] = domains[m] /\ files'[m] = files[m]
          BY <1>n, <2>1, <2>5, <4>1
        <5>2. Whole(m) => Whole(m)'
          BY <1>n, <2>1, <2>2, <2>3, <4>1, <5>1
        <5>3. ASSUME Made(m) PROVE Made(m)'
          <6>1. PICK e \in Callers :
                    /\ Making(e) /\ calls[e].name = m /\ calls[e].obj = domains[m].obj
                    /\ \A d \in Callers \ {e} : ~WorksOn(d, m)
            BY <5>3
          <6>2. WorksOn(e, m) /\ e # c
            BY <2>4, <4>1, <6>1, <1>n DEF Making, WorksOn, Work
          <6>3. /\ Making(e)' /\ calls'[e].name = m /\ calls'[e].obj = domains'[m].obj
                /\ \A d \in Callers \ {e} : ~WorksOn(d, m)'
            BY <1>n, <2>2, <2>3, <5>1, <6>1, <6>2
          <6> QED
            BY <6>3
        <5> QED
          BY <3>1, <5>1, <5>2, <5>3
      <4>2. CASE m = n
        BY <2>1, <4>2
      <4> QED
        BY <4>1, <4>2
    <3>3. ASSUME NEW m \in DOMAIN saved'.qubes \ harmed',
                 \A d \in Callers : ~WorksOn(d, m)'
          PROVE  files'[m] = saved'.qubes[m].obj
      <4>1. m # n /\ m \in DOMAIN saved.qubes \ harmed
        BY <2>1
      <4>2. \A d \in Callers : ~WorksOn(d, m)
        BY <1>n, <2>3, <2>4, <3>3, <4>1
      <4> QED
        BY <1>n, <2>1, <2>5, <4>1, <4>2 DEF WorkInv, VolumesInv
    <3> QED
      BY <3>2, <3>3 DEF VolumesInv
  <2>9. AnswerInv'
    BY <1>n, <2>1, <2>2, <2>3, <2>5, <2>6 DEF WorkInv, AnswerInv
  <2> QED
    BY <2>7, <2>8, <2>9 DEF WorkInv
<1>6. ASSUME NEW c \in Callers, NEW cleaned \in BOOLEAN,
                  RemoveDone(c, cleaned)
           PROVE  WorkInv'
  <2> DEFINE n == calls[c].name
             stays == n \in Listed \/ \E d \in Callers \ {c} : WorksOn(d, n)
  <2>1. /\ calls[c].op = "removing"
        /\ files' = IF cleaned THEN [files EXCEPT ![n] = 0] ELSE files
        /\ calls' = [calls EXCEPT ![c] = Idle] /\ UNCHANGED <<domains, harmed, objects>>
        /\ SaveMemory /\ answer' = IF stays THEN answer ELSE [answer EXCEPT ![n] = "removed"]
    BY <1>6 DEF RemoveDone, memory, counters
  <2>2. n \in Names /\ ~Making(c) /\ WorksOn(c, n) /\ calls[c].op \in Work
    BY <2>1, CallShape DEF Making, WorksOn, Work
  <2>3. ~Making(c)' /\ \A d \in Callers \ {c} : calls'[d] = calls[d] /\ (Making(d)' <=> Making(d))
    <3>1. calls'[c] = Idle
      BY <2>1, OtherCalls
    <3> QED
      BY <2>1, <3>1, OtherCalls DEF Idle, Making
  <2>4. SavedListed' /\ Listed' = Listed
    BY <2>1, <1>t, SaveListed DEF Listed
  <2>5. \A m \in Names \ {n} : files'[m] = files[m]
    BY <2>1 DEF CollectionTypeOK
  <2>6. n \notin Listed \ harmed
    BY <2>2 DEF WorkInv, VolumesInv
  <2>7. ObjectInv' /\ VolumesInv'
    BY <1>t, <2>1, <2>2, <2>4, <2>5, <2>6, WorkEnds
  <2>8. stays \/ n \notin Listed
    OBVIOUS
  <2> HIDE DEF n, stays
  <2>9. AnswerInv'
    BY <1>n, <2>1, <2>2, <2>3, <2>4, <2>8 DEF WorkInv, AnswerInv, SavedListed, CollectionTypeOK
  <2> QED
    BY <2>7, <2>9 DEF WorkInv
<1>7. ASSUME NEW c \in Callers, NEW p \in Pools,
                  PoolAddBegin(c, p)
           PROVE  WorkInv'
  <2>1. /\ calls[c].op \notin Work
        /\ calls'[c].op \notin Work
        /\ \A d \in Callers \ {c} : calls'[d] = calls[d]
        /\ UNCHANGED <<domains, files, answer, harmed, objects>>
    BY <1>7 DEF PoolAddBegin, CollectionTypeOK, Idle, Work, memory, histories, counters
  <2>2. UNCHANGED saved \/ SavedListed'
    BY <1>7, <1>t, SaveListed DEF PoolAddBegin
  <2> QED
    BY <2>1, <2>2, SameWork DEF Making, WorksOn, Listed, Work
<1>8. ASSUME NEW c \in Callers,
                  PoolAdded(c)
           PROVE  WorkInv'
  <2>1. /\ calls[c].op \notin Work
        /\ calls'[c].op \notin Work
        /\ \A d \in Callers \ {c} : calls'[d] = calls[d]
        /\ UNCHANGED <<domains, files, answer, harmed, objects>>
    BY <1>8 DEF PoolAdded, CollectionTypeOK, Idle, Work, memory, histories, counters
  <2>2. UNCHANGED saved \/ SavedListed'
    BY <1>8, <1>t, SaveListed DEF PoolAdded
  <2> QED
    BY <2>1, <2>2, SameWork DEF Making, WorksOn, Listed, Work
<1>9. ASSUME NEW c \in Callers,
                  PoolSetupFails(c)
           PROVE  WorkInv'
  <2>1. /\ calls[c].op \notin Work
        /\ calls'[c].op \notin Work
        /\ \A d \in Callers \ {c} : calls'[d] = calls[d]
        /\ UNCHANGED <<domains, files, answer, harmed, objects>>
    BY <1>9 DEF PoolSetupFails, CollectionTypeOK, Idle, Work, memory, histories, counters
  <2>2. UNCHANGED saved \/ SavedListed'
    BY <1>9, <1>t, SaveListed DEF PoolSetupFails
  <2> QED
    BY <2>1, <2>2, SameWork DEF Making, WorksOn, Listed, Work
<1>10. ASSUME NEW p \in Pools,
                  PoolRemove(p)
           PROVE  WorkInv'
  <2>1. UNCHANGED <<domains, calls, files, answer, harmed, objects>> /\ SavedListed'
    BY <1>10, <1>t, SaveListed DEF PoolRemove, histories, counters, Edit
  <2> QED
    BY <2>1, SameWork DEF Making, WorksOn, Listed, Work
<1>11. ASSUME NEW l \in Labels,
                  LabelCreate(l)
           PROVE  WorkInv'
  <2>1. UNCHANGED <<domains, calls, files, answer, harmed, objects>> /\ SavedListed'
    BY <1>11, <1>t, SaveListed DEF LabelCreate, histories, counters, Edit
  <2> QED
    BY <2>1, SameWork DEF Making, WorksOn, Listed, Work
<1>12. ASSUME NEW l \in Labels,
                  LabelRemove(l)
           PROVE  WorkInv'
  <2>1. UNCHANGED <<domains, calls, files, answer, harmed, objects>> /\ SavedListed'
    BY <1>12, <1>t, SaveListed DEF LabelRemove, histories, counters, Edit
  <2> QED
    BY <2>1, SameWork DEF Making, WorksOn, Listed, Work
<1>13. ASSUME NEW n \in Names, NEW l \in Labels,
                  SetLabel(n, l)
           PROVE  WorkInv'
  <2>1. /\ n \in Listed /\ UNCHANGED <<calls, files, answer, harmed, objects>>
        /\ domains' = [domains EXCEPT ![n].label = l]
    BY <1>13 DEF SetLabel, histories, Edit
  <2>2. UNCHANGED saved \/ SavedListed'
    BY <1>13, <1>t, SaveListed DEF SetLabel
  <2>3. domains'[n] = [domains[n] EXCEPT !.label = l]
        /\ \A m \in Names \ {n} : domains'[m] = domains[m]
    BY <2>1 DEF CollectionTypeOK, Listed
  <2>4. domains'[n] # NoQube /\ domains'[n].obj = domains[n].obj
    <3>1. domains[n] \in Qubes
      BY <2>1, ListedQube
    <3>2. domains'[n].obj = domains[n].obj /\ DOMAIN domains'[n] = DOMAIN domains[n]
      BY <2>3, <3>1 DEF Qubes
    <3>3. domains'[n] \in Qubes
      BY <1>13, <2>3, <3>1 DEF SetLabel, Resolves, Qubes, CollectionTypeOK, Listed
    <3> QED
      BY <3>2, <3>3, CollectionAssumption
  <2>5. Listed' = Listed /\ \A m \in Listed : domains'[m].obj = domains[m].obj
    BY <2>1, <2>3, <2>4 DEF Listed
  <2> QED
    BY <2>1, <2>2, <2>5, SameWork DEF Making, WorksOn, Work
<1>14. ASSUME NEW n \in Names, NEW raises \in BOOLEAN,
                  ResetReference(n, raises)
           PROVE  WorkInv'
  <2>1. /\ n \in Listed /\ UNCHANGED <<calls, files, answer, harmed, objects>>
        /\ domains' = [domains EXCEPT ![n].ref = NoQube]
    BY <1>14 DEF ResetReference, histories, Edit
  <2>2. UNCHANGED saved \/ SavedListed'
    BY <1>14, <1>t, SaveListed DEF ResetReference
  <2>3. domains'[n] = [domains[n] EXCEPT !.ref = NoQube]
        /\ \A m \in Names \ {n} : domains'[m] = domains[m]
    BY <2>1 DEF CollectionTypeOK, Listed
  <2>4. domains'[n] # NoQube /\ domains'[n].obj = domains[n].obj
    <3>1. domains[n] \in Qubes
      BY <2>1, ListedQube
    <3>2. domains'[n].obj = domains[n].obj /\ DOMAIN domains'[n] = DOMAIN domains[n]
      BY <2>3, <3>1 DEF Qubes
    <3>3. domains'[n] \in Qubes
      BY <1>14, <2>3, <3>1, CollectionAssumption DEF ResetReference, Resolves, Qubes, CollectionTypeOK, Listed
    <3> QED
      BY <3>2, <3>3, CollectionAssumption
  <2>5. Listed' = Listed /\ \A m \in Listed : domains'[m].obj = domains[m].obj
    BY <2>1, <2>3, <2>4 DEF Listed
  <2> QED
    BY <2>1, <2>2, <2>5, SameWork DEF Making, WorksOn, Work
<1>15. ASSUME NEW n \in Names, NEW raises \in BOOLEAN, NEW m \in Names,
                  SetReference(n, m, raises)
           PROVE  WorkInv'
  <2>1. /\ n \in Listed /\ UNCHANGED <<calls, files, answer, harmed, objects>>
        /\ domains' = [domains EXCEPT ![n].ref = m]
    BY <1>15 DEF SetReference, histories, Edit
  <2>2. UNCHANGED saved \/ SavedListed'
    BY <1>15, <1>t, SaveListed DEF SetReference
  <2>3. domains'[n] = [domains[n] EXCEPT !.ref = m]
        /\ \A k \in Names \ {n} : domains'[k] = domains[k]
    BY <2>1 DEF CollectionTypeOK, Listed
  <2>4. domains'[n] # NoQube /\ domains'[n].obj = domains[n].obj
    <3>1. domains[n] \in Qubes
      BY <2>1, ListedQube
    <3>2. domains'[n].obj = domains[n].obj /\ DOMAIN domains'[n] = DOMAIN domains[n]
      BY <2>3, <3>1 DEF Qubes
    <3>3. domains'[n] \in Qubes
      BY <1>15, <2>3, <3>1 DEF SetReference, Resolves, Qubes, CollectionTypeOK, Listed
    <3> QED
      BY <3>2, <3>3, CollectionAssumption
  <2>5. Listed' = Listed /\ \A k \in Listed : domains'[k].obj = domains[k].obj
    BY <2>1, <2>3, <2>4 DEF Listed
  <2> QED
    BY <2>1, <2>2, <2>5, SameWork DEF Making, WorksOn, Work
<1>16. ASSUME NEW m \in Names \cup {NoQube},
                  SetGlobal(m)
           PROVE  WorkInv'
  <2>1. UNCHANGED <<domains, calls, files, answer, harmed, objects>> /\ SavedListed'
    BY <1>16, <1>t, SaveListed DEF SetGlobal, histories, counters, Edit
  <2> QED
    BY <2>1, SameWork DEF Making, WorksOn, Listed, Work
<1>17. CASE Restart
  <2> DEFINE Cut(n) == \E c \in Callers : WorksOn(c, n)
  <2>1. /\ \A c \in Callers : calls'[c] = Idle /\ ~Making(c)'
        /\ \A c \in Callers, n \in Names : ~WorksOn(c, n)'
        /\ \A n \in Names : Cut(n) => n \in harmed'
        /\ harmed \subseteq harmed' /\ UNCHANGED <<answer, objects>> /\ SaveMemory
    BY <1>17 DEF Restart, Idle, Making, WorksOn, Work
  <2>2. \A n \in Names : ~Cut(n) => files'[n] = files[n]
    BY <1>17 DEF Restart
  <2>0. PICK kept : domains' = [n \in Names |->
              IF n \in DOMAIN saved.qubes THEN Loaded(n, kept) ELSE NoQube]
    BY <1>17 DEF Restart
  <2>3. Listed' = DOMAIN saved.qubes
    BY <2>0, <1>n, LoadedFields DEF Listed
  <2>4. \A n \in DOMAIN saved.qubes : domains'[n].obj = saved.qubes[n].obj
    BY <2>0, <1>n, LoadedFields
  <2>9. DOMAIN saved'.qubes = DOMAIN saved.qubes
        /\ \A n \in DOMAIN saved.qubes : saved'.qubes[n].obj = saved.qubes[n].obj
    BY <2>1, <2>3, <2>4, <1>t, SaveListed DEF SavedListed
  <2>5. ObjectInv'
    BY <2>1, <2>3, <2>4, <2>9 DEF WorkInv, ObjectInv
  <2>6. \A n \in DOMAIN saved.qubes \ harmed' : files'[n] = saved.qubes[n].obj
    BY <1>n, <2>1, <2>2 DEF WorkInv, VolumesInv
  <2>7. VolumesInv'
    BY <1>n, <2>1, <2>3, <2>4, <2>6, <2>9 DEF VolumesInv
  <2>8. AnswerInv'
    BY <2>1, <2>3, <2>9 DEF WorkInv, AnswerInv
  <2> QED
    BY <2>5, <2>7, <2>8 DEF WorkInv
<1>19. ASSUME NEW c \in Callers, NEW n \in Names, NEW t \in Names,
                   PreloadBegin(c, n, t)
           PROVE  WorkInv'
  <2> DEFINE q == NewQube(objects + 1, t, domains[t].label, domains[t].pool.name, "preload")
  <2>1. q \in Qubes /\ q.obj = objects + 1
    BY <1>19, ListedQube DEF PreloadBegin, NewQube, VolumeIn, Qubes, Kinds, CollectionTypeOK
  <2> HIDE DEF q
  <2> QED
    BY <1>19, <1>t, <2>1, WorkBegins DEF PreloadBegin, Free, q
<1>20. ASSUME NEW c \in Callers, NEW starts \in BOOLEAN,
                   PreloadDone(c, starts)
           PROVE  WorkInv'
  <2> DEFINE n == calls[c].name
             obj == calls[c].obj
  <2>1. /\ calls[c].op = "preloading" /\ files' = [files EXCEPT ![n] = obj]
        /\ calls' = [calls EXCEPT ![c] = Idle] /\ UNCHANGED <<domains, objects, answer>>
    BY <1>20 DEF PreloadDone, memory, counters
  <2>2. n \in Names /\ Making(c) /\ WorksOn(c, n) /\ calls[c].op \in Work
    BY <2>1, CallShape DEF Making, WorksOn, Work
  <2>3. /\ harmed \subseteq harmed' /\ harmed' \subseteq harmed \cup {n}
        /\ SavedListed' \/ (UNCHANGED saved /\ n \in harmed')
    BY <1>20, <1>t, SaveListed DEF PreloadDone
  <2>4. \A m \in Names : files'[m] = IF m = n THEN obj ELSE files[m]
    BY <2>1 DEF CollectionTypeOK
  <2>5. n \in Listed \ harmed =>
           obj = domains[n].obj /\ \A d \in Callers \ {c} : ~WorksOn(d, n)
    BY <2>2 DEF WorkInv, VolumesInv, Making, WorksOn, Work
  <2>6. ObjectInv' /\ VolumesInv'
    BY <1>t, <2>1, <2>2, <2>3, <2>4, <2>5, WorkEnds
  <2>7. AnswerInv'
    BY <2>1, <2>3, WorkAnswers
  <2> QED
    BY <2>6, <2>7 DEF WorkInv
<1>21. ASSUME NEW c \in Callers, NEW cleaned \in BOOLEAN,
                   PreloadFails(c, cleaned) \/ CleanupFails(c, cleaned)
           PROVE  WorkInv'
  <2> DEFINE n == calls[c].name
  <2>1. /\ calls[c].op \in {"preloading", "cleaning"}
        /\ files' = IF cleaned THEN [files EXCEPT ![n] = 0] ELSE files
        /\ calls' = [calls EXCEPT ![c] = Idle] /\ harmed' = harmed \cup {n}
        /\ UNCHANGED <<domains, saved, objects, answer>>
    BY <1>21 DEF PreloadFails, CleanupFails, memory, counters
  <2>2. n \in Names /\ calls[c].op \in Work
    BY <2>1, CallShape DEF Work
  <2>3. \A m \in Names \ {n} : files'[m] = files[m]
    BY <2>1 DEF CollectionTypeOK
  <2>4. ObjectInv' /\ VolumesInv'
    BY <1>t, <2>1, <2>2, <2>3, WorkEnds
  <2>5. AnswerInv'
    BY <2>1, WorkAnswers
  <2> QED
    BY <2>4, <2>5 DEF WorkInv
<1>22. ASSUME NEW n \in Names, NEW saves \in BOOLEAN,
                   PreloadEnds(n, saves)
           PROVE  WorkInv'
  <2>1. UNCHANGED <<calls, files, answer, harmed, objects>> /\ (UNCHANGED saved \/ SavedListed')
    BY <1>22, <1>t, SaveListed DEF PreloadEnds, histories, counters
  <2>2. Listed' = Listed /\ \A m \in Listed : domains'[m].obj = domains[m].obj
    BY <1>22, OneKind DEF PreloadEnds
  <2> QED
    BY <2>1, <2>2, SameWork DEF Making, WorksOn, Work
<1>23. ASSUME NEW c \in Callers, NEW n \in Names,
                   CleanupBegin(c, n)
           PROVE  WorkInv'
  BY <1>23, <1>t, WorkUnlists DEF CleanupBegin, Unlist, counters
<1>24. ASSUME NEW c \in Callers,
                   CleanupDone(c)
           PROVE  WorkInv'
  <2> DEFINE n == calls[c].name
  <2>1. /\ calls[c].op = "cleaning" /\ files' = [files EXCEPT ![n] = 0]
        /\ calls' = [calls EXCEPT ![c] = Idle]
        /\ UNCHANGED <<domains, harmed, objects, answer>> /\ SaveMemory
    BY <1>24 DEF CleanupDone, memory, histories, counters
  <2>2. n \in Names /\ ~Making(c) /\ WorksOn(c, n) /\ calls[c].op \in Work
    BY <2>1, CallShape DEF Making, WorksOn, Work
  <2>3. SavedListed'
    BY <2>1, <1>t, SaveListed
  <2>4. \A m \in Names \ {n} : files'[m] = files[m]
    BY <2>1 DEF CollectionTypeOK
  <2>5. n \notin Listed \ harmed
    BY <2>2 DEF WorkInv, VolumesInv
  <2>6. ObjectInv' /\ VolumesInv'
    BY <1>t, <2>1, <2>2, <2>3, <2>4, <2>5, WorkEnds
  <2>7. AnswerInv'
    BY <2>1, <2>3, WorkAnswers
  <2> QED
    BY <2>6, <2>7 DEF WorkInv
<1>25. ASSUME NEW c \in Callers,
                   RemovePreloads(c)
           PROVE  WorkInv'
  <2>1. UNCHANGED <<calls, files, answer, harmed, objects, saved>>
    BY <1>25 DEF RemovePreloads, histories, counters
  <2>2. Leaves(c) \in SUBSET Listed
    BY DEF Leaves, PreloadsOf
  <2>3. Listed' = Listed /\ \A m \in Listed : domains'[m].obj = domains[m].obj
    BY <1>25, <2>2, OnlyKinds DEF RemovePreloads
  <2> QED
    BY <2>1, <2>3, SameWork DEF Making, WorksOn, Work
<1>18. CASE UNCHANGED collectionVars
  <2>1. UNCHANGED <<domains, calls, files, answer, harmed, objects, saved>>
    BY <1>18 DEF collectionVars, memory, histories, counters
  <2> QED
    BY <2>1, SameWork DEF Making, WorksOn, Listed, Work
<1> QED
  BY <1>1, <1>2, <1>3, <1>4, <1>5, <1>6, <1>7, <1>8, <1>9, <1>10, <1>11, <1>12, <1>13, <1>14, <1>15, <1>16, <1>17, <1>18, <1>19, <1>20,
     <1>21, <1>22, <1>23, <1>24, <1>25 DEF CollectionNext

----------------------------------------------------------------------------
(* The theorems about QubeCollection.                                      *)

(* A freshly installed system has everything the properties want, and      *)
(* every call and restart keeps it: CollectionInv is inductive.            *)
THEOREM CollectionInvariant == CollectionSpec => []CollectionInv
<1>1. CollectionInit => CollectionInv
  <2> SUFFICES ASSUME CollectionInit PROVE CollectionInv
    OBVIOUS
  <2>1. MemoryType /\ Listed = {}
    BY CollectionAssumption DEF CollectionInit, MemoryType, Listed
  <2>2. Holds(saved, domains, labels, pools, sys)
    BY <2>1, StoreHolds DEF CollectionInit, MemoryType
  <2>3. SavedType
    BY <2>1, <2>2 DEF Holds, SavedType, MemoryType
  <2>4. CollectionTypeOK
    BY <2>1, <2>3, TypeParts DEF CollectionInit, RestType, CallsAwaiting, Idle
  <2>5. MemoryLoads(domains, labels, pools, sys, overwritten, orphans)
    BY <2>1 DEF CollectionInit, MemoryLoads, Listed
  <2>6. Loads(saved, overwritten, orphans)
    BY <2>1, <2>5, LoadsStore DEF CollectionInit, MemoryType
  <2>7. PoolInv
    BY <2>1, <2>2 DEF PoolInv, PoolsStay, Holds
  <2>8. LoadInv
    BY <2>4, <2>5, <2>6, <2>7, LoadParts
  <2>9. DOMAIN saved.qubes = {}
    BY <2>1, <2>2 DEF Holds, Listed
  <2>10. ObjectInv /\ VolumesInv /\ AnswerInv
    BY <2>1, <2>9 DEF CollectionInit, ObjectInv, VolumesInv, AnswerInv, Making, Idle
  <2> QED
    BY <2>4, <2>8, <2>10 DEF CollectionInv
<1>2. CollectionInv /\ [CollectionNext]_collectionVars => CollectionInv'
  BY CollectionTypeStep, CollectionLoadStep, WorkStep DEF CollectionInv, WorkInv
<1> QED
  BY <1>1, <1>2, PTL DEF CollectionSpec

(* qubes.xml can always be loaded again, whatever calls overlap: no qube   *)
(* in it, or in memory, names a label, a pool or a qube that is gone.      *)
THEOREM StoreCanBeLoaded == CollectionSpec => []StoreLoads
<1>1. CollectionInv => StoreLoads
  BY DEF CollectionInv, LoadInv
<1> QED
  BY <1>1, CollectionInvariant, PTL

(* A qube whose creation is over has its volumes, however often names are  *)
(* given again and qubesd restarts.                                        *)
THEOREM VolumesAreKept == CollectionSpec => []FilesKept
<1>1. CollectionInv => FilesKept
  BY DEF CollectionInv, VolumesInv, FilesKept, Making, WorksOn, Work, Listed
<1> QED
  BY <1>1, CollectionInvariant, PTL

(* What a call has answered of a qube stays in qubes.xml, although others  *)
(* write all of memory in the middle of it.                                *)
THEOREM AnswersHold == CollectionSpec => []AnsweredStays
<1>1. CollectionInv => AnsweredStays
  BY DEF CollectionInv, AnswerInv, AnsweredStays
<1> QED
  BY <1>1, CollectionInvariant, PTL
=============================================================================
