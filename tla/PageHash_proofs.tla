--------------------------- MODULE PageHash_proofs ---------------------------
EXTENDS PageHash, FiniteSetTheorems, TLAPS

\* The percentage fx_hash_progress posts lies in 0 .. 100 for every size and
\* count of bytes, also where the product or the cast of the quotient wraps.
LEMMA PercentRange ==
  ASSUME NEW n \in Nat, NEW size \in Nat
  PROVE  Percent(n, size) \in 0 .. 100
<1>1. CASE size = 0
  BY <1>1 DEF Percent
<1>2. CASE size # 0
  <2>1. MaxUlonglong + 1 \in Nat \ {0} /\ MaxDword + 1 \in Nat \ {0}
    BY BoundsAssumption
  <2>2. (n * 100) % (MaxUlonglong + 1) \in Nat
    BY <2>1
  <2>3. ((n * 100) % (MaxUlonglong + 1)) \div size \in Int
    BY <2>2, <1>2
  <2>4. Quotient(n, size) \in Nat
    BY <2>1, <2>3 DEF Quotient
  <2> QED BY <1>2, <2>4 DEF Percent
<1> QED BY <1>1, <1>2

-----------------------------------------------------------------------------
\* Every variable keeps its type: in particular no step pushes a message of
\* another shape, or sends a worker where fx_hash_thread_proc has no code.
THEOREM TypeCorrect == Spec => []TypeOK
<1> USE BoundsAssumption
    DEF stateVars, windowVars, hashVars, handleVars, localVars, msgVars
<1>1. Init => TypeOK
  <2> SUFFICES ASSUME Init PROVE TypeOK
    OBVIOUS
  <2> USE DEF Init
  <2>0. hwnd \in BOOLEAN /\ controls \in BOOLEAN /\ copyEnabled \in BOOLEAN
    BY Zenon
  <2>1. PageTypes
    BY <2>0 DEF PageTypes
  <2>2. WindowTypes
    BY <2>0 DEF WindowTypes, None
  <2>3. HashTypes
    BY DEF HashTypes, None, Results
  <2>4. WorkerTypes
    BY DEF WorkerTypes, WorkerPcs, Results
  <2> QED BY <2>1, <2>2, <2>3, <2>4 DEF TypeOK
<1>2. TypeOK /\ [Next]_vars => TypeOK'
  <2> SUFFICES ASSUME TypeOK, [Next]_vars PROVE TypeOK'
    OBVIOUS
  <2> USE DEF TypeOK
  <2>1. CASE CreatePage
    <3> USE <2>1 DEF CreatePage
    <3>1. PageTypes'
      BY DEF PageTypes
    <3>2. WindowTypes'
      BY DEF WindowTypes
    <3>3. HashTypes'
      BY DEF HashTypes
    <3>4. WorkerTypes'
      BY DEF WorkerTypes
    <3> QED BY <3>1, <3>2, <3>3, <3>4
  <2>2. CASE PageAdded
    <3> USE <2>2 DEF PageAdded
    <3>1. PageTypes'
      BY DEF PageTypes
    <3>2. WindowTypes'
      BY DEF WindowTypes
    <3>3. HashTypes'
      BY DEF HashTypes
    <3>4. WorkerTypes'
      BY DEF WorkerTypes
    <3> QED BY <3>1, <3>2, <3>3, <3>4
  <2>3. CASE PageRejected
    <3> USE <2>3 DEF PageRejected, Release
    <3>1. PageTypes'
      BY DEF PageTypes
    <3>2. WindowTypes'
      BY DEF WindowTypes
    <3>3. HashTypes'
      BY DEF HashTypes
    <3>4. WorkerTypes'
      BY DEF WorkerTypes
    <3> QED BY <3>1, <3>2, <3>3, <3>4
  <2>4. CASE InitDialog
    <3> USE <2>4 DEF InitDialog
    <3>1. PageTypes'
      BY DEF PageTypes
    <3>a. controls' \in BOOLEAN /\ copyEnabled' \in BOOLEAN
      BY Zenon DEF WindowTypes
    <3>2. WindowTypes'
      BY <3>a DEF WindowTypes
    <3>3. HashTypes'
      BY DEF HashTypes
    <3>4. WorkerTypes'
      BY DEF WorkerTypes
    <3> QED BY <3>1, <3>2, <3>3, <3>4
  <2>5. CASE DestroyCancel
    <3> USE <2>5 DEF DestroyCancel
    <3>1. PageTypes'
      BY DEF PageTypes
    <3>2. WindowTypes'
      BY DEF WindowTypes
    <3>3. HashTypes'
      BY DEF HashTypes
    <3>4. WorkerTypes'
      BY DEF WorkerTypes
    <3> QED BY <3>1, <3>2, <3>3, <3>4
  <2>6. CASE DestroyCloseThread
    <3> USE <2>6 DEF DestroyCloseThread, CloseHashThread
    <3>1. PageTypes'
      BY DEF PageTypes
    <3>2. WindowTypes'
      BY DEF WindowTypes
    <3>3. HashTypes'
      BY DEF HashTypes, None, Runs
    <3>4. WorkerTypes'
      BY DEF WorkerTypes
    <3> QED BY <3>1, <3>2, <3>3, <3>4
  <2>7. CASE DestroyDetach
    <3> USE <2>7 DEF DestroyDetach
    <3>b. hwnd' \in BOOLEAN
      BY Zenon
    <3>1. PageTypes'
      BY <3>b DEF PageTypes
    <3>2. WindowTypes'
      BY DEF WindowTypes
    <3>3. HashTypes'
      BY DEF HashTypes
    <3>4. WorkerTypes'
      BY DEF WorkerTypes
    <3> QED BY <3>1, <3>2, <3>3, <3>4
  <2>8. CASE ReleasePage
    <3> USE <2>8 DEF ReleasePage, Release
    <3>1. PageTypes'
      BY DEF PageTypes
    <3>2. WindowTypes'
      BY DEF WindowTypes
    <3>3. HashTypes'
      BY DEF HashTypes
    <3>4. WorkerTypes'
      BY DEF WorkerTypes
    <3> QED BY <3>1, <3>2, <3>3, <3>4
  <2>9. CASE BeginHash
    <3> USE <2>9 DEF BeginHash, AddRef, ResetForRun, Ready
    <3>1. PageTypes'
      BY DEF PageTypes
    <3>a. controls' \in BOOLEAN /\ copyEnabled' \in BOOLEAN
      BY Zenon DEF WindowTypes
    <3>2. WindowTypes'
      BY <3>a DEF WindowTypes, None
    <3>3. HashTypes'
      BY DEF HashTypes, None, Runs, Results
    <3>4. WorkerTypes'
      BY DEF WorkerTypes, Runs, WorkerPcs
    <3> QED BY <3>1, <3>2, <3>3, <3>4
  <2>10. CASE StoreThread
    <3> USE <2>10 DEF StoreThread
    <3>1. PageTypes'
      BY DEF PageTypes
    <3>2. WindowTypes'
      BY DEF WindowTypes
    <3>3. HashTypes'
      BY DEF HashTypes
    <3>4. WorkerTypes'
      BY DEF WorkerTypes
    <3> QED BY <3>1, <3>2, <3>3, <3>4
  <2>11. CASE BeginHashFails
    <3> USE <2>11 DEF BeginHashFails, ResetForRun, Ready
    <3>1. PageTypes'
      BY DEF PageTypes
    <3>a. controls' \in BOOLEAN /\ copyEnabled' \in BOOLEAN
      BY Zenon DEF WindowTypes
    <3>2. WindowTypes'
      BY <3>a DEF WindowTypes, None
    <3>3. HashTypes'
      BY DEF HashTypes, None, Results
    <3>4. WorkerTypes'
      BY DEF WorkerTypes
    <3> QED BY <3>1, <3>2, <3>3, <3>4
  <2>12. CASE HandleProgress
    <3> USE <2>12 DEF HandleProgress, Ready
    <3>1. PageTypes'
      BY DEF PageTypes
    <3>a. Head(queue) \in Messages
      BY DEF HashTypes
    <3>b. Head(queue).pct \in 0 .. 100
      BY <3>a DEF Messages
    <3>2. WindowTypes'
      BY <3>b DEF WindowTypes
    <3>3. HashTypes'
      BY DEF HashTypes
    <3>4. WorkerTypes'
      BY DEF WorkerTypes
    <3> QED BY <3>1, <3>2, <3>3, <3>4
  <2>13. CASE HandleComplete
    <3> USE <2>13 DEF HandleComplete, CloseHashThread, Ready
    <3>1. PageTypes'
      BY DEF PageTypes
    <3>a. /\ status' \in {"complete", "canceled", "failed"}
          /\ copyEnabled' \in BOOLEAN
      BY Zenon
    <3>2. WindowTypes'
      BY <3>a DEF WindowTypes, None, HashTypes
    <3>3. HashTypes'
      BY DEF HashTypes, None
    <3>4. WorkerTypes'
      BY DEF WorkerTypes
    <3> QED BY <3>1, <3>2, <3>3, <3>4
  <2>14. CASE CopyText
    <3> USE <2>14 DEF CopyText, Ready
    <3>1. PageTypes'
      BY DEF PageTypes
    <3>2. WindowTypes'
      BY DEF WindowTypes, HashTypes
    <3>3. HashTypes'
      BY DEF HashTypes
    <3>4. WorkerTypes'
      BY DEF WorkerTypes
    <3> QED BY <3>1, <3>2, <3>3, <3>4
  <2>15. ASSUME NEW r \in Runs, Prepare(r) PROVE TypeOK'
    <3> USE <2>15 DEF Prepare, Goto, OwnStep, UiUnchanged, EnterCall
    <3>1. PageTypes'
      BY DEF PageTypes
    <3>2. WindowTypes'
      BY DEF WindowTypes
    <3>3. HashTypes'
      BY DEF HashTypes
    <3>4. WorkerTypes'
      BY DEF WorkerTypes, WorkerPcs, Results
    <3> QED BY <3>1, <3>2, <3>3, <3>4
  <2>16. ASSUME NEW r \in Runs, OpenReturns(r) PROVE TypeOK'
    <3> USE <2>16 DEF OpenReturns, Goto, OwnStep, UiUnchanged
    <3>1. PageTypes'
      BY DEF PageTypes
    <3>2. WindowTypes'
      BY DEF WindowTypes
    <3>3. HashTypes'
      BY DEF HashTypes
    <3>4. WorkerTypes'
      BY DEF WorkerTypes, WorkerPcs, Results
    <3> QED BY <3>1, <3>2, <3>3, <3>4
  <2>17. ASSUME NEW r \in Runs, ReportCheck(r) PROVE TypeOK'
    <3> USE <2>17 DEF ReportCheck, Goto, OwnStep, UiUnchanged
    <3>1. PageTypes'
      BY DEF PageTypes
    <3>2. WindowTypes'
      BY DEF WindowTypes
    <3>3. HashTypes'
      BY DEF HashTypes
    <3>4. WorkerTypes'
      BY DEF WorkerTypes, WorkerPcs, Results
    <3> QED BY <3>1, <3>2, <3>3, <3>4
  <2>18. ASSUME NEW r \in Runs, ReportHwnd(r) PROVE TypeOK'
    <3> USE <2>18 DEF ReportHwnd, Goto, OwnStep, UiUnchanged
    <3>1. PageTypes'
      BY DEF PageTypes
    <3>2. WindowTypes'
      BY DEF WindowTypes
    <3>3. HashTypes'
      BY DEF HashTypes
    <3>4. WorkerTypes'
      BY DEF WorkerTypes, PageTypes, WorkerPcs
    <3> QED BY <3>1, <3>2, <3>3, <3>4
  <2>19. ASSUME NEW r \in Runs, ReportPost(r) PROVE TypeOK'
    <3> USE <2>19 DEF ReportPost, Goto, UiUnchanged, Post
    <3>1. PageTypes'
      BY DEF PageTypes
    <3>2. WindowTypes'
      BY DEF WindowTypes
    <3>a. [kind |-> "PROGRESS", run |-> r, pct |-> Reported(r)] \in Messages
      <4>1. Reported(r) \in 0 .. 100
        BY PercentRange DEF Reported, WorkerTypes
      <4> QED BY <4>1 DEF Messages
    <3>b. queue' \in Seq(Messages) /\ lost' = lost
      BY <3>a DEF HashTypes
    <3>3. HashTypes'
      BY <3>b DEF HashTypes
    <3>4. WorkerTypes'
      BY DEF WorkerTypes, WorkerPcs, Results
    <3> QED BY <3>1, <3>2, <3>3, <3>4
  <2>20. ASSUME NEW r \in Runs, CheckCancel(r) PROVE TypeOK'
    <3> USE <2>20 DEF CheckCancel, Goto, OwnStep, UiUnchanged
    <3>1. PageTypes'
      BY DEF PageTypes
    <3>2. WindowTypes'
      BY DEF WindowTypes
    <3>3. HashTypes'
      BY DEF HashTypes
    <3>4. WorkerTypes'
      BY DEF WorkerTypes, WorkerPcs, Results
    <3> QED BY <3>1, <3>2, <3>3, <3>4
  <2>21. ASSUME NEW r \in Runs, EnterRead(r) PROVE TypeOK'
    <3> USE <2>21 DEF EnterRead, Goto, OwnStep, UiUnchanged, EnterCall
    <3>1. PageTypes'
      BY DEF PageTypes
    <3>2. WindowTypes'
      BY DEF WindowTypes
    <3>3. HashTypes'
      BY DEF HashTypes
    <3>4. WorkerTypes'
      BY DEF WorkerTypes, WorkerPcs, Results
    <3> QED BY <3>1, <3>2, <3>3, <3>4
  <2>22. ASSUME NEW r \in Runs, ReadReturns(r) PROVE TypeOK'
    <3> USE <2>22 DEF ReadReturns, Goto, OwnStep, UiUnchanged
    <3>1. PageTypes'
      BY DEF PageTypes
    <3>2. WindowTypes'
      BY DEF WindowTypes
    <3>3. HashTypes'
      BY DEF HashTypes
    <3>4. WorkerTypes'
      BY DEF WorkerTypes, WorkerPcs, Results
    <3> QED BY <3>1, <3>2, <3>3, <3>4
  <2>23. ASSUME NEW r \in Runs, Finish(r) PROVE TypeOK'
    <3> USE <2>23 DEF Finish, Goto, OwnStep, UiUnchanged
    <3>1. PageTypes'
      BY DEF PageTypes
    <3>2. WindowTypes'
      BY DEF WindowTypes
    <3>3. HashTypes'
      BY DEF HashTypes
    <3>4. WorkerTypes'
      BY DEF WorkerTypes, WorkerPcs, Results
    <3> QED BY <3>1, <3>2, <3>3, <3>4
  <2>24. ASSUME NEW r \in Runs, StoreResult(r) PROVE TypeOK'
    <3> USE <2>24 DEF StoreResult, Goto, UiUnchanged
    <3>1. PageTypes'
      BY DEF PageTypes
    <3>2. WindowTypes'
      BY DEF WindowTypes
    <3>3. HashTypes'
      BY DEF HashTypes, Runs, WorkerTypes
    <3>4. WorkerTypes'
      BY DEF WorkerTypes, WorkerPcs
    <3> QED BY <3>1, <3>2, <3>3, <3>4
  <2>25. ASSUME NEW r \in Runs, ClearRunning(r) PROVE TypeOK'
    <3> USE <2>25 DEF ClearRunning, Goto, UiUnchanged
    <3>1. PageTypes'
      BY DEF PageTypes
    <3>2. WindowTypes'
      BY DEF WindowTypes
    <3>3. HashTypes'
      BY DEF HashTypes
    <3>4. WorkerTypes'
      BY DEF WorkerTypes, WorkerPcs, Results
    <3> QED BY <3>1, <3>2, <3>3, <3>4
  <2>26. ASSUME NEW r \in Runs, ReadHwnd(r) PROVE TypeOK'
    <3> USE <2>26 DEF ReadHwnd, Goto, OwnStep, UiUnchanged
    <3>1. PageTypes'
      BY DEF PageTypes
    <3>2. WindowTypes'
      BY DEF WindowTypes
    <3>3. HashTypes'
      BY DEF HashTypes
    <3>4. WorkerTypes'
      BY DEF WorkerTypes, PageTypes, WorkerPcs
    <3> QED BY <3>1, <3>2, <3>3, <3>4
  <2>27. ASSUME NEW r \in Runs, PostComplete(r) PROVE TypeOK'
    <3> USE <2>27 DEF PostComplete, Goto, UiUnchanged, Post
    <3>1. PageTypes'
      BY DEF PageTypes
    <3>2. WindowTypes'
      BY DEF WindowTypes
    <3>a. [kind |-> "COMPLETE", run |-> r, pct |-> 100] \in Messages
      BY DEF Messages
    <3>b. queue' = queue \/ queue' = Append(queue, [kind |-> "COMPLETE", run |-> r, pct |-> 100])
      OBVIOUS
    <3>c. queue' \in Seq(Messages)
      BY <3>a, <3>b DEF HashTypes
    <3>d. lost' \subseteq Runs
      BY DEF HashTypes
    <3>e. UNCHANGED <<cancel, running, hashThread, hashHr, hashResult, hashText,
                      openHandles, run>>
      OBVIOUS
    <3>3. HashTypes'
      BY <3>c, <3>d, <3>e DEF HashTypes
    <3>4. WorkerTypes'
      BY DEF WorkerTypes, WorkerPcs, Results
    <3> QED BY <3>1, <3>2, <3>3, <3>4
  <2>28. ASSUME NEW r \in Runs, WorkerRelease(r) PROVE TypeOK'
    <3> USE <2>28 DEF WorkerRelease, Goto, UiUnchanged, Release
    <3>1. PageTypes'
      BY DEF PageTypes
    <3>2. WindowTypes'
      BY DEF WindowTypes
    <3>3. HashTypes'
      BY DEF HashTypes
    <3>4. WorkerTypes'
      BY DEF WorkerTypes, WorkerPcs, Results
    <3> QED BY <3>1, <3>2, <3>3, <3>4
  <2>29. CASE UNCHANGED vars
    <3> USE <2>29 DEF vars
    <3>1. PageTypes' /\ WindowTypes'
      BY DEF PageTypes, WindowTypes
    <3>2. HashTypes' /\ WorkerTypes'
      BY DEF HashTypes, WorkerTypes
    <3> QED BY <3>1, <3>2
  <2> QED
    BY <2>1, <2>2, <2>3, <2>4, <2>5, <2>6, <2>7, <2>8, <2>9, <2>10, <2>11,
       <2>12, <2>13, <2>14, <2>15, <2>16, <2>17, <2>18, <2>19, <2>20, <2>21,
       <2>22, <2>23, <2>24, <2>25, <2>26, <2>27, <2>28, <2>29
    DEF Next, UiHandler, MessageLoop, Environment, Compute, FileCall
<1> QED BY <1>1, <1>2, PTL DEF Spec
-----------------------------------------------------------------------------
(* Reference counting.                                                     *)

\* Runs that hold a reference are finitely many.
LEMMA HoldersFinite == IsFiniteSet(Holders)
<1>1. IsFiniteSet(Runs)
  BY BoundsAssumption, FS_Interval DEF Runs
<1> QED BY <1>1, FS_Subset DEF Holders

\* What a worker step does to the fields the count depends on: before its
\* release it only moves on, still holding its reference.
LEMMA WorkerKeepsItsReference ==
  ASSUME TypeOK, NEW r \in Runs, Compute(r) \/ FileCall(r)
  PROVE  /\ UNCHANGED <<sheetRef, uiPc, dialog, run>>
         /\ \/ WorkerRelease(r)
            \/ /\ Holders' = Holders
               /\ UNCHANGED <<heap, refCount>>
               /\ pc[r] # "none"
               /\ pc' = [pc EXCEPT ![r] = pc'[r]]
<1> USE DEF UiUnchanged, OwnStep, stateVars, Goto
<1>1. UNCHANGED <<sheetRef, uiPc, dialog, run>>
  BY DEF Compute, FileCall, Prepare, OpenReturns, ReportCheck, ReportHwnd,
         ReportPost, CheckCancel, EnterRead, ReadReturns, Finish, StoreResult,
         ClearRunning, ReadHwnd, PostComplete, WorkerRelease
<1>2. CASE ~WorkerRelease(r)
  <2>1. /\ UNCHANGED <<heap, refCount>>
        /\ pc[r] \notin {"none", "exit"}
        /\ \E to \in WorkerPcs \ {"none", "exit"} : pc' = [pc EXCEPT ![r] = to]
    BY <1>2
    DEF Compute, FileCall, Prepare, OpenReturns, ReportCheck, ReportHwnd,
        ReportPost, CheckCancel, EnterRead, ReadReturns, Finish, StoreResult,
        ClearRunning, ReadHwnd, PostComplete, WorkerPcs
  <2>2. pc \in [Runs -> WorkerPcs]
    BY DEF TypeOK, WorkerTypes
  <2>3. Holders' = Holders
    BY <2>1, <2>2 DEF Holders
  <2>4. pc' = [pc EXCEPT ![r] = pc'[r]]
    BY <2>1, <2>2
  <2> QED BY <1>1, <2>1, <2>3, <2>4
<1> QED BY <1>1, <1>2

\* The count is exact, so the state lives exactly as long as it is used.
LEMMA RefInvStep == TypeOK /\ RefInv /\ [Next]_vars => RefInv'
<1> SUFFICES ASSUME TypeOK, RefInv, [Next]_vars PROVE RefInv'
  OBVIOUS
<1> USE DEF RefInv, RefCountExact, stateVars
<1>t. /\ pc \in [Runs -> WorkerPcs] /\ run \in 0 .. MaxRuns
      /\ refCount \in Int /\ sheetRef \in {0, 1}
      /\ Cardinality(Holders) \in Nat
      /\ Cardinality(Holders) = 0 <=> Holders = {}
  BY HoldersFinite, FS_CardinalityType, FS_EmptySet
  DEF TypeOK, PageTypes, HashTypes, WorkerTypes
<1>1. CASE CreatePage
  <2>1. Holders' = Holders
    BY <1>1 DEF CreatePage, Holders
  <2>2. Holders = {} /\ dialog # "attached"
    BY <1>1 DEF CreatePage
  <2> QED BY <1>1, <1>t, <2>1, <2>2 DEF CreatePage
<1>2. CASE PageRejected \/ ReleasePage
  <2>1. Holders' = Holders
    BY <1>2 DEF PageRejected, ReleasePage, Holders
  <2>2. sheetRef = 1 /\ Release /\ sheetRef' = 0 /\ dialog # "attached"
    BY <1>2 DEF PageRejected, ReleasePage
  <2>3. UNCHANGED <<dialog, run, pc>> /\ uiPc' = "idle"
    BY <1>2 DEF PageRejected, ReleasePage
  <2> QED BY <1>t, <2>1, <2>2, <2>3 DEF Release
<1>3. CASE BeginHash
  <2>1. run + 1 \in Runs /\ pc[run + 1] = "none"
    BY <1>3, <1>t, BoundsAssumption DEF BeginHash, AddRef, ResetForRun, Runs
  <2>2. Holders' = Holders \cup {run + 1} /\ run + 1 \notin Holders
    BY <1>3, <1>t, <2>1 DEF BeginHash, AddRef, Holders
  <2>3. Cardinality(Holders') = Cardinality(Holders) + 1
    BY <2>2, HoldersFinite, FS_AddElement
  <2>4. \A r \in Runs : r > run + 1 => pc'[r] = "none"
    BY <1>3, <1>t, <2>1 DEF BeginHash, AddRef, Runs
  <2> QED BY <1>3, <1>t, <2>2, <2>3, <2>4
          DEF BeginHash, AddRef, ResetForRun, Ready
<1>4. CASE BeginHashFails
  <2>1. Holders' = Holders
    BY <1>4 DEF BeginHashFails, Holders
  <2>2. \A r \in Runs : r > run + 1 => r > run
    BY <1>t DEF Runs
  <2> QED BY <1>4, <1>t, <2>1, <2>2 DEF BeginHashFails, ResetForRun, Ready
<1>5. CASE \/ PageAdded \/ InitDialog \/ DestroyCancel
           \/ DestroyCloseThread \/ DestroyDetach \/ StoreThread
           \/ HandleProgress \/ HandleComplete \/ CopyText
  <2>1. UNCHANGED <<stateVars, run, pc>>
    BY <1>5 DEF PageAdded, InitDialog, DestroyCancel, DestroyCloseThread,
                DestroyDetach, StoreThread, HandleProgress, HandleComplete,
                CopyText
  <2>2. Holders' = Holders
    BY <2>1 DEF Holders
  <2>3. /\ dialog' = "attached" => sheetRef' = 1
        /\ uiPc' # "adding"
        /\ uiPc' \in {"created", "cancelled", "closed"} => dialog' = "attached"
    BY <1>5 DEF PageAdded, InitDialog, DestroyCancel, DestroyCloseThread,
                DestroyDetach, StoreThread, HandleProgress, HandleComplete,
                CopyText, Ready
  <2> QED BY <2>1, <2>2, <2>3
<1>6. ASSUME NEW r \in Runs, WorkerRelease(r) PROVE RefInv'
  <2>1. r \in Holders /\ Holders' = Holders \ {r}
    BY <1>6, <1>t DEF WorkerRelease, Goto, Holders
  <2>2. Cardinality(Holders') = Cardinality(Holders) - 1
    BY <2>1, HoldersFinite, FS_RemoveElement
  <2>3. Cardinality(Holders') = 0 <=> Holders' = {}
    BY <2>1, HoldersFinite, FS_RemoveElement, FS_EmptySet
  <2>4. /\ UNCHANGED <<sheetRef, uiPc, dialog, run>> /\ Release
        /\ \A q \in Runs : pc'[q] = "none" <=> pc[q] = "none"
    BY <1>6, <1>t DEF WorkerRelease, Goto, UiUnchanged
  <2> QED BY <1>t, <2>1, <2>2, <2>3, <2>4 DEF Release
<1>7. ASSUME NEW r \in Runs, Compute(r) \/ FileCall(r), ~WorkerRelease(r)
      PROVE  RefInv'
  BY <1>7, <1>t, WorkerKeepsItsReference
<1>8. CASE UNCHANGED vars
  BY <1>8 DEF vars, Holders
<1> QED
  BY <1>1, <1>2, <1>3, <1>4, <1>5, <1>6, <1>7, <1>8
  DEF Next, UiHandler, MessageLoop, Environment

\* ref_count equals the number of parties, and the state is freed when, and
\* only when, the last of them is gone (fx_page_state_release).
THEOREM RefCountCorrect == Spec => [](RefCountExact /\ NoUseAfterFree)
<1>1. Init => RefInv
  <2> SUFFICES ASSUME Init PROVE RefInv
    OBVIOUS
  <2>1. Holders = {}
    BY DEF Init, Holders
  <2> QED BY <2>1, FS_EmptySet DEF Init, RefInv, RefCountExact
<1>2. TypeOK /\ RefInv /\ [Next]_vars => RefInv'
  BY RefInvStep
<1>3. RefInv => RefCountExact /\ NoUseAfterFree
  BY DEF RefInv, RefCountExact, NoUseAfterFree
<1> QED BY <1>1, <1>2, <1>3, TypeCorrect, PTL DEF Spec
-----------------------------------------------------------------------------
(* Runs and the window in between them.                                    *)

\* Only the latest run's worker is anywhere but on its way out.
LEMMA ActiveIsLatest ==
  ASSUME TypeOK, SessionInv, NEW r \in Runs, ~Leaving(r)
  PROVE  /\ r = run /\ run \in Runs /\ pc \in [Runs -> WorkerPcs]
         /\ ~(dialog = "attached" /\ controls) /\ dialog # "none"
         /\ pc[run] \notin {"release", "exit"} =>
              \A i \in 1 .. Len(queue) : queue[i].kind # "COMPLETE"
<1>1. pc \in [Runs -> WorkerPcs] /\ run \in 0 .. MaxRuns
  BY DEF TypeOK, WorkerTypes, HashTypes
<1>2. ~(r < run) /\ ~(r > run)
  BY DEF SessionInv, Leaving
<1>3. r = run
  BY <1>1, <1>2, BoundsAssumption DEF Runs
<1> QED BY <1>1, <1>3, BoundsAssumption DEF SessionInv, Runs

\* A step inside fx_hash_file that posts nothing keeps the invariant.
LEMMA ComputingStep ==
  ASSUME TypeOK, SessionInv, NEW r \in Runs, Computing(r),
         NEW to \in WorkerPcs \ {"none", "clear", "readHwnd", "postComplete",
                                 "release", "exit"},
         pc' = [pc EXCEPT ![r] = to],
         UNCHANGED <<running, run, dialog, uiPc, controls, hashThread,
                     hashResult, hashHr>>,
         \A i \in 1 .. Len(queue') :
            queue'[i].kind = "COMPLETE" => \E j \in 1 .. Len(queue) :
                                             queue[j].kind = "COMPLETE",
         dialog # "attached" => queue' = queue
  PROVE  SessionInv'
<1>1. ~Leaving(r) /\ pc[r] \notin {"none", "release", "exit"}
  BY DEF Computing, Leaving
<1>2. /\ r = run /\ run \in Runs /\ pc \in [Runs -> WorkerPcs]
      /\ ~(dialog = "attached" /\ controls) /\ dialog # "none"
      /\ \A i \in 1 .. Len(queue) : queue[i].kind # "COMPLETE"
  BY <1>1, ActiveIsLatest
<1>3. /\ Computing(run)' /\ ~ResultIsFinal(run)'
      /\ \A q \in Runs : q # run => pc'[q] = pc[q]
  BY <1>2 DEF Computing, ResultIsFinal
<1>4. \A q \in Runs : q # run => ~Computing(q) /\ Leaving(q)
  <2>1. ASSUME NEW q \in Runs, ~Leaving(q) PROVE q = run
    BY <2>1, ActiveIsLatest
  <2> QED BY <2>1 DEF Computing, Leaving
<1>5. running = 1 /\ \A q \in Runs : q < run => Leaving(q)
  BY DEF SessionInv
<1>6. /\ \A q \in Runs : q > run => pc[q] = "none"
      /\ dialog # "attached" => queue = <<>> /\ uiPc \in {"idle", "adding"}
      /\ uiPc = "created" => ~controls
  BY DEF SessionInv
<1>7. /\ \A q \in Runs : q < run' => Leaving(q)'
      /\ \A q \in Runs : q > run' => pc'[q] = "none"
      /\ \A q \in Runs : Computing(q)' => running' = 1
  <2>1. run \in Int /\ \A q \in Runs : q \in Int
    BY <1>2 DEF Runs
  <2> QED BY <1>3, <1>5, <1>6, <1>2, <2>1 DEF Leaving
<1> QED BY <1>2, <1>3, <1>5, <1>6, <1>7 DEF SessionInv

\* The UI thread's half of the argument.
LEMMA UiKeepsSession ==
  ASSUME TypeOK, SessionInv, UiHandler \/ MessageLoop \/ Environment
  PROVE  SessionInv'
<1> USE DEF SessionInv, Leaving, Computing, ResultIsFinal, stateVars,
            windowVars, hashVars, handleVars, msgVars, localVars
<1>t. /\ pc \in [Runs -> WorkerPcs] /\ run \in 0 .. MaxRuns
      /\ queue \in Seq(Messages) /\ running \in {0, 1}
      /\ \A r \in Runs : r \in Int
  BY DEF TypeOK, WorkerTypes, HashTypes, Runs
<1>1. CASE CreatePage \/ PageAdded \/ PageRejected \/ ReleasePage \/ CopyText
  BY <1>1 DEF CreatePage, PageAdded, PageRejected, ReleasePage, CopyText, Ready
<1>2. CASE InitDialog
  <2>1. queue = <<>> /\ hashThread = None /\ run = 0
    BY <1>2 DEF InitDialog
  <2>2. \A r \in Runs : r > run
    BY <2>1 DEF Runs
  <2> QED BY <1>2, <2>1, <2>2 DEF InitDialog
<1>3. CASE DestroyCancel
  BY <1>3 DEF DestroyCancel
<1>4. CASE DestroyCloseThread
  BY <1>4 DEF DestroyCloseThread, CloseHashThread
<1>5. CASE DestroyDetach
  BY <1>5 DEF DestroyDetach
<1>6. CASE StoreThread
  BY <1>6 DEF StoreThread
<1>7. CASE HandleProgress
  BY <1>7, <1>t DEF HandleProgress, Ready
<1>8. CASE HandleComplete
  BY <1>8, <1>t DEF HandleComplete, CloseHashThread, Ready
<1>9. CASE BeginHash
  <2> USE <1>9 DEF BeginHash, AddRef, ResetForRun, Ready
  <2>1. /\ run' = run + 1 /\ run + 1 \in Runs /\ running' = 1
        /\ queue' = <<>> /\ hashThread' = None
        /\ dialog' = "attached" /\ ~controls' /\ uiPc' = "created"
    BY <1>t, BoundsAssumption DEF Runs
  <2>2. /\ pc'[run + 1] = "prepare"
        /\ \A r \in Runs \ {run + 1} : pc'[r] = pc[r]
    BY <1>t, <2>1
  <2>3. \A r \in Runs : pc[r] \in {"none", "release", "exit"}
    BY <1>t
  <2>4. /\ \A r \in Runs : r < run + 1 => Leaving(r)'
        /\ \A r \in Runs : r > run + 1 => pc'[r] = "none"
    BY <1>t, <2>2, <2>3
  <2>5. Computing(run)' /\ ~ResultIsFinal(run)'
    BY <2>1, <2>2 DEF WorkerPcs
  <2> HIDE DEF Leaving, Computing, ResultIsFinal, BeginHash
  <2> QED BY <2>1, <2>4, <2>5
<1>10. CASE BeginHashFails
  BY <1>10, <1>t DEF BeginHashFails, ResetForRun, Ready
<1> QED
  BY <1>1, <1>2, <1>3, <1>4, <1>5, <1>6, <1>7, <1>8, <1>9, <1>10
  DEF UiHandler, MessageLoop, Environment

\* The worker's half.
LEMMA WorkerKeepsSession ==
  ASSUME TypeOK, SessionInv, NEW r \in Runs, Compute(r) \/ FileCall(r)
  PROVE  SessionInv'
<1> USE DEF stateVars, windowVars, hashVars, handleVars, msgVars, localVars,
            Goto, UiUnchanged
<1>t. /\ pc \in [Runs -> WorkerPcs] /\ run \in 0 .. MaxRuns
      /\ queue \in Seq(Messages) /\ running \in {0, 1}
      /\ hr \in [Runs -> Results]
      /\ \A q \in Runs : q \in Int
  BY DEF TypeOK, WorkerTypes, HashTypes, Runs
<1>a. ASSUME ~Leaving(r)
      PROVE  /\ r = run /\ run \in Runs
             /\ ~(dialog = "attached" /\ controls) /\ dialog # "none"
             /\ pc[r] \notin {"release", "exit"} =>
                  \A i \in 1 .. Len(queue) : queue[i].kind # "COMPLETE"
             /\ \A q \in Runs : q # r => Leaving(q)
  BY <1>a, ActiveIsLatest
<1>1. CASE Prepare(r) \/ OpenReturns(r) \/ ReportCheck(r) \/ ReportHwnd(r)
           \/ CheckCancel(r) \/ EnterRead(r) \/ ReadReturns(r) \/ Finish(r)
  <2>1. /\ Computing(r)
        /\ \E to \in WorkerPcs \ {"none", "clear", "readHwnd", "postComplete",
                                  "release", "exit"} :
             pc' = [pc EXCEPT ![r] = to]
        /\ UNCHANGED <<running, run, dialog, uiPc, controls, hashThread,
                       hashResult, hashHr, queue>>
    BY <1>1 DEF Prepare, OpenReturns, ReportCheck, ReportHwnd, CheckCancel,
                EnterRead, ReadReturns, Finish, OwnStep, Computing, WorkerPcs
  <2> QED BY <2>1, ComputingStep
<1>2. CASE ReportPost(r)
  <2>1. /\ Computing(r)
        /\ \E to \in WorkerPcs \ {"none", "clear", "readHwnd", "postComplete",
                                  "release", "exit"} :
             pc' = [pc EXCEPT ![r] = to]
        /\ UNCHANGED <<running, run, dialog, uiPc, controls, hashThread,
                       hashResult, hashHr>>
    BY <1>2 DEF ReportPost, Computing, WorkerPcs
  <2>2. CASE queue' = queue
    BY <2>1, <2>2, ComputingStep
  <2>3. CASE queue' # queue
    <3> DEFINE m == [kind |-> "PROGRESS", run |-> r, pct |-> Reported(r)]
    <3>1. queue' = Append(queue, m) /\ dialog = "attached"
      BY <1>2, <2>3 DEF ReportPost, Post
    <3>2. \A i \in 1 .. Len(queue') : queue'[i].kind = "COMPLETE" =>
            \E j \in 1 .. Len(queue) : queue[j].kind = "COMPLETE"
      BY <3>1, <1>t
    <3> QED BY <2>1, <3>1, <3>2, ComputingStep
  <2> QED BY <2>2, <2>3
<1>3. CASE StoreResult(r)
  <2>1. ~Leaving(r)
    BY <1>3 DEF StoreResult, Leaving
  <2> QED BY <1>3, <1>t, <1>a, <2>1
          DEF StoreResult, SessionInv, Leaving, Computing, ResultIsFinal,
              WorkerPcs
<1>4. CASE ClearRunning(r)
  <2>1. ~Leaving(r)
    BY <1>4 DEF ClearRunning, Leaving
  <2> QED BY <1>4, <1>t, <1>a, <2>1
          DEF ClearRunning, SessionInv, Leaving, Computing, ResultIsFinal
<1>5. CASE ReadHwnd(r)
  <2>1. ~Leaving(r)
    BY <1>5 DEF ReadHwnd, Leaving
  <2> QED BY <1>5, <1>t, <1>a, <2>1
          DEF ReadHwnd, OwnStep, SessionInv, Leaving, Computing, ResultIsFinal
<1>6. CASE PostComplete(r)
  <2>1. ~Leaving(r)
    BY <1>6 DEF PostComplete, Leaving
  <2> QED BY <1>6, <1>t, <1>a, <2>1
          DEF PostComplete, Post, SessionInv, Leaving, Computing, ResultIsFinal
<1>7. CASE WorkerRelease(r)
  BY <1>7, <1>t
  DEF WorkerRelease, SessionInv, Leaving, Computing, ResultIsFinal
<1> QED
  BY <1>1, <1>2, <1>3, <1>4, <1>5, <1>6, <1>7 DEF Compute, FileCall

\* Both halves together.
LEMMA SessionInvariant == Spec => []SessionInv
<1>1. Init => SessionInv
  <2> SUFFICES ASSUME Init PROVE SessionInv
    OBVIOUS
  <2>1. \A r \in Runs : pc[r] = "none" /\ r > 0
    BY DEF Init, Runs
  <2> QED BY <2>1 DEF Init, SessionInv, Leaving, Computing, ResultIsFinal
<1>2. TypeOK /\ SessionInv /\ [Next]_vars => SessionInv'
  <2> SUFFICES ASSUME TypeOK, SessionInv, [Next]_vars PROVE SessionInv'
    OBVIOUS
  <2>1. CASE UNCHANGED vars
    BY <2>1 DEF vars, hashVars, handleVars, msgVars, windowVars, localVars,
                SessionInv, Leaving, Computing, ResultIsFinal
  <2>2. CASE Next
    BY <2>2, UiKeepsSession, WorkerKeepsSession DEF Next
  <2> QED BY <2>1, <2>2
<1> QED BY <1>1, <1>2, TypeCorrect, PTL DEF Spec

\* What the session's invariant says of threads, messages and buttons.
LEMMA SessionGives ==
  TypeOK /\ SessionInv => OneComputing /\ CompleteIsFinal /\ StartNeverRefused
<1> SUFFICES ASSUME TypeOK, SessionInv
             PROVE  OneComputing /\ CompleteIsFinal /\ StartNeverRefused
  OBVIOUS
<1>1. OneComputing
  <2> SUFFICES ASSUME NEW r \in Runs, Computing(r)
               PROVE  r = run /\ running = 1
    BY DEF OneComputing
  <2>1. ~Leaving(r)
    BY DEF Computing, Leaving
  <2> QED BY <2>1, ActiveIsLatest DEF SessionInv
<1>2. running \in {0, 1} /\ queue \in Seq(Messages) /\ run \in 0 .. MaxRuns
  BY DEF TypeOK, HashTypes
<1>3. CompleteIsFinal
  <2> SUFFICES ASSUME NEW i \in 1 .. Len(queue), queue[i].kind = "COMPLETE"
               PROVE  /\ i = Len(queue) /\ queue[i].run = run
                      /\ running = 0 /\ hashResult = run /\ hashHr = hr[run]
    BY DEF CompleteIsFinal
  <2>1. i = Len(queue) /\ queue[i].run = run /\ pc[run] \in {"release", "exit"}
    BY DEF SessionInv
  <2>2. run \in Runs
    <3>1. queue[i] \in Messages
      BY <1>2
    <3> QED BY <3>1, <2>1 DEF Messages
  <2>3. ~Computing(run) /\ ResultIsFinal(run)
    BY <2>1 DEF Computing, ResultIsFinal
  <2> QED BY <1>2, <2>1, <2>2, <2>3 DEF SessionInv
<1>4. StartNeverRefused
  BY <1>2 DEF StartNeverRefused, Ready, SessionInv, Leaving, Computing
<1> QED BY <1>1, <1>3, <1>4

\* At most one worker computes, and a start the user can make is never refused
\* and never overwrites an earlier worker's handle (fx_begin_hash).
THEOREM SessionCorrect == Spec => [](OneComputing /\ StartNeverRefused)
BY SessionGives, TypeCorrect, SessionInvariant, PTL

\* When COMPLETE is posted the result is final, it is the latest run's, and
\* nothing of that run follows it in the queue (fx_hash_thread_proc).
THEOREM CompletionCorrect == Spec => []CompleteIsFinal
BY SessionGives, TypeCorrect, SessionInvariant, PTL
-----------------------------------------------------------------------------
(* The page's state as a reference-counted object.                         *)

\* Every step of the page is a step of the abstract object or a stutter.
LEMMA StepCounts ==
  ASSUME TypeOK, RefInv, RefInv', [Next]_vars
  PROVE  [Counted!RCNext]_Counted!rcVars
<1> DEFINE Held == Holders \cup (IF sheetRef = 1 THEN {0} ELSE {})
<1> USE DEF Counted!RCNext, Counted!rcVars
<1>t. /\ pc \in [Runs -> WorkerPcs] /\ run \in 0 .. MaxRuns
      /\ sheetRef \in {0, 1} /\ refCount \in Int
      /\ Holders \subseteq Runs /\ 0 \notin Runs /\ Runs \subseteq 0 .. MaxRuns
      /\ 0 \in 0 .. MaxRuns
  BY BoundsAssumption
  DEF TypeOK, WorkerTypes, HashTypes, PageTypes, Holders, Runs
<1>c. /\ (heap = "live") <=> (Held # {})
      /\ (heap' = "live") <=> (Held' # {})
  BY DEF RefInv, RefCountExact
<1>0. CASE Held' = Held /\ heap' = heap
  BY <1>0
<1>1. CASE CreatePage
  <2>1. Holders' = Holders /\ Held = {}
    BY <1>1, <1>c DEF CreatePage, Holders
  <2>2. Held' = {0}
    BY <1>1, <2>1 DEF CreatePage
  <2> QED BY <1>1, <1>t, <2>2 DEF CreatePage, Counted!Create
<1>2. CASE PageRejected \/ ReleasePage
  <2>1. /\ Holders' = Holders /\ sheetRef = 1 /\ sheetRef' = 0 /\ Release
    BY <1>2 DEF PageRejected, ReleasePage, Holders, RefInv
  <2>2. 0 \in Held /\ Held' = Held \ {0} /\ heap = "live"
    BY <2>1, <1>t, <1>c
  <2>3. heap' = IF Held' = {} THEN "freed" ELSE "live"
    BY <2>1, <2>2, <1>c DEF Release
  <2> QED BY <2>2, <2>3 DEF Counted!Leave
<1>3. CASE BeginHash
  <2>1. run + 1 \in Runs /\ pc[run + 1] = "none"
    BY <1>3, <1>t, BoundsAssumption DEF BeginHash, AddRef, ResetForRun, Runs, RefInv
  <2>2. Holders' = Holders \cup {run + 1} /\ run + 1 \notin Holders
    BY <1>3, <1>t, <2>1 DEF BeginHash, AddRef, Holders
  <2>3. sheetRef = 1 /\ sheetRef' = 1 /\ heap' = heap
    BY <1>3 DEF BeginHash, AddRef, ResetForRun, Ready, RefInv
  <2>4. run + 1 \notin Held /\ Held' = Held \cup {run + 1} /\ Held # {}
    BY <2>1, <2>2, <2>3, <1>t
  <2> QED BY <1>t, <1>c, <2>1, <2>3, <2>4 DEF Counted!Join
<1>4. CASE \/ PageAdded \/ InitDialog \/ DestroyCancel
           \/ DestroyCloseThread \/ DestroyDetach \/ StoreThread
           \/ HandleProgress \/ HandleComplete \/ CopyText \/ BeginHashFails
           \/ UNCHANGED vars
  <2>1. UNCHANGED <<heap, sheetRef, pc>>
    BY <1>4 DEF PageAdded, InitDialog, DestroyCancel, DestroyCloseThread,
                DestroyDetach, StoreThread, HandleProgress, HandleComplete,
                CopyText, BeginHashFails, stateVars, vars
  <2>2. Holders' = Holders
    BY <2>1 DEF Holders
  <2> QED BY <2>1, <2>2, <1>0
<1>5. ASSUME NEW r \in Runs, WorkerRelease(r)
      PROVE  [Counted!RCNext]_Counted!rcVars
  <2>1. /\ r \in Holders /\ Holders' = Holders \ {r} /\ sheetRef' = sheetRef
        /\ Release
    BY <1>5, <1>t DEF WorkerRelease, Goto, Holders
  <2>2. r \in Held /\ Held' = Held \ {r} /\ heap = "live"
    BY <2>1, <1>t, <1>c
  <2>3. heap' = IF Held' = {} THEN "freed" ELSE "live"
    BY <2>1, <2>2, <1>c DEF Release
  <2> QED BY <2>2, <2>3 DEF Counted!Leave
<1>6. ASSUME NEW r \in Runs, Compute(r) \/ FileCall(r), ~WorkerRelease(r)
      PROVE  [Counted!RCNext]_Counted!rcVars
  BY <1>6, <1>0, WorkerKeepsItsReference
<1> QED
  BY <1>1, <1>2, <1>3, <1>4, <1>5, <1>6
  DEF Next, UiHandler, MessageLoop, Environment

\* The page implements RefCounted: it is never freed under a holder, never
\* revived, and never freed twice.
THEOREM ImplementsRefCounted == Spec => RefinesRefCounted
<1>1. Init => RefInv /\ Counted!RCInit
  <2> SUFFICES ASSUME Init PROVE RefInv /\ Counted!RCInit
    OBVIOUS
  <2>1. Holders = {}
    BY DEF Init, Holders
  <2> QED BY <2>1, FS_EmptySet
          DEF Init, RefInv, RefCountExact, Counted!RCInit
<1>2. TypeOK /\ RefInv /\ [Next]_vars => RefInv'
  BY RefInvStep
<1>3. TypeOK /\ RefInv /\ RefInv' /\ [Next]_vars
        => [Counted!RCNext]_Counted!rcVars
  BY StepCounts
<1> QED BY <1>1, <1>2, <1>3, TypeCorrect, PTL
        DEF Spec, RefinesRefCounted, Counted!RCSpec
-----------------------------------------------------------------------------
(* Handles, results and what the user is shown of them.                    *)

\* A worker touches neither the handles nor the window nor what was copied,
\* it changes the HRESULT of its own run only, and that not after COMPLETE.
LEMMA WorkerLeavesWindow ==
  ASSUME TypeOK, NEW r \in Runs, Compute(r) \/ FileCall(r)
  PROVE  /\ UNCHANGED <<uiPc, dialog, controls, copyEnabled, status, shown,
                        clipboard, hashThread, openHandles, run, hashText>>
         /\ \A q \in Runs : Over(q) => Over(q)' /\ hr'[q] = hr[q]
<1> USE DEF Goto, UiUnchanged, OwnStep, windowVars, handleVars, localVars, Over
<1>t. pc \in [Runs -> WorkerPcs] /\ hr \in [Runs -> Results]
  BY DEF TypeOK, WorkerTypes
<1>1. CASE Prepare(r) \/ OpenReturns(r)
  BY <1>1, <1>t DEF Prepare, OpenReturns
<1>2. CASE ReportCheck(r) \/ ReportHwnd(r)
  BY <1>2, <1>t DEF ReportCheck, ReportHwnd
<1>3. CASE ReportPost(r) \/ CheckCancel(r)
  BY <1>3, <1>t DEF ReportPost, CheckCancel
<1>4. CASE EnterRead(r) \/ ReadReturns(r) \/ Finish(r)
  BY <1>4, <1>t DEF EnterRead, ReadReturns, Finish
<1>5. CASE StoreResult(r) \/ ClearRunning(r) \/ ReadHwnd(r)
  BY <1>5, <1>t DEF StoreResult, ClearRunning, ReadHwnd
<1>6. CASE PostComplete(r) \/ WorkerRelease(r)
  BY <1>6, <1>t DEF PostComplete, WorkerRelease
<1> QED
  BY <1>1, <1>2, <1>3, <1>4, <1>5, <1>6 DEF Compute, FileCall

\* The state has the only open handle, but for the moment between CreateThread
\* and the store.
LEMMA HandleInvStep ==
  TypeOK /\ SessionInv /\ HandleInv /\ [Next]_vars => HandleInv'
<1> SUFFICES ASSUME TypeOK, SessionInv, HandleInv, [Next]_vars PROVE HandleInv'
  OBVIOUS
<1> USE DEF HandleInv, HandlesAccounted, handleVars
<1>t. /\ openHandles \subseteq Runs /\ None \notin Runs /\ run \in 0 .. MaxRuns
      /\ hashThread \in 0 .. MaxRuns
  BY DEF TypeOK, HashTypes, Runs, None
<1>1. CASE CreatePage \/ PageAdded \/ PageRejected \/ ReleasePage \/ CopyText
  BY <1>1 DEF CreatePage, PageAdded, PageRejected, ReleasePage, CopyText
<1>2. CASE InitDialog \/ DestroyCancel \/ HandleProgress \/ BeginHashFails
  BY <1>2 DEF InitDialog, DestroyCancel, HandleProgress, BeginHashFails, Ready,
              ResetForRun
<1>3. CASE DestroyCloseThread
  BY <1>3, <1>t DEF DestroyCloseThread, CloseHashThread
<1>4. CASE DestroyDetach
  BY <1>4, <1>t DEF DestroyDetach
<1>5. CASE BeginHash
  <2>1. hashThread = None /\ openHandles = {}
    BY <1>5, <1>t DEF BeginHash, ResetForRun, Ready, SessionInv
  <2> QED BY <1>5, <2>1 DEF BeginHash, ResetForRun, Ready
<1>6. CASE StoreThread
  <2>1. dialog = "attached"
    BY <1>6 DEF StoreThread, SessionInv
  <2> QED BY <1>6, <1>t, <2>1 DEF StoreThread
<1>7. CASE HandleComplete
  BY <1>7, <1>t DEF HandleComplete, CloseHashThread, Ready
<1>8. ASSUME NEW r \in Runs, Compute(r) \/ FileCall(r) PROVE HandleInv'
  BY <1>8, WorkerLeavesWindow
<1>9. CASE UNCHANGED vars
  BY <1>9 DEF vars
<1> QED
  BY <1>1, <1>2, <1>3, <1>4, <1>5, <1>6, <1>7, <1>8, <1>9
  DEF Next, UiHandler, MessageLoop, Environment

\* Every handle that CreateThread returned is closed once (fx_begin_hash,
\* fx_close_hash_thread): while one is open the state refers to it, and none
\* is left when the dialog is gone, for any number of calculations.
THEOREM HandlesCorrect == Spec => []HandlesAccounted
<1>1. Init => HandleInv
  BY DEF Init, HandleInv, HandlesAccounted
<1>2. TypeOK /\ SessionInv /\ HandleInv /\ [Next]_vars => HandleInv'
  BY HandleInvStep
<1>3. HandleInv => HandlesAccounted
  BY DEF HandleInv
<1> QED BY <1>1, <1>2, <1>3, TypeCorrect, SessionInvariant, PTL DEF Spec

\* When COMPLETE is handled it is the message of the latest run, whose worker
\* is over and whose result is the one that is stored.
LEMMA CompleteIsLatest ==
  ASSUME TypeOK, SessionInv, queue # <<>>, Head(queue).kind = "COMPLETE"
  PROVE  /\ run \in Runs /\ Over(run) /\ hashResult = run /\ hashHr = hr[run]
<1>1. queue \in Seq(Messages) /\ 1 \in 1 .. Len(queue) /\ queue[1] = Head(queue)
  BY DEF TypeOK, HashTypes
<1>2. queue[1].run = run /\ pc[run] \in {"release", "exit"}
  BY <1>1 DEF SessionInv
<1>3. run \in Runs
  <2>1. queue[1] \in Messages
    BY <1>1
  <2> QED BY <1>2, <2>1 DEF Messages
<1> QED
  BY <1>2, <1>3 DEF SessionInv, ResultIsFinal, Over

\* Copied text is the shown text of a run that is over.
LEMMA CopyInvStep ==
  TypeOK /\ SessionInv /\ CopyInv /\ [Next]_vars => CopyInv'
<1> SUFFICES ASSUME TypeOK, SessionInv, CopyInv, [Next]_vars PROVE CopyInv'
  OBVIOUS
<1> USE DEF CopyInv, CopyMatchesShown, windowVars
<1>t. /\ None \notin Runs /\ run \in 0 .. MaxRuns
      /\ clipboard \in 0 .. MaxRuns /\ shown \in 0 .. MaxRuns
      /\ copyEnabled \in BOOLEAN /\ controls \in BOOLEAN
  BY DEF TypeOK, HashTypes, WindowTypes, Runs, None
<1>1. CASE CreatePage \/ PageAdded \/ PageRejected \/ ReleasePage
           \/ DestroyCancel \/ DestroyCloseThread \/ DestroyDetach \/ StoreThread
           \/ HandleProgress
  <2>1. UNCHANGED <<controls, copyEnabled, status, shown, clipboard, run, hashText,
                    hr, pc>>
    BY <1>1 DEF CreatePage, PageAdded, PageRejected, ReleasePage, DestroyCancel,
                DestroyCloseThread, DestroyDetach, StoreThread, HandleProgress,
                hashVars, localVars
  <2>2. \/ dialog' = dialog
        \/ dialog' = "gone"
    BY <1>1 DEF CreatePage, PageAdded, PageRejected, ReleasePage, DestroyCancel,
                DestroyCloseThread, DestroyDetach, StoreThread, HandleProgress
  <2> QED BY <2>1, <2>2 DEF Over
<1>2. CASE InitDialog
  <2>1. ~copyEnabled /\ shown = None
    BY <1>2 DEF InitDialog
  <2> QED BY <1>2, <2>1 DEF InitDialog, hashVars, localVars, Over
<1>3. CASE BeginHash
  <2>1. /\ ~copyEnabled' /\ shown' = None /\ clipboard' = clipboard /\ hr' = hr
    BY <1>3 DEF BeginHash, ResetForRun, localVars
  <2>2. run + 1 \in Runs /\ pc[run + 1] = "none"
    BY <1>3, <1>t, BoundsAssumption DEF BeginHash, ResetForRun, Runs, SessionInv
  <2>3. pc' = [pc EXCEPT ![run + 1] = "prepare"]
    BY <1>3 DEF BeginHash
  <2>4. clipboard # None => Over(clipboard)'
    BY <2>1, <2>2, <2>3 DEF Over, TypeOK, WorkerTypes
  <2> QED BY <2>1, <2>4
<1>4. CASE BeginHashFails
  BY <1>4 DEF BeginHashFails, ResetForRun, localVars, Over
<1>5. CASE HandleComplete
  <2>1. /\ Over(run) /\ run \in Runs /\ hashResult = run /\ hashHr = hr[run]
    BY <1>5, CompleteIsLatest DEF HandleComplete
  <2>2. /\ UNCHANGED <<clipboard, hr, pc, run, dialog>> /\ controls' = TRUE
        /\ dialog = "attached"
    BY <1>5 DEF HandleComplete, localVars, Ready
  <2>3. CASE hashHr = "S_OK"
    BY <1>5, <1>t, <2>1, <2>2, <2>3 DEF HandleComplete, Over
  <2>4. CASE hashHr # "S_OK"
    BY <1>5, <1>t, <2>1, <2>2, <2>4 DEF HandleComplete, Over
  <2> QED BY <2>3, <2>4
<1>6. CASE CopyText
  BY <1>6 DEF CopyText, Ready, hashVars, localVars, Over
<1>7. ASSUME NEW r \in Runs, Compute(r) \/ FileCall(r) PROVE CopyInv'
  <2>1. /\ UNCHANGED <<uiPc, dialog, controls, copyEnabled, status, shown,
                       clipboard, run, hashText>>
        /\ \A q \in Runs : Over(q) => Over(q)' /\ hr'[q] = hr[q]
    BY <1>7, WorkerLeavesWindow
  <2>2. copyEnabled => run \in Runs /\ Over(run)' /\ hr'[run] = hr[run]
    BY <2>1 DEF Over
  <2>3. clipboard # None =>
          clipboard \in Runs /\ Over(clipboard)' /\ hr'[clipboard] = hr[clipboard]
    BY <2>1 DEF Over
  <2> HIDE DEF Over
  <2> QED BY <2>1, <2>2, <2>3 DEF Over
<1>8. CASE UNCHANGED vars
  BY <1>8 DEF vars, hashVars, localVars, Over
<1> QED
  BY <1>1, <1>2, <1>3, <1>4, <1>5, <1>6, <1>7, <1>8
  DEF Next, UiHandler, MessageLoop, Environment

\* The inductive invariant of a page's results.
LEMMA CopyInvariant == Spec => []CopyInv
<1>1. Init => CopyInv
  BY DEF Init, CopyInv, CopyMatchesShown
<1>2. TypeOK /\ SessionInv /\ CopyInv /\ [Next]_vars => CopyInv'
  BY CopyInvStep
<1> QED BY <1>1, <1>2, TypeCorrect, SessionInvariant, PTL DEF Spec

\* IDC_HASH_COPY is enabled only over the text that is shown, which is the
\* whole result of the latest run, and what was copied stays the result of a
\* run that succeeded, whatever runs begin after it.
THEOREM CopyCorrect == Spec => []CopyMatchesShown
<1>1. CopyInv => CopyMatchesShown
  BY DEF CopyInv
<1> QED BY <1>1, CopyInvariant, PTL

-----------------------------------------------------------------------------
(* The dialog as a sequential session.                                     *)

\* Every step of the page is one of the session or a stutter.
LEMMA StepOfSession ==
  ASSUME TypeOK, SessionInv, CopyInv, [Next]_vars
  PROVE  [Session!HSNext]_Session!hsVars
<1> DEFINE Phase == CASE dialog = "none" -> "closed"
                      [] dialog = "gone" -> "over"
                      [] OTHER -> IF controls THEN "rest" ELSE "busy"
<1> USE DEF windowVars
<1>t. /\ dialog \in {"none", "attached", "gone"}
      /\ dialog = "none" => Phase = "closed"
      /\ dialog = "gone" => Phase = "over"
      /\ dialog = "attached" /\ controls => Phase = "rest"
      /\ dialog = "attached" /\ ~controls => Phase = "busy"
  BY DEF TypeOK, PageTypes
<1>u. /\ dialog' = "none" => Phase' = "closed"
      /\ dialog' = "gone" => Phase' = "over"
      /\ dialog' = "attached" /\ controls' => Phase' = "rest"
      /\ dialog' = "attached" /\ ~controls' => Phase' = "busy"
  OBVIOUS
<1>0. ASSUME UNCHANGED <<dialog, controls, run, shown, clipboard>>
      PROVE  UNCHANGED Session!hsVars
  BY <1>0 DEF Session!hsVars
<1> HIDE DEF Phase
<1>1. CASE CreatePage \/ PageAdded \/ PageRejected \/ ReleasePage
           \/ DestroyCancel \/ DestroyCloseThread \/ StoreThread
           \/ HandleProgress
  BY <1>1, <1>0 DEF CreatePage, PageAdded, PageRejected, ReleasePage,
                    DestroyCancel, DestroyCloseThread, StoreThread, HandleProgress
<1>2. CASE InitDialog
  <2>1. Session!Open
    BY <1>2, <1>t, <1>u DEF InitDialog, Session!Open, Phase
  <2> QED BY <2>1 DEF Session!HSNext
<1>3. CASE DestroyDetach
  <2>1. dialog = "attached" /\ Phase \in {"busy", "rest"} /\ Phase' = "over"
    BY <1>3, <1>t, <1>u DEF DestroyDetach, SessionInv
  <2>2. Session!Close
    BY <1>3, <2>1 DEF DestroyDetach, Session!Close, Phase
  <2> QED BY <2>2 DEF Session!HSNext
<1>4. CASE BeginHash \/ BeginHashFails
  <2>1. Phase = "rest" /\ Phase' \in {"busy", "rest"}
    BY <1>4, <1>t, <1>u DEF BeginHash, BeginHashFails, ResetForRun, Ready
  <2>2. Session!Start
    BY <1>4, <2>1 DEF BeginHash, BeginHashFails, ResetForRun, Session!Start, Phase
  <2> QED BY <2>2 DEF Session!HSNext
<1>5. CASE HandleComplete
  <2>1. /\ dialog = "attached" /\ dialog' = dialog /\ controls' = TRUE
        /\ UNCHANGED <<run, clipboard>>
    BY <1>5 DEF HandleComplete, Ready
  <2>2. hashResult = run /\ ~controls
    BY <1>5, <2>1, CompleteIsLatest DEF HandleComplete, SessionInv
  <2>3. Phase = "busy" /\ Phase' = "rest" /\ shown = None
    BY <2>1, <2>2, <1>t, <1>u DEF CopyInv
  <2>4. CASE hashHr = "S_OK"
    <3>1. Session!Succeed
      BY <1>5, <2>1, <2>2, <2>3, <2>4 DEF HandleComplete, Session!Succeed, Phase
    <3> QED BY <3>1 DEF Session!HSNext
  <2>5. CASE hashHr # "S_OK"
    <3>1. Session!Fail
      BY <1>5, <2>1, <2>3, <2>5 DEF HandleComplete, Session!Fail, Phase
    <3> QED BY <3>1 DEF Session!HSNext
  <2> QED BY <2>4, <2>5
<1>6. CASE CopyText
  <2>1. /\ Phase = "rest" /\ Phase' = Phase /\ shown # None /\ clipboard' = shown
        /\ UNCHANGED <<run, shown>>
    BY <1>6, <1>t, <1>u DEF CopyText, Ready, CopyInv, CopyMatchesShown
  <2>2. Session!Copy
    BY <2>1 DEF Session!Copy, Phase
  <2> QED BY <2>2 DEF Session!HSNext
<1>7. ASSUME NEW r \in Runs, Compute(r) \/ FileCall(r)
      PROVE  UNCHANGED Session!hsVars
  BY <1>7, <1>0, WorkerLeavesWindow
<1>8. CASE UNCHANGED vars
  BY <1>8, <1>0 DEF vars
<1> QED
  BY <1>1, <1>2, <1>3, <1>4, <1>5, <1>6, <1>7, <1>8
  DEF Next, UiHandler, MessageLoop, Environment

\* With its threads, messages and cancellations the page implements the
\* sequential session: one calculation at a time, begun only at rest, whose
\* own result is shown and copied, or none.
THEOREM ImplementsSession == Spec => RefinesSession
<1>1. ASSUME Init PROVE Session!HSInit
  <2> DEFINE Phase == CASE dialog = "none" -> "closed"
                        [] dialog = "gone" -> "over"
                        [] OTHER -> IF controls THEN "rest" ELSE "busy"
  <2>1. dialog = "none" /\ run = 0 /\ shown = None /\ clipboard = None
    BY <1>1 DEF Init
  <2>2. Phase = "closed"
    BY <2>1
  <2> QED BY <2>1, <2>2 DEF Session!HSInit, Phase, None
<1>2. TypeOK /\ SessionInv /\ CopyInv /\ [Next]_vars
        => [Session!HSNext]_Session!hsVars
  BY StepOfSession
<1> QED BY <1>1, <1>2, TypeCorrect, SessionInvariant, CopyInvariant, PTL
        DEF Spec, RefinesSession, Session!HSSpec
=============================================================================
