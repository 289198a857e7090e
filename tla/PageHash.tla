------------------------------ MODULE PageHash ------------------------------
(***************************************************************************)
(* One property-sheet page of FileXRay (FileXRay/pagectrl.c): the shared   *)
(* FX_PAGE_STATE, the UI thread that runs the dialog procedure, and the    *)
(* worker threads that hash the file (fx_hash_file, FileXRay/hash.c).      *)
(*                                                                         *)
(* A UI handler is one step where no other thread can see its middle, and  *)
(* several steps (uiPc) where it can.  A worker step ends where the worker *)
(* touches a field the UI thread also touches.  Runs are numbered: worker  *)
(* r computes run r.                                                       *)
(*                                                                         *)
(* Where a definition is preceded by variants of itself with no comment of *)
(* their own, those are faults a change to the code could introduce; no    *)
(* specification uses them, and README.md says which property rejects each.*)
(***************************************************************************)
EXTENDS Integers, Sequences, FiniteSets

CONSTANTS MaxRuns,   \* bound: how often the user starts a calculation
          MaxReads,  \* bound: non-empty ReadFile results in one run
          QueueCap,  \* messages the UI thread's queue holds
          MaxDword,  \* the largest DWORD
          MaxUlonglong \* the largest ULONGLONG

ASSUME BoundsAssumption == /\ MaxRuns \in Nat
                           /\ MaxReads \in Nat
                           /\ QueueCap \in Nat
                           /\ MaxDword \in Nat /\ MaxDword >= 100
                           /\ MaxUlonglong \in Nat

Runs == 1 .. MaxRuns
None == 0                      \* NULL handle, empty text, no result

VARIABLES
  heap, refCount, sheetRef,    \* the allocation, ref_count, the sheet's share
  uiPc,                        \* where the UI thread is
  dialog, hwnd,                \* the window itself; the state's hwnd field
  controls, copyEnabled,       \* IDC_HASH_START and boxes; IDC_HASH_COPY
  status, shown, bar,          \* IDC_HASH_STATUS, _RESULT, _PROGRESS
  clipboard,
  cancel, running, hashThread, hashHr, hashResult, hashText,
  openHandles,                 \* kernel handles to workers not yet closed
  run,                         \* runs started so far
  queue, lost,                 \* posted messages; runs whose COMPLETE failed
  pc, stage, seen, done, total, hr,  \* the workers' own variables
  aborted, lateCalls           \* CancelSynchronousIo hit; calls after cancel

stateVars  == <<heap, refCount, sheetRef>>
windowVars == <<controls, copyEnabled, status, shown>>
hashVars   == <<cancel, running, hashHr, hashResult, hashText>>
handleVars == <<hashThread, openHandles>>
localVars  == <<stage, seen, done, total, hr, aborted, lateCalls>>
msgVars    == <<queue, lost>>
vars == <<stateVars, uiPc, dialog, hwnd, windowVars, bar, clipboard, hashVars,
          handleVars, run, msgVars, pc, localVars>>

WorkerPcs == {"none", "prepare", "opening", "reportCheck", "reportHwnd",
              "reportPost", "check", "read", "reading", "finish", "store",
              "clear", "readHwnd", "postComplete", "release", "exit"}
Results == {"E_PENDING", "S_OK", "CANCELLED", "FAILED"}
Messages == [kind : {"PROGRESS", "COMPLETE"}, run : Runs, pct : 0 .. 100]

\* Workers that still hold the reference fx_begin_hash took for them.
Holders == {r \in Runs : pc[r] \notin {"none", "exit"}}

\* fx_hash_file has not handed its result over yet (running is still 1).
Computing(r) == pc[r] \in WorkerPcs \ {"none", "readHwnd", "postComplete",
                                       "release", "exit"}

\* The product is a ULONGLONG, the quotient is cast to a DWORD.
Quotient(n, size) ==
  (((n * 100) % (MaxUlonglong + 1)) \div size) % (MaxDword + 1)

PercentUnclamped(n, size) == IF size = 0 THEN 100 ELSE Quotient(n, size)

\* fx_hash_progress: a file that grows while it is read stays at 100 until
\* the quotient no longer fits a DWORD; then the bar starts again from the
\* quotient's low bits.
Percent(n, size) == IF size = 0 \/ Quotient(n, size) > 100 THEN 100
                    ELSE Quotient(n, size)

Init ==
  /\ heap = "none" /\ refCount = 0 /\ sheetRef = 0
  /\ uiPc = "idle" /\ dialog = "none" /\ hwnd = FALSE
  /\ controls = FALSE /\ copyEnabled = FALSE
  /\ status = "none" /\ shown = None /\ bar = 0 /\ clipboard = None
  /\ cancel = 0 /\ running = 0 /\ hashThread = None
  /\ hashHr = "S_OK" /\ hashResult = None /\ hashText = None
  /\ openHandles = {} /\ run = 0 /\ queue = <<>> /\ lost = {}
  /\ pc = [r \in Runs |-> "none"]
  /\ stage = [r \in Runs |-> "first"]
  /\ seen = [r \in Runs |-> FALSE]
  /\ done = [r \in Runs |-> 0]
  /\ total = [r \in Runs |-> 0]
  /\ hr = [r \in Runs |-> "E_PENDING"]
  /\ aborted = [r \in Runs |-> FALSE]
  /\ lateCalls = [r \in Runs |-> 0]

-----------------------------------------------------------------------------
(* Helpers shared by both threads.                                         *)

\* InterlockedIncrement of ref_count, for the worker about to be started.
NoAddRef == refCount' = refCount
AddRef == refCount' = refCount + 1

ReleaseLeaks == refCount' = refCount - 1 /\ UNCHANGED heap

\* fx_page_state_release: the last reference frees the state.
Release ==
  /\ refCount' = refCount - 1
  /\ heap' = IF refCount = 1 THEN "freed" ELSE heap

CloseForgetsField ==
  openHandles' = openHandles \ {hashThread} /\ UNCHANGED hashThread
CloseLeaks == hashThread' = None /\ UNCHANGED openHandles

\* fx_close_hash_thread.
CloseHashThread ==
  /\ openHandles' = openHandles \ {hashThread}
  /\ hashThread' = None

\* PostMessageW: fails on a destroyed window and on a full queue; the code
\* ignores the result.
Post(m) ==
  IF dialog = "attached" /\ Len(queue) < QueueCap
  THEN queue' = Append(queue, m) /\ lost' = lost
  ELSE /\ queue' = queue
       /\ lost' = IF m.kind = "COMPLETE" THEN lost \cup {m.run} ELSE lost

-----------------------------------------------------------------------------
(* The UI thread: life of the page.                                        *)

\* fx_add_property_sheet_page up to CreatePropertySheetPageW.
CreatePage ==
  /\ heap = "none" /\ uiPc = "idle"
  /\ heap' = "live" /\ refCount' = 1 /\ sheetRef' = 1
  /\ uiPc' = "adding"
  /\ UNCHANGED <<dialog, hwnd, windowVars, bar, clipboard, hashVars,
                 handleVars, run, msgVars, pc, localVars>>

\* The sheet takes the page.
PageAdded ==
  /\ uiPc = "adding"
  /\ uiPc' = "idle"
  /\ UNCHANGED <<stateVars, dialog, hwnd, windowVars, bar, clipboard,
                 hashVars, handleVars, run, msgVars, pc, localVars>>

\* CreatePropertySheetPageW or add_page fails.  The reference is dropped
\* once: directly, or by the PSPCB_RELEASE DestroyPropertySheetPage sends.
PageRejected ==
  /\ uiPc = "adding"
  /\ Release /\ sheetRef' = 0
  /\ uiPc' = "idle"
  /\ UNCHANGED <<dialog, hwnd, windowVars, bar, clipboard, hashVars,
                 handleVars, run, msgVars, pc, localVars>>

\* WM_INITDIALOG, the first time the user opens the page.
InitDialog ==
  /\ uiPc = "idle" /\ sheetRef = 1 /\ dialog = "none"
  /\ dialog' = "attached" /\ hwnd' = TRUE
  /\ controls' = TRUE /\ copyEnabled' = FALSE
  /\ status' = "ready" /\ bar' = 0
  /\ UNCHANGED <<stateVars, uiPc, shown, clipboard, hashVars, handleVars, run,
                 msgVars, pc, localVars>>

\* WM_DESTROY, up to the point where the worker can see cancel.
DestroyCancel ==
  /\ uiPc = "idle" /\ dialog = "attached"
  /\ cancel' = 1
  /\ uiPc' = "cancelled"
  /\ UNCHANGED <<stateVars, dialog, hwnd, windowVars, bar, clipboard, running,
                 hashHr, hashResult, hashText, handleVars, run, msgVars, pc,
                 localVars>>

CloseThreadOnly ==
  /\ uiPc = "cancelled"
  /\ CloseHashThread
  /\ uiPc' = "closed"
  /\ UNCHANGED <<stateVars, dialog, hwnd, windowVars, bar, clipboard, hashVars,
                 run, msgVars, pc, localVars>>

\* WM_DESTROY: CancelSynchronousIo ends a call the worker is blocked in, and
\* only such a call; then fx_close_hash_thread.
DestroyCloseThread ==
  /\ uiPc = "cancelled"
  /\ aborted' = [r \in Runs |->
       aborted[r] \/ (r = hashThread /\ pc[r] \in {"opening", "reading"})]
  /\ CloseHashThread
  /\ uiPc' = "closed"
  /\ UNCHANGED <<stateVars, dialog, hwnd, windowVars, bar, clipboard, hashVars,
                 run, msgVars, pc, stage, seen, done, total, hr, lateCalls>>

\* WM_DESTROY: hwnd and DWLP_USER are cleared, the window dies and its
\* messages with it.
DestroyDetach ==
  /\ uiPc = "closed"
  /\ hwnd' = FALSE /\ dialog' = "gone" /\ queue' = <<>>
  /\ uiPc' = "idle"
  /\ UNCHANGED <<stateVars, windowVars, bar, clipboard, hashVars, handleVars,
                 run, lost, pc, localVars>>

\* fx_page_callback with PSPCB_RELEASE, with or without a dialog before it.
ReleasePage ==
  /\ uiPc = "idle" /\ sheetRef = 1 /\ dialog # "attached"
  /\ Release /\ sheetRef' = 0
  /\ UNCHANGED <<uiPc, dialog, hwnd, windowVars, bar, clipboard, hashVars,
                 handleVars, run, msgVars, pc, localVars>>

-----------------------------------------------------------------------------
(* The UI thread: hashing.                                                 *)

Ready == uiPc = "idle" /\ dialog = "attached"

ResetKeepsCopy ==
  /\ Ready /\ controls /\ running = 0 /\ run < MaxRuns
  /\ run' = run + 1
  /\ hashResult' = None /\ hashText' = None /\ cancel' = 0
  /\ bar' = 0 /\ shown' = None /\ UNCHANGED copyEnabled
ResetKeepsText ==
  /\ Ready /\ controls /\ running = 0 /\ run < MaxRuns
  /\ run' = run + 1
  /\ hashResult' = None /\ hashText' = None /\ cancel' = 0
  /\ bar' = 0 /\ copyEnabled' = FALSE /\ UNCHANGED shown

\* fx_begin_hash up to CreateThread, some algorithm being checked.
ResetForRun ==
  /\ Ready /\ controls /\ running = 0 /\ run < MaxRuns
  /\ run' = run + 1
  /\ hashResult' = None /\ hashText' = None /\ cancel' = 0
  /\ bar' = 0 /\ shown' = None /\ copyEnabled' = FALSE

BeginHash ==
  /\ ResetForRun
  /\ running' = 1 /\ hashHr' = "E_PENDING"
  /\ status' = "calculating" /\ controls' = FALSE
  /\ AddRef
  /\ pc' = [pc EXCEPT ![run + 1] = "prepare"]
  /\ openHandles' = openHandles \cup {run + 1}
  /\ uiPc' = "created"
  /\ UNCHANGED <<heap, sheetRef, dialog, hwnd, clipboard, hashThread, msgVars,
                 localVars>>

\* fx_begin_hash: hash_thread is stored after the worker may already run.
StoreThread ==
  /\ uiPc = "created"
  /\ hashThread' = run
  /\ uiPc' = "idle"
  /\ UNCHANGED <<stateVars, dialog, hwnd, windowVars, bar, clipboard, hashVars,
                 openHandles, run, msgVars, pc, localVars>>

\* fx_begin_hash when CreateThread fails: everything taken is given back.
BeginHashFails ==
  /\ ResetForRun
  /\ running' = 0 /\ hashHr' = "FAILED"
  /\ status' = "failed" /\ controls' = TRUE
  /\ refCount' = (refCount + 1) - 1
  /\ UNCHANGED <<heap, sheetRef, uiPc, dialog, hwnd, clipboard, handleVars,
                 msgVars, pc, localVars>>

\* FXM_HASH_PROGRESS.
HandleProgress ==
  /\ Ready /\ queue # <<>> /\ Head(queue).kind = "PROGRESS"
  /\ bar' = Head(queue).pct
  /\ queue' = Tail(queue)
  /\ UNCHANGED <<stateVars, uiPc, dialog, hwnd, windowVars, clipboard,
                 hashVars, handleVars, run, lost, pc, localVars>>

\* FXM_HASH_COMPLETE: fx_complete_hash.
HandleComplete ==
  /\ Ready /\ queue # <<>> /\ Head(queue).kind = "COMPLETE"
  /\ CloseHashThread
  /\ controls' = TRUE
  /\ hashText' = IF hashHr = "S_OK" THEN hashResult ELSE hashText
  /\ shown' = IF hashHr = "S_OK" THEN hashResult ELSE None
  /\ copyEnabled' = (hashHr = "S_OK")
  /\ status' = CASE hashHr = "S_OK" -> "complete"
                 [] hashHr = "CANCELLED" -> "canceled"
                 [] OTHER -> "failed"
  /\ queue' = Tail(queue)
  /\ UNCHANGED <<stateVars, uiPc, dialog, hwnd, bar, clipboard, cancel,
                 running, hashHr, hashResult, run, lost, pc, localVars>>

\* IDC_HASH_COPY: what is copied is hash_text, not the edit control's text.
CopyText ==
  /\ Ready /\ copyEnabled /\ hashText # None
  /\ clipboard' = hashText
  /\ UNCHANGED <<stateVars, uiPc, dialog, hwnd, windowVars, bar, hashVars,
                 handleVars, run, msgVars, pc, localVars>>

-----------------------------------------------------------------------------
(* The worker: fx_hash_thread_proc, fx_hash_file and fx_hash_progress.     *)

Goto(r, from, to) == pc[r] = from /\ pc' = [pc EXCEPT ![r] = to]

\* What a worker step leaves alone unless the step says otherwise.
UiUnchanged == UNCHANGED <<uiPc, dialog, hwnd, windowVars, bar, clipboard,
                           cancel, handleVars, run>>
OwnStep == /\ UiUnchanged
           /\ UNCHANGED <<stateVars, running, hashHr, hashResult, hashText,
                          msgVars>>

\* A call that can block is entered; it counts as late once cancel is set.
EnterCall(r) ==
  lateCalls' = [lateCalls EXCEPT ![r] = IF cancel = 1 THEN @ + 1 ELSE @]

\* fx_prepare_hashes, then into CreateFileW; or it fails.
Prepare(r) ==
  /\ \/ Goto(r, "prepare", "opening") /\ EnterCall(r) /\ hr' = hr
     \/ /\ Goto(r, "prepare", "store")
        /\ hr' = [hr EXCEPT ![r] = "FAILED"] /\ lateCalls' = lateCalls
  /\ OwnStep
  /\ UNCHANGED <<stage, seen, done, total, aborted>>

\* CreateFileW, GetFileSizeEx and the buffer: the size is read here, once.
OpenReturns(r) ==
  /\ \/ /\ Goto(r, "opening", "reportCheck")
        /\ \E size \in 0 .. MaxReads : total' = [total EXCEPT ![r] = size]
        /\ stage' = [stage EXCEPT ![r] = "first"]
        /\ hr' = hr
     \/ /\ Goto(r, "opening", "store")
        /\ hr' = [hr EXCEPT ![r] = "FAILED"]
        /\ UNCHANGED <<total, stage>>
  /\ aborted' = [aborted EXCEPT ![r] = FALSE]
  /\ OwnStep
  /\ UNCHANGED <<seen, done, lateCalls>>

\* fx_hash_progress tests cancel.  Only the call in the loop looks at the
\* answer; the first and the last one ignore it.
ReportCheck(r) ==
  /\ \/ /\ cancel = 0 /\ Goto(r, "reportCheck", "reportHwnd") /\ hr' = hr
     \/ /\ cancel = 1
        /\ \/ /\ stage[r] = "first" /\ Goto(r, "reportCheck", "check")
              /\ hr' = hr
           \/ /\ stage[r] = "loop" /\ Goto(r, "reportCheck", "store")
              /\ hr' = [hr EXCEPT ![r] = "CANCELLED"]
           \/ /\ stage[r] = "last" /\ Goto(r, "reportCheck", "store")
              /\ hr' = [hr EXCEPT ![r] = "S_OK"]
  /\ OwnStep
  /\ UNCHANGED <<stage, seen, done, total, aborted, lateCalls>>

\* fx_hash_progress copies the state's hwnd, which may go stale at once.
ReportHwnd(r) ==
  /\ Goto(r, "reportHwnd", "reportPost")
  /\ seen' = [seen EXCEPT ![r] = hwnd]
  /\ OwnStep
  /\ UNCHANGED <<stage, done, total, hr, aborted, lateCalls>>

\* The last report is progress(size, size), the others (bytes_done, size).
Reported(r) == IF stage[r] = "last" THEN Percent(total[r], total[r])
               ELSE Percent(done[r], total[r])

\* fx_hash_progress posts PROGRESS and answers TRUE whatever becomes of it.
ReportPost(r) ==
  /\ \/ /\ stage[r] # "last" /\ Goto(r, "reportPost", "check") /\ hr' = hr
     \/ /\ stage[r] = "last" /\ Goto(r, "reportPost", "store")
        /\ hr' = [hr EXCEPT ![r] = "S_OK"]
  /\ IF seen[r]
     THEN Post([kind |-> "PROGRESS", run |-> r, pct |-> Reported(r)])
     ELSE UNCHANGED msgVars
  /\ UiUnchanged
  /\ UNCHANGED <<stateVars, running, hashHr, hashResult, hashText, stage,
                 seen, done, total, aborted, lateCalls>>

\* The head of the read loop tests the cancel flag.
CheckCancel(r) ==
  /\ \/ cancel = 0 /\ Goto(r, "check", "read") /\ hr' = hr
     \/ /\ cancel = 1 /\ Goto(r, "check", "store")
        /\ hr' = [hr EXCEPT ![r] = "CANCELLED"]
  /\ OwnStep
  /\ UNCHANGED <<stage, seen, done, total, aborted, lateCalls>>

\* The worker goes into ReadFile.
EnterRead(r) ==
  /\ Goto(r, "read", "reading") /\ EnterCall(r)
  /\ OwnStep
  /\ UNCHANGED <<stage, seen, done, total, hr, aborted>>

\* ReadFile returns data, end of file, or an error (also when aborted).  A
\* hash update that fails takes the error way too.
ReadReturns(r) ==
  /\ \/ /\ done[r] < MaxReads /\ Goto(r, "reading", "reportCheck")
        /\ done' = [done EXCEPT ![r] = @ + 1]
        /\ stage' = [stage EXCEPT ![r] = "loop"]
        /\ hr' = hr
     \/ /\ Goto(r, "reading", "finish")
        /\ UNCHANGED <<done, stage, hr>>
     \/ /\ Goto(r, "reading", "store")
        /\ hr' = [hr EXCEPT ![r] = "FAILED"]
        /\ UNCHANGED <<done, stage>>
  /\ aborted' = [aborted EXCEPT ![r] = FALSE]
  /\ OwnStep
  /\ UNCHANGED <<seen, total, lateCalls>>

\* fx_finish_hashes, then the last report.
Finish(r) ==
  /\ \/ /\ Goto(r, "finish", "reportCheck") /\ hr' = hr
        /\ stage' = [stage EXCEPT ![r] = "last"]
     \/ /\ Goto(r, "finish", "store") /\ stage' = stage
        /\ hr' = [hr EXCEPT ![r] = "FAILED"]
  /\ OwnStep
  /\ UNCHANGED <<seen, done, total, aborted, lateCalls>>

\* hash_result and hash_hr are written with no lock: running is still 1.
StoreResult(r) ==
  /\ Goto(r, "store", "clear")
  /\ hashResult' = r /\ hashHr' = hr[r]
  /\ UiUnchanged
  /\ UNCHANGED <<stateVars, running, hashText, msgVars, localVars>>

NeverCleared(r) ==
  /\ Goto(r, "clear", "readHwnd")
  /\ UiUnchanged
  /\ UNCHANGED <<stateVars, running, hashHr, hashResult, hashText, msgVars,
                 localVars>>

\* InterlockedExchange(&hash_running, FALSE), before COMPLETE is posted.
ClearRunning(r) ==
  /\ Goto(r, "clear", "readHwnd")
  /\ running' = 0
  /\ UiUnchanged
  /\ UNCHANGED <<stateVars, hashHr, hashResult, hashText, msgVars, localVars>>

\* The worker copies the state's hwnd once more.
ReadHwnd(r) ==
  /\ Goto(r, "readHwnd", "postComplete")
  /\ seen' = [seen EXCEPT ![r] = hwnd]
  /\ OwnStep
  /\ UNCHANGED <<stage, done, total, hr, aborted, lateCalls>>

PostSuccessOnly(r) ==
  /\ Goto(r, "postComplete", "release")
  /\ IF seen[r] /\ hr[r] = "S_OK"
     THEN Post([kind |-> "COMPLETE", run |-> r, pct |-> 100])
     ELSE UNCHANGED msgVars
  /\ UiUnchanged
  /\ UNCHANGED <<stateVars, running, hashHr, hashResult, hashText, localVars>>

\* FXM_HASH_COMPLETE is posted to the window that was there at ReadHwnd.
PostComplete(r) ==
  /\ Goto(r, "postComplete", "release")
  /\ IF seen[r]
     THEN Post([kind |-> "COMPLETE", run |-> r, pct |-> 100])
     ELSE UNCHANGED msgVars
  /\ UiUnchanged
  /\ UNCHANGED <<stateVars, running, hashHr, hashResult, hashText, localVars>>

\* The worker's reference goes last; the state may go with it.
WorkerRelease(r) ==
  /\ Goto(r, "release", "exit")
  /\ Release
  /\ UiUnchanged
  /\ UNCHANGED <<sheetRef, running, hashHr, hashResult, hashText, msgVars,
                 localVars>>

-----------------------------------------------------------------------------
\* Steps of a handler that is under way, and of the message loop.
UiHandler == StoreThread \/ DestroyCloseThread \/ DestroyDetach
MessageLoop == HandleProgress \/ HandleComplete

\* What the user and the property sheet may do, or never do.
Environment == \/ CreatePage \/ PageAdded \/ PageRejected \/ InitDialog
               \/ DestroyCancel \/ ReleasePage
               \/ BeginHash \/ BeginHashFails \/ CopyText

\* A worker step that cannot block.
Compute(r) == \/ Prepare(r) \/ ReportCheck(r) \/ ReportHwnd(r)
              \/ ReportPost(r) \/ CheckCancel(r) \/ EnterRead(r)
              \/ Finish(r) \/ StoreResult(r) \/ ClearRunning(r)
              \/ ReadHwnd(r) \/ PostComplete(r) \/ WorkerRelease(r)
FileCall(r) == OpenReturns(r) \/ ReadReturns(r)

Next == \/ UiHandler \/ MessageLoop \/ Environment
        \/ \E r \in Runs : Compute(r) \/ FileCall(r)

Spec == Init /\ [][Next]_vars

\* Threads are scheduled and the sheet releases a page whose dialog is gone.
\* A file call is only known to return when it was aborted.
Fairness ==
  /\ WF_vars(UiHandler) /\ WF_vars(MessageLoop)
  /\ WF_vars(dialog = "gone" /\ ReleasePage)
  /\ \A r \in Runs : /\ WF_vars(Compute(r))
                     /\ WF_vars(aborted[r] /\ FileCall(r))
FairSpec == Spec /\ Fairness

\* What it takes of the file system for a calculation to end.
FilesAnswer == \A r \in Runs : WF_vars(FileCall(r))

-----------------------------------------------------------------------------
(* Safety.                                                                 *)

PageTypes ==
  /\ heap \in {"none", "live", "freed"} /\ refCount \in Int
  /\ sheetRef \in {0, 1}
  /\ uiPc \in {"idle", "adding", "created", "cancelled", "closed"}
  /\ dialog \in {"none", "attached", "gone"} /\ hwnd \in BOOLEAN

WindowTypes ==
  /\ controls \in BOOLEAN /\ copyEnabled \in BOOLEAN
  /\ status \in {"none", "ready", "calculating", "complete", "canceled",
                 "failed"}
  /\ shown \in 0 .. MaxRuns /\ bar \in 0 .. 100
  /\ clipboard \in 0 .. MaxRuns

HashTypes ==
  /\ cancel \in {0, 1} /\ running \in {0, 1}
  /\ hashThread \in 0 .. MaxRuns /\ hashHr \in Results
  /\ hashResult \in 0 .. MaxRuns /\ hashText \in 0 .. MaxRuns
  /\ openHandles \subseteq Runs /\ run \in 0 .. MaxRuns
  /\ queue \in Seq(Messages) /\ lost \subseteq Runs

WorkerTypes ==
  /\ pc \in [Runs -> WorkerPcs]
  /\ stage \in [Runs -> {"first", "loop", "last"}]
  /\ seen \in [Runs -> BOOLEAN]
  /\ done \in [Runs -> Nat] /\ total \in [Runs -> Nat]
  /\ hr \in [Runs -> Results]
  /\ aborted \in [Runs -> BOOLEAN] /\ lateCalls \in [Runs -> Nat]

TypeOK == PageTypes /\ WindowTypes /\ HashTypes /\ WorkerTypes

\* ref_count is the number of parties that still use the state, and the
\* state is freed exactly when the last of them, sheet or worker, is gone.
RefCountExact ==
  /\ refCount = Cardinality(Holders) + sheetRef
  /\ (heap = "live") <=> (sheetRef = 1 \/ Holders # {})

\* Nobody dereferences a freed state: not the dialog procedure through
\* DWLP_USER, not a worker that outlives the dialog and the sheet.
NoUseAfterFree ==
  (sheetRef = 1 \/ dialog = "attached" \/ Holders # {}) => heap = "live"

\* Two workers may coexist (the old one has not released yet), but never two
\* that compute: hash_mask, hash_result and hash_hr have one writer.
OneComputing ==
  \A r \in Runs : Computing(r) => r = run /\ running = 1

\* COMPLETE arrives after the result is final, for the run that is the
\* latest, with nothing of that run behind it in the queue.
CompleteIsFinal ==
  \A i \in 1 .. Len(queue) : queue[i].kind = "COMPLETE" =>
    /\ i = Len(queue) /\ queue[i].run = run
    /\ running = 0 /\ hashResult = run /\ hashHr = hr[run]

\* The window between running = 0 and COMPLETE is closed by the disabled
\* controls alone: a start the user can make is never refused, and never
\* overwrites the handle of an earlier worker.
StartNeverRefused ==
  Ready /\ controls => running = 0 /\ hashThread = None

\* Every thread handle is closed once: while one is open the state refers to
\* it, and none is open when the dialog is gone.
HandlesAccounted ==
  /\ uiPc # "created" => openHandles \subseteq {hashThread}
  /\ hashThread # None => hashThread \in openHandles
  /\ dialog = "gone" => openHandles = {}

\* COPY is live only over a text that is shown, and that text and whatever
\* was copied are complete results of runs that succeeded.
CopyMatchesShown ==
  /\ copyEnabled => /\ hashText = shown /\ shown = run
                    /\ hr[run] = "S_OK" /\ status = "complete"
  /\ clipboard # None => hr[clipboard] = "S_OK"

(* The inductive strengthenings the proofs use.                            *)

\* Why the counting is right: a run not yet started has no worker, and the
\* sheet keeps its reference as long as the window exists.
RefInv ==
  /\ RefCountExact
  /\ \A r \in Runs : r > run => pc[r] = "none"
  /\ dialog = "attached" => sheetRef = 1
  /\ uiPc = "adding" => sheetRef = 1 /\ dialog # "attached"
  /\ uiPc \in {"created", "cancelled", "closed"} => dialog = "attached"

\* A worker that has nothing left to do but give its reference back.
Leaving(r) == pc[r] \in {"none", "release", "exit"}
ResultIsFinal(r) == pc[r] \in {"clear", "readHwnd", "postComplete", "release",
                               "exit"}

\* Why a second start never meets the first one: enabled controls mean that
\* COMPLETE was handled, hence posted, hence that the worker is leaving.
SessionInv ==
  /\ \A r \in Runs : r < run => Leaving(r)
  /\ \A r \in Runs : r > run => pc[r] = "none"
  /\ \A r \in Runs : Computing(r) => running = 1
  /\ running = 1 => run \in Runs /\ Computing(run)
  /\ dialog = "none" => run = 0 /\ hashThread = None
  /\ dialog # "attached" => queue = <<>> /\ uiPc \in {"idle", "adding"}
  /\ uiPc = "created" => ~controls
  /\ dialog = "attached" /\ controls =>
       /\ queue = <<>> /\ hashThread = None
       /\ \A r \in Runs : Leaving(r)
  /\ \A i \in 1 .. Len(queue) : queue[i].kind = "COMPLETE" =>
       i = Len(queue) /\ queue[i].run = run /\ pc[run] \in {"release", "exit"}
  /\ run \in Runs /\ ResultIsFinal(run) => hashResult = run /\ hashHr = hr[run]

\* Why no handle is lost: between CreateThread and the store the handle of the
\* latest run is the only one; otherwise the state has it.
HandleInv ==
  /\ HandlesAccounted
  /\ uiPc = "created" => hashThread = None /\ openHandles = {run}
  /\ uiPc = "closed" \/ dialog = "gone" => hashThread = None

\* Why what is copied stays true: COPY is live only when COMPLETE was handled,
\* and a worker that posted COMPLETE does not touch its result again.
Over(r) == r \in Runs /\ pc[r] \in {"release", "exit"}
CopyInv ==
  /\ CopyMatchesShown
  /\ copyEnabled => Over(run) /\ (dialog = "attached" => controls)
  /\ clipboard # None => Over(clipboard)
  /\ shown # None => copyEnabled
  /\ copyEnabled => dialog # "none"

(* Liveness.                                                               *)

\* With a file system that answers every call, a started calculation is
\* reported, unless the dialog goes or the queue was full.
RunReported ==
  FilesAnswer =>
    \A r \in Runs : pc[r] = "prepare" ~>
      \/ controls \/ dialog = "gone" \/ r \in lost

\* Once the dialog is gone the state is freed, also if the file system never
\* answers: CancelSynchronousIo ends the call the worker is in.  What
\* remains is the call entered between the cancel test and CreateFileW or
\* ReadFile, which nothing ends.
FreedUnlessLateCall ==
  dialog = "gone" ~>
    \/ heap = "freed"
    \/ \E r \in Runs : /\ pc[r] \in {"opening", "reading"}
                       /\ lateCalls[r] = 1 /\ ~aborted[r]

(* What the page implements.                                               *)

Counted == INSTANCE RefCounted
  WITH Parties <- 0 .. MaxRuns, object <- heap,
       holders <- Holders \cup (IF sheetRef = 1 THEN {0} ELSE {})
\* The page's state is a reference-counted object.
RefinesRefCounted == Counted!RCSpec

Session == INSTANCE HashSession
  WITH NoRun <- None,
       phase <- CASE dialog = "none" -> "closed"
                  [] dialog = "gone" -> "over"
                  [] OTHER -> IF controls THEN "rest" ELSE "busy",
       copied <- clipboard
\* The dialog behaves like the sequential session its user believes in.
RefinesSession == Session!HSSpec
=============================================================================
