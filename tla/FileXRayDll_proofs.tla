-------------------------- MODULE FileXRayDll_proofs --------------------------
(***************************************************************************)
(* The DLL as COM sees it: it is not unloaded while it is in use, and its  *)
(* pages get answers of their own (FileXRayDll); and the registry leads to *)
(* it or to nothing (Registration).                                        *)
(***************************************************************************)
EXTENDS FileXRayDll, Registration, FiniteSetTheorems, TLAPS

\* Objects and pages are finitely many, so what is live can be counted.
LEMMA LiveCounts ==
  /\ IsFiniteSet(LiveObjects) /\ IsFiniteSet(LivePages)
  /\ Cardinality(LiveObjects) \in Nat /\ Cardinality(LivePages) \in Nat
  /\ Cardinality(LiveObjects) = 0 <=> LiveObjects = {}
  /\ Cardinality(LivePages) = 0 <=> LivePages = {}
<1>1. IsFiniteSet(LiveObjects) /\ IsFiniteSet(LivePages)
  BY ComAssumption, FS_Subset DEF LiveObjects, LivePages
<1> QED BY <1>1, FS_CardinalityType, FS_EmptySet

\* Types are kept, whatever the threads interleave.
LEMMA ComTypeStep == ComTypeOK /\ [ComNext]_comVars => ComTypeOK'
<1> SUFFICES ASSUME ComTypeOK, [ComNext]_comVars PROVE ComTypeOK'
  OBVIOUS
<1> USE DEF ComTypeOK, objectVars
<1>1. CASE Load \/ Unload
  BY <1>1 DEF Load, Unload
<1>2. ASSUME NEW o \in Objects, GetClassObject(o) PROVE ComTypeOK'
  BY <1>2 DEF GetClassObject, Construct
<1>3. ASSUME NEW o \in Objects, NEW f \in Objects, CreateInstance(f, o)
      PROVE  ComTypeOK'
  BY <1>3 DEF CreateInstance, Construct
<1>4. ASSUME NEW o \in Objects, QueryNew(o) PROVE ComTypeOK'
  BY <1>4 DEF QueryNew
<1>r. ASSUME NEW o \in Objects, ReleaseObject(o, "out")
      PROVE  /\ kind' \in [Objects -> {"none", "factory", "extension"}]
             /\ refs' \in [Objects -> Int]
             /\ stage' \in [Objects -> {"none", "new", "queried", "refused",
                                       "out"}]
             /\ path' \in [Objects -> BOOLEAN]
             /\ dllRefs' \in Int
             /\ UNCHANGED <<module, locks, page>>
  <2>1. CASE refs[o] = 1
    <3>1. kind' \in [Objects -> {"none", "factory", "extension"}]
      BY <1>r, <2>1 DEF ReleaseObject
    <3>2. path' \in [Objects -> BOOLEAN]
      BY <1>r, <2>1 DEF ReleaseObject
    <3>3. stage' \in [Objects -> {"none", "new", "queried", "refused", "out"}]
      BY <1>r, <2>1 DEF ReleaseObject
    <3> QED BY <1>r, <2>1, <3>1, <3>2, <3>3 DEF ReleaseObject
  <2>2. CASE refs[o] # 1
    BY <1>r, <2>2 DEF ReleaseObject
  <2> QED BY <2>1, <2>2
<1>5. ASSUME NEW o \in Objects, DropNew(o) PROVE ComTypeOK'
  BY <1>5, <1>r DEF DropNew
<1>6. ASSUME NEW o \in Objects, ClientRelease(o) PROVE ComTypeOK'
  BY <1>6, <1>r DEF ClientRelease
<1>7. ASSUME NEW o \in Objects, AddRef(o) \/ Initialize(o) PROVE ComTypeOK'
  <2>1. CASE AddRef(o)
    BY <2>1 DEF AddRef
  <2>2. CASE Initialize(o)
    BY <2>2 DEF Initialize
  <2> QED BY <1>7, <2>1, <2>2
<1>8. ASSUME NEW f \in Objects, NEW on \in BOOLEAN, LockServer(f, on)
      PROVE  ComTypeOK'
  BY <1>8 DEF LockServer
<1>9. ASSUME NEW p \in Pages, PageStep(p) PROVE ComTypeOK'
  <2>1. CASE FreePage(p)
    BY <2>1 DEF FreePage
  <2>2. ASSUME NEW o \in Objects, AddPages(o, p) PROVE ComTypeOK'
    BY <2>2 DEF AddPages
  <2> QED BY <1>9, <2>1, <2>2 DEF PageStep
<1>10. CASE UNCHANGED comVars
  BY <1>10 DEF comVars
<1> QED
  BY <1>1, <1>2, <1>3, <1>4, <1>5, <1>6, <1>7, <1>8, <1>9, <1>10
  DEF ComNext, ObjectStep

\* A new object is one more live address.
LEMMA ConstructCounts ==
  ASSUME ComTypeOK, ComInv, NEW o \in Objects, NEW k \in {"factory", "extension"},
         Construct(o, k), module = "loaded"
  PROVE  ComInv'
<1> USE DEF Construct, ComTypeOK
<1>1. LiveObjects' = LiveObjects \cup {o} /\ o \notin LiveObjects
  BY DEF LiveObjects
<1>2. Cardinality(LiveObjects') = Cardinality(LiveObjects) + 1
  BY <1>1, LiveCounts, FS_AddElement
<1>3. LivePages' = LivePages
  BY DEF LivePages
<1> QED BY <1>1, <1>2, <1>3, LiveCounts
        DEF ComInv, DllRefsExact, NeverUnloadedInUse

\* A release either keeps the object or takes it off the count.
LEMMA ReleaseCounts ==
  ASSUME ComTypeOK, ComInv, NEW o \in Objects, stage[o] # "none",
         ReleaseObject(o, "out")
  PROVE  ComInv'
<1> USE DEF ReleaseObject, ComTypeOK
<1>1. LivePages' = LivePages
  BY DEF LivePages
<1>2. kind[o] # "none"
  BY DEF ComInv
<1>3. CASE refs[o] = 1
  <2>1. LiveObjects' = LiveObjects \ {o} /\ o \in LiveObjects
    BY <1>2, <1>3 DEF LiveObjects
  <2>2. Cardinality(LiveObjects') = Cardinality(LiveObjects) - 1
    BY <2>1, LiveCounts, FS_RemoveElement
  <2> QED BY <1>1, <1>3, <2>1, <2>2, LiveCounts
          DEF ComInv, DllRefsExact, NeverUnloadedInUse
<1>4. CASE refs[o] # 1
  <2>1. LiveObjects' = LiveObjects
    BY <1>4 DEF LiveObjects
  <2> QED BY <1>1, <1>2, <1>4, <2>1
          DEF ComInv, DllRefsExact, NeverUnloadedInUse
<1> QED BY <1>3, <1>4

\* Every step of COM, of a client and of a page keeps the count exact.
LEMMA ComInvStep == ComTypeOK /\ ComInv /\ [ComNext]_comVars => ComInv'
<1> SUFFICES ASSUME ComTypeOK, ComInv, [ComNext]_comVars PROVE ComInv'
  OBVIOUS
<1> USE DEF objectVars
<1>1. CASE Load \/ Unload
  <2>1. LiveObjects' = LiveObjects /\ LivePages' = LivePages
    BY <1>1 DEF Load, Unload, LiveObjects, LivePages
  <2>2. CASE Load
    BY <2>1, <2>2, LiveCounts
    DEF Load, ComInv, DllRefsExact, NeverUnloadedInUse
  <2>3. CASE Unload
    <3>a. locks \in Nat
      BY DEF ComTypeOK
    <3>b. 0 = Cardinality(LiveObjects) + Cardinality(LivePages) + locks
      BY <2>3 DEF Unload, CanUnloadNow, ComInv, DllRefsExact
    <3>c. Cardinality(LiveObjects) \in Nat /\ Cardinality(LivePages) \in Nat
      BY LiveCounts
    <3>d. Cardinality(LiveObjects) = 0 /\ Cardinality(LivePages) = 0 /\ locks = 0
      BY <3>a, <3>b, <3>c
    <3>1. LiveObjects = {} /\ LivePages = {} /\ locks = 0
      BY <3>d, LiveCounts
    <3> QED BY <2>1, <2>3, <3>1
            DEF Unload, ComInv, DllRefsExact, NeverUnloadedInUse
  <2> QED BY <1>1, <2>2, <2>3
<1>2. ASSUME NEW o \in Objects, GetClassObject(o) PROVE ComInv'
  BY <1>2, ConstructCounts DEF GetClassObject
<1>3. ASSUME NEW o \in Objects, NEW f \in Objects, CreateInstance(f, o)
      PROVE  ComInv'
  <2>1. f \in LiveObjects
    BY <1>3 DEF CreateInstance, Held, LiveObjects
  <2>2. module = "loaded"
    BY <2>1 DEF ComInv, NeverUnloadedInUse
  <2> QED BY <1>3, <2>2, ConstructCounts DEF CreateInstance
<1>4. ASSUME NEW o \in Objects, QueryNew(o) PROVE ComInv'
  <2>1. LiveObjects' = LiveObjects /\ LivePages' = LivePages
    BY <1>4 DEF QueryNew, LiveObjects, LivePages
  <2> QED BY <1>4, <2>1
          DEF QueryNew, ComInv, DllRefsExact, NeverUnloadedInUse, ComTypeOK
<1>5. ASSUME NEW o \in Objects, DropNew(o) PROVE ComInv'
  BY <1>5, ReleaseCounts DEF DropNew
<1>6. ASSUME NEW o \in Objects, ClientRelease(o) PROVE ComInv'
  BY <1>6, ReleaseCounts DEF ClientRelease
<1>7. ASSUME NEW o \in Objects, AddRef(o) \/ Initialize(o) PROVE ComInv'
  <2>1. LiveObjects' = LiveObjects /\ LivePages' = LivePages
    BY <1>7 DEF AddRef, Initialize, LiveObjects, LivePages
  <2> QED BY <1>7, <2>1
          DEF AddRef, Initialize, ComInv, DllRefsExact, NeverUnloadedInUse
<1>8. ASSUME NEW f \in Objects, NEW on \in BOOLEAN, LockServer(f, on)
      PROVE  ComInv'
  <2>1. LiveObjects' = LiveObjects /\ LivePages' = LivePages
    BY <1>8 DEF LockServer, LiveObjects, LivePages
  <2>2. f \in LiveObjects
    BY <1>8 DEF LockServer, Held, LiveObjects
  <2> QED BY <1>8, <2>1, <2>2, LiveCounts
          DEF LockServer, ComInv, DllRefsExact, NeverUnloadedInUse, ComTypeOK
<1>9. ASSUME NEW p \in Pages, FreePage(p) PROVE ComInv'
  <2>1. LiveObjects' = LiveObjects
    BY <1>9 DEF FreePage, LiveObjects
  <2>2. LivePages' = LivePages \ {p} /\ p \in LivePages
    BY <1>9 DEF FreePage, LivePages, ComTypeOK
  <2>3. Cardinality(LivePages') = Cardinality(LivePages) - 1
    BY <2>2, LiveCounts, FS_RemoveElement
  <2> QED BY <1>9, <2>1, <2>2, <2>3, LiveCounts
          DEF FreePage, ComInv, DllRefsExact, NeverUnloadedInUse, ComTypeOK
<1>10. ASSUME NEW p \in Pages, NEW o \in Objects, AddPages(o, p) PROVE ComInv'
  <2>1. LiveObjects' = LiveObjects /\ o \in LiveObjects
    BY <1>10 DEF AddPages, Held, LiveObjects
  <2>2. LivePages' = LivePages \cup {p} /\ p \notin LivePages
    BY <1>10 DEF AddPages, LivePages, ComTypeOK
  <2>3. Cardinality(LivePages') = Cardinality(LivePages) + 1
    BY <2>2, LiveCounts, FS_AddElement
  <2> QED BY <1>10, <2>1, <2>2, <2>3, LiveCounts
          DEF AddPages, ComInv, DllRefsExact, NeverUnloadedInUse, ComTypeOK
<1>11. CASE UNCHANGED comVars
  BY <1>11 DEF comVars, ComInv, DllRefsExact, NeverUnloadedInUse, LiveObjects,
               LivePages
<1> QED
  BY <1>1, <1>2, <1>3, <1>4, <1>5, <1>6, <1>7, <1>8, <1>9, <1>10, <1>11
  DEF ComNext, ObjectStep, PageStep

\* A fresh server counts nothing.
LEMMA InitialServer == ComInit => ComTypeOK /\ ComInv
<1> SUFFICES ASSUME ComInit PROVE ComTypeOK /\ ComInv
  OBVIOUS
<1>1. LiveObjects = {} /\ LivePages = {}
  BY DEF ComInit, LiveObjects, LivePages
<1>2. Cardinality(LiveObjects) = 0 /\ Cardinality(LivePages) = 0
  BY <1>1, FS_EmptySet
<1>3. ComTypeOK
  BY DEF ComInit, ComTypeOK
<1> QED BY <1>1, <1>2, <1>3
        DEF ComInit, ComInv, DllRefsExact, NeverUnloadedInUse

\* g_filexray_dll_refs is exactly what is in use, so DllCanUnloadNow never
\* says yes too early (main.cpp), for any number of objects and pages.
THEOREM UnloadIsSafe == ComSpec => [](DllRefsExact /\ NeverUnloadedInUse)
<1>1. ComInit => ComTypeOK /\ ComInv
  BY InitialServer
<1>2. ComTypeOK /\ ComInv /\ [ComNext]_comVars => ComTypeOK' /\ ComInv'
  BY ComTypeStep, ComInvStep
<1>3. ComInv => DllRefsExact /\ NeverUnloadedInUse
  BY DEF ComInv
<1> QED BY <1>1, <1>2, <1>3, PTL DEF ComSpec

-----------------------------------------------------------------------------
(* The composition with the file type detection.                           *)

\* What a step of the composition is to the COM server: one of its own steps,
\* none, or the DLL's way out.
LEMMA StepOfServer ==
  ASSUME [DllNext]_dllVars
  PROVE  [ComNext]_comVars \/ Detach \/ DetachEnds
<1> USE DEF comOwnVars, comVars
<1>1. CASE Attach
  BY <1>1 DEF Attach, ComNext
<1>2. CASE ObjectStep
  BY <1>2 DEF ComNext
<1>3. ASSUME NEW p \in Pages, InitPage(p) PROVE UNCHANGED comVars
  BY <1>3 DEF InitPage, FT!Describe
<1>4. ASSUME NEW p \in Pages, DescribeStep(p) PROVE UNCHANGED comVars
  BY <1>4 DEF DescribeStep, FT!Step, FT!OnceBegins, FT!OpenCookie,
     FT!LoadDatabase, FT!OncePassed, FT!Verdict, FT!EnterLock, FT!AskMagic,
     FT!CopyAnswer, FT!LeaveLock
<1>5. ASSUME NEW p \in Pages, PageBetweenHandlers(p) PROVE ComNext
  BY <1>5 DEF PageBetweenHandlers, ComNext
<1>6. CASE UNCHANGED dllVars
  BY <1>6 DEF dllVars
<1> QED BY <1>1, <1>2, <1>3, <1>4, <1>5, <1>6 DEF DllNext

\* The DLL leaves only when the count is zero, and then nothing is left in it.
LEMMA NothingLeft ==
  ASSUME ComTypeOK, ComInv, CanUnloadNow
  PROVE  LiveObjects = {} /\ LivePages = {} /\ locks = 0
<1>1. locks \in Nat
  BY DEF ComTypeOK
<1>2. 0 = Cardinality(LiveObjects) + Cardinality(LivePages) + locks
  BY DEF CanUnloadNow, ComInv, DllRefsExact
<1>3. Cardinality(LiveObjects) \in Nat /\ Cardinality(LivePages) \in Nat
  BY LiveCounts
<1>4. Cardinality(LiveObjects) = 0 /\ Cardinality(LivePages) = 0 /\ locks = 0
  BY <1>1, <1>2, <1>3
<1> QED BY <1>4, LiveCounts

\* The count stays exact through DllMain as well.
LEMMA ServerInvStep ==
  ASSUME ComTypeOK, ComInv, [DllNext]_dllVars
  PROVE  ComTypeOK' /\ ComInv'
<1>1. CASE [ComNext]_comVars
  BY <1>1, ComTypeStep, ComInvStep
<1>2. CASE Detach \/ DetachEnds
  <2>1. UNCHANGED comOwnVars /\ module' \in {"closing", "unloaded"}
    BY <1>2 DEF Detach, DetachEnds, FT!ShutdownUnused, FT!ShutdownFree,
                FT!ShutdownDelete
  <2>2. ComTypeOK'
    BY <2>1 DEF ComTypeOK, comOwnVars, objectVars
  <2>3. LiveObjects' = LiveObjects /\ LivePages' = LivePages
    BY <2>1 DEF comOwnVars, objectVars, LiveObjects, LivePages
  <2>4. LiveObjects = {} /\ LivePages = {} /\ locks = 0
    <3>1. CASE Detach
      BY <3>1, NothingLeft DEF Detach
    <3>2. CASE DetachEnds
      BY <3>2 DEF DetachEnds, FT!ShutdownDelete, ComInv, NeverUnloadedInUse
    <3> QED BY <1>2, <3>1, <3>2
  <2> QED BY <2>1, <2>2, <2>3, <2>4
          DEF ComInv, DllRefsExact, NeverUnloadedInUse, comOwnVars, objectVars
<1> QED BY <1>1, <1>2, StepOfServer

\* Without pages nobody is in fx_filetype_describe_path.
LEMMA QuietWithoutPages ==
  ASSUME ComTypeOK, DllInv, LivePages = {}
  PROVE  FT!Quiet
BY DEF ComTypeOK, DllInv, LivePages, FT!Quiet

\* While a page is there, so is the DLL.
LEMMA PageKeepsDll ==
  ASSUME ComTypeOK, ComInv, DllInv, NEW p \in Pages, pc[p] # "idle"
  PROVE  page[p] /\ module = "loaded"
BY DEF ComTypeOK, ComInv, DllInv, NeverUnloadedInUse, LivePages

\* A detection step keeps its types and what the library's safety rests on.
LEMMA DescribeKeeps ==
  ASSUME ComTypeOK, ComInv, FtTypeOK, DllInv, NEW p \in Pages,
         InitPage(p) \/ DescribeStep(p)
  PROVE  FtTypeOK' /\ DllInv'
<1> USE PagesAssumption
    DEF FtTypeOK, DllInv, FT!Goto, FT!Answer, FT!staticVars, comOwnVars,
        Initialising, Decided, Locked, AnswerIsOwn, FT!AnswerIsOwn,
        FT!OutcomeExact
<1>0. UNCHANGED <<module, page>>
  BY DEF InitPage, FT!Describe, DescribeStep, FT!Step, FT!OnceBegins,
     FT!OpenCookie, FT!LoadDatabase, FT!OncePassed, FT!Verdict, FT!EnterLock,
     FT!AskMagic, FT!CopyAnswer, FT!LeaveLock
<1>1. CASE InitPage(p)
  BY <1>1 DEF InitPage, FT!Describe
<1>2. ASSUME DescribeStep(p), pc[p] # "idle" PROVE page[p] /\ module = "loaded"
  BY <1>2, PageKeepsDll
<1>3. CASE FT!OnceBegins(p)
  BY <1>0, <1>2, <1>3 DEF FT!OnceBegins
<1>4. CASE FT!OpenCookie(p)
  BY <1>0, <1>2, <1>4 DEF FT!OpenCookie
<1>5. CASE FT!LoadDatabase(p)
  BY <1>0, <1>2, <1>5 DEF FT!LoadDatabase
<1>6. CASE FT!OncePassed(p)
  BY <1>0, <1>2, <1>6 DEF FT!OncePassed
<1>7. CASE FT!Verdict(p)
  BY <1>0, <1>2, <1>7 DEF FT!Verdict
<1>8. CASE FT!EnterLock(p)
  <2>1. \A q \in Pages : ~Locked(q)
    BY <1>8 DEF FT!EnterLock
  <2>2. /\ pc' = [pc EXCEPT ![p] = "inside"] /\ owner' = p /\ pc[p] = "enter"
        /\ UNCHANGED <<once, lock, cookie, mgc, magicHr, text, out, calls>>
    BY <1>8 DEF FT!EnterLock
  <2> QED BY <1>0, <1>2, <2>1, <2>2
<1>9. CASE FT!AskMagic(p)
  BY <1>0, <1>2, <1>9 DEF FT!AskMagic
<1>10. CASE FT!CopyAnswer(p)
  BY <1>0, <1>2, <1>10 DEF FT!CopyAnswer
<1>11. CASE FT!LeaveLock(p)
  BY <1>0, <1>2, <1>11 DEF FT!LeaveLock
<1> QED BY <1>1, <1>3, <1>4, <1>5, <1>6, <1>7, <1>8, <1>9, <1>10, <1>11
        DEF DescribeStep, FT!Step

\* The image comes and goes, and the rest of the server works, only in ways
\* that leave the detection sound.
LEMMA DllInvStep ==
  ASSUME ComTypeOK, ComInv, FtTypeOK, DllInv, [DllNext]_dllVars
  PROVE  FtTypeOK' /\ DllInv'
<1> USE DEF FtTypeOK, DllInv, comOwnVars, ftOwnVars, Initialising, Decided,
            Locked, AnswerIsOwn, FT!AnswerIsOwn, FT!OutcomeExact, FT!staticVars
<1>1. CASE Attach
  <2>1. LivePages = {}
    BY <1>1 DEF Attach, Load, ComInv, NeverUnloadedInUse
  <2>2. \A p \in Pages : pc[p] = "idle"
    BY <2>1, QuietWithoutPages DEF FT!Quiet
  <2> QED BY <1>1, <2>2 DEF Attach, Load, FT!Reload
<1>2. CASE Detach
  <2>1. \A p \in Pages : pc[p] = "idle"
    BY <1>2, NothingLeft, QuietWithoutPages DEF Detach, FT!Quiet
  <2> QED BY <1>2, <2>1 DEF Detach, FT!ShutdownUnused, FT!ShutdownFree
<1>3. CASE DetachEnds
  BY <1>3 DEF DetachEnds, FT!ShutdownDelete
<1>4. CASE ObjectStep /\ UNCHANGED ftOwnVars
  <2>1. UNCHANGED <<module, page>>
    BY <1>4 DEF ObjectStep, GetClassObject, CreateInstance, Construct, QueryNew,
       DropNew, ReleaseObject, AddRef, ClientRelease, Initialize, LockServer
  <2> QED BY <1>4, <2>1
<1>5. ASSUME NEW p \in Pages, PageBetweenHandlers(p)
      PROVE  FtTypeOK' /\ DllInv'
  <2>1. /\ UNCHANGED ftOwnVars /\ module' = module
        /\ \A q \in Pages : q # p => page'[q] = page[q]
    BY <1>5 DEF PageBetweenHandlers, PageStep, FreePage, AddPages, ComTypeOK
  <2>2. pc[p] = "idle"
    BY <1>5 DEF PageBetweenHandlers
  <2> QED BY <2>1, <2>2
<1>6. ASSUME NEW p \in Pages, InitPage(p) \/ DescribeStep(p)
      PROVE  FtTypeOK' /\ DllInv'
  BY <1>6, DescribeKeeps
<1>7. CASE UNCHANGED dllVars
  BY <1>7 DEF dllVars
<1> QED BY <1>1, <1>2, <1>3, <1>4, <1>5, <1>6, <1>7 DEF DllNext

\* The inductive invariant of the composition.
LEMMA DllInvariant ==
  DllSpec => [](ComTypeOK /\ ComInv /\ FtTypeOK /\ DllInv)
<1>1. DllInit => ComTypeOK /\ ComInv /\ FtTypeOK /\ DllInv
  <2> SUFFICES ASSUME DllInit
               PROVE  ComTypeOK /\ ComInv /\ FtTypeOK /\ DllInv
    OBVIOUS
  <2>1. ComTypeOK /\ ComInv
    BY InitialServer DEF DllInit
  <2>2. FtTypeOK /\ DllInv
    BY PagesAssumption
    DEF DllInit, FT!FTInit, FtTypeOK, DllInv, Initialising, Decided, Locked,
        AnswerIsOwn, FT!AnswerIsOwn, FT!OutcomeExact
  <2> QED BY <2>1, <2>2
<1>2. ComTypeOK /\ ComInv /\ FtTypeOK /\ DllInv /\ [DllNext]_dllVars
        => ComTypeOK' /\ ComInv' /\ FtTypeOK' /\ DllInv'
  BY ServerInvStep, DllInvStep
<1> QED BY <1>1, <1>2, PTL DEF DllSpec

\* In the whole DLL, DllMain included, the reference count is exact
\* (g_filexray_dll_refs, main.cpp).
THEOREM DllCountExact == DllSpec => []DllRefsExact
<1>1. ComInv => DllRefsExact
  BY DEF ComInv
<1> QED BY <1>1, DllInvariant, PTL

\* And nothing of the DLL is in use once it has begun to leave.
THEOREM DllUnloadIsSafe == DllSpec => []NeverUnloadedInUse
<1>1. ComInv => NeverUnloadedInUse
  BY DEF ComInv
<1> QED BY <1>1, DllInvariant, PTL

\* However many sheets describe at once, each shows the type of its own file
\* (g_fx_magic_lock around magic_descriptor and copy_magic_text, filetype.c).
THEOREM AnswersAreOwn == DllSpec => []AnswerIsOwn
<1>1. DllInv => AnswerIsOwn
  BY DEF DllInv
<1> QED BY <1>1, DllInvariant, PTL

\* The lock, the cookie and the database are there whenever a sheet uses them,
\* across unloads and reloads (InitOnce, fx_filetype_shutdown, filetype.c).
THEOREM LibraryAlwaysUsable == DllSpec => []LibraryUsable
<1>1. ComTypeOK /\ ComInv /\ FtTypeOK /\ DllInv => LibraryUsable
  <2> SUFFICES ASSUME ComTypeOK, ComInv, FtTypeOK, DllInv PROVE LibraryUsable
    OBVIOUS
  <2>1. FT!OutcomeExact
    BY DEF DllInv
  <2>2. ASSUME NEW p \in Pages, pc[p] \in {"enter", "inside", "copy", "leave"}
        PROVE  /\ module = "loaded" /\ lock = "ready"
               /\ cookie = "open" /\ mgc = "held"
    <3>1. module = "loaded"
      BY <2>2, PageKeepsDll
    <3>2. once = "done" /\ magicHr = "ok"
      BY <2>2 DEF DllInv, Decided
    <3> QED BY <2>1, <3>1, <3>2 DEF DllInv, FT!OutcomeExact
  <2>3. ASSUME NEW p \in Pages, pc[p] \in {"inside", "copy"} PROVE owner = p
    BY <2>3 DEF DllInv, Locked
  <2> QED BY <2>1, <2>2, <2>3 DEF LibraryUsable, FT!LibraryUsable
<1> QED BY <1>1, DllInvariant, PTL

\* Each step of the DLL is a step of the detection, or none; the detection is
\* shut down when nobody is inside it, because a sheet in there keeps its page
\* and the page keeps the DLL.
LEMMA StepOfFileType ==
  ASSUME ComTypeOK, ComInv, DllInv, [DllNext]_dllVars
  PROVE  [FT!FTNext]_FT!ftVars
<1> USE DEF ftOwnVars, FT!ftVars, FT!staticVars
<1>1. CASE Attach
  BY <1>1 DEF Attach, FT!FTNext
<1>2. CASE Detach
  <2>1. FT!Quiet
    BY <1>2, NothingLeft, QuietWithoutPages DEF Detach
  <2> QED BY <1>2, <2>1 DEF Detach, FT!FTNext
<1>3. CASE DetachEnds
  BY <1>3 DEF DetachEnds, FT!FTNext
<1>4. CASE ObjectStep /\ UNCHANGED ftOwnVars
  <2>1. UNCHANGED module
    BY <1>4 DEF ObjectStep, GetClassObject, CreateInstance, Construct, QueryNew,
       DropNew, ReleaseObject, AddRef, ClientRelease, Initialize, LockServer
  <2> QED BY <1>4, <2>1
<1>5. ASSUME NEW p \in Pages, PageBetweenHandlers(p)
      PROVE  UNCHANGED FT!ftVars
  BY <1>5 DEF PageBetweenHandlers, PageStep, FreePage, AddPages
<1>6. ASSUME NEW p \in Pages, InitPage(p) \/ DescribeStep(p) PROVE FT!FTNext
  BY <1>6 DEF InitPage, DescribeStep, FT!FTNext
<1>7. CASE UNCHANGED dllVars
  BY <1>7 DEF dllVars
<1> QED BY <1>1, <1>2, <1>3, <1>4, <1>5, <1>6, <1>7 DEF DllNext

\* The COM server meets what filetype.c takes for granted: fx_filetype_shutdown
\* runs only when no thread is in fx_filetype_describe_path.
THEOREM DllImplementsFileType == DllSpec => ImplementsFileType
<1>1. DllInit => FT!FTInit
  BY DEF DllInit
<1>2. ComTypeOK /\ ComInv /\ DllInv /\ [DllNext]_dllVars
        => [FT!FTNext]_FT!ftVars
  BY StepOfFileType
<1> QED BY <1>1, <1>2, DllInvariant, PTL
        DEF DllSpec, ImplementsFileType, FT!FTSpec

-----------------------------------------------------------------------------
(* Registration.                                                           *)

\* Opening a key that has a value changes nothing.
LEMMA CreatedKeeps ==
  /\ \A p \in Paths : Created(p) = p
  /\ Created("set") = "set" /\ Created("bare") = "bare"
  /\ Created("absent") = "bare"
  BY PathsAssumption DEF Created

\* Each program point keeps what the earlier registry calls established.
LEMMA RegInvStep == RegInv /\ [Next]_vars => RegInv'
<1> SUFFICES ASSUME RegInv, [Next]_vars PROVE RegInv'
  OBVIOUS
<1> USE DEF RegInv, HandlerComplete, ResultTruthful, ServerComplete, Goto, regVars
<1>1. CASE Register
  BY <1>1 DEF Register
<1>2. CASE RollBack
  BY <1>2 DEF RollBack
<1>3. CASE CreateClsid
  BY <1>3, CreatedKeeps DEF CreateClsid
<1>4. CASE SetClsid
  BY <1>4 DEF SetClsid
<1>5. CASE CreateInproc
  BY <1>5, CreatedKeeps DEF CreateInproc
<1>6. CASE SetInproc
  BY <1>6 DEF SetInproc
<1>7. CASE OpenForThreading
  BY <1>7, CreatedKeeps DEF OpenForThreading
<1>8. CASE SetThreading
  BY <1>8 DEF SetThreading
<1>9. CASE CreateHandler
  BY <1>9, CreatedKeeps DEF CreateHandler, Created
<1>10. CASE SetHandler
  BY <1>10 DEF SetHandler
<1>11. CASE Unregister
  BY <1>11 DEF Unregister
<1>12. CASE DeleteHandler
  BY <1>12 DEF DeleteHandler
<1>13. CASE DeleteInproc
  BY <1>13 DEF DeleteInproc
<1>14. CASE DeleteClsid
  BY <1>14 DEF DeleteClsid
<1>15. CASE DeleteFails \/ Crash
  BY <1>15 DEF DeleteFails, Crash
<1>16. CASE UNCHANGED vars
  BY <1>16 DEF vars
<1> QED
  BY <1>1, <1>2, <1>3, <1>4, <1>5, <1>6, <1>7, <1>8, <1>9, <1>10, <1>11,
     <1>12, <1>13, <1>14, <1>15, <1>16
  DEF Next

\* Whatever fails and wherever the process dies, in any number of attempts
\* from any locations: a handler key with a value leads to a complete class
\* (the order of writes and deletes in registration.c).
THEOREM HandlerAlwaysComplete == Spec => []HandlerComplete
<1>1. Init => RegInv
  BY DEF Init, RegInv, HandlerComplete, ResultTruthful
<1>2. RegInv /\ [Next]_vars => RegInv'
  BY RegInvStep
<1>3. RegInv => HandlerComplete
  BY DEF RegInv
<1> QED BY <1>1, <1>2, <1>3, PTL DEF Spec

\* Whatever failed before: a call that reports success has registered all of
\* this path, and an unregistration or rollback that is through has left
\* nothing (the values fx_register_server and fx_unregister_server return).
THEOREM ResultAlwaysTruthful == Spec => []ResultTruthful
<1>1. Init => RegInv
  BY DEF Init, RegInv, HandlerComplete, ResultTruthful
<1>2. RegInv /\ [Next]_vars => RegInv'
  BY RegInvStep
<1>3. RegInv => ResultTruthful
  BY DEF RegInv
<1> QED BY <1>1, <1>2, <1>3, PTL DEF Spec
=============================================================================
