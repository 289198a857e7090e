----------------------------- MODULE FileXRayDll -----------------------------
(***************************************************************************)
(* The DLL as Explorer sees it: the COM server (ComServer) and the file    *)
(* type detection (FileType) in one address space.  A page's UI thread     *)
(* describes the file in WM_INITDIALOG (fx_initialize_dialog), so a sheet  *)
(* keeps its page, and the page keeps the DLL, while it is in there;       *)
(* DllMain shuts the detection down when COM unmaps the DLL.  What         *)
(* FileType assumes of its environment is shown here, not assumed.         *)
(***************************************************************************)
EXTENDS ComServer

CONSTANT MaxCalls  \* bound: descriptions per page address

ASSUME CallsAssumption == MaxCalls \in Nat

VARIABLES once, lock, owner, cookie, mgc, magicHr, text, pc, out, calls

ftOwnVars == <<once, lock, owner, cookie, mgc, magicHr, text, pc, out, calls>>
comOwnVars == <<dllRefs, objectVars, locks, page>>
dllVars == <<module, comOwnVars, ftOwnVars>>

FT == INSTANCE FileType WITH Threads <- Pages

\* A page is neither "nobody" nor an answer that names no file.
ASSUME PagesAssumption ==
  {FT!NoOne, "none", "error", "directory"} \cap Pages = {}

DllInit == ComInit /\ FT!FTInit

\* WM_INITDIALOG on the page's thread.
InitPage(p) == page[p] /\ FT!Describe(p) /\ UNCHANGED comOwnVars

DescribeStep(p) == FT!Step(p) /\ UNCHANGED comOwnVars

PageAnytime(p) == PageStep(p) /\ UNCHANGED ftOwnVars

\* The thread of a page frees it, or makes it, only between handlers.
PageBetweenHandlers(p) ==
  pc[p] = "idle" /\ PageStep(p) /\ UNCHANGED ftOwnVars

\* COM unmaps the DLL: DllCanUnloadNow, then DllMain(DLL_PROCESS_DETACH).
Detach == /\ CanUnloadNow
          /\ FT!ShutdownUnused \/ FT!ShutdownFree
          /\ UNCHANGED comOwnVars

\* DllMain is through with fx_filetype_shutdown.
DetachEnds == FT!ShutdownDelete /\ UNCHANGED comOwnVars

\* LoadLibrary: every static of the image starts over.
Attach == Load /\ FT!Reload

DllNext ==
  \/ Attach \/ Detach \/ DetachEnds
  \/ ObjectStep /\ UNCHANGED ftOwnVars
  \/ \E p \in Pages : InitPage(p) \/ DescribeStep(p) \/ PageBetweenHandlers(p)

DllSpec == DllInit /\ [][DllNext]_dllVars

\* The threads of the sheets are scheduled, and libmagic answers.
DllFairSpec == DllSpec /\ \A p \in Pages : WF_dllVars(DescribeStep(p))

-----------------------------------------------------------------------------
\* A sheet shows the type of its own file: nobody else's answer slips in
\* between magic_descriptor and the copy, in filetype.c.
AnswerIsOwn == FT!AnswerIsOwn

\* The lock is entered only between its creation and its end, and inside the
\* cookie is open, with its database, and nobody else's; once the one-time
\* initialisation is over, its outcome says exactly what there is.
LibraryUsable == FT!LibraryUsable /\ FT!OutcomeExact

\* Every description ends, with an answer.
DescribeEnds == FT!DescribeEnds

\* The composition implements FileType: its assumption that nobody is inside
\* fx_filetype_describe_path at shutdown is met.
ImplementsFileType == FT!FTSpec

\* Why the detection's assumptions are met.  A call in progress keeps its page
\* and so the DLL; one thread at a time initialises, before anybody goes on;
\* the lock has one owner, who alone touches the cookie's answer.
Initialising(p) == pc[p] \in {"opening", "loading"}
Decided(p) == pc[p] \in {"verdict", "enter", "inside", "copy", "leave"}
Locked(p) == pc[p] \in {"inside", "copy", "leave"}
FtTypeOK ==
  /\ pc \in [Pages -> {"idle", "once", "opening", "loading", "verdict", "enter",
                       "inside", "copy", "leave"}]
  /\ out \in [Pages -> Pages \cup {"none", "error", "directory"}]
DllInv ==
  /\ \A p \in Pages : pc[p] # "idle" => page[p]
  /\ once = "fresh" => lock = "none"
  /\ once # "fresh" /\ module = "loaded" => lock = "ready"
  /\ module = "closing" => once # "fresh"
  /\ \A p, q \in Pages : Initialising(p) /\ Initialising(q) => p = q
  /\ \A p \in Pages :
       /\ Initialising(p) => once = "running" /\ mgc = "null"
       /\ pc[p] = "opening" => cookie = "null"
       /\ pc[p] = "loading" => cookie = "open"
       /\ Decided(p) => once = "done"
       /\ Decided(p) /\ pc[p] # "verdict" => magicHr = "ok"
       /\ Locked(p) => owner = p
       /\ pc[p] = "copy" => text = p
  /\ once = "fresh" => cookie = "null" /\ mgc = "null"
  /\ AnswerIsOwn
  /\ FT!OutcomeExact
=============================================================================
