------------------------------ MODULE FileType ------------------------------
(***************************************************************************)
(* File type detection (FileXRayFile/filetype.c): the one libmagic cookie  *)
(* of the process, loaded once on first use, used under one critical       *)
(* section by the UI threads of all open property sheets, and torn down    *)
(* when the DLL is unmapped.  libmagic itself is external: magic_descriptor*)
(* leaves its answer in the cookie, where the next call overwrites it.     *)
(* A variant before the definition it varies is a fault no specification   *)
(* uses; README.md says which property rejects it.                         *)
(***************************************************************************)
EXTENDS Naturals

CONSTANTS Threads,  \* UI threads, each with a file of its own
          MaxCalls  \* bound: fx_filetype_describe_path calls per thread

VARIABLES
  module,           \* is the DLL mapped
  once,             \* g_fx_magic_once
  lock, owner,      \* g_fx_magic_lock(_initialized), and who is inside
  cookie, mgc,      \* g_fx_magic and g_fx_magic_mgc
  magicHr,          \* g_fx_magic_hr
  text,             \* whose file the cookie's answer describes
  pc, out, calls    \* per thread: point reached, last answer, calls made

staticVars == <<once, lock, owner, cookie, mgc, magicHr, text>>
ftVars == <<module, staticVars, pc, out, calls>>

NoOne == "no one"
\* The statics are those of a freshly mapped image.
FTInit ==
  /\ module \in {"loaded", "unloaded"}
  /\ once = "fresh" /\ lock = "none" /\ owner = NoOne
  /\ cookie = "null" /\ mgc = "null" /\ magicHr = "failed" /\ text = NoOne
  /\ pc = [t \in Threads |-> "idle"]
  /\ out = [t \in Threads |-> "none"]
  /\ calls = [t \in Threads |-> 0]

Goto(t, from, to) == pc[t] = from /\ pc' = [pc EXCEPT ![t] = to]
Answer(t, a) == out' = [out EXCEPT ![t] = a]

-----------------------------------------------------------------------------
(* fx_filetype_describe_path.                                              *)

\* Attributes, the directory short cut, _wopen.
Describe(t) ==
  /\ module = "loaded" /\ calls[t] < MaxCalls
  /\ calls' = [calls EXCEPT ![t] = @ + 1]
  /\ \/ Goto(t, "idle", "once") /\ Answer(t, "none")
     \/ /\ pc[t] = "idle" /\ UNCHANGED pc
        /\ \E a \in {"error", "directory"} : Answer(t, a)
  /\ UNCHANGED <<module, staticVars>>

\* InitOnceExecuteOnce: the first thread runs magic_init_once, which makes
\* the lock; the others wait in OncePassed.
OnceBegins(t) ==
  /\ once = "fresh" /\ Goto(t, "once", "opening")
  /\ once' = "running" /\ lock' = "ready"
  /\ UNCHANGED <<module, owner, cookie, mgc, magicHr, text, out, calls>>

OpenHangsOnce(t) ==
  /\ \/ Goto(t, "opening", "loading") /\ cookie' = "open"
     \/ Goto(t, "opening", "verdict") /\ UNCHANGED cookie
  /\ UNCHANGED <<module, once, lock, owner, mgc, magicHr, text, out, calls>>

\* magic_open; the callback reports success to INIT_ONCE whatever happens.
OpenCookie(t) ==
  /\ \/ /\ Goto(t, "opening", "loading")
        /\ cookie' = "open" /\ UNCHANGED <<once, magicHr>>
     \/ /\ Goto(t, "opening", "verdict")
        /\ once' = "done" /\ magicHr' = "failed" /\ UNCHANGED cookie
  /\ UNCHANGED <<module, lock, owner, mgc, text, out, calls>>

LoadKeepsCookie(t) ==
  /\ Goto(t, "loading", "verdict")
  /\ once' = "done"
  /\ \/ mgc' = "held" /\ magicHr' = "ok"
     \/ mgc' = "null" /\ magicHr' = "failed"
  /\ UNCHANGED <<module, lock, owner, cookie, text, out, calls>>

\* load_magic_resource: the decompressed database lives as long as the
\* cookie; on failure both go.
LoadDatabase(t) ==
  /\ Goto(t, "loading", "verdict")
  /\ once' = "done"
  /\ \/ mgc' = "held" /\ magicHr' = "ok" /\ UNCHANGED cookie
     \/ cookie' = "null" /\ mgc' = "null" /\ magicHr' = "failed"
  /\ UNCHANGED <<module, lock, owner, text, out, calls>>

\* Somebody has been through it, or is: wait, then go on.
OncePassed(t) ==
  /\ once = "done" /\ Goto(t, "once", "verdict")
  /\ UNCHANGED <<module, staticVars, out, calls>>

\* ensure_magic_loaded returns g_fx_magic_hr.
Verdict(t) ==
  /\ \/ magicHr = "ok" /\ Goto(t, "verdict", "enter") /\ UNCHANGED out
     \/ magicHr # "ok" /\ Goto(t, "verdict", "idle") /\ Answer(t, "error")
  /\ UNCHANGED <<module, staticVars, calls>>

\* EnterCriticalSection.
EnterLock(t) ==
  /\ owner = NoOne /\ Goto(t, "enter", "inside")
  /\ owner' = t
  /\ UNCHANGED <<module, once, lock, cookie, mgc, magicHr, text, out, calls>>

AskUnlocked(t) ==
  /\ Goto(t, "inside", "copy")
  /\ text' = t /\ owner' = NoOne
  /\ UNCHANGED <<module, once, lock, cookie, mgc, magicHr, out, calls>>

\* magic_descriptor: the answer stays in the cookie; or there is none.
AskMagic(t) ==
  /\ \/ Goto(t, "inside", "copy") /\ text' = t /\ UNCHANGED out
     \/ Goto(t, "inside", "leave") /\ UNCHANGED text /\ Answer(t, "error")
  /\ UNCHANGED <<module, once, lock, owner, cookie, mgc, magicHr, calls>>

\* copy_magic_text, still inside the lock; it may fail on a bad text or a
\* small buffer.
CopyAnswer(t) ==
  /\ Goto(t, "copy", "leave")
  /\ \E a \in {text, "error"} : Answer(t, a)
  /\ UNCHANGED <<module, staticVars, calls>>

\* LeaveCriticalSection, and the answer goes back to the page.
LeaveLock(t) ==
  /\ Goto(t, "leave", "idle")
  /\ owner' = NoOne
  /\ UNCHANGED <<module, once, lock, cookie, mgc, magicHr, text, out, calls>>

-----------------------------------------------------------------------------
(* fx_filetype_shutdown, from DllMain when the DLL is unmapped.            *)

\* Nothing was ever initialised.
ShutdownUnused ==
  /\ module = "loaded" /\ lock = "none"
  /\ module' = "unloaded"
  /\ UNCHANGED <<staticVars, pc, out, calls>>

\* Under the lock the cookie and the database go.
ShutdownFree ==
  /\ module = "loaded" /\ lock = "ready" /\ owner = NoOne
  /\ module' = "closing"
  /\ cookie' = "null" /\ mgc' = "null" /\ magicHr' = "failed"
  /\ UNCHANGED <<once, lock, owner, text, pc, out, calls>>

\* Then the lock.
ShutdownDelete ==
  /\ module = "closing"
  /\ module' = "unloaded" /\ lock' = "deleted"
  /\ UNCHANGED <<once, owner, cookie, mgc, magicHr, text, pc, out, calls>>

\* LoadLibrary maps a fresh image: INIT_ONCE starts over.
Reload ==
  /\ module = "unloaded"
  /\ module' = "loaded"
  /\ once' = "fresh" /\ lock' = "none" /\ owner' = NoOne
  /\ cookie' = "null" /\ mgc' = "null" /\ magicHr' = "failed" /\ text' = NoOne
  /\ UNCHANGED <<pc, out, calls>>

-----------------------------------------------------------------------------
Step(t) == \/ OnceBegins(t) \/ OpenCookie(t) \/ LoadDatabase(t)
           \/ OncePassed(t) \/ Verdict(t) \/ EnterLock(t) \/ AskMagic(t)
           \/ CopyAnswer(t) \/ LeaveLock(t)

\* COM unmaps the DLL only when no sheet is open (composed in FileXRayDll).
Quiet == \A t \in Threads : pc[t] = "idle"

FTNext == \/ \E t \in Threads : Describe(t) \/ Step(t)
          \/ Quiet /\ (ShutdownUnused \/ ShutdownFree)
          \/ ShutdownDelete \/ Reload

FTSpec == FTInit /\ [][FTNext]_ftVars

\* Threads are scheduled, and libmagic answers.
FTFairSpec == FTSpec /\ \A t \in Threads : WF_ftVars(Step(t))

-----------------------------------------------------------------------------
\* A sheet shows the type of its own file: nobody else's answer slips in
\* between magic_descriptor and the copy.
AnswerIsOwn == \A t \in Threads : out[t] \in Threads => out[t] = t

\* The critical section is entered only between its creation and its end, and
\* inside the cookie is open, with its database, and nobody else's.
LibraryUsable ==
  \A t \in Threads :
    /\ pc[t] \in {"enter", "inside", "copy", "leave"} =>
         module = "loaded" /\ lock = "ready"
    /\ pc[t] \in {"inside", "copy"} =>
         cookie = "open" /\ mgc = "held" /\ owner = t

\* Once decided, the outcome of loading says exactly what there is.
OutcomeExact ==
  once = "done" /\ module = "loaded" =>
    /\ magicHr = "ok" <=> cookie = "open"
    /\ cookie = "open" <=> mgc = "held"

\* Every description ends, with an answer.
DescribeEnds ==
  \A t \in Threads : pc[t] = "once" ~> pc[t] = "idle" /\ out[t] # "none"
=============================================================================
