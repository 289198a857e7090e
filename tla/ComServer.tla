------------------------------ MODULE ComServer ------------------------------
(***************************************************************************)
(* The in-process COM server of FileXRay (FileXRay/main.cpp): the class    *)
(* factory, the shell extension objects, LockServer, the pages they add,   *)
(* and g_filexray_dll_refs, the one number DllCanUnloadNow looks at.       *)
(*                                                                         *)
(* Every count changes by an Interlocked operation on whatever thread      *)
(* calls; a call that makes several of them is several steps here.         *)
(* A variant before the definition it varies is a fault no specification   *)
(* uses; README.md says which property rejects it.                         *)
(***************************************************************************)
EXTENDS Integers, FiniteSets

CONSTANTS Objects,  \* addresses for factories and extensions
          Pages,    \* addresses for page states
          MaxRefs,  \* bound: references a client takes to one object
          MaxLocks  \* bound: LockServer(TRUE) calls not yet undone

ASSUME ComAssumption == /\ IsFiniteSet(Objects) /\ IsFiniteSet(Pages)
                        /\ MaxRefs \in Nat /\ MaxLocks \in Nat

VARIABLES
  module,          \* is the DLL mapped (external: COM maps and unmaps it)
  dllRefs,         \* g_filexray_dll_refs
  kind, refs,      \* what lives at an address; its m_ref_count
  stage,           \* how far the call that creates the object has come
  path,            \* extension: m_path is set
  locks,           \* LockServer(TRUE) calls of the clients
  page             \* a page state is live (its own count: PageHash)

objectVars == <<kind, refs, stage, path>>
comVars == <<module, dllRefs, objectVars, locks, page>>

ComInit ==
  /\ module = "unloaded" /\ dllRefs = 0 /\ locks = 0
  /\ kind = [o \in Objects |-> "none"]
  /\ refs = [o \in Objects |-> 0]
  /\ stage = [o \in Objects |-> "none"]
  /\ path = [o \in Objects |-> FALSE]
  /\ page = [p \in Pages |-> FALSE]

\* What a client that plays by COM's rules holds a usable pointer to.
Held(o, k) == kind[o] = k /\ stage[o] = "out"

-----------------------------------------------------------------------------
\* LoadLibrary: the statics are those of a fresh image.
Load ==
  /\ module = "unloaded"
  /\ module' = "loaded" /\ dllRefs' = 0
  /\ UNCHANGED <<objectVars, locks, page>>

\* The constructors: m_ref_count = 1, one DLL reference.
Construct(o, k) ==
  /\ kind[o] = "none"
  /\ kind' = [kind EXCEPT ![o] = k]
  /\ refs' = [refs EXCEPT ![o] = 1]
  /\ stage' = [stage EXCEPT ![o] = "new"]
  /\ dllRefs' = dllRefs + 1
  /\ UNCHANGED <<module, path, locks, page>>

\* DllGetClassObject up to QueryInterface.
GetClassObject(o) ==
  /\ module = "loaded"
  /\ Construct(o, "factory")

\* CreateInstance up to QueryInterface, on a factory the caller holds at the
\* start; nothing of the factory is used after that.
CreateInstance(f, o) ==
  /\ Held(f, "factory")
  /\ Construct(o, "extension")

\* QueryInterface inside the creating call: the caller gets a reference, or
\* E_NOINTERFACE.
QueryNew(o) ==
  /\ stage[o] = "new"
  /\ \/ /\ refs' = [refs EXCEPT ![o] = @ + 1]
        /\ stage' = [stage EXCEPT ![o] = "queried"]
     \/ /\ stage' = [stage EXCEPT ![o] = "refused"]
        /\ UNCHANGED refs
  /\ UNCHANGED <<module, dllRefs, kind, path, locks, page>>

\* Release: the last reference destroys the object, whose destructor frees
\* m_path and gives the DLL reference back.
ReleaseObject(o, next) ==
  /\ IF refs[o] = 1
     THEN /\ kind' = [kind EXCEPT ![o] = "none"]
          /\ path' = [path EXCEPT ![o] = FALSE]
          /\ stage' = [stage EXCEPT ![o] = "none"]
          /\ dllRefs' = dllRefs - 1
     ELSE /\ stage' = [stage EXCEPT ![o] = next]
          /\ UNCHANGED <<kind, path, dllRefs>>
  /\ refs' = [refs EXCEPT ![o] = @ - 1]
  /\ UNCHANGED <<module, locks, page>>

\* The creating call drops its own reference and returns.
DropNew(o) ==
  stage[o] \in {"queried", "refused"} /\ ReleaseObject(o, "out")

\* QueryInterface or AddRef on a pointer the client holds.
AddRef(o) ==
  /\ stage[o] = "out" /\ refs[o] < MaxRefs
  /\ refs' = [refs EXCEPT ![o] = @ + 1]
  /\ UNCHANGED <<module, dllRefs, kind, stage, path, locks, page>>

\* Release by the client.
ClientRelease(o) == stage[o] = "out" /\ ReleaseObject(o, "out")

\* Initialize with one selected file: the path is replaced.  Every failure
\* (no data, several files, no memory) leaves the old path in place.
Initialize(o) ==
  /\ Held(o, "extension") /\ ~path[o]
  /\ path' = [path EXCEPT ![o] = TRUE]
  /\ UNCHANGED <<module, dllRefs, kind, refs, stage, locks, page>>

\* LockServer, on a factory the caller holds.
LockServer(f, lock) ==
  /\ Held(f, "factory")
  /\ \/ lock /\ locks < MaxLocks /\ locks' = locks + 1
        /\ dllRefs' = dllRefs + 1
     \/ ~lock /\ locks > 0 /\ locks' = locks - 1
        /\ dllRefs' = dllRefs - 1
  /\ UNCHANGED <<module, objectVars, page>>

\* AddPages: a page state is made (fx_page_state_create).
AddPages(o, p) ==
  /\ Held(o, "extension") /\ path[o] /\ ~page[p]
  /\ page' = [page EXCEPT ![p] = TRUE]
  /\ dllRefs' = dllRefs + 1
  /\ UNCHANGED <<module, objectVars, locks>>

FreeUncounted(p) ==
  /\ page[p]
  /\ page' = [page EXCEPT ![p] = FALSE]
  /\ UNCHANGED <<module, dllRefs, objectVars, locks>>

\* The last holder of a page state is gone (fx_page_state_release): the
\* sheet refused the page, closed, or a worker outlived it.
FreePage(p) ==
  /\ page[p]
  /\ page' = [page EXCEPT ![p] = FALSE]
  /\ dllRefs' = dllRefs - 1
  /\ UNCHANGED <<module, objectVars, locks>>

CanUnloadUnlocked == locks = 0

\* COM asks DllCanUnloadNow and unmaps the DLL, serialised with its own
\* class-object requests.
CanUnloadNow == dllRefs = 0

Unload ==
  /\ module = "loaded" /\ CanUnloadNow
  /\ module' = "unloaded"
  /\ UNCHANGED <<dllRefs, objectVars, locks, page>>

\* What happens while the DLL stays mapped, pages apart.
ObjectStep ==
  \/ \E o \in Objects :
       \/ GetClassObject(o) \/ QueryNew(o) \/ DropNew(o) \/ AddRef(o)
       \/ ClientRelease(o) \/ Initialize(o)
       \/ \E f \in Objects : CreateInstance(f, o)
  \/ \E f \in Objects, lock \in BOOLEAN : LockServer(f, lock)
PageStep(p) == FreePage(p) \/ \E o \in Objects : AddPages(o, p)

ComNext == Load \/ Unload \/ ObjectStep \/ \E p \in Pages : PageStep(p)

ComSpec == ComInit /\ [][ComNext]_comVars

-----------------------------------------------------------------------------
LiveObjects == {o \in Objects : kind[o] # "none"}
LivePages == {p \in Pages : page[p]}

ComTypeOK ==
  /\ module \in {"unloaded", "loaded", "closing"} /\ dllRefs \in Int
  /\ kind \in [Objects -> {"none", "factory", "extension"}]
  /\ refs \in [Objects -> Int]
  /\ stage \in [Objects -> {"none", "new", "queried", "refused", "out"}]
  /\ path \in [Objects -> BOOLEAN]
  /\ locks \in Nat
  /\ page \in [Pages -> BOOLEAN]

\* g_filexray_dll_refs counts objects, pages and locks, across calls that
\* are half done, refused interfaces and destructors.
DllRefsExact ==
  dllRefs = Cardinality(LiveObjects) + Cardinality(LivePages) + locks

\* The DLL is unmapped only when nothing of it is in use.
NeverUnloadedInUse ==
  module # "loaded" => LiveObjects = {} /\ LivePages = {} /\ locks = 0

\* The strengthening behind both counts: an address is in use exactly while
\* a call or a client can name it.
ComInv ==
  /\ DllRefsExact
  /\ NeverUnloadedInUse
  /\ \A o \in Objects : stage[o] = "none" <=> kind[o] = "none"
=============================================================================
