# FileXRay in TLA+

FileXRay is a Windows shell extension: a property sheet page that shows a
file's type, computes digests of it in the background and, for some kinds of
file, shows what is inside.  This directory holds specifications of its logic,
model-checked with TLC and, where it matters most, proved with TLAPS.

    tlc -config MCPageHash_safety.cfg MCPageHash      # a run
    tlapm PageHash_proofs.tla                         # the proofs of a module

## The system

| Component | State | Operations | Hard because |
|---|---|---|---|
| Page and hash worker (`pagectrl.c`, `hash.c`) | `FX_PAGE_STATE`: reference count, `cancel_flag`, `running`, result, `hwnd`, thread handle, window contents | create/add/release page, init, Start, Copy, destroy; the worker's open, read loop, reports, completion | UI thread and workers share the state without a lock; workers outlive the dialog and the sheet; messages may be lost |
| Window of the page (`pagectrl.c`) | the viewer in it and its layout, fonts, scroll position, DPI | create, show, resize, scroll, change of DPI, destroy | every creation can fail half-way; two scroll bars, one inside the other; a layout changes the size it was made for |
| Hash computation (`hash.c`) | contexts, buffer, digests | acquire, feed, finish, release | some twenty calls can fail; two checksums are computed by table |
| COM server (`main.cpp`) | `g_filexray_dll_refs`, objects with counts | `DllGetClassObject`, `CreateInstance`, `QueryInterface`, `Release`, `LockServer`, `AddPages`, `DllCanUnloadNow` | one counter decides whether code is unmapped |
| File type (`filetype.c`) | one-time initialisation, a lock, libmagic's cookie and its answer buffer | describe a path, shut down | several sheets describe at once; shutdown comes from `DllMain` |
| Registration (`registration.c`, `main.cpp`) | the registry keys | register, roll back, unregister | every call can fail and the process can die between two |
| Extension registry (`extensions.c`) | a constant table | find a viewer | case does not count |
| PE reader (`pe.c`) | `FX_PE_IMAGE` | open, parse, translate an RVA, data directories, enumerate imports, close | every number comes from the file |
| EXE viewer (`extensions/exe.c`) | the dependency table | import, delay-load, forwarder and manifest passes; API set map; tree | four passes that do not know each other fill one table |
| DLL viewer (`extensions/dll.c`) | two index arrays, the list view | link the names, count rows, insert them | one table is inverted by linking; two passes must agree |
| ICO viewer (`extensions/ico.c`) | the file in memory, entries, image list, list view | read, check the directory, make rows and previews | entries overlap, lie anywhere, and previews fail one by one |
| EFI viewer (`extensions/efi.c`) | a mapped file, a text | test the size, map, read the image base and `.sbat` | the file is opened twice; line ends are rewritten in a buffer of a computed size |
| ISO viewer (`extensions/iso.c`) | `FX_ISO_INFO`, a queue of directories | volume descriptors, directory scan, UDF sequence, boot catalogue | graphs, chains and counts from the file, with four limits |
| libmagic shim, libmagic, zstd, magic database | - | - | third-party, or without state of their own |

How they interact: Explorer calls the COM server, whose `AddPages` creates a
page; the page takes a DLL reference and gives it back when its state is freed.
The dialog asks the file type component for a description, finds a viewer for
the extension and creates it inside itself, and starts the hash worker, which
talks back through posted messages.  The viewers of `.exe`, `.dll` and `.efi` files read
through the PE reader.  `DllMain` shuts the file type component down when the
DLL is unloaded, which the DLL reference count decides.

What makes each correct:

- page: nobody uses a freed state, the last holder frees it, once; a result is
  final when it is announced, belongs to the run that is shown and is not
  touched while it can be copied; a closed page is eventually freed;
- window: a viewer is whole or gone; no window shows a deleted font; after
  every message both scroll bars agree with what they move;
- hash computation: everything acquired is released once and in order; what
  is reported is the digest of the whole file;
- COM server: the count is exact and the DLL is never unmapped while something
  of it lives;
- file type: the cookie is used only when ready and by one thread; an answer
  is the asker's own; a failed initialisation leaves nothing behind;
- registration: a handler never leads to an incomplete class; results tell the truth;
- PE reader: whatever is handed out or read lies in the file; the callbacks are the
  imports, in order, and success means all of them;
- EXE viewer: one row per DLL, within the allocation, with exact counts and
  types, found if and only if there is such a file;
- DLL viewer: every export once, in order, within the limit;
- ICO viewer: no byte outside the file is looked at; one row per entry, with
  its own preview where an icon could be made;
- EFI viewer: what is shown is of the file that is mapped, and fits its buffer;
- ISO viewer: no directory is missed or scanned twice within the limits; boot
  images and UDF revision are those of the catalogue and of the sequence; every
  scan ends.

## Modules

| Module | Models | Extends / composes |
|---|---|---|
| `PageHash` | the page, its dialog and its hash workers | refines `RefCounted` and `HashSession` |
| `RefCounted` | abstract: an object that its last holder frees, once | |
| `HashSession` | abstract: what the user sees of calculations | |
| `PageView` | the window: hosting of viewers, fonts, layout, two scroll bars | extends `Extensions` |
| `HashFile` | one call of `fx_hash_file`: resources, buffers, digests, checksums | |
| `ComServer` | COM objects, locks, pages on one DLL reference count | |
| `FileType` | describing files through one libmagic cookie | |
| `FileXRayDll` | the DLL: when `DllMain` may shut detection down | extends `ComServer`, instance of `FileType`, which it refines |
| `Registration` | the registry writes and deletes | |
| `PeImage` | parsing, translation, directories of a PE file | |
| `PeImports` | the two enumerations of imports | its translated addresses are answers of `PeImage`; its calls are `ImportCallback` of `ExeDeps` |
| `ApiSetMap` | the look-up of an API set in the process's map | |
| `ExeDeps` | the dependency table of an `.exe` | extends `ApiSetMap` |
| `Extensions` | which viewer shows a file | |
| `DllExports` | the export list of a `.dll` | |
| `IcoFile` | the images of an `.ico` | |
| `EfiImage` | what the EFI page reads, with the file replaced at any time | |
| `IsoVolume` | the parser of an `.iso` | |
| `Viewers` | the extension finds a viewer, which loads the file | extends `Extensions`, `DllExports`, `IcoFile`, `EfiImage`, `IsoVolume` |
| `*_proofs` | theorems about the module named | extends it and TLAPS |
| `MC*` | constants for TLC | extends the module named |

### From code to model

`PageHash`.  The UI thread is `uiPc`, with one action per place at which a
worker can interfere: `fx_begin_hash` is `BeginHash` (test of `running`, reset of
the window, share for the worker, `CreateThread`) and `StoreThread`, because the
worker may be over before its handle is stored; `WM_DESTROY` is `DestroyCancel`,
`DestroyCloseThread`, `DestroyDetach`.  A worker `r` is `pc[r]`; each read of
`cancel_flag`, each read of `hwnd`, each file call and each post is a step.
`CheckCancel` and `EnterRead` are two, as `CancelSynchronousIo` may come between
them.  `aborted[r]` stands for an abort that reached a call.  Posted messages are
`queue`; the target window disappears with them.  A post to a full queue fails and
goes to `lost`.  `lateCalls` counts file calls entered after the cancellation;
`run`, `shown` and `clipboard` name the calculation a value comes from, which is
what texts and digests are abstracted to.  File contents are a number of reads.  The
percentage is computed in the code's widths: the product wraps at `MaxUlonglong`, the quotient is
cut to a DWORD before it is limited to 100, so a file that grows some 43 million times its size
while it is read makes the bar start again.

`PageView`.  `window` says what the dialog is doing; a message is one step, but creating and
destroying a viewer is a step per thing acquired or released.  `Plans` has, per viewer,
what its create function acquires, in order, each of which may fail, and `Order` what its
destroy function releases.  `uses` records which window points to what (an image
list, the entries of a list), `fontOf` the font GDI holds for each window.  A layout is
`page` and `panel`: content height, scroll position, scroll bar and where the things inside
were last put (`drawn`).  Heights are in dialog units; a resolution multiplies them.

`HashFile`.  `Resources` are the members of each context, the file and the buffer;
`Acquire` follows the order of the code and may fail at each.  A context that fails is undone
by its own label and zeroed before the common one runs.  A byte or a checksum is the set of
its bits, so the tables have their full 32 and 64 bits; `DigestsExact` compares them
with polynomial division, which uses no table.  A CNG digest is the bytes its context was fed.

`ComServer`.  Every Interlocked operation is a step of its own, objects are created
with the reference that `Construct` gives them, and `stage` says where a creation
stands, so that a client sees nothing of a half-made object.  `E_NOINTERFACE`,
wrong arguments and failed allocations lead to `DropNew` or leave no trace.

`FileType`.  `once` is the `INIT_ONCE`; the initialising thread goes through
`OnceBegins`, `OpenCookie`, `LoadDatabase` while others wait.  `text` is libmagic's
answer buffer, `owner` the thread in the lock.  `Reload` is the next load of the DLL.

`FileXRayDll`.  A page that lives may run `fx_initialize_dialog`, which describes; the
page cannot be freed from within its own handler (`PageBetweenHandlers`).  `Detach`
needs `DllCanUnloadNow` to have answered `S_OK`.

`Registration`.  Each registry call is a step that may fail; `undo` says that the
deletion at work is the rollback.  `Crash` ends the process anywhere.

`PeImage`.  A file is the header fields that the code reads.  Sizes of structures
are constants.  Sums are formed in 64 bits in the code and are exact in the model;
`SizeMax` is the largest `size_t`, which matters where a 32-bit build converts back.
`fx_pe_open` and everything that makes it fail is `Open` on an accepted file.

`PeImports`.  `fx_pe_enum_imports`, `fx_pe_enum_delay_imports` and `fx_pe_walk_thunks` are
one state machine, one descriptor or thunk per step; `pass` tells the two enumerations
apart, which differ in the size and the meaning of a descriptor.  `answer` is what
`fx_pe_rva_to_pointer` makes of each RVA, an offset in the file and the bytes behind it; any
answers will do, so sections may overlap, hide each other and share bytes.  Descriptors are
an array of the file's bytes behind one answer; each thunk and each name is translated
anew.  That an answer's bytes are in the file is `AnswersInside` of `PeImage`.  Addresses
wrap as in the code.  The only callback always returns `S_OK`.

`ApiSetMap`.  A name is a sequence of letters, one of which is the hyphen; the hash is the
code's, over a smaller modulus; `Search` is the binary search, halving included.  The
map is Windows' and is in order by `WellFormed`.

`ExeDeps`.  One imported function, one forwarder, one assembly is a step; which
ones come, and when an enumeration fails, is the file's choice.  `disk` says which
places have which DLL; a path is a place and a name, so that "the last path tried"
is a value.  `Resolve` goes through the places in the code's order; names of API sets are
spelled for `ApiSetMap`.  The manifest's text is abstracted to the assemblies it names.
Names longer than the buffers are left out.

`DllExports`.  The loop that links names and the one that inserts rows take one
name, or one function, per step; `cursor` is `name_index` in the inner loop.  The
counting loop has no effect but its sum and is one step.  RVAs are zero or not;
strings, columns and widths are left out, and everything outside the two tables that can
fail is `Breaks`.  After a failure `fx_dll_create` destroys the list, hence `Fails`
empties it.

`IcoFile`.  An entry of the directory is its three numbers, an image what its first bytes
say; sizes of the header, an entry, a PNG and a DIB header are those of the format.
`icoRead` is the last range that was looked at.  An image list that takes one image and
refuses the next is a choice, so is an icon that cannot be made.  The row of such an entry leaves
`LVIF_IMAGE` out (`ico.c:322-328`), so its `iImage` is 0 and the list view draws the first
image: `Drawn` is what is seen, and `IconsSound` says so.

`EfiImage`.  `efiFile` is what is under the path, `mapped` what was opened: `ReplaceFile` may
come before, between and after the two openings.  A text is a sequence of what the conversion
tells apart: CR, LF, NUL, anything else, and what is no UTF-8; the room
of its buffer is computed as in the code.  The window takes the text for a string, so it
shows what comes before the first NUL (`UpToNul`).  The length is cast to an `int`
(`efi.c:54`, `64`): of a text above `IntMax`, in a file put there after the size was tested,
Windows is given a negative length and takes the string that starts there (`Given`).  It ends
at the latest with the byte behind the file, the NUL that fills the last page; where the file
fills that page the process may end there (`faulted`).  What another mapping behind
the file might hold is not modelled.

`IsoVolume`.  A sector is a record of what it says to each reader: a descriptor, directory
records by position, boot entries, a UDF tag.  `info` is `FX_ISO_INFO`, `items` and
`item_index` the queue of directories, `pos` the place in a sector.  Records, entries and
descriptors are a step each.  Sums of a DWORD wrap at `IsoMaxDword`.  `UdfExact`
speaks of images of which no length wraps when it is rounded up to sectors (`iso.c:899`).  A read fails
behind the end of the file and in a bad sector.

`Viewers`.  The file is of the kind its extension says; `Find` starts the viewer, and only
that viewer's variables move.  `Replaced` is the only step that is not the page's.

## Runs

| Run | Instance | Shows |
|---|---|---|
| `page_safety` | 2 calculations, 3 reads, queue of 3, a DWORD of 8 bits | counting, handles, results, window state; refinement of `RefCounted` and `HashSession` |
| `page_live` | 2 calculations, 1 read, queue of 2 | a closed page is freed unless a worker sits in a late call that need not return; each calculation is reported unless the queue was full, if files answer |
| `page_view` | 7 extensions, 6 heights, 2 resolutions, 2 sizes of the panel's content | viewers whole or gone, fonts, both scroll bars |
| `hash` | all 64 choices of algorithms, files of up to 6 bytes in buffers of 1 to 3 | releases, digests |
| `dll` | 2 objects, 2 pages that describe, 2 references each, 1 lock | unloading is safe; answers, cookie, initialisation; no shutdown during a description; refinement of `FileType`; every description ends |
| `registration` | 2 paths | handlers, results |
| `pe_image` | structures of 1 or 2 bytes, files of up to 9 | bounds and contiguity |
| `pe_close` (violated) | as `pe_image` | `fx_pe_close` after `fx_pe_parse` is no no-op |
| `pe_imports` | 20 addresses, 2 descriptors, chains of 4, 7338 files | reads, callbacks |
| `exe_deps` | 4 names, table of 2, 32 disks, 17 API set maps | table, counts, types, paths |
| `exe_paths` (violated) | as `exe_deps` | a missing DLL is shown with a path |
| `viewers` | 7 extensions; export tables, `.efi` files and their replacements, icon directories, disc images | name lists and rows; bounds, texts and rows; queue, directories, boot images, UDF; loading ends |

Why the bounds are enough.  Two calculations are what can coexist: a third starts
only when the second is over, and every property of two runs is about one that
leaves and one that begins; the proofs cover any number.  Three reads let a
file grow past, shrink below or match its size, and grow so far that the percentage wraps in
its DWORD of 8 bits, and let the abort meet a call
before, between and after reads.  A queue of three is full with two progress
messages and a completion, and drops either kind.  Two pages that describe
are one in the lock or initialising and one that waits.  In `PeImage` each
structure can end before, at and behind the end of each other; two sections
overlap in every way.  In `ExeDeps` every pass meets a full table, and each name
can be imported by both enumerations; the maps have none to three sets, so that
the search meets the middle, both ends and a miss, and one is of an old version.  In
`PeImports` a table
ends in the middle of a descriptor, at its limit or with its section, a chain ends, breaks,
leaves its section, wraps to the headers or reaches its limit; in 810 files another section hides a
descriptor's or a thunk's address, two addresses lead to the same bytes, and none is its own offset.

In `PageView` the heights are below, at and above what the page alone, a viewer and the
panel need, at either resolution; each creation fails at each place.  In `HashFile` the
buffers have one, two and three bytes, with the lowest, the highest, all and no bits, and a
digest is fed up to four times, which is what a running value can get wrong.  In
`Viewers`:

- `.dll`: a function has no, one, two or three names, is empty or not, an ordinal misses
  the table by one, the limit of three rows is reached by names, by unnamed functions and by
  both, and the base takes the last ordinal out of a DWORD;
- `.efi`: every text of four characters, sections that are empty, miss the file, come second;
  a size at the limit and one above; any file may replace any other, also one with a text
  longer than an int can say, with a NUL in it, behind it, or none before the file's end;
- `.ico`: up to four entries for a limit of three; images side by side, overlapping,
  ending with the file and one behind it, inside the directory; icons that cannot be made in
  any place, the first included;
- `.iso`: with sectors of 4 bytes and DWORDs up to 15, three directories that name each other
  and themselves in every way, a queue of three, depth two, so that either limit is met
  first; directories of sizes that end in the middle of a sector and in the last sector of a DWORD;
  every catalogue of six entries; sequences that are anchored inside, at the end
  and behind the file; every kind of descriptor in the first places.

`CHECK_DEADLOCK FALSE` is said where everything may be over: all calculations used
up and the page freed, the tree destroyed, the file loaded, the call returned.

### The findings

- `pe.h:42-44` says that `fx_pe_close` is a no-op on an image populated by
  `fx_pe_parse`.  `fx_pe_close` unmaps `base` whenever it is set (`pe.c:226`), and
  `fx_pe_parse` sets it (`pe.c:87`).  `ApiSpec` adds such a caller; the program has none.
- `exe.c:779` announces the resolved path; the row also shows the last place tried of
  a DLL that was found nowhere, and the status is never shown.

### Fault variants

Modules hold variants of some definitions, placed just before them, that no
specification uses: each is a mistake one could make in the code, and the property
on the right rejects it.

| Module | Variant | Of | Rejected by |
|---|---|---|---|
| `PageHash` | `PercentUnclamped` | `Percent` | `TypeOK` |
| `PageHash` | `NoAddRef` | `AddRef` | `RefCountExact` |
| `PageHash` | `NeverCleared` | `ClearRunning` | `CompleteIsFinal` |
| `PageHash` | `CloseForgetsField` | `CloseHashThread` | `StartNeverRefused` |
| `PageHash` | `CloseLeaks` | `CloseHashThread` | `HandlesAccounted` |
| `PageHash` | `ResetKeepsCopy` | `ResetForRun` | `CopyMatchesShown` |
| `PageHash` | `ReleaseLeaks` | `Release` | `RefinesRefCounted` |
| `PageHash` | `ResetKeepsText` | `ResetForRun` | `RefinesSession` |
| `PageHash` | `CloseThreadOnly` | `DestroyCloseThread` | `FreedUnlessLateCall` |
| `PageHash` | `PostSuccessOnly` | `PostComplete` | `RunReported` |
| `ComServer` | `FreeUncounted` | `FreePage` | `DllRefsExact` |
| `ComServer` | `CanUnloadUnlocked` | `CanUnloadNow` | `NeverUnloadedInUse` |
| `FileType` | `AskUnlocked` | `AskMagic` | `AnswerIsOwn` |
| `FileType` | `LoadKeepsCookie` | `LoadDatabase` | `LibraryUsable` |
| `FileType` | `OpenHangsOnce` | `OpenCookie` | `DescribeEnds` |
| `FileXRayDll` | `PageAnytime` | `PageBetweenHandlers` | `ImplementsFileType` |
| `Registration` | `HandlerKept` | `DeleteHandler` | `HandlerComplete` |
| `Registration` | `FailureUnseen` | `DeleteFails` | `ResultTruthful` |
| `PeImage` | `OptionalUnsized` | `OptionalKnown` | `ParsedInside` |
| `PeImage` | `InSectionUnclipped` | `InSection` | `AnswersInside` |
| `PeImage` | `DirectoryUnsized` | `Directory` | `AnswersInside` |
| `PeImage` | `InHeadersUnclipped` | `InHeaders` | `Contiguous` |
| `PeImports` | `OpenDirectoryRounded` | `OpenDirectory` | `ReadsInside` |
| `PeImports` | `WalkFromTable` | `WalkThunk` | `CallsExact` |
| `ExeDeps` | `ForwardUnseen` | `ForwardedExport` | `TableSound` |
| `ExeDeps` | `CountsFirstOnly` | `ImportCallback` | `CountsExact` |
| `ExeDeps` | `RetypesFound` | `ImportCallback` | `RowsTruthful` |
| `ExeDeps` | `ImportedHopefully` | `Imported` | `RowsTruthful` |
| `ApiSetMap` | `SearchBeforeMiddle` | `Search` | `RowsTruthful` |
| `DllExports` | `LinkBackwards` | `LinkName` | `ChainsSound` |
| `DllExports` | `InsertFirstName` | `InsertName` | `RowsExact` |
| `EfiImage` | `SbatInsideChecked` | `SbatInside` | `EfiSound` |
| `EfiImage` | `LonelyUnlessFirst` | `Lonely` | `EfiSound` |
| `IcoFile` | `EntryUnbounded` | `EntryFits` | `IconsSound` |
| `IcoFile` | `AddedAsRow` | `Added` | `IconsSound` |
| `IsoVolume` | `QueuesAgain` | `Queues` | `QueueSound` |
| `IsoVolume` | `QueuesShallower` | `Queues` | `DirectoriesComplete` |
| `IsoVolume` | `SectionEndsByEntry` | `SectionEnds` | `BootExact` |
| `IsoVolume` | `SequenceLengthDown` | `SequenceLength` | `UdfExact` |
| `IsoVolume` | `RecordsEndBySize` | `RecordsEnd` | `LoadEnds` |
| `PageView` | `EfiOrderForgetful` | `EfiOrder` | `ViewerWhole` |
| `PageView` | `IcoOrderDangling` | `IcoOrder` | `ViewerWhole` |
| `PageView` | `DialogOnly` | `Everywhere` | `FontsAlive` |
| `PageView` | `ClampUnsized` | `Clamp` | `ScrollConsistent` |
| `PageView` | `DrawnFirst` | `DrawnTwice` | `ScrollConsistent` |
| `HashFile` | `KeptAfterUndo` | `LeftAfterUndo` | `ReleasedOnce` |
| `HashFile` | `RestartedSum` | `Sum` | `DigestsExact` |

## Fairness

`FairSpec` of `PageHash`: the UI thread finishes handlers it began and takes
messages from its queue, and a worker's own steps are taken, since Windows
schedules runnable threads.  A file call returns only when it was aborted: a file on a dead
network share may hang.  `FreedUnlessLateCall` is what remains true then.
`FilesAnswer`, that file calls return, is a premise of
`RunReported`.  Nothing is assumed of the user: no
button needs ever be pressed and no dialog closed.

`DllFairSpec` of `FileXRayDll`: each description's enabled steps are taken; libmagic
returns.  `DescribeEnds` holds because waiting on the `INIT_ONCE` and on the lock is waiting
on a thread that does.  Nothing is assumed of COM's clients or of the unloading.

`ViewersSpec`: a viewer loads on the thread of its page and waits for nobody, so its enabled
steps are taken; nobody needs to replace a file.  `LoadEnds` excepts one case: the offset
that scans a directory is a DWORD, and a directory whose size lies in the last sector below
4 GiB, on an image with all the sectors it names, wraps to its beginning (`Endless`).

## Proofs

TLAPS proves, for all values of the constants that satisfy the modules' assumptions:

| Theorem | States |
|---|---|
| `PageHash_proofs!TypeCorrect` | `TypeOK`: Every reachable state of a page is well typed, for any number of calculations, reads and queued messages; the lemma every other proof of the module rests on; the progress bar stays within 0 to 100, whatever the product and the quotient wrap to. |
| `PageHash_proofs!RefCountCorrect` | `RefCountExact`: ref_count is exactly the sheet's share plus one per live worker, and nobody uses a freed state, for any number of calculations. |
| `PageHash_proofs!SessionCorrect` | `StartNeverRefused`: At most one worker computes, and a start the user can make is never refused. |
| `PageHash_proofs!CompletionCorrect` | `CompleteIsFinal`: A completion in the queue is the last message, of the latest run, whose result is stored and whose worker computes no more. |
| `PageHash_proofs!HandlesCorrect` | `HandlesAccounted`: A thread handle is open exactly as long as the dialog keeps it, no earlier one stays open, and a dialog that is gone left none. |
| `PageHash_proofs!CopyCorrect` | `CopyMatchesShown`: What can be copied is the text of the run that is shown, which succeeded, and what was copied is of a run that did. |
| `PageHash_proofs!ImplementsRefCounted` | `RefinesRefCounted`: The page implements the abstract reference-counted object: one creation, joining only while held, freed by the last holder and once. |
| `PageHash_proofs!ImplementsSession` | `RefinesSession`: The page implements the abstract session: what the user sees of calculations is started, shown and replaced in order, and nothing of an old one appears later. |
| `FileXRayDll_proofs!UnloadIsSafe` | `NeverUnloadedInUse`: The DLL reference count is exact and the DLL is never unmapped in use, for any finite sets of objects and pages. |
| `FileXRayDll_proofs!DllCountExact` | `DllRefsExact`: The same count is exact when the pages also describe files and DllMain shuts detection down. |
| `FileXRayDll_proofs!DllUnloadIsSafe` | `NeverUnloadedInUse`: The composed DLL is never unmapped in use. |
| `FileXRayDll_proofs!AnswersAreOwn` | `AnswerIsOwn`: The answer a page shows is about its own file, for any number of pages that share libmagic's one answer buffer. |
| `FileXRayDll_proofs!LibraryAlwaysUsable` | `LibraryUsable`: libmagic's cookie is used only when it is open, loaded and locked by the thread that uses it, a failed initialisation leaves nothing, and no shutdown meets a description. |
| `FileXRayDll_proofs!DllImplementsFileType` | `ImplementsFileType`: The DLL implements the file type component: its shutdown comes only when that component allows it. |
| `FileXRayDll_proofs!HandlerAlwaysComplete` | `HandlerComplete`: Whatever fails and wherever the process dies, the handler key never leads to an incomplete class, for any set of install paths. |
| `FileXRayDll_proofs!ResultAlwaysTruthful` | `ResultTruthful`: Success is reported only of a registration that is complete, and a removal or a rollback that is reported left no key. |
| `HashFile_proofs!EverythingIsReleasedOnce` | `ReleasedOnce`: Whatever fails, every context, handle and buffer that was acquired is released once, in order, and none after its owner, for any algorithms and any file. |
| `HashFile_proofs!DigestsAreExact` | `DigestsExact`: Every digest is of all the bytes that were read, and each table-driven checksum is the remainder of polynomial division, for files of any length in buffers of any size. |
| `PageView_proofs!ViewersAreWhole` | `ViewerWhole`: A viewer that is shown holds a whole plan, one that was taken apart left nothing, and no window points to what is gone, wherever its creation failed. |
| `PageView_proofs!FontsAreAlive` | `FontsAlive`: No window has a deleted font and the page keeps one at most, for any sequence of resolutions. |
| `PageView_proofs!ScrollingIsConsistent` | `ScrollConsistent`: Both scroll bars agree with what they move after every message, for any heights, resolutions, images and positions asked for. |
| `PeImage_proofs!ParsedIsInside` | `ParsedInside`: An accepted file contains its headers, the optional header and the whole section table, for any layout and any files. |
| `PeImage_proofs!AnswersAreInside` | `AnswersInside`: A translated RVA points to bytes that are in the file, as many as it says, for any sections; a data directory entry that is read lies inside the optional header. |
| `PeImage_proofs!PointersAreContiguous` | `Contiguous`: Addresses that follow each other within one answer are bytes that follow each other in the file. |
| `PeImports_proofs!ReadsAreInside` | `ReadsInside`: Every descriptor and thunk that the enumerations read lies in the bytes that one translated address has behind it, which PeImage shows to be in the file: for any file, sections that overlap or share bytes included, any sizes of structures and any limits. |
| `PeImports_proofs!CallsAreExact` | `CallsExact`: The callbacks are exactly those of the usable descriptors and thunks, in order, and success means all of them, for any file, whatever its addresses are translated to, and any limits. |
| `ExeDeps_proofs!TableIsSound` | `TableSound`: None of the four passes writes behind the node table or lists a DLL twice, for any capacity and any names. |
| `ExeDeps_proofs!CountsAreExact` | `CountsExact`: The counts shown are the functions imported from each listed DLL, whatever full tables and repeated imports come in between, for any capacity. |
| `ExeDeps_proofs!RowsAreTruthful` | `RowsTruthful`: A row's type, status and path are those the imports and the disk give it, and an API set's host is the one in the map: the binary search finds an entry if and only if there is one. |
| `Viewers_proofs!ChainsAreSound` | `ChainsSound`: The lists of names per function are complete, disjoint, acyclic and in the order of the name table, for any export tables and any limits. |
| `Viewers_proofs!RowsAreExact` | `RowsExact`: The rows shown are every export once, in order, up to the limit, and as many as the counting loop announced. |
| `Viewers_proofs!IconsAreSound` | `IconsSound`: No byte outside the file is looked at; a row of which an icon could be made has its own preview, and one of which none could has the first icon's, for any icon file. |
| `Viewers_proofs!QueueIsSound` | `QueueSound`: The queue of directories stays within its array and depth, names no directory twice and goes level by level, for any image, any sizes and any limits. |
| `Viewers_proofs!UdfIsExact` | `UdfExact`: UDF is shown if and only if the recognition sequence names it, with the revision of the first anchored sequence that leads to one, else that of the last name, for any image whose lengths of sequences do not wrap and any limits. |
| `Viewers_proofs!BootIsExact` | `BootExact`: The boot images shown are those of the catalogue's entries in their roles, once each and in order, up to the limit, wherever the catalogue or a read ends. |
| `Viewers_proofs!DirectoriesAreComplete` | `DirectoriesComplete`: When a scan has ended no subdirectory of a queued directory is missing but for a limit, and names and traits are those of the records met, for any image, also one whose offsets wrap. |
| `Viewers_proofs!EfiIsSound` | `EfiSound`: What is read of .sbat lies in the file that is mapped whatever takes its place, and its text fills the computed buffer, with every line ended by CR LF; the window shows all of the section before its first NUL. A text longer than INT_MAX is excepted: there a read goes one byte behind the file at most. |
| `Viewers_proofs!EveryViewerIsSound` | `RowsExact`: The same of the page that chooses a viewer by extension: all viewers' properties hold of the composition. |

*Counting* (`PageHash`).  "The count is the number of holders" is not inductive: who
holds a share depends on where the UI thread stands in creating and adding the page and
on each worker.  `RefInv` says, per position, who holds and that the state exists; it
is preserved because every step that drops a share moves its owner out of the
holders.  `NoUseAfterFree` follows from it.  A lemma on cardinalities relates adding or removing a worker to the count.
`RefinesRefCounted` follows: what changes the holders is a create, a join or a leave.

*Sessions* (`PageHash`).  `SessionInv` ties `running` to the one worker that computes, the
messages in the queue to workers that are past their result, and the enabled Start
button to their absence.

*Handles, copying* (`PageHash`).  `HandleInv` follows a thread handle from `CreateThread`,
when it is in a local of `BeginHash`, to the dialog's member and to its closing; the interval in
which neither is the whole truth is what the property leaves out.  `CopyInv` adds that the run that
can be copied, and the one that was, are over, so that no worker of theirs can
change what they are; that a completion names the latest run is `CompleteIsFinal`.

*The session refined* (`PageHash`).  Each step is mapped to a step of `HashSession` or to a stutter;
the mapping needs `SessionInv` to know that a completion that arrives is of the latest run.

*Unloading* (`ComServer`, `FileXRayDll`).  `ComInv` is the exact count plus the counts of the
objects; finite sums are cardinalities of sets of live objects and pages.  In the composition
it holds by the same lemmas, and `DllInv` adds what a page that describes has:
it lives, hence holds a reference, and where its thread stands
(`Initialising`, `Decided`, `Locked`) says what the cookie, the lock and the outcome are.  So the count is not 0, `DllCanUnloadNow` refuses and `Shutdown` cannot come; that is what
`FileType` demands of its caller, hence `ImplementsFileType`.  An answer is the asker's own because the
buffer is written and copied within one critical section.

*Registration*.  `RegInv` says, per point of the sequence, which keys are already complete,
and that of the keys deleted so far none is left.

*Resources* (`HashFile`).  `ReleaseInv`: while it works everything acquired is in the members
and alive; a failing context takes along all that is alive of its owner, and the common
label everything alive.  A hash is alive only with its object and algorithm because the
order of releasing is, within a context, the inverse of that of acquiring.

*Checksums* (`HashFile`).  `DigestInv` says that each context was fed all the bytes that were read and that each
running checksum is that of all of them.  That the table computes division: eight shifts of a
word are eight shifts of its low byte, combined with the rest of the word moved by eight bits, as
shifting distributes over exclusive or (`UpdateIsChecksum`); a buffer after another is one
longer buffer (`UpdateGoesOn`).  Both go over lengths, see below.

*Window* (`PageView`).  `HeldInv`: while a viewer is made or taken apart it holds
only what its destroy function looks for, or the panel's controls, which are there with the panel
only; a pointer's owner comes first in that order (`PointerOrder`), and what is pointed to is acquired first
(`PlanFacts`).  `FontInv`: two fonts suffice, since a new one is everywhere before the old one
goes.  `LayoutInv` is `ScrollConsistent` with the types that arithmetic needs, and that nothing is laid
out before the page is shown; it holds from any position because both layouts clamp (`ClampIs`).

*PE reader*.  The only state is the image, and it was accepted; the rest are facts about
operators.  The section found by the search exists because naturals are well-founded; its
table lies in the file by `ParsedInside`, and what the translation promises is cut off by the
size of the file.  `Contiguous` is about two answers of one section or of the headers.

*Dependencies*.  The table is a sequence of nodes with distinct names within
capacity (`TableSound`); appending an unlisted name and counting keep it so.
`CountsExact` compares the table with a history of calls.  It is inductive only together with a fact about the
history: a name that is unlisted while there is room was never imported, so
that a row that is added begins with exactly the one call that adds it, and a name that met a full
table stays unlisted because the table never shrinks.  `HonestInv` says of each row what its calls and the
pass in work allow its type to be, and that its status is what the disk says of its path; `HostInv` that a
host is the map's.  The binary
search keeps what it looks for between its ends (`SearchFinds`), and its range shrinks.

*Imports*.  `ImportsInv` says that the directory's address has room behind it for
`max_count` descriptors.  A product of the division's result is at most the bytes there
are, so each slot is behind the same answer with a whole descriptor; that a thunk's address is a
DWORD is kept with it.
`CallInv` splits the calls made so far into those of the descriptors that are behind, each
with its whole chain, and those of the chain in work, up to the thunk in work.

*Exports*.  `ChainInv` adds to `ChainsSound` that the arrays cover the tables.  Linking a
name in front of its function's list makes the former first name its successor, and
leaves every other list as it was, which is all the names after it.  `FillInv` says that the rows
so far are those expected of the functions behind and of the names before the cursor; it needs
`ChainsSound` to know that walking a list meets every name of its function.  Rows fit because the two passes count the
same (`CountIndices`, `OrderedRowsCount`).

*Icons*.  `IcoInv` keeps that every entry taken lies in the file, which later readers of its
image rely on, and that the entries are all there before the first row; `RowsMatch` that a row
with an icon names its place among those of the rows so far, and any other the first.  An entry in the file is one whose sum did not overflow, by subtraction.

*The queue and the tree* (`IsoVolume`).  That the queue goes level by level is not inductive: a
subdirectory is appended behind whatever is queued.  `OneLevelBelow` adds that nothing queued
lies deeper than one level below the directory in work; taking the next directory keeps it
because the levels are in order, and appending keeps the order because of it.  `DirInv` says of
each phase what was noted of the descriptors, of the directories behind and of the records of the
one in work before `pos`.  Records are a chain of lengths: the scan stands at the start of one, so
what it passes next is that record and no other, and a start behind the sector's end closes the
sector.  The offset is a DWORD, a multiple of the sector, and 0 again when it wraps, which loses nothing as
what was passed stays passed.

*UDF* (`IsoVolume`).  `UdfInv` says what each phase has seen: of the recognition sequence the
sectors up to `index`, all of them readable and none its end, and the last that named UDF; of the
anchors that those before led to no revision, unless a length wrapped; of a sequence that its
sectors so far had none and did not end it.  The length in sectors is rounded up in a DWORD and cut
off at a limit (`SequenceLengthIs`), which is where wrapping has to be excluded.

*Boot catalogue* (`IsoVolume`).  The role of an entry depends on the roles of those before, so `Roles` is a
recursive function, which exists by the argument below.  `BootInv` keeps `BootUpTo`, that platforms and images are
those of the entries before `index`, and which section is still open: none in
`entries`, in `section` and `lastSection` exactly one, with `inside` entries left.  So the entry that is read
next has the role that `Roles` gives it, and `BootUpTo` grows by one entry, which is an image, a header or neither.

*Texts* (`EfiImage`).  `EfiInv` says that from `OpenEfi` on the file that is looked at is the one mapped,
whose first section of the name exists because naturals are well-founded.  Of the conversion
the proofs take what is written for each prefix of the text (`Writes`): its length is that of the prefix and of the
carriage returns added (`RoomFor`), its last character is the prefix's last, so that a line
feed finds the carriage return before it or gets one (`LinesEnd`), and dropping the carriage
returns before line feeds gives the same for both (`SameBare`).  A NUL is written as itself, so the
string that is shown is what is written of the text before its first NUL (`SameString`).  A string
that starts in the file has a NUL one byte behind it at the latest (`StringEnds`).

*Composition* (`Viewers`).  Only the viewer in work moves, so a behaviour of the whole is, in its
variables, one of each viewer, and `EveryViewerIsSound` follows from the four.

### Assumptions

Named in the modules, evaluated by TLC: sizes of structures are positive or at least as the
format has them (`PeAssumption`, `IcoAssumption`, `IsoAssumption`, ...), a file has a natural size, bytes within
it and fields that fit their width; names are spelled from the map's letters
(`DepsAssumption`); objects and pages are finite sets (`PagesAssumption`); a choice of algorithms is a set of the
six, and what `ReadFile` returns is a sequence of bytes (`HashAssumption`); there is a file of every
kind (`ViewersAssumption`).  Of what a file says
only the width of its fields is assumed, and that a boot catalogue has room for its two first entries, which
is a matter of the sector's size; of what a PE file's addresses are translated to, in `PeImports`, only that it
is an offset and a number of bytes (`ImportsAssumption`).  The widths themselves are constants: a DWORD holds a
percentage (`BoundsAssumption`), an `int` the size that `efi.c` accepts (`EfiAssumption`).

### Induction over data

The induction theorems of the library have operators as parameters, which the
provers do not instantiate.  Where a recursive function has to be known for every argument, the proofs
take the set of arguments at which the claim is false, and if there is one, the least of them
(`SearchExists`, `SearchFinds`, `IterationExists`, `UpToBound`, `UpTo`).

### Model-checked only

Everything temporal with fairness (`FreedUnlessLateCall`, `RunReported`, `DescribeEnds`, `LoadEnds`), which
is out of the prover's reach.  Every safety invariant and every refinement that a run checks has its theorem.  The strengthened invariants were first checked by TLC on the runs'
instances, the slow ones on their own.  `FileType` alone is checked through `FileXRayDll`, which implements it.

## Not modelled, and why

- Vendored libmagic and zstd and the magic database.  They are unchanged third-party
  code, some 45,000 of the repository's 52,500 lines of C and C++; `FileType` has
  what the program relies on of them.  The program's own code is some 7,200 lines,
  and that is what the modules cover.
- The shim below libmagic (`file/msvc`): translations of single POSIX calls, called by
  libmagic only.
- The digests that CNG computes, the hashes that Windows stores in its API set map, what
  GDI makes of an icon.
- Texts, columns, widths and tool tips: no property is about them.  One width is known to
  lag: the panel of the `.iso` viewer is laid out before its scroll bar appears
  (`iso.c:1549`); heights, which are modelled, are right after the second layout.
- The text of a manifest, the names of sections but `.sbat`, PE headers beyond the
  fields that the code reads.
- Copying a result that is too large for its buffer: all texts together stay below
  the buffer's length, so the branch is unreachable.
- Failed allocations leave the state as it was, where no cleanup follows; where one does
  (`HashFile`, `PageView`) they are modelled.
- The instructions between a thread's last decrement of the DLL reference and its
  return (`pagectrl.c:296`): below the granularity of the model.
- Two registrars at once (`main.cpp:302`): nothing in the repository says what either may expect.

## Plan

Done, in this order: `PageHash` with its two abstractions, `ComServer`, `FileType`,
`FileXRayDll`, `Registration`, `PeImage`, `PeImports`, `ExeDeps`, `DllExports`; then `HashFile`,
`PageView`, `IsoVolume`, `IcoFile`, `EfiImage`, `Viewers`, `ApiSetMap`.

Open: a composition of `PeImports` and `ExeDeps`, the callbacks feeding the table.
