------------------------------- MODULE Viewers -------------------------------
(***************************************************************************)
(* What fx_update_extension (FileXRay/pagectrl.c) starts: the extension of *)
(* the file chooses a viewer, and its create callback loads the file.  The *)
(* viewers share nothing; while one works the variables of the others keep *)
(* a value of no meaning.  The .exe viewer is ExeDeps.                     *)
(***************************************************************************)
EXTENDS Extensions, DllExports, EfiImage, IcoFile, IsoVolume

VARIABLES extension, handler

viewerVars == <<extension, handler, exportVars, efiVars, icoVars, isoVars>>

\* There are files of every kind.
ASSUME ViewersAssumption == {} \notin {Files, EfiFiles, IcoFiles, Images}

AnyDll == CHOOSE f \in Files : TRUE
AnyEfi == CHOOSE f \in EfiFiles : TRUE
AnyIco == CHOOSE f \in IcoFiles : TRUE
AnyIso == CHOOSE f \in Images : TRUE

\* The state of a viewer that has not begun.
DllIdle == /\ file = AnyDll
           /\ phase = "open" /\ todo = 0 /\ heads = <<>> /\ next = <<>>
           /\ rowCount = 0 /\ at = 0 /\ cursor = Unset /\ rows = <<>>
EfiIdle == /\ efiFile = AnyEfi
           /\ efiPhase = "size" /\ checked = 0 /\ mapped = Unmapped
           /\ sbatText = NoText /\ efiRead = NoRead
IcoIdle == /\ icoFile = AnyIco
           /\ icoPhase = "read" /\ icoEntries = <<>> /\ icoImages = <<>>
           /\ icoRows = <<>> /\ icoRead = [at |-> 0, size |-> 0]
IsoIdle == /\ isoFile = AnyIso
           /\ isoPhase = "open" /\ index = 0 /\ info = NoInfo /\ items = <<>>
           /\ item_index = 0 /\ offset = 0 /\ pos = 0 /\ inside = 0

\* The file is what the extension says, or is no viewer's.
ViewersInit ==
  /\ extension \in Names /\ handler = NoHandler
  /\ IF Find(extension) = ".dll" THEN Init ELSE DllIdle
  /\ IF Find(extension) = ".efi" THEN EfiInit ELSE EfiIdle
  /\ IF Find(extension) = ".ico" THEN IcoInit ELSE IcoIdle
  /\ IF Find(extension) = ".iso" THEN IsoInit ELSE IsoIdle

FindHandler ==
  /\ handler = NoHandler /\ Find(extension) # NoHandler
  /\ handler' = Find(extension)
  /\ UNCHANGED <<extension, exportVars, efiVars, icoVars, isoVars>>

LoadDll == /\ handler = ".dll" /\ Next
           /\ UNCHANGED <<extension, handler, efiVars, icoVars, isoVars>>
LoadEfi == /\ handler = ".efi" /\ EfiStep
           /\ UNCHANGED <<extension, handler, exportVars, icoVars, isoVars>>
LoadIco == /\ handler = ".ico" /\ IcoNext
           /\ UNCHANGED <<extension, handler, exportVars, efiVars, isoVars>>
LoadIso == /\ handler = ".iso" /\ IsoNext
           /\ UNCHANGED <<extension, handler, exportVars, efiVars, icoVars>>

\* Another process puts another file under the path.
Replaced == /\ handler = ".efi" /\ ReplaceFile
            /\ UNCHANGED <<extension, handler, exportVars, icoVars, isoVars>>

ViewerStep == FindHandler \/ LoadDll \/ LoadEfi \/ LoadIco \/ LoadIso
ViewersNext == ViewerStep \/ Replaced

\* A viewer loads on the thread of its page and waits for nobody.
ViewersSpec ==
  ViewersInit /\ [][ViewersNext]_viewerVars /\ WF_viewerVars(ViewerStep)

-----------------------------------------------------------------------------
\* The viewer comes to an end, whatever the file says, but for an image whose
\* scan is Endless: a directory that ends in the last sector below 4 GiB, in
\* a file that has all its sectors, makes the offset wrap (iso.c:507), and
\* the program reads it again for ever.
LoadEnds ==
  Find(extension) \notin {NoHandler, ".exe"} =>
    <>(\/ phase \in {"shown", "failed"} \/ efiPhase \in {"shown", "failed", "faulted"}
       \/ icoPhase \in {"shown", "failed"} \/ Ended
       \/ \E i \in DOMAIN items : Endless(items[i]))
=============================================================================
