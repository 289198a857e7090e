------------------------------- MODULE IcoFile -------------------------------
(***************************************************************************)
(* The Icons page of an .ico file (FileXRay/extensions/ico.c, fx_ico_load):*)
(* the whole file is read, the directory of images is checked against its  *)
(* size, and each image becomes a row with a preview when an icon can be   *)
(* made of it.  Images are wherever the directory says, in any order, and  *)
(* may overlap.                                                            *)
(*                                                                         *)
(* An image is what its first bytes say.  Offsets are in bytes.            *)
(* A variant before the definition it varies is a fault no specification   *)
(* uses; README.md says which property rejects it.                         *)
(***************************************************************************)
EXTENDS Integers, Sequences

CONSTANTS
  IcoMaxImages,  \* FX_ICO_MAX_IMAGES
  IcoMaxSize,    \* FX_ICO_MAX_FILE_SIZE
  IcoFiles       \* the files that may be opened

IcoHeaderSize == 6
IcoEntrySize == 16
PngSignature == 8
PngHeader == 26     \* up to the colour type
DibCore == 12       \* the header size of a BITMAPCOREHEADER
DibInfo == 16       \* up to biBitCount

\* What lies behind the places the directory names no image at.
NoImage == [png |-> FALSE, ihdr |-> FALSE, depth |-> 0, color |-> 0,
            header |-> 0, bits |-> 0, icon |-> FALSE]

ASSUME IcoAssumption ==
  /\ IcoMaxImages \in Nat /\ IcoMaxSize \in Nat
  /\ \A f \in IcoFiles :
       /\ f.size \in Nat /\ f.count \in Nat /\ f.count = Len(f.entries)
       /\ f.entries \in Seq([bits : Nat, bytes : Nat, offset : Nat])
       /\ \A o \in DOMAIN f.images : /\ f.images[o].depth \in Nat
                                    /\ f.images[o].bits \in Nat

VARIABLES
  icoFile,
  icoPhase,
  icoEntries,  \* view->entries, as far as they are filled in
  icoImages,   \* the image list: whose icon each image is
  icoRows,     \* the list view
  icoRead      \* history: the last bytes looked at

icoVars == <<icoFile, icoPhase, icoEntries, icoImages, icoRows, icoRead>>

IcoInit == /\ icoFile \in IcoFiles /\ icoPhase = "read"
           /\ icoEntries = <<>> /\ icoImages = <<>> /\ icoRows = <<>>
           /\ icoRead = [at |-> 0, size |-> 0]

\* Every failure ends in fx_ico_destroy: list, images and entries go.
IcoFails == /\ icoPhase' = "failed"
            /\ icoRows' = <<>> /\ icoImages' = <<>> /\ icoEntries' = <<>>
            /\ UNCHANGED <<icoFile, icoRead>>

\* fx_ico_read_file: the size is tested before memory is asked for, and a
\* file that shrank since then is refused.
ReadIco ==
  /\ icoPhase = "read"
  /\ \/ IcoFails
     \/ /\ icoFile.size >= IcoHeaderSize /\ icoFile.size <= IcoMaxSize
        /\ icoPhase' = "header"
        /\ UNCHANGED <<icoFile, icoEntries, icoImages, icoRows, icoRead>>

DirectoryUncounted == icoFile.header /\ icoFile.count > 0
                      /\ icoFile.count <= IcoMaxImages
DirectoryFits ==
  /\ icoFile.header /\ icoFile.count > 0 /\ icoFile.count <= IcoMaxImages
  /\ icoFile.count <= (icoFile.size - IcoHeaderSize) \div IcoEntrySize

ParseHeader ==
  /\ icoPhase = "header"
  /\ \/ IcoFails
     \/ /\ DirectoryFits /\ icoPhase' = "entries"
        /\ icoRead' = [at |-> 0, size |-> IcoHeaderSize]
        /\ UNCHANGED <<icoFile, icoEntries, icoImages, icoRows>>

ImageAt(offset) ==
  IF offset \in DOMAIN icoFile.images THEN icoFile.images[offset] ELSE NoImage

\* fx_ico_is_png, fx_ico_infer_png_bit_count, fx_ico_infer_dib_bit_count.
IsPng(i, size) == size >= PngSignature /\ i.png
Channels(color) == CASE color \in {0, 3} -> 1 [] color = 4 -> 2
                     [] color = 2 -> 3 [] color = 6 -> 4 [] OTHER -> 0
PngBits(i, size) == IF size < PngHeader \/ ~i.ihdr THEN 0
                    ELSE i.depth * Channels(i.color)
DibBits(i, size) == IF \/ i.header = DibCore /\ size >= DibCore
                       \/ i.header >= DibInfo /\ size >= DibInfo
                    THEN i.bits ELSE 0

EntryUnbounded(e) == e.bytes > 0 /\ e.offset <= icoFile.size
EntryFits(e) == /\ e.bytes > 0 /\ e.offset <= icoFile.size
                /\ e.bytes <= icoFile.size - e.offset

\* How far an image is looked at.
LookedAt(e) ==
  LET i == ImageAt(e.offset)
  IN  IF e.bits # 0 THEN (IF e.bytes >= PngSignature THEN PngSignature ELSE 0)
      ELSE IF IsPng(i, e.bytes)
           THEN (IF e.bytes >= PngHeader THEN PngHeader ELSE PngSignature)
      ELSE IF e.bytes < 4 THEN 0
      ELSE IF i.header = DibCore /\ e.bytes >= DibCore THEN DibCore
      ELSE IF i.header >= DibInfo /\ e.bytes >= DibInfo THEN DibInfo
      ELSE IF e.bytes >= PngSignature THEN PngSignature ELSE 4

ParseEntry ==
  /\ icoPhase = "entries" /\ Len(icoEntries) < icoFile.count
  /\ LET e == icoFile.entries[Len(icoEntries) + 1]
         i == ImageAt(e.offset)
         png == IsPng(i, e.bytes)
     IN  \/ ~EntryFits(e) /\ IcoFails
         \/ /\ EntryFits(e)
            /\ icoEntries' = Append(icoEntries,
                 [png |-> png, bytes |-> e.bytes, offset |-> e.offset,
                  bits |-> IF e.bits # 0 THEN e.bits
                           ELSE IF png THEN PngBits(i, e.bytes)
                           ELSE DibBits(i, e.bytes)])
            /\ icoRead' = [at |-> e.offset, size |-> LookedAt(e)]
            /\ UNCHANGED <<icoFile, icoPhase, icoImages, icoRows>>

\* fx_ico_populate: the image list can fail.
CreateImageList ==
  /\ icoPhase = "entries" /\ Len(icoEntries) = icoFile.count
  /\ \/ IcoFails
     \/ icoPhase' = "rows" /\ UNCHANGED <<icoFile, icoEntries, icoImages, icoRows, icoRead>>

\* The icon of the entry is made from its bytes, and added to the list, or
\* not.  The row has the place ImageList_AddIcon returned; without an icon
\* LVIF_IMAGE is left out, and the iImage of the new item stays 0.
AddedAsRow == Len(icoRows)
Added == Len(icoImages)
AddRow ==
  /\ icoPhase = "rows" /\ Len(icoRows) < icoFile.count
  /\ LET n == Len(icoRows) + 1
         e == icoEntries[n]
     IN  \/ IcoFails
         \/ /\ icoRead' = [at |-> e.offset, size |-> e.bytes]
            /\ \/ /\ ImageAt(e.offset).icon
                  /\ icoImages' = Append(icoImages, n)
                  /\ icoRows' = Append(icoRows, [entry |-> n, image |-> Added])
               \/ /\ icoImages' = icoImages
                  /\ icoRows' = Append(icoRows, [entry |-> n, image |-> 0])
            /\ UNCHANGED <<icoFile, icoPhase, icoEntries>>

ShowIcons == /\ icoPhase = "rows" /\ Len(icoRows) = icoFile.count
             /\ icoPhase' = "shown"
             /\ UNCHANGED <<icoFile, icoEntries, icoImages, icoRows, icoRead>>

IcoNext == \/ ReadIco \/ ParseHeader \/ ParseEntry \/ CreateImageList
           \/ AddRow \/ ShowIcons
IcoSpec == IcoInit /\ [][IcoNext]_icoVars

-----------------------------------------------------------------------------
\* Rows of which an icon could be made, and the entry whose icon the list
\* view draws for a row: the image of that place, if the list has it.
HasIcon(r) == \E j \in DOMAIN icoImages : icoImages[j] = r
Drawn(r) == IF icoRows[r].image + 1 \in DOMAIN icoImages
            THEN icoImages[icoRows[r].image + 1] ELSE 0

\* No byte is looked at that is not in the file: of the directory, of the
\* images whose first bytes tell their depth, and of those icons are made of.
\* The rows are the images of the directory in its order.  A row with an icon
\* previews it, however many images before it made none; a row without one
\* is drawn with the first icon of the list, another image's.
IcoReadsInside ==
  /\ icoRead.at + icoRead.size <= icoFile.size
  /\ icoPhase \in {"entries", "rows", "shown"} =>
       IcoHeaderSize + icoFile.count * IcoEntrySize <= icoFile.size
IconsSound ==
  /\ IcoReadsInside
  /\ \A r \in DOMAIN icoRows :
       /\ icoRows[r].entry = r
       /\ HasIcon(r) => Drawn(r) = r
       /\ ~HasIcon(r) /\ icoImages # <<>> => Drawn(r) = icoImages[1]
  /\ icoPhase = "shown" => Len(icoRows) = icoFile.count

\* Why: an entry is taken only when its image lies in the file; a row is
\* added with the image that was added just before it, and names the first
\* place when there was none.
IcoTypeOK ==
  /\ icoFile \in IcoFiles
  /\ icoEntries \in Seq([png : BOOLEAN, bytes : Nat, offset : Nat, bits : Nat])
  /\ icoImages \in Seq(Nat) /\ icoRows \in Seq([entry : Nat, image : Nat])
  /\ icoRead \in [at : Nat, size : Nat]
RowsMatch ==
  /\ \A r \in DOMAIN icoRows :
       /\ icoRows[r].entry = r
       /\ HasIcon(r) => /\ icoRows[r].image + 1 \in DOMAIN icoImages
                        /\ icoImages[icoRows[r].image + 1] = r
       /\ ~HasIcon(r) => icoRows[r].image = 0
  /\ \A j \in DOMAIN icoImages : icoImages[j] \in DOMAIN icoRows
IcoInv ==
  /\ IcoReadsInside /\ RowsMatch
  /\ \A n \in DOMAIN icoEntries :
       icoEntries[n].offset + icoEntries[n].bytes <= icoFile.size
  /\ icoPhase \in {"read", "header", "entries"} => icoRows = <<>>
  /\ icoPhase \in {"read", "header"} => icoEntries = <<>>
  /\ icoPhase \in {"rows", "shown"} => Len(icoEntries) = icoFile.count
  /\ icoPhase = "shown" => Len(icoRows) = icoFile.count
=============================================================================
