------------------------------ MODULE PeImage ------------------------------
(***************************************************************************)
(* Reading a PE file (FileXRay/pe.c): fx_pe_parse, which accepts a file    *)
(* when its headers fit into it, fx_pe_rva_to_pointer, through which every *)
(* viewer reaches the rest, the data directories, and the life of an       *)
(* FX_PE_IMAGE between fx_pe_open and fx_pe_close.                         *)
(*                                                                         *)
(* A file is the header fields the code looks at.  Where a structure lies  *)
(* is an offset; sizes and offsets of fields are constants, so that small  *)
(* instances cover every order two structures can have.                    *)
(* A variant before the definition it varies is a fault no specification   *)
(* uses; README.md says which property rejects it.                         *)
(***************************************************************************)
EXTENDS Integers, Sequences

CONSTANTS
  DosSize,          \* IMAGE_DOS_HEADER
  NtSize,           \* signature and IMAGE_FILE_HEADER
  MagicSize,        \* the WORD that tells PE32 from PE32+
  HeadersEnd,       \* end of SizeOfHeaders in the optional header
  CountEnd,         \* [32, 64 -> end of NumberOfRvaAndSizes]
  DirStart,         \* [32, 64 -> offset of DataDirectory]
  DirSize,          \* IMAGE_DATA_DIRECTORY
  SectionSize,      \* IMAGE_SECTION_HEADER
  SizeMax,          \* the largest size_t
  Dwords,           \* the values of a DWORD that are looked at
  Files             \* the files that may be opened

Bits == {32, 64}

ASSUME LayoutAssumption ==
  /\ DosSize \in Nat /\ NtSize \in Nat /\ MagicSize \in Nat
  /\ HeadersEnd \in Nat /\ DirSize \in Nat /\ SizeMax \in Nat
  /\ SectionSize \in Nat \ {0}
  /\ CountEnd \in [Bits -> Nat] /\ DirStart \in [Bits -> Nat]
  /\ MagicSize <= HeadersEnd
  /\ \A b \in Bits : HeadersEnd <= CountEnd[b] /\ CountEnd[b] <= DirStart[b]

Section == [va : Nat, vsize : Nat, raw : Nat, ptr : Nat]
File == [size : Nat, dos : BOOLEAN, lfanew : Int, nt : BOOLEAN,
         optSize : Nat, magic : Bits \cup {0}, headers : Nat, dirs : Nat,
         sections : Seq(Section)]

ASSUME FilesAssumption ==
  /\ Dwords \subseteq Nat
  /\ Files \subseteq File
  /\ \A f \in Files : f.size <= SizeMax

-----------------------------------------------------------------------------
(* fx_pe_parse.                                                            *)

OptOffset(f) == f.lfanew + NtSize
SectionsOffset(f) == OptOffset(f) + f.optSize

HeadersFit(f) ==
  /\ f.size >= DosSize
  /\ f.dos /\ f.lfanew >= 0
  /\ f.lfanew <= f.size /\ NtSize + MagicSize <= f.size - f.lfanew
  /\ f.nt

\* The optional header fits as its own size says, and has SizeOfHeaders.
OptionalFits(f) == f.optSize <= f.size - OptOffset(f)

OptionalUnsized(f) == f.magic \in Bits

OptionalKnown(f) == f.magic \in Bits /\ f.optSize >= HeadersEnd
SectionsFit(f) ==
  Len(f.sections) <= (f.size - SectionsOffset(f)) \div SectionSize

Accepted(f) == /\ HeadersFit(f) /\ OptionalFits(f) /\ OptionalKnown(f)
               /\ SectionsFit(f)

-----------------------------------------------------------------------------
(* fx_pe_rva_to_pointer.  A DWORD sum is formed in 64 bits.                *)

Larger(m, n) == IF m > n THEN m ELSE n
Smaller(m, n) == IF m < n THEN m ELSE n

Invalid == [ok |-> FALSE, offset |-> 0, available |-> 0]
Pointer(offset, available) ==
  [ok |-> TRUE, offset |-> offset, available |-> available]

InHeadersUnclipped(f, rva, required) ==
  IF rva >= f.size \/ required > f.size - rva THEN Invalid
  ELSE Pointer(rva, f.size - rva)

InHeaders(f, rva, required) ==
  LET available == Smaller(f.size - rva, f.headers - rva)
  IN  IF rva >= f.size \/ required > available THEN Invalid
      ELSE Pointer(rva, available)

Covers(s, rva) == s.va <= rva /\ rva < s.va + Larger(s.vsize, s.raw)

InSectionUnclipped(f, s, rva, required) ==
  LET delta == rva - s.va
      offset == s.ptr + delta
  IN  IF \/ delta > s.raw \/ required > s.raw - delta
         \/ offset > SizeMax \/ offset > f.size
      THEN Invalid
      ELSE Pointer(offset, s.raw - delta)

\* The part of a section that has no bytes in the file is an error, and
\* what the file has is clipped at its end.
InSection(f, s, rva, required) ==
  LET delta == rva - s.va
      offset == s.ptr + delta
      available == Smaller(s.raw - delta, f.size - offset)
  IN  IF \/ delta > s.raw \/ required > s.raw - delta
         \/ offset > SizeMax \/ offset > f.size
         \/ required > available
      THEN Invalid
      ELSE Pointer(offset, available)

\* The first section in table order that covers the address decides alone.
First(f, rva) ==
  CHOOSE i \in 1 .. Len(f.sections) :
    /\ Covers(f.sections[i], rva)
    /\ \A j \in 1 .. (i - 1) : ~Covers(f.sections[j], rva)

CoveredSomewhere(f, rva) ==
  \E i \in 1 .. Len(f.sections) : Covers(f.sections[i], rva)

RvaToPointer(f, rva, required) ==
  IF rva < f.headers THEN InHeaders(f, rva, required)
  ELSE IF CoveredSomewhere(f, rva)
       THEN InSection(f, f.sections[First(f, rva)], rva, required)
       ELSE Invalid

-----------------------------------------------------------------------------
(* fx_pe_get_data_directory: the entry's end, or why there is none.        *)

DirectoryUnsized(f, index) ==
  IF f.optSize < CountEnd[f.magic] \/ f.dirs <= index
  THEN [hr |-> "S_FALSE", end |-> 0]
  ELSE [hr |-> "S_OK", end |-> DirStart[f.magic] + (index + 1) * DirSize]

Directory(f, index) ==
  LET end == DirStart[f.magic] + (index + 1) * DirSize
  IN  IF f.optSize < CountEnd[f.magic] \/ f.dirs <= index
      THEN [hr |-> "S_FALSE", end |-> 0]
      ELSE IF f.optSize < end THEN [hr |-> "invalid", end |-> 0]
                              ELSE [hr |-> "S_OK", end |-> end]

-----------------------------------------------------------------------------
(* The life of an FX_PE_IMAGE.                                             *)

VARIABLES
  image,     \* the file it was populated from
  base,      \* what image->base points to: nothing, a view, a buffer
  asked,     \* the last request
  answer,    \* and its answer
  unmapped   \* what the last UnmapViewOfFile was given

peVars == <<image, base, asked, answer, unmapped>>

Empty == [size |-> 0]
NoRequest == [kind |-> "none", at |-> 0, required |-> 0]
NoAnswer == [kind |-> "none"]

Init == /\ image = Empty /\ base = "none" /\ unmapped = "none"
        /\ asked = NoRequest /\ answer = NoAnswer

\* fx_pe_open: a mapped view that fx_pe_parse accepts.  Every failure closes
\* what was opened and leaves the caller without an image.
Open == /\ base = "none"
        /\ \E f \in Files : Accepted(f) /\ image' = f
        /\ base' = "view"
        /\ UNCHANGED <<asked, answer, unmapped>>

\* fx_pe_parse on memory the caller owns.
ParseBuffer == /\ base = "none"
               /\ \E f \in Files : Accepted(f) /\ image' = f
               /\ base' = "buffer"
               /\ UNCHANGED <<asked, answer, unmapped>>

Translate ==
  /\ base # "none"
  /\ \E rva \in Dwords, required \in Dwords \ {0} :
       /\ asked' = [kind |-> "rva", at |-> rva, required |-> required]
       /\ answer' = RvaToPointer(image, rva, required)
  /\ UNCHANGED <<image, base, unmapped>>

GetDirectory ==
  /\ base # "none"
  /\ \E index \in Dwords :
       /\ asked' = [kind |-> "directory", at |-> index, required |-> 0]
       /\ answer' = Directory(image, index)
  /\ UNCHANGED <<image, base, unmapped>>

\* fx_pe_close: whatever base points to is unmapped.
Close == /\ base # "none"
         /\ image' = Empty /\ base' = "none" /\ unmapped' = base
         /\ asked' = NoRequest /\ answer' = NoAnswer

\* The viewers open files; only they are in the DLL.
Use == Open \/ Translate \/ GetDirectory \/ Close
Next == Use
PeSpec == Init /\ [][Next]_peVars

\* With a caller that goes by pe.h and parses memory of its own.
ApiSpec == Init /\ [][Use \/ ParseBuffer]_peVars

-----------------------------------------------------------------------------
\* Everything an accepted image refers to lies inside the file: the file
\* header, the magic, the optional header and the whole section table.
ParsedInside ==
  base # "none" =>
    /\ 0 <= image.lfanew /\ DosSize <= image.size
    /\ OptOffset(image) + MagicSize <= image.size
    /\ HeadersEnd <= image.optSize
    /\ SectionsOffset(image) + Len(image.sections) * SectionSize <= image.size

\* A pointer handed out has the bytes that were asked for, and all the
\* bytes it is said to have are in the file.
RvaInside ==
  asked.kind = "rva" /\ answer.ok =>
    /\ asked.required <= answer.available
    /\ 0 <= answer.offset
    /\ answer.offset + answer.available <= image.size

Disjoint(f) ==
  \A i, j \in 1 .. Len(f.sections) :
    i # j => \/ f.sections[i].va + Larger(f.sections[i].vsize,
                                          f.sections[i].raw) <= f.sections[j].va
             \/ f.sections[j].va + Larger(f.sections[j].vsize,
                                          f.sections[j].raw) <= f.sections[i].va

\* The bytes behind a pointer are those of the addresses behind the RVA, as
\* far as the answer says: descriptor and thunk tables may be walked as
\* arrays.  It takes sections that do not overlap.
Contiguous ==
  asked.kind = "rva" /\ answer.ok /\ Disjoint(image) =>
    \A k \in 0 .. (answer.available - 1) :
      LET next == RvaToPointer(image, asked.at + k, 1)
      IN  next.ok /\ next.offset = answer.offset + k

\* A directory entry that is read lies inside the optional header.
DirectoryInside ==
  asked.kind = "directory" /\ answer.hr = "S_OK" =>
    /\ answer.end <= image.optSize
    /\ asked.at < image.dirs

\* Whatever is asked of an accepted image, the answer leads into the file.
AnswersInside == RvaInside /\ DirectoryInside

\* pe.h: closing an image that fx_pe_parse populated is a no-op.
CloseAfterParseIsNoOp == unmapped # "buffer"
=============================================================================
