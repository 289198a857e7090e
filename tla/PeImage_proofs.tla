--------------------------- MODULE PeImage_proofs ---------------------------
(***************************************************************************)
(* What holds of PeImage for every layout and every set of files: what an  *)
(* accepted image refers to, what a translated address points to and what  *)
(* a directory entry is read from lie inside the file.                     *)
(***************************************************************************)
EXTENDS PeImage, WellFoundedInduction, TLAPS

\* What every step relies on: an image came from a file fx_pe_parse accepts,
\* and nothing is asked of no image.
ImageInv == /\ base # "none" => image \in Files /\ Accepted(image)
            /\ base = "none" => asked = NoRequest

\* The image that is looked at is one that fx_pe_parse accepted.
LEMMA ImageIsAccepted == PeSpec => []ImageInv
<1>1. Init => ImageInv
  BY DEF Init, ImageInv
<1>2. ImageInv /\ [Next]_peVars => ImageInv'
  <2> SUFFICES ASSUME ImageInv, [Next]_peVars PROVE ImageInv'
    OBVIOUS
  <2>1. CASE Open
    BY <2>1 DEF Open, ImageInv
  <2>2. CASE Close
    BY <2>2 DEF Close, ImageInv
  <2>3. CASE UNCHANGED <<image, base>> /\ (base # "none" \/ UNCHANGED asked)
    BY <2>3 DEF ImageInv
  <2> QED
    BY <2>1, <2>2, <2>3 DEF Next, Use, Translate, GetDirectory, peVars
<1> QED
  BY <1>1, <1>2, PTL DEF PeSpec

-----------------------------------------------------------------------------
\* A file holds as many entries as its division says.
LEMMA TableFits ==
  ASSUME NEW n \in Nat, NEW space \in Nat, NEW size \in Nat \ {0},
         n <= space \div size
  PROVE  n * size <= space
<1> DEFINE q == space \div size
<1>1. q \in Nat /\ q * size <= space
  BY SMT
<1>2. n * size <= q * size
  <2>1. PICK d \in Nat : q = n + d
    <3>1. q - n \in Nat /\ q = n + (q - n)
      BY <1>1, n <= q
    <3> QED BY <3>1
  <2>2. q * size = n * size + d * size
    BY <2>1
  <2>3. d * size >= 0
    BY SMT
  <2> HIDE DEF q
  <2> QED BY <2>2, <2>3, <1>1
<1> QED
  BY <1>1, <1>2

\* fx_pe_parse (pe.c:76-156): the header, the magic, the optional header and
\* the whole section table of an accepted file lie inside it.
THEOREM ParsedIsInside == PeSpec => []ParsedInside
<1>1. ImageInv => ParsedInside
  <2> SUFFICES ASSUME ImageInv, base # "none"
               PROVE  /\ 0 <= image.lfanew /\ DosSize <= image.size
                      /\ OptOffset(image) + MagicSize <= image.size
                      /\ HeadersEnd <= image.optSize
                      /\ SectionsOffset(image) + Len(image.sections) * SectionSize
                           <= image.size
    BY DEF ParsedInside
  <2>1. image \in File /\ Accepted(image)
    BY FilesAssumption DEF ImageInv
  <2>2. /\ image.size \in Nat /\ image.lfanew \in Int /\ image.optSize \in Nat
        /\ image.sections \in Seq(Section)
    BY <2>1 DEF File
  <2>3. /\ image.lfanew >= 0 /\ image.size >= DosSize
        /\ NtSize + MagicSize <= image.size - image.lfanew
        /\ image.optSize <= image.size - OptOffset(image)
        /\ image.optSize >= HeadersEnd
        /\ Len(image.sections)
             <= (image.size - SectionsOffset(image)) \div SectionSize
    BY <2>1 DEF Accepted, HeadersFit, OptionalFits, OptionalKnown, SectionsFit
  <2>. /\ DosSize \in Nat /\ NtSize \in Nat /\ MagicSize \in Nat
       /\ HeadersEnd \in Nat /\ MagicSize <= HeadersEnd
    BY LayoutAssumption
  <2> DEFINE space == image.size - SectionsOffset(image)
  <2>4. SectionsOffset(image) \in Nat /\ space \in Nat
    <3>1. image.lfanew >= 0 /\ image.optSize <= image.size - OptOffset(image)
      BY <2>3
    <3>2. OptOffset(image) \in Nat
      BY <2>2, <3>1 DEF OptOffset
    <3>3. /\ SectionsOffset(image) = OptOffset(image) + image.optSize
          /\ image.optSize \in Nat /\ image.size \in Nat
      BY <2>2 DEF SectionsOffset
    <3> QED BY <3>1, <3>2, <3>3
  <2>5. Len(image.sections) * SectionSize <= space
    <3>1. Len(image.sections) \in Nat /\ SectionSize \in Nat \ {0}
      BY <2>2, LayoutAssumption
    <3>2. Len(image.sections) <= space \div SectionSize
      BY <2>3
    <3> HIDE DEF space
    <3> QED BY <3>1, <3>2, <2>4, TableFits
  <2>6. Len(image.sections) * SectionSize \in Int
    BY <2>2, LayoutAssumption
  <2> QED
    <3>1. SectionsOffset(image) + Len(image.sections) * SectionSize <= image.size
      BY <2>2, <2>4, <2>5, <2>6
    <3>2. OptOffset(image) + MagicSize <= image.size
      BY <2>2, <2>3 DEF OptOffset
    <3> QED BY <2>2, <2>3, <3>1, <3>2
<1> QED
  BY <1>1, ImageIsAccepted, PTL

-----------------------------------------------------------------------------
\* A set of naturals that is not empty has a least element.
LEMMA LeastNatural ==
  ASSUME NEW T, T \subseteq Nat, T # {}
  PROVE  \E i \in T : \A j \in T : ~(j < i)
<1>1. PICK i \in T : \A j \in T : ~(<<j, i>> \in OpToRel(<, Nat))
  BY WFMin, NatLessThanWellFounded
<1>2. \A j \in T : j < i => <<j, i>> \in OpToRel(<, Nat)
  BY DEF OpToRel
<1> QED
  BY <1>1, <1>2

\* The search of pe.c:36 stops at a section of the table.
LEMMA FirstInTable ==
  ASSUME NEW f \in File, NEW rva, CoveredSomewhere(f, rva)
  PROVE  /\ First(f, rva) \in 1 .. Len(f.sections)
         /\ Covers(f.sections[First(f, rva)], rva)
<1> DEFINE T == {i \in 1 .. Len(f.sections) : Covers(f.sections[i], rva)}
<1>1. Len(f.sections) \in Nat
  BY DEF File
<1>2. T \subseteq Nat /\ T # {}
  BY <1>1 DEF CoveredSomewhere
<1>3. PICK i \in T : \A j \in T : ~(j < i)
  <2> HIDE DEF T
  <2> QED BY <1>2, LeastNatural
<1>4. /\ i \in 1 .. Len(f.sections) /\ Covers(f.sections[i], rva)
      /\ \A j \in 1 .. (i - 1) : ~Covers(f.sections[j], rva)
  BY <1>1, <1>3
<1> QED
  BY <1>4 DEF First

\* fx_pe_rva_to_pointer: whatever it hands out is in the file.
LEMMA TranslationInside ==
  ASSUME NEW f \in File, NEW rva \in Nat, NEW required \in Nat,
         RvaToPointer(f, rva, required).ok
  PROVE  LET p == RvaToPointer(f, rva, required)
         IN  /\ required <= p.available /\ 0 <= p.offset
             /\ p.offset + p.available <= f.size
<1>1. f.size \in Nat /\ f.headers \in Nat /\ f.sections \in Seq(Section)
  BY DEF File
<1>2. CASE rva < f.headers
  BY <1>1, <1>2 DEF RvaToPointer, InHeaders, Smaller, Pointer, Invalid
<1>3. CASE ~(rva < f.headers)
  <2>1. CoveredSomewhere(f, rva)
    BY <1>3 DEF RvaToPointer, Invalid
  <2> DEFINE s == f.sections[First(f, rva)]
  <2>2. s \in Section /\ Covers(s, rva)
    BY <1>1, <2>1, FirstInTable
  <2>3. RvaToPointer(f, rva, required) = InSection(f, s, rva, required)
    BY <1>3, <2>1 DEF RvaToPointer
  <2> HIDE DEF s
  <2>4. /\ s.va \in Nat /\ s.vsize \in Nat /\ s.raw \in Nat /\ s.ptr \in Nat
        /\ s.va <= rva
    BY <2>2 DEF Section, Covers
  <2>5. InSection(f, s, rva, required).ok
    BY <2>3
  <2> DEFINE p == InSection(f, s, rva, required)
  <2>6. /\ required <= p.available /\ 0 <= p.offset
        /\ p.offset + p.available <= f.size
    BY <1>1, <2>4, <2>5 DEF InSection, Smaller, Pointer, Invalid
  <2> QED BY <2>3, <2>6
<1> QED
  BY <1>2, <1>3

\* fx_pe_rva_to_pointer (pe.c:7-74): a pointer has the bytes that were asked
\* for, and the bytes it is said to have are in the file.
THEOREM PointerIsInside == PeSpec => []RvaInside
<1>1. Init => RvaInside
  BY DEF Init, RvaInside, NoRequest
<1>2. ImageInv /\ RvaInside /\ [Next]_peVars => RvaInside'
  <2> SUFFICES ASSUME ImageInv, RvaInside, [Next]_peVars
               PROVE  RvaInside'
    OBVIOUS
  <2>1. CASE Translate
    <3>1. PICK rva \in Dwords, required \in Dwords \ {0} :
            /\ asked' = [kind |-> "rva", at |-> rva, required |-> required]
            /\ answer' = RvaToPointer(image, rva, required)
      BY <2>1 DEF Translate
    <3>2. image \in File /\ image' = image
      BY <2>1, FilesAssumption DEF Translate, ImageInv
    <3>3. rva \in Nat /\ required \in Nat
      BY FilesAssumption
    <3>4. asked'.required = required
      BY <3>1
    <3> QED
      BY <3>1, <3>2, <3>3, <3>4, TranslationInside DEF RvaInside
  <2>2. CASE GetDirectory
    BY <2>2 DEF GetDirectory, RvaInside
  <2>3. CASE Open
    BY <2>3 DEF Open, ImageInv, RvaInside, NoRequest
  <2>4. CASE Close
    BY <2>4 DEF Close, RvaInside, NoRequest
  <2>5. CASE UNCHANGED peVars
    BY <2>5 DEF peVars, RvaInside
  <2> QED
    BY <2>1, <2>2, <2>3, <2>4, <2>5 DEF Next, Use
<1> QED
  BY <1>1, <1>2, ImageIsAccepted, PTL DEF PeSpec

\* fx_pe_get_data_directory (pe.c:236-283): an entry that is read lies inside
\* the optional header, and the file says that it has it.
THEOREM DirectoryIsInside == PeSpec => []DirectoryInside
<1>1. Init => DirectoryInside
  BY DEF Init, DirectoryInside, NoRequest
<1>2. ImageInv /\ DirectoryInside /\ [Next]_peVars => DirectoryInside'
  <2> SUFFICES ASSUME ImageInv, DirectoryInside, [Next]_peVars
               PROVE  DirectoryInside'
    OBVIOUS
  <2>1. CASE Translate
    BY <2>1 DEF Translate, DirectoryInside
  <2>2. CASE GetDirectory
    <3>1. PICK index \in Dwords :
            /\ asked' = [kind |-> "directory", at |-> index, required |-> 0]
            /\ answer' = Directory(image, index)
      BY <2>2 DEF GetDirectory
    <3>2. image \in File /\ Accepted(image) /\ image' = image
      BY <2>2, FilesAssumption DEF GetDirectory, ImageInv
    <3>3. /\ index \in Nat /\ image.optSize \in Nat /\ image.dirs \in Nat
          /\ image.magic \in Bits
      BY <3>2, FilesAssumption DEF File, Accepted, OptionalKnown
    <3>4. DirStart[image.magic] + (index + 1) * DirSize \in Nat
      BY <3>3, LayoutAssumption
    <3>5. Directory(image, index).hr = "S_OK" =>
            /\ Directory(image, index).end <= image.optSize
            /\ index < image.dirs
      BY <3>3, <3>4 DEF Directory
    <3> QED
      BY <3>1, <3>2, <3>5 DEF DirectoryInside
  <2>3. CASE Open
    BY <2>3 DEF Open, ImageInv, DirectoryInside, NoRequest
  <2>4. CASE Close
    BY <2>4 DEF Close, DirectoryInside, NoRequest
  <2>5. CASE UNCHANGED peVars
    BY <2>5 DEF peVars, DirectoryInside
  <2> QED
    BY <2>1, <2>2, <2>3, <2>4, <2>5 DEF Next, Use
<1> QED
  BY <1>1, <1>2, ImageIsAccepted, PTL DEF PeSpec

\* Both answers pe.c gives about an image it accepted (7-74, 236-283) lead into
\* the file, for any file and any sizes of its structures.
THEOREM AnswersAreInside == PeSpec => []AnswersInside
<1>1. RvaInside /\ DirectoryInside => AnswersInside
  BY DEF AnswersInside
<1> QED
  BY <1>1, PointerIsInside, DirectoryIsInside, PTL

-----------------------------------------------------------------------------
\* Below the smaller one is below both.
LEMMA BelowSmaller ==
  ASSUME NEW a \in Int, NEW b \in Int, NEW k \in 0 .. (Smaller(a, b) - 1)
  PROVE  k \in Nat /\ k < a /\ k < b
  BY DEF Smaller

\* What fx_pe_rva_to_pointer tests holds k bytes further on as well.
LEMMA BytesBehind ==
  ASSUME NEW raw \in Nat, NEW at \in Nat, NEW delta \in Nat, NEW k \in Nat,
         NEW size \in Nat, SizeMax \in Nat, size <= SizeMax,
         k < raw - delta, k < size - at
  PROVE  /\ ~(delta + k > raw) /\ ~(1 > raw - (delta + k))
         /\ ~(at + k > SizeMax) /\ ~(at + k > size)
         /\ ~(1 > Smaller(raw - (delta + k), size - (at + k)))
  BY DEF Smaller

\* The pointer that fx_pe_rva_to_pointer hands out for a section.
LEMMA InSectionGives ==
  ASSUME NEW f, NEW s, NEW rva, NEW required,
         ~(rva - s.va > s.raw), ~(required > s.raw - (rva - s.va)),
         ~(s.ptr + (rva - s.va) > SizeMax), ~(s.ptr + (rva - s.va) > f.size),
         ~(required > Smaller(s.raw - (rva - s.va), f.size - (s.ptr + (rva - s.va))))
  PROVE  InSection(f, s, rva, required)
           = Pointer(s.ptr + (rva - s.va),
                     Smaller(s.raw - (rva - s.va), f.size - (s.ptr + (rva - s.va))))
  BY DEF InSection

\* Where sections do not overlap, the search ends at the one that covers the
\* address.
LEMMA OnlyOneCovers ==
  ASSUME NEW f \in File, Disjoint(f), NEW rva \in Nat,
         NEW i \in 1 .. Len(f.sections), Covers(f.sections[i], rva)
  PROVE  CoveredSomewhere(f, rva) /\ First(f, rva) = i
<1> DEFINE j == First(f, rva)
<1>1. CoveredSomewhere(f, rva)
  BY DEF CoveredSomewhere
<1>2. j \in 1 .. Len(f.sections) /\ Covers(f.sections[j], rva)
  BY <1>1, FirstInTable
<1> HIDE DEF j
<1>3. f.sections[i] \in Section /\ f.sections[j] \in Section
  <2>1. f.sections \in Seq(Section)
    BY DEF File
  <2> QED BY <1>2, <2>1
<1>4. i = j
  <2> DEFINE a == f.sections[i]
             b == f.sections[j]
             m == Larger(a.vsize, a.raw)
             n == Larger(b.vsize, b.raw)
  <2>1. i # j => a.va + m <= b.va \/ b.va + n <= a.va
    BY <1>2 DEF Disjoint
  <2>2. a.va <= rva /\ rva < a.va + m /\ b.va <= rva /\ rva < b.va + n
    BY <1>2 DEF Covers
  <2>3. a.va \in Nat /\ b.va \in Nat /\ m \in Nat /\ n \in Nat
    BY <1>3 DEF Section, Larger
  <2> HIDE DEF a, b, m, n
  <2> QED BY <2>1, <2>2, <2>3
<1> QED
  BY <1>1, <1>4 DEF j

\* The addresses behind one that leads into a section, as far as its answer
\* reaches, lead to the bytes behind its own.
LEMMA SectionContiguous ==
  ASSUME NEW f \in File, f.size <= SizeMax, Disjoint(f), NEW rva \in Nat,
         NEW required \in Nat, ~(rva < f.headers),
         RvaToPointer(f, rva, required).ok,
         NEW k \in 0 .. (RvaToPointer(f, rva, required).available - 1)
  PROVE  RvaToPointer(f, rva + k, 1).ok
         /\ RvaToPointer(f, rva + k, 1).offset
              = RvaToPointer(f, rva, required).offset + k
<1> DEFINE i == First(f, rva)
           s == f.sections[i]
           p == InSection(f, s, rva, required)
           q == InSection(f, s, rva + k, 1)
<1>1. f.size \in Nat /\ f.headers \in Nat /\ f.sections \in Seq(Section)
  BY DEF File
<1>2. CoveredSomewhere(f, rva) /\ RvaToPointer(f, rva, required) = p
  BY DEF RvaToPointer, Invalid
<1>3. i \in 1 .. Len(f.sections) /\ Covers(s, rva) /\ s \in Section
  BY <1>1, <1>2, FirstInTable
<1>4. p.ok /\ k \in 0 .. (p.available - 1)
  BY <1>2
<1> HIDE DEF i, s
<1>5. /\ s.va \in Nat /\ s.vsize \in Nat /\ s.raw \in Nat /\ s.ptr \in Nat
      /\ s.va <= rva /\ SizeMax \in Nat
  BY <1>3, LayoutAssumption DEF Section, Covers
<1> DEFINE delta == rva - s.va
           offset == s.ptr + delta
<1>6. /\ k \in Nat /\ delta \in Nat /\ offset \in Nat
      /\ k < s.raw - delta /\ k < f.size - offset /\ p.offset = offset
  <2>1. delta \in Nat /\ offset \in Nat /\ k \in Int
    BY <1>4, <1>5
  <2>2. p = Pointer(offset, Smaller(s.raw - delta, f.size - offset))
    BY <1>4 DEF InSection, Invalid
  <2>3. p.offset = offset /\ p.available = Smaller(s.raw - delta, f.size - offset)
    BY <2>2 DEF Pointer
  <2> HIDE DEF delta, offset, p
  <2>4. s.raw - delta \in Int /\ f.size - offset \in Int
    BY <1>1, <1>5, <2>1
  <2>5. k \in 0 .. (Smaller(s.raw - delta, f.size - offset) - 1)
    BY <1>4, <2>3
  <2>6. k \in Nat /\ k < s.raw - delta /\ k < f.size - offset
    BY <2>4, <2>5, BelowSmaller
  <2> QED
    BY <2>1, <2>3, <2>6
<1>7. Covers(s, rva + k)
  BY <1>5, <1>6 DEF Covers, Larger
<1>8. RvaToPointer(f, rva + k, 1) = q
  <2>1. CoveredSomewhere(f, rva + k) /\ First(f, rva + k) = i
    BY <1>3, <1>6, <1>7, OnlyOneCovers DEF s
  <2>2. ~(rva + k < f.headers)
    BY <1>1, <1>6
  <2> QED
    BY <2>1, <2>2 DEF RvaToPointer, s
<1>9. q.ok /\ q.offset = p.offset + k
  <2> DEFINE r == rva + k
             d == r - s.va
             a == s.raw - d
             b == f.size - (s.ptr + d)
  <2>1. d = delta + k /\ s.ptr + d = offset + k
    BY <1>5, <1>6
  <2>2. /\ ~(d > s.raw) /\ ~(1 > a)
        /\ ~(s.ptr + d > SizeMax) /\ ~(s.ptr + d > f.size)
        /\ ~(1 > Smaller(a, b))
    <3> DEFINE raw == s.raw
               size == f.size
               v == s.ptr + d
    <3>1. /\ raw \in Nat /\ size \in Nat /\ offset \in Nat /\ delta \in Nat
          /\ k \in Nat /\ SizeMax \in Nat /\ size <= SizeMax
          /\ k < raw - delta /\ k < size - offset
          /\ d = delta + k /\ v = offset + k
      BY <1>1, <1>5, <1>6, <2>1
    <3>2. a = raw - d /\ b = size - v
      OBVIOUS
    <3> HIDE DEF d, v, raw, size, delta, offset, a, b
    <3>3. /\ ~(d > raw) /\ ~(1 > raw - d)
          /\ ~(v > SizeMax) /\ ~(v > size)
          /\ ~(1 > Smaller(raw - d, size - v))
      BY <3>1, BytesBehind
    <3>4. /\ ~(d > raw) /\ ~(1 > a)
          /\ ~(v > SizeMax) /\ ~(v > size)
          /\ ~(1 > Smaller(a, b))
      BY <3>2, <3>3
    <3> QED BY <3>4 DEF raw, size, v
  <2> HIDE DEF p, delta, offset
  <2>3. q = Pointer(s.ptr + d, Smaller(a, b))
    <3>1. q = InSection(f, s, r, 1)
      OBVIOUS
    <3> HIDE DEF r, q
    <3> QED BY <2>2, <3>1, InSectionGives
  <2> HIDE DEF q, d, a, b
  <2> QED
    BY <1>6, <2>1, <2>3 DEF Pointer
<1> HIDE DEF p, q
<1> QED
  BY <1>2, <1>8, <1>9

\* Within the bytes that a translation makes available, the next address is translated
\* to the next offset (pe.c, fx_pe_rva_to_pointer).
LEMMA TranslationContiguous ==
  ASSUME NEW f \in File, f.size <= SizeMax, Disjoint(f), NEW rva \in Nat,
         NEW required \in Nat, RvaToPointer(f, rva, required).ok,
         NEW k \in 0 .. (RvaToPointer(f, rva, required).available - 1)
  PROVE  RvaToPointer(f, rva + k, 1).ok
         /\ RvaToPointer(f, rva + k, 1).offset
              = RvaToPointer(f, rva, required).offset + k
<1>1. f.size \in Nat /\ f.headers \in Nat
  BY DEF File
<1>2. CASE rva < f.headers
  <2>1. RvaToPointer(f, rva, required) = InHeaders(f, rva, required)
    BY <1>2 DEF RvaToPointer
  <2>2. /\ k \in Nat /\ rva + k < f.headers /\ rva + k < f.size
        /\ InHeaders(f, rva, required).offset = rva
    BY <1>1, <1>2, <2>1 DEF InHeaders, Smaller, Pointer, Invalid
  <2>3. RvaToPointer(f, rva + k, 1) = InHeaders(f, rva + k, 1)
    BY <2>2 DEF RvaToPointer
  <2>4. InHeaders(f, rva + k, 1).ok /\ InHeaders(f, rva + k, 1).offset = rva + k
    BY <1>1, <2>2 DEF InHeaders, Smaller, Pointer, Invalid
  <2> QED
    BY <2>1, <2>2, <2>3, <2>4
<1> QED
  BY <1>2, SectionContiguous

\* What was answered is still what the image says, which is as it was opened.
AskedInv ==
  asked.kind = "rva" =>
    /\ image \in Files /\ asked.at \in Nat /\ asked.required \in Nat
    /\ answer = RvaToPointer(image, asked.at, asked.required)

\* For any sections that do not overlap: a table may be walked behind one
\* translated pointer as the enumerations of pe.c (385, 452) walk theirs.
THEOREM PointersAreContiguous == PeSpec => []Contiguous
<1>1. Init => AskedInv
  BY DEF Init, AskedInv, NoRequest
<1>2. ImageInv /\ AskedInv /\ [Next]_peVars => AskedInv'
  <2> SUFFICES ASSUME ImageInv, AskedInv, [Next]_peVars PROVE AskedInv'
    OBVIOUS
  <2>1. CASE Open
    BY <2>1 DEF Open, ImageInv, AskedInv, NoRequest
  <2>2. CASE Translate
    <3>1. PICK rva \in Dwords, required \in Dwords \ {0} :
            /\ asked' = [kind |-> "rva", at |-> rva, required |-> required]
            /\ answer' = RvaToPointer(image, rva, required)
      BY <2>2 DEF Translate
    <3>2. image \in Files /\ image' = image /\ rva \in Nat /\ required \in Nat
      BY <2>2, FilesAssumption DEF Translate, ImageInv
    <3> QED
      BY <3>1, <3>2 DEF AskedInv
  <2>3. CASE GetDirectory
    BY <2>3 DEF GetDirectory, AskedInv
  <2>4. CASE Close
    BY <2>4 DEF Close, AskedInv, NoRequest
  <2>5. CASE UNCHANGED peVars
    BY <2>5 DEF peVars, AskedInv
  <2> QED
    BY <2>1, <2>2, <2>3, <2>4, <2>5 DEF Next, Use
<1>3. AskedInv => Contiguous
  <2> SUFFICES ASSUME AskedInv, asked.kind = "rva", answer.ok, Disjoint(image),
                      NEW k \in 0 .. (answer.available - 1)
               PROVE  /\ RvaToPointer(image, asked.at + k, 1).ok
                      /\ RvaToPointer(image, asked.at + k, 1).offset
                           = answer.offset + k
    BY DEF Contiguous
  <2>1. /\ image \in File /\ image.size <= SizeMax
        /\ asked.at \in Nat /\ asked.required \in Nat
        /\ answer = RvaToPointer(image, asked.at, asked.required)
    BY FilesAssumption DEF AskedInv
  <2> QED
    BY <2>1, TranslationContiguous
<1> QED
  BY <1>1, <1>2, <1>3, ImageIsAccepted, PTL DEF PeSpec
=============================================================================
