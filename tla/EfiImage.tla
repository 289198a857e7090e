------------------------------ MODULE EfiImage ------------------------------
(***************************************************************************)
(* What the EFI page reads (FileXRay/extensions/efi.c, fx_efi_load): the   *)
(* size of the file, tested on a handle that is closed again; then the     *)
(* file that is mapped under the same path, its image base, and the text   *)
(* of its .sbat section.  In between another process may put another file  *)
(* there.                                                                  *)
(*                                                                         *)
(* A character of the section is what the code tells apart; "x" is any     *)
(* other one, "bad" no UTF-8.  A variant before the definition it varies   *)
(* is a fault no specification uses; README.md says which property rejects *)
(* it.                                                                     *)
(***************************************************************************)
EXTENDS Integers, Sequences, FiniteSets

Seqs == INSTANCE SequencesExt
Sets == INSTANCE FiniteSetsExt

CONSTANTS
  EfiMaxSize,   \* 256 MiB
  IntMax,       \* INT_MAX
  EfiBaseEnd,   \* [32, 64 -> where ImageBase ends in the optional header]
  EfiFiles      \* what may be under the path

\* bytes are those of the file that a section may cover, from offset 1.
ASSUME EfiAssumption ==
  /\ IntMax \in Nat /\ EfiMaxSize \in 0 .. IntMax
  /\ EfiBaseEnd \in [{32, 64} -> Nat]
  /\ \A f \in EfiFiles : /\ f.size \in Nat /\ f.magic \in {32, 64}
                         /\ f.optSize \in Nat /\ DOMAIN f.bytes \subseteq 1 .. f.size
                         /\ f.sections \in Seq([sbat : BOOLEAN, ptr : Nat, raw : Nat])

VARIABLES
  efiFile,   \* what is under the path now
  efiPhase,
  checked,   \* the size that was tested
  mapped,    \* the file that is mapped
  sbatText,  \* view->sbat, the size of its buffer; history: what it is made of
  efiRead    \* history: what was read of the section, and of how large a file

efiVars == <<efiFile, efiPhase, checked, mapped, sbatText, efiRead>>

Unmapped == [size |-> 0]
NoText == [text |-> <<>>, room |-> 0, given |-> <<>>, section |-> <<>>]
NoRead == [at |-> 0, size |-> 0, text |-> 0, given |-> 0, of |-> 0]

EfiInit == /\ efiFile \in EfiFiles /\ efiPhase = "size" /\ checked = 0
           /\ mapped = Unmapped /\ sbatText = NoText /\ efiRead = NoRead

\* Whatever fails, the image is closed if it was opened, and the view goes.
EfiFails == /\ efiPhase' = "failed" /\ mapped' = Unmapped
            /\ UNCHANGED <<efiFile, checked, sbatText>>

CheckSize ==
  /\ efiPhase = "size"
  /\ \/ EfiFails /\ efiRead' = efiRead
     \/ /\ efiFile.size > 0 /\ efiFile.size <= EfiMaxSize
        /\ checked' = efiFile.size /\ efiPhase' = "open"
        /\ UNCHANGED <<efiFile, mapped, sbatText, efiRead>>

\* While no handle is open; a mapped file is not written to.
ReplaceFile == /\ efiPhase = "open" /\ efiFile' \in EfiFiles \ {efiFile}
               /\ UNCHANGED <<efiPhase, checked, mapped, sbatText, efiRead>>

\* fx_pe_open, when fx_pe_parse accepts what it maps.
OpenEfi ==
  /\ efiPhase = "open"
  /\ \/ EfiFails /\ efiRead' = efiRead
     \/ /\ efiFile.size > 0 /\ mapped' = efiFile /\ efiPhase' = "base"
        /\ UNCHANGED <<efiFile, checked, sbatText, efiRead>>

\* fx_pe_get_image_base
GetImageBase ==
  /\ efiPhase = "base"
  /\ IF mapped.optSize < EfiBaseEnd[mapped.magic] THEN EfiFails /\ efiRead' = efiRead
     ELSE /\ efiPhase' = "sbat"
          /\ UNCHANGED <<efiFile, checked, mapped, sbatText, efiRead>>

\* fx_pe_find_section: the first of that name, or none.
SbatSections == {i \in DOMAIN mapped.sections : mapped.sections[i].sbat}
TheSbat == mapped.sections[Sets!Min(SbatSections)]

SbatInsideChecked(s) == s.ptr <= checked /\ s.raw <= checked - s.ptr
SbatInside(s) == s.ptr <= mapped.size /\ s.raw <= mapped.size - s.ptr

\* Bytes from the section's start on; behind the file its last page is NUL.
BytesFrom(s, n) == [i \in 1 .. n |-> IF s.ptr + i \in DOMAIN mapped.bytes
                                     THEN mapped.bytes[s.ptr + i] ELSE "nul"]
\* The section without its trailing NULs.
Content(s) == BytesFrom(s, s.raw)
Trimmed(t) == SubSeq(t, 1, Sets!Max({0} \cup {n \in DOMAIN t : t[n] # "nul"}))

\* Where a text ends that is taken for a zero-terminated string.
FirstNul(t) == Sets!Min({Len(t) + 1} \cup {n \in DOMAIN t : t[n] = "nul"})
UpToNul(t) == SubSeq(t, 1, FirstNul(t) - 1)

\* What MultiByteToWideChar converts.  The length is cast to an int; to the
\* negative one a longer section gets, Windows answers with the string that
\* starts there, its NUL included, wherever that is.
Rest(s) == BytesFrom(s, mapped.size - s.ptr + 1)
Given(s) == LET t == Trimmed(Content(s))
            IN  IF Len(t) <= IntMax THEN t ELSE SubSeq(Rest(s), 1, FirstNul(Rest(s)))

\* fx_efi_convert_sbat: a line feed that follows no carriage return gets one;
\* they are counted, then the text is written to a buffer of that size.
LonelyUnlessFirst(t, n) == t[n] = "lf" /\ n > 1 /\ t[n - 1] # "cr"
Lonely(t, n) == t[n] = "lf" /\ (n = 1 \/ t[n - 1] # "cr")
\* What a character is written as.
Written(t, n) == IF Lonely(t, n) THEN <<"cr", t[n]>> ELSE <<t[n]>>
Converted(t) == [text |-> Seqs!FlattenSeq([n \in 1 .. Len(t) |-> Written(t, n)]),
                 room |-> Len(t) + Cardinality({n \in 1 .. Len(t) : Lonely(t, n)})]

ShowEfi(text) == /\ efiPhase' = "shown" /\ mapped' = Unmapped /\ sbatText' = text
                 /\ UNCHANGED <<efiFile, checked>>
HasSbat == /\ SbatSections # {} /\ TheSbat.ptr # 0 /\ TheSbat.raw # 0
\* Trimming reads the section, converting what is given to it.
Looks(s) == efiRead' = [at |-> s.ptr, size |-> s.raw, text |-> Len(Trimmed(Content(s))),
                        given |-> Len(Given(s)), of |-> mapped.size]
ReadsBehind(s) == s.ptr + Len(Given(s)) > mapped.size

\* fx_efi_read_sbat and fx_pe_close: no section, or an empty one, is no text.
\* A read behind the file ends the process when no page is left there.
ReadSbat ==
  /\ efiPhase = "sbat"
  /\ \/ ~HasSbat /\ ShowEfi(NoText) /\ efiRead' = efiRead
     \/ HasSbat /\ ~SbatInside(TheSbat) /\ EfiFails /\ efiRead' = efiRead
     \/ /\ HasSbat /\ SbatInside(TheSbat) /\ Looks(TheSbat)
        /\ LET t == Trimmed(Content(TheSbat))
               g == Given(TheSbat)
           IN  \/ t = <<>> /\ ShowEfi(NoText)
               \/ t # <<>> /\ EfiFails
               \/ /\ t # <<>> /\ ReadsBehind(TheSbat) /\ efiPhase' = "faulted"
                  /\ UNCHANGED <<efiFile, checked, mapped, sbatText>>
               \/ /\ t # <<>> /\ \A n \in DOMAIN g : g[n] # "bad"
                  /\ ShowEfi([text |-> Converted(g).text, room |-> Converted(g).room,
                              given |-> g, section |-> t])

EfiStep == CheckSize \/ OpenEfi \/ GetImageBase \/ ReadSbat
EfiNext == EfiStep \/ ReplaceFile
EfiSpec == EfiInit /\ [][EfiNext]_efiVars

-----------------------------------------------------------------------------
\* What is read of the section lies in the file that is mapped, also when
\* another file took its place after the size was tested.  The exception is
\* a text longer than an int can say, which only such a file can hold: then
\* what is given to be converted reaches up to one byte behind the file.
EfiReadsInside ==
  /\ efiRead.at + efiRead.size <= efiRead.of
  /\ efiRead.text <= IntMax => efiRead.at + efiRead.given <= efiRead.of
  /\ efiRead.given # 0 => efiRead.at + efiRead.given <= efiRead.of + 1

\* The text fills its buffer exactly, has no line feed without a carriage
\* return, and is otherwise what was given to be converted.  The window takes
\* it for a string: what it shows is the section up to its first NUL, again
\* with the same exception.
Swallowed(t, n) == t[n] = "cr" /\ n < Len(t) /\ t[n + 1] = "lf"
Remains(t, n) == IF Swallowed(t, n) THEN <<>> ELSE <<t[n]>>
Bare(t) == Seqs!FlattenSeq([n \in 1 .. Len(t) |-> Remains(t, n)])
EfiTextExact ==
  LET t == sbatText.text
  IN  /\ Len(t) = sbatText.room
      /\ \A n \in DOMAIN t : t[n] = "lf" => n > 1 /\ t[n - 1] = "cr"
      /\ Bare(t) = Bare(sbatText.given)
      /\ Len(sbatText.section) <= IntMax =>
           Bare(UpToNul(t)) = Bare(UpToNul(sbatText.section))

\* No byte outside the mapped file is shown, and none of the section before
\* its first NUL is lost, unless the text is longer than an int can say.
EfiSound == EfiReadsInside /\ EfiTextExact

\* Why the bound holds: from the parser's success on, the file that is looked
\* at is the one that is mapped, whatever is under the path.
EfiInv ==
  /\ efiFile \in EfiFiles
  /\ efiPhase \in {"base", "sbat"} => mapped \in EfiFiles
  /\ EfiSound
=============================================================================
