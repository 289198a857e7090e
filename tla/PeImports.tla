----------------------------- MODULE PeImports -----------------------------
(***************************************************************************)
(* The imports of an .exe file (FileXRay/pe.c, from exe.c's fx_exe_load):  *)
(* fx_pe_enum_imports and then fx_pe_enum_delay_imports walk a table of    *)
(* descriptors, each with the name of a DLL and a chain of thunks, and     *)
(* call back once per thunk.  The descriptors are an array behind one      *)
(* translated pointer, each thunk and each name is translated anew.  A     *)
(* descriptor that is unusable is skipped, a thunk that is ends it all.    *)
(*                                                                         *)
(* PeImage says what fx_pe_rva_to_pointer answers; here any answers will   *)
(* do, whatever sections overlap or share bytes: each RVA leads to an      *)
(* offset in the file, with so many bytes behind it.  An ordinal or a name *)
(* is the thunk it comes from.                                             *)
(* A variant before the definition it varies is a fault no specification   *)
(* uses; README.md says which property rejects it.                         *)
(***************************************************************************)
EXTENDS Integers, Sequences

CONSTANTS
  MaxDword,
  MaxDlls,         \* FX_PE_MAX_IMPORT_DLLS
  MaxThunks,       \* FX_PE_MAX_IMPORT_THUNKS
  DescriptorSize,  \* [pass -> IMAGE_IMPORT_ or IMAGE_DELAYLOAD_DESCRIPTOR]
  ThunkSize,       \* [32, 64 -> IMAGE_THUNK_DATA]
  ByNameSize,      \* IMAGE_IMPORT_BY_NAME
  NameOffset,      \* its Name
  Files            \* the files that may be read

Passes == {"imports", "delay"}
Addresses == 0 .. MaxDword

\* name, table and fallback are RVAs: Name, OriginalFirstThunk, FirstThunk,
\* or DllNameRVA, ImportNameTableRVA, ImportAddressTableRVA.  rest says that
\* one of the other fields is not 0, rvas is bit 0 of a delay-load
\* descriptor's attributes.
Descriptor == [name : Addresses, table : Addresses, fallback : Addresses,
               rest : BOOLEAN, rvas : BOOLEAN]
Thunk == [kind : {"end", "ordinal", "name"}, at : Addresses]
Answer == [offset : Nat, available : Nat]

\* NoDirectory stands for an entry that cannot be read; nuls, descriptor and
\* thunk are what the file has at an offset; answer is what each RVA is
\* translated to, with nothing available when it is not; those are the bytes
\* that are reached.
NoDirectory == -1
File == [bits : {32, 64}, directory : [Passes -> Addresses \cup {NoDirectory}],
         nuls : SUBSET Nat, descriptor : [Passes -> [Nat -> Descriptor]],
         thunk : [Nat -> Thunk], answer : [Addresses -> Answer]]
Reached(f) == UNION {f.answer[a].offset .. (f.answer[a].offset + f.answer[a].available - 1) :
                       a \in Addresses}

ASSUME ImportsAssumption ==
  /\ MaxDword \in Nat /\ MaxDlls \in Nat /\ MaxThunks \in Nat
  /\ DescriptorSize \in [Passes -> Nat \ {0}]
  /\ ThunkSize \in [{32, 64} -> Nat \ {0}]
  /\ ByNameSize \in Nat \ {0} /\ NameOffset \in Nat
  /\ \A f \in Files :
       /\ f.bits \in {32, 64}
       /\ f.directory \in [Passes -> Addresses \cup {NoDirectory}]
       /\ f.answer \in [Addresses -> Answer]
       /\ \A p \in Passes, o \in Reached(f) : f.descriptor[p][o] \in Descriptor

VARIABLES
  file,
  pass,       \* which of the two enumerations
  phase,      \* what it does next
  max_count,  \* descriptors to look at
  index,
  thunk_rva,  \* of the chain in work
  count,
  calls,      \* the callbacks so far: where each came from and what it is
  read        \* history: the last structure that was read

importVars ==
  <<file, pass, phase, max_count, index, thunk_rva, count, calls, read>>

Init == /\ file \in Files /\ pass = "imports" /\ phase = "directory"
        /\ max_count = 0 /\ index = 0 /\ thunk_rva = 0 /\ count = 0
        /\ calls = <<>> /\ read = [at |-> 0, size |-> 0]

-----------------------------------------------------------------------------
\* fx_pe_rva_to_pointer
Offset(rva) == file.answer[rva].offset
Available(rva) == file.answer[rva].available
Readable(rva, size) == size <= Available(rva)

\* fx_pe_read_name: the name must end where the answer does or before.
Named(rva) ==
  \E n \in file.nuls : Offset(rva) <= n /\ n < Offset(rva) + Available(rva)

Fails == /\ phase' = "failed"
         /\ UNCHANGED <<file, pass, max_count, index, thunk_rva, count, calls>>

\* fx_exe_load enumerates the delay-load imports when the others succeeded.
PassEnds == /\ IF pass = "imports" THEN pass' = "delay" /\ phase' = "directory"
               ELSE pass' = pass /\ phase' = "done"
            /\ UNCHANGED <<file, max_count, index, thunk_rva, count, calls>>

Smaller(m, n) == IF m < n THEN m ELSE n

Rounded(rva) ==
  (Available(rva) + DescriptorSize[pass] - 1) \div DescriptorSize[pass]
OpenDirectoryRounded ==
  /\ phase = "directory" /\ read' = read
  /\ LET rva == file.directory[pass]
     IN  \/ rva = NoDirectory /\ Fails
         \/ rva = 0 /\ PassEnds
         \/ rva > 0 /\ ~Readable(rva, DescriptorSize[pass]) /\ Fails
         \/ /\ rva > 0 /\ Readable(rva, DescriptorSize[pass])
            /\ phase' = "descriptor" /\ index' = 0
            /\ max_count' = Smaller(MaxDlls, Rounded(rva))
            /\ UNCHANGED <<file, pass, thunk_rva, count, calls>>

OpenDirectory ==
  /\ phase = "directory" /\ read' = read
  /\ LET rva == file.directory[pass]
         size == DescriptorSize[pass]
     IN  \/ rva = NoDirectory /\ Fails
         \/ rva = 0 /\ PassEnds
         \/ rva > 0 /\ ~Readable(rva, size) /\ Fails
         \/ /\ rva > 0 /\ Readable(rva, size)
            /\ phase' = "descriptor" /\ index' = 0
            /\ max_count' = Smaller(MaxDlls, Available(rva) \div size)
            /\ UNCHANGED <<file, pass, thunk_rva, count, calls>>

\* The descriptors, as an array behind the directory's pointer.
SlotAt(i) == Offset(file.directory[pass]) + i * DescriptorSize[pass]
Slot(i) == file.descriptor[pass][SlotAt(i)]

\* What ends the table, and which descriptor has functions to list.
Terminates(d) ==
  /\ d.name = 0
  /\ IF pass = "imports" THEN d.table = 0 /\ d.fallback = 0 /\ ~d.rest
     ELSE d.table = 0
ChainOf(d) == IF d.table # 0 THEN d.table ELSE d.fallback
Usable(d) == /\ d.name # 0 /\ Named(d.name) /\ ChainOf(d) # 0
             /\ pass = "imports" \/ d.rvas

TableEnds ==
  /\ phase = "descriptor"
  /\ \/ index = max_count /\ read' = read
     \/ /\ index < max_count /\ Terminates(Slot(index))
        /\ read' = [at |-> SlotAt(index), size |-> DescriptorSize[pass]]
  /\ PassEnds

NextDescriptor ==
  /\ phase = "descriptor" /\ index < max_count /\ ~Terminates(Slot(index))
  /\ read' = [at |-> SlotAt(index), size |-> DescriptorSize[pass]]
  /\ IF Usable(Slot(index))
     THEN /\ phase' = "thunk" /\ thunk_rva' = ChainOf(Slot(index)) /\ count' = 0
          /\ index' = index
     ELSE /\ index' = index + 1
          /\ UNCHANGED <<phase, thunk_rva, count>>
  /\ UNCHANGED <<file, pass, max_count, calls>>

\* fx_pe_walk_thunks.  Its addresses are DWORDs, each translated anew.
ThunkAt(start, n) == (start + n * ThunkSize[file.bits]) % (MaxDword + 1)
ThunkOf(at) == file.thunk[Offset(at)]
Ends(t) == t.kind = "end"
NameReadable(t) ==
  /\ Readable(t.at, ByNameSize)
  /\ Named((t.at + NameOffset) % (MaxDword + 1))
Callable(t) == t.kind = "ordinal" \/ (t.kind = "name" /\ NameReadable(t))

ChainEnds ==
  /\ phase = "thunk"
  /\ LET at == ThunkAt(thunk_rva, count)
         size == ThunkSize[file.bits]
     IN  \/ count = MaxThunks /\ read' = read
         \/ /\ count < MaxThunks /\ Readable(at, size) /\ Ends(ThunkOf(at))
            /\ read' = [at |-> Offset(at), size |-> size]
  /\ phase' = "descriptor" /\ index' = index + 1
  /\ UNCHANGED <<file, pass, max_count, thunk_rva, count, calls>>

ThunkFails ==
  /\ phase = "thunk" /\ count < MaxThunks
  /\ LET at == ThunkAt(thunk_rva, count)
         size == ThunkSize[file.bits]
     IN  \/ ~Readable(at, size) /\ read' = read
         \/ /\ Readable(at, size)
            /\ ~Ends(ThunkOf(at)) /\ ~Callable(ThunkOf(at))
            /\ read' = [at |-> Offset(at), size |-> size]
  /\ Fails

WalkFromTable ==
  /\ phase = "thunk" /\ count < MaxThunks
  /\ LET at == ThunkAt(Slot(index).table, count)
         size == ThunkSize[file.bits]
     IN  /\ Readable(at, size) /\ Callable(ThunkOf(at))
         /\ calls' = Append(calls, [pass |-> pass, index |-> index,
                                    count |-> count, thunk |-> at])
         /\ read' = [at |-> Offset(at), size |-> size]
  /\ count' = count + 1
  /\ UNCHANGED <<file, pass, phase, max_count, index, thunk_rva>>

\* One imported function; the only callback there is always lets it go on.
WalkThunk ==
  /\ phase = "thunk" /\ count < MaxThunks
  /\ LET at == ThunkAt(thunk_rva, count)
         size == ThunkSize[file.bits]
     IN  /\ Readable(at, size) /\ Callable(ThunkOf(at))
         /\ calls' = Append(calls, [pass |-> pass, index |-> index,
                                    count |-> count, thunk |-> at])
         /\ read' = [at |-> Offset(at), size |-> size]
  /\ count' = count + 1
  /\ UNCHANGED <<file, pass, phase, max_count, index, thunk_rva>>

Next == \/ OpenDirectory \/ TableEnds \/ NextDescriptor
        \/ ChainEnds \/ ThunkFails \/ WalkThunk

ImportsSpec == Init /\ [][Next]_importVars

-----------------------------------------------------------------------------
\* What is read lies in the bytes that one answer of fx_pe_rva_to_pointer
\* vouches for, which PeImage shows to be in the file: the last descriptor of
\* a table too, which is never translated by itself.
ReadsInside ==
  read.size # 0 =>
    \E a \in Addresses : /\ Offset(a) <= read.at
                          /\ read.at + read.size <= Offset(a) + Available(a)

\* What should be listed.  Descriptors come from the slots before the one
\* that terminates the table, as far as the answer for it and the limit go;
\* thunks from before the one that ends the chain, up to the limit.
DescriptorOf(p, i) ==
  file.descriptor[p][Offset(file.directory[p]) + i * DescriptorSize[p]]
InTable(p, i) ==
  LET zero(d) == /\ d.name = 0 /\ d.table = 0
                 /\ p = "imports" => d.fallback = 0 /\ ~d.rest
  IN  /\ file.directory[p] \notin {0, NoDirectory} /\ i < MaxDlls
      /\ Readable(file.directory[p], (i + 1) * DescriptorSize[p])
      /\ \A j \in 0 .. i : ~zero(DescriptorOf(p, j))
Listed(p, i) ==
  LET d == DescriptorOf(p, i)
  IN  /\ InTable(p, i) /\ d.name # 0 /\ Named(d.name)
      /\ {d.table, d.fallback} # {0} /\ (p = "delay" => d.rvas)
Start(p, i) == ChainOf(DescriptorOf(p, i))

InChain(start, n) ==
  n < MaxThunks /\ \A m \in 0 .. n :
    LET at == ThunkAt(start, m)
    IN  Readable(at, ThunkSize[file.bits]) /\ Callable(ThunkOf(at))
EndsAt(start, n) ==
  \/ n = MaxThunks
  \/ /\ Readable(ThunkAt(start, n), ThunkSize[file.bits])
     /\ Ends(ThunkOf(ThunkAt(start, n)))

Call(p, i, n) == [pass |-> p, index |-> i, count |-> n,
                  thunk |-> ThunkAt(Start(p, i), n)]
CallsOf(p, i) ==
  {Call(p, i, n) : n \in {m \in 0 .. MaxThunks :
                           Listed(p, i) /\ InChain(Start(p, i), m)}}
Expected == UNION {CallsOf(p, i) : p \in Passes, i \in 0 .. MaxDlls}
Precedes(c, d) ==
  \/ c.pass = "imports" /\ d.pass = "delay"
  \/ c.pass = d.pass /\ c.index < d.index
  \/ c.pass = d.pass /\ c.index = d.index /\ c.count < d.count

\* pe.h: the callback is invoked once per imported function, grouped by DLL;
\* the calls made so far are the first ones of those there should be, and
\* an enumeration that succeeds has made all of them and broke off no chain.
CallsExact ==
  LET made == {calls[k] : k \in 1 .. Len(calls)}
  IN  /\ \A k \in 1 .. (Len(calls) - 1) : Precedes(calls[k], calls[k + 1])
      /\ made \subseteq Expected
      /\ \A c \in made, d \in Expected \ made : Precedes(c, d)
      /\ phase = "done" =>
           /\ made = Expected
           /\ \A p \in Passes, i \in 0 .. MaxDlls : Listed(p, i) =>
                \E n \in 0 .. MaxThunks :
                  /\ EndsAt(Start(p, i), n)
                  /\ \A m \in 0 .. (n - 1) : InChain(Start(p, i), m)
=============================================================================
