------------------------- MODULE PeImports_proofs -------------------------
(***************************************************************************)
(* Whatever PeImports reads is in the file, for any file and any sizes.    *)
(* For thunks it was asked; a descriptor is an element of an array whose   *)
(* length comes from a division.  And what it calls back for is what there *)
(* is to be listed, in order: until an error ends it, the walk has made    *)
(* the calls from before the place where it is, and no other.              *)
(***************************************************************************)
EXTENDS PeImports, TLAPS

\* The table that is walked: it has room for max_count descriptors behind
\* the directory's pointer, and index is one of them or the end; the chain's
\* addresses are DWORDs.
Walking ==
  /\ index \in Nat /\ max_count \in Nat /\ index <= max_count
  /\ phase = "thunk" => index < max_count /\ thunk_rva \in Addresses /\ count \in Nat
  /\ file.directory[pass] \in Addresses
  /\ max_count * DescriptorSize[pass] <= Available(file.directory[pass])

ImportsInv == /\ file \in Files /\ pass \in Passes
              /\ phase \in {"descriptor", "thunk"} => Walking
              /\ ReadsInside

\* What fx_pe_rva_to_pointer answers are an offset and a number of bytes.
LEMMA AnswerType ==
  ASSUME file \in Files, NEW a \in Addresses
  PROVE  /\ Available(a) \in Nat /\ Offset(a) \in Nat
         /\ a \in Nat
<1>1. file.answer[a] \in Answer
  BY ImportsAssumption
<1> QED
  BY <1>1, ImportsAssumption DEF Answer, Available, Offset, Addresses

\* Every slot of the table has a whole descriptor, in what the directory's
\* address leads to.
LEMMA SlotInside ==
  ASSUME ImportsInv, Walking, index < max_count
  PROVE  LET dir == file.directory[pass]
         IN  /\ Offset(dir) <= SlotAt(index)
             /\ SlotAt(index) + DescriptorSize[pass] <= Offset(dir) + Available(dir)
             /\ Slot(index) \in Descriptor
<1> DEFINE D == DescriptorSize[pass]
           dir == file.directory[pass]
<1>1. /\ D \in Nat \ {0} /\ index \in Nat /\ max_count \in Nat /\ dir \in Addresses
      /\ file \in Files /\ pass \in Passes
  BY ImportsAssumption DEF ImportsInv, Walking
<1>2. Available(dir) \in Nat /\ Offset(dir) \in Nat
  BY <1>1, AnswerType
<1>3. max_count * D <= Available(dir)
  BY DEF Walking
<1>4. SlotAt(index) = Offset(dir) + index * D
  BY DEF SlotAt
<1> HIDE DEF D, dir
<1>5. index * D + D <= max_count * D /\ index * D \in Nat /\ max_count * D \in Nat
  <2>1. PICK d \in Nat : max_count = index + 1 + d
    <3>1. max_count - index - 1 \in Nat
          /\ max_count = index + 1 + (max_count - index - 1)
      BY <1>1
    <3> QED
      BY <3>1
  <2>2. max_count * D = index * D + D + d * D
    BY <1>1, <2>1
  <2>3. d * D \in Nat /\ index * D \in Nat /\ max_count * D \in Nat
    BY <1>1
  <2> QED
    BY <1>1, <2>2, <2>3
<1>6. /\ Offset(dir) <= SlotAt(index)
      /\ SlotAt(index) + D <= Offset(dir) + Available(dir)
      /\ SlotAt(index) \in Offset(dir) .. (Offset(dir) + Available(dir) - 1)
  BY <1>1, <1>2, <1>3, <1>4, <1>5
<1>7. SlotAt(index) \in Reached(file)
  BY <1>1, <1>6 DEF Reached, Offset, Available
<1>8. Slot(index) \in Descriptor
  BY <1>1, <1>7, ImportsAssumption DEF Slot
<1> QED
  BY <1>6, <1>8 DEF D, dir

\* The address of a thunk is a DWORD, wherever the chain starts.
LEMMA ThunkAddress ==
  ASSUME file \in Files, NEW a \in Addresses, NEW n \in Nat
  PROVE  ThunkAt(a, n) \in Addresses
<1> DEFINE t == ThunkSize[file.bits]
<1>1. t \in Nat /\ MaxDword \in Nat /\ a \in Nat
  BY ImportsAssumption DEF Addresses
<1>2. ThunkAt(a, n) = (a + n * t) % (MaxDword + 1)
  BY DEF ThunkAt
<1> HIDE DEF t
<1>3. n * t \in Nat
  BY <1>1
<1>4. \A m \in Nat : m % (MaxDword + 1) \in 0 .. MaxDword
  BY <1>1, SMT
<1>5. a + n * t \in Nat
  BY <1>1, <1>3
<1> QED
  BY <1>2, <1>4, <1>5 DEF Addresses

\* The table is opened with as many descriptors as the division says.
LEMMA OpenKeeps ==
  ASSUME ImportsInv, phase = "directory", OpenDirectory
  PROVE  ImportsInv'
<1> DEFINE D == DescriptorSize[pass]
           rva == file.directory[pass]
           q == Available(rva) \div D
<1>1. /\ D \in Nat \ {0} /\ file \in Files /\ read' = read /\ ReadsInside
      /\ pass \in Passes /\ rva \in Addresses \cup {NoDirectory}
  BY ImportsAssumption DEF ImportsInv, OpenDirectory
<1>2. CASE Fails
  BY <1>1, <1>2 DEF Fails, ImportsInv, ReadsInside, Offset, Available
<1>3. CASE PassEnds
  BY <1>1, <1>3 DEF PassEnds, ImportsInv, ReadsInside, Offset, Available, Passes
<1>4. ASSUME rva > 0, Readable(rva, D), phase' = "descriptor", index' = 0,
             max_count' = Smaller(MaxDlls, q), UNCHANGED <<file, pass>>
      PROVE  ImportsInv'
  <2>1. rva \in Addresses
    BY <1>1, <1>4 DEF NoDirectory
  <2>2. Available(rva) \in Nat /\ D <= Available(rva)
    BY <1>1, <1>4, <2>1, AnswerType DEF Readable
  <2>3. q \in Nat /\ q * D <= Available(rva)
    <3> HIDE DEF D
    <3>1. ASSUME NEW a \in Nat
          PROVE  a \div D \in Nat /\ (a \div D) * D <= a
      BY <1>1, SMT
    <3> QED
      BY <2>2, <3>1
  <2>4. Smaller(MaxDlls, q) \in Nat /\ Smaller(MaxDlls, q) <= q
    BY <2>3, ImportsAssumption DEF Smaller
  <2>5. Smaller(MaxDlls, q) * D <= Available(rva)
    <3> DEFINE s == Smaller(MaxDlls, q)
    <3>1. s \in Nat /\ q \in Nat /\ s <= q /\ D \in Nat /\ q * D <= Available(rva)
      BY <1>1, <2>3, <2>4
    <3> HIDE DEF s, q, D
    <3>2. PICK d \in Nat : q = s + d
      <4>1. q - s \in Nat /\ q = s + (q - s)
        BY <3>1
      <4> QED
        BY <4>1
    <3>3. q * D = s * D + d * D /\ d * D \in Nat /\ s * D \in Nat
      BY <3>1, <3>2
    <3>4. s * D <= Available(rva)
      BY <2>2, <3>1, <3>3
    <3> QED
      BY <3>4 DEF s
  <2> HIDE DEF q
  <2>6. Walking'
    BY <1>4, <2>1, <2>2, <2>4, <2>5 DEF Walking, Available
  <2>7. ReadsInside'
    BY <1>1, <1>4 DEF ReadsInside, Offset, Available
  <2> QED
    BY <1>1, <1>4, <2>6, <2>7 DEF ImportsInv
<1> QED
  BY <1>2, <1>3, <1>4 DEF OpenDirectory

\* ImportsInv holds from the start on.
LEMMA ImportsInvariant == ImportsSpec => []ImportsInv
<1>1. Init => ImportsInv
  <2> SUFFICES ASSUME Init
               PROVE  ImportsInv
    OBVIOUS
  <2> QED
    BY DEF Init, ImportsInv, Passes, ReadsInside
<1>2. ImportsInv /\ [Next]_importVars => ImportsInv'
  <2> SUFFICES ASSUME ImportsInv, [Next]_importVars
               PROVE  ImportsInv'
    OBVIOUS
  <2>1. /\ UNCHANGED file /\ read' = read => ReadsInside'
        /\ \A a \in Addresses : \A at, size :
             /\ UNCHANGED file /\ read' = [at |-> at, size |-> size]
             /\ Offset(a) <= at /\ at + size <= Offset(a) + Available(a)
             => ReadsInside'
    BY DEF ImportsInv, ReadsInside, Offset, Available
  <2>9. ASSUME Walking, index < max_count, UNCHANGED file,
               read' = [at |-> SlotAt(index), size |-> DescriptorSize[pass]]
        PROVE  ReadsInside'
    <3>1. file.directory[pass] \in Addresses
      BY <2>9 DEF Walking
    <3> QED
      BY <2>1, <2>9, <3>1, SlotInside
  <2>10. ASSUME phase = "thunk", UNCHANGED file, NEW at, at = ThunkAt(thunk_rva, count),
                Readable(at, ThunkSize[file.bits]),
                read' = [at |-> Offset(at), size |-> ThunkSize[file.bits]]
         PROVE  ReadsInside'
    <3>1. at \in Addresses /\ Offset(at) \in Nat /\ Available(at) \in Nat
          /\ ThunkSize[file.bits] \in Nat
      BY <2>10, ThunkAddress, AnswerType, ImportsAssumption DEF ImportsInv, Walking
    <3>2. /\ Offset(at) <= Offset(at)
          /\ Offset(at) + ThunkSize[file.bits] <= Offset(at) + Available(at)
      BY <2>10, <3>1 DEF Readable
    <3> QED
      BY <2>1, <2>10, <3>1, <3>2
  <2>2. CASE OpenDirectory
    BY <2>2, OpenKeeps DEF OpenDirectory
  <2>3. ASSUME TableEnds
        PROVE  ImportsInv'
    <3>1. /\ UNCHANGED file /\ pass' \in Passes
          /\ phase' \in {"directory", "done"}
      BY <2>3 DEF TableEnds, PassEnds, ImportsInv, Passes
    <3>2. ReadsInside'
      BY <2>1, <2>3, <2>9, <3>1 DEF TableEnds, ImportsInv
    <3> QED
      BY <3>1, <3>2 DEF ImportsInv
  <2>4. ASSUME NextDescriptor
        PROVE  ImportsInv'
    <3>1. Walking /\ index < max_count
      BY <2>4 DEF NextDescriptor, ImportsInv
    <3>2. ReadsInside'
      BY <2>4, <2>9, <3>1 DEF NextDescriptor
    <3>3. Walking'
      <4>1. ChainOf(Slot(index)) \in Addresses
        BY <3>1, SlotInside DEF ChainOf, Descriptor
      <4> QED
        BY <2>4, <3>1, <4>1 DEF NextDescriptor, Walking, Available
    <3> QED
      BY <2>4, <3>2, <3>3 DEF NextDescriptor, ImportsInv
  <2>5. ASSUME ChainEnds
        PROVE  ImportsInv'
    <3>1. ReadsInside'
      BY <2>1, <2>5, <2>10 DEF ChainEnds
    <3>2. Walking'
      BY <2>5 DEF ChainEnds, ImportsInv, Walking, Available
    <3> QED
      BY <2>5, <3>1, <3>2 DEF ChainEnds, ImportsInv
  <2>6. ASSUME ThunkFails
        PROVE  ImportsInv'
    <3>1. ReadsInside'
      BY <2>1, <2>6, <2>10 DEF ThunkFails, Fails
    <3> QED
      BY <2>6, <3>1 DEF ThunkFails, Fails, ImportsInv
  <2>7. ASSUME WalkThunk
        PROVE  ImportsInv'
    <3>1. ReadsInside'
      BY <2>7, <2>10 DEF WalkThunk
    <3>2. Walking'
      BY <2>7 DEF WalkThunk, ImportsInv, Walking, Available
    <3> QED
      BY <2>7, <3>1, <3>2 DEF WalkThunk, ImportsInv
  <2>8. CASE UNCHANGED importVars
    BY <2>8 DEF importVars, ImportsInv, ReadsInside, Offset, Available, Walking
  <2> QED
    BY <2>2, <2>3, <2>4, <2>5, <2>6, <2>7, <2>8 DEF Next
<1> QED
  BY <1>1, <1>2, PTL DEF ImportsSpec

\* For any file, whatever its sections overlap or share: every descriptor and
\* every thunk that the enumerations read lies in the bytes that one answer of
\* fx_pe_rva_to_pointer vouches for (pe.c:385, 503-509, 563-569).
THEOREM ReadsAreInside == ImportsSpec => []ReadsInside
<1>1. ImportsInv => ReadsInside
  BY DEF ImportsInv
<1> QED
  BY <1>1, ImportsInvariant, PTL

-----------------------------------------------------------------------------
(* What the walk has called back for.                                      *)

\* A call from before the place that the walk has reached.
Before(c) ==
  \/ phase = "done"
  \/ pass = "delay" /\ c.pass = "imports"
  \/ /\ phase \in {"descriptor", "thunk"} /\ c.pass = pass
     /\ \/ c.index < index
        \/ phase = "thunk" /\ c.index = index /\ c.count < count
PassedOver(p, i) ==
  \/ phase = "done"
  \/ pass = "delay" /\ p = "imports"
  \/ phase \in {"descriptor", "thunk"} /\ p = pass /\ i < index

\* The chain of a descriptor has an end, and nothing before it ends the walk.
Complete(p, i) ==
  \E n \in 0 .. MaxThunks : /\ EndsAt(Start(p, i), n)
                            /\ \A m \in 0 .. (n - 1) : InChain(Start(p, i), m)

Made == {calls[k] : k \in 1 .. Len(calls)}
InOrder == /\ calls \in Seq(Expected)
           /\ \A k \in 1 .. (Len(calls) - 1) : Precedes(calls[k], calls[k + 1])
           /\ \A c \in Made, d \in Expected \ Made : Precedes(c, d)

\* The table goes as far as the answer for it and the limit, and did not end yet.
TableGoesOn ==
  phase \in {"descriptor", "thunk"} =>
    /\ file.directory[pass] > 0 /\ max_count <= MaxDlls
    /\ max_count < MaxDlls =>
         max_count = Available(file.directory[pass]) \div DescriptorSize[pass]
    /\ \A j \in 0 .. (index - 1) : ~Terminates(Slot(j))
\* Nor did the chain.
ChainGoesOn ==
  phase = "thunk" =>
    /\ Listed(pass, index) /\ thunk_rva = Start(pass, index)
    /\ count \in 0 .. MaxThunks
    /\ \A m \in 0 .. (count - 1) : InChain(thunk_rva, m)

\* Until an error ends it, the walk has called back for everything before the
\* place where it is, and for nothing else.
CallInv ==
  /\ InOrder /\ TableGoesOn /\ ChainGoesOn
  /\ phase # "failed" =>
       /\ Made = {c \in Expected : Before(c)}
       /\ \A p \in Passes, i \in 0 .. MaxDlls :
            PassedOver(p, i) /\ Listed(p, i) => Complete(p, i)

\* What should be listed is a matter of the file.
LEMMA FileDecides ==
  ASSUME UNCHANGED file
  PROVE  /\ \A a : Available(a)' = Available(a)
         /\ \A p, i : Listed(p, i)' <=> Listed(p, i)
         /\ \A p, i : Start(p, i)' = Start(p, i)
         /\ \A a, n : InChain(a, n)' <=> InChain(a, n)
         /\ \A p, i : Complete(p, i)' <=> Complete(p, i)
         /\ Expected' = Expected
<1>1. \A a : Available(a)' = Available(a) /\ Offset(a)' = Offset(a)
  BY DEF Available, Offset
<1>2. \A a, n : Readable(a, n)' <=> Readable(a, n)
  BY <1>1 DEF Readable
<1>3. \A a : Named(a)' <=> Named(a)
  BY <1>1 DEF Named
<1>4. \A p, i : Listed(p, i)' <=> Listed(p, i)
  <2>1. \A p, i : DescriptorOf(p, i)' = DescriptorOf(p, i)
    BY <1>1 DEF DescriptorOf
  <2>2. \A p, i : InTable(p, i)' <=> InTable(p, i)
    BY <1>2, <2>1 DEF InTable
  <2> QED BY <1>3, <2>1, <2>2 DEF Listed
<1>5. \A p, i : Start(p, i)' = Start(p, i)
  BY <1>1 DEF Start, ChainOf, DescriptorOf
<1>6. \A a, n : ThunkAt(a, n)' = ThunkAt(a, n) /\ ThunkOf(a)' = ThunkOf(a)
  BY <1>1 DEF ThunkAt, ThunkOf
<1>7. \A t : Callable(t)' <=> Callable(t)
  BY <1>2, <1>3 DEF Callable, NameReadable
<1>8. \A a, n : InChain(a, n)' <=> InChain(a, n)
  BY <1>2, <1>6, <1>7 DEF InChain
<1>9. \A a, n : EndsAt(a, n)' <=> EndsAt(a, n)
  BY <1>2, <1>6 DEF EndsAt, Ends
<1>10. \A p, i : Complete(p, i)' <=> Complete(p, i)
  BY <1>5, <1>8, <1>9 DEF Complete
<1>11. \A p, i, n : Call(p, i, n)' = Call(p, i, n)
  BY <1>5, <1>6 DEF Call
<1>12. \A p, i : CallsOf(p, i)' = CallsOf(p, i)
  BY <1>4, <1>5, <1>8, <1>11 DEF CallsOf
<1>13. Expected' = Expected
  BY <1>12 DEF Expected
<1> QED
  BY <1>1, <1>4, <1>5, <1>8, <1>10, <1>13

\* What a call that should be made is.
LEMMA ExpectedAre ==
  \A c : c \in Expected <=>
    \E p \in Passes, i \in 0 .. MaxDlls, n \in 0 .. MaxThunks :
      Listed(p, i) /\ InChain(Start(p, i), n) /\ c = Call(p, i, n)
<1>1. \A c : c \in Expected <=> \E p \in Passes, i \in 0 .. MaxDlls : c \in CallsOf(p, i)
  BY DEF Expected
<1>2. \A c, p, i : c \in CallsOf(p, i) <=>
        \E n \in 0 .. MaxThunks :
          Listed(p, i) /\ InChain(Start(p, i), n) /\ c = Call(p, i, n)
  BY DEF CallsOf
<1> QED BY <1>1, <1>2

\* An expected call is one of a usable descriptor and a thunk of its chain.
LEMMA CallFields ==
  ASSUME NEW c \in Expected
  PROVE  /\ c.pass \in Passes /\ c.index \in 0 .. MaxDlls /\ c.count \in 0 .. MaxThunks
         /\ Listed(c.pass, c.index) /\ InChain(Start(c.pass, c.index), c.count)
         /\ c = Call(c.pass, c.index, c.count)
<1>1. PICK p \in Passes, i \in 0 .. MaxDlls, n \in 0 .. MaxThunks :
        Listed(p, i) /\ InChain(Start(p, i), n) /\ c = Call(p, i, n)
  BY ExpectedAre
<1>2. c.pass = p /\ c.index = i /\ c.count = n
  BY <1>1 DEF Call
<1> QED BY <1>1, <1>2

\* In the order of the walk, what it has passed comes before what it has not.
LEMMA BeforePrecedes ==
  ASSUME NEW c \in Expected, NEW d \in Expected, Before(c), ~Before(d),
         pass \in Passes, index \in Nat, count \in Nat
  PROVE  Precedes(c, d)
<1>1. /\ c.pass \in {"imports", "delay"} /\ c.index \in Nat /\ c.count \in Nat
      /\ d.pass \in {"imports", "delay"} /\ d.index \in Nat /\ d.count \in Nat
  BY CallFields, ImportsAssumption DEF Passes
<1> QED
  BY <1>1 DEF Before, Precedes, Passes

\* A descriptor is in the table when none before it, nor itself, ends it.
LEMMA InTableGoesOn ==
  ASSUME NEW i \in Nat, NEW j \in 0 .. i, InTable(pass, i)
  PROVE  ~Terminates(Slot(j))
  BY DEF InTable, Terminates, DescriptorOf, Slot, SlotAt

\* The slot in work belongs to the table while the table goes on.
LEMMA IndexInTable ==
  ASSUME ImportsInv, TableGoesOn, phase \in {"descriptor", "thunk"},
         index < max_count, ~Terminates(Slot(index))
  PROVE  InTable(pass, index)
<1> DEFINE D == DescriptorSize[pass]
           dir == file.directory[pass]
<1>1. /\ D \in Nat \ {0} /\ dir \in Addresses /\ dir > 0 /\ index \in Nat /\ max_count \in Nat
      /\ max_count * D <= Available(dir) /\ max_count <= MaxDlls /\ MaxDlls \in Nat
  BY ImportsAssumption DEF ImportsInv, Walking, TableGoesOn
<1>2. Available(dir) \in Nat
  BY <1>1, AnswerType DEF ImportsInv
<1>3. Readable(dir, (index + 1) * D)
  <2> HIDE DEF D, dir
  <2>1. PICK d \in Nat : max_count = index + 1 + d
    <3>1. max_count - index - 1 \in Nat
          /\ max_count = index + 1 + (max_count - index - 1)
      BY <1>1
    <3> QED BY <3>1
  <2>2. max_count * D = (index + 1) * D + d * D
    BY <1>1, <2>1
  <2>3. d * D \in Nat /\ (index + 1) * D \in Nat
    BY <1>1
  <2> QED
    BY <1>1, <1>2, <2>2, <2>3 DEF Readable
<1>4. \A j \in 0 .. index : ~Terminates(Slot(j))
  <2>1. \A j \in 0 .. index : j \in 0 .. (index - 1) \/ j = index
    BY <1>1
  <2> QED BY <2>1 DEF TableGoesOn
<1>5. dir \notin {0, NoDirectory} /\ index < MaxDlls
  <2>1. dir \in Nat
    BY <1>1, AnswerType DEF ImportsInv
  <2> HIDE DEF dir, D
  <2> QED BY <1>1, <2>1 DEF NoDirectory
<1> QED
  BY <1>3, <1>4, <1>5 DEF InTable, Terminates, DescriptorOf, Slot, SlotAt

\* Behind the end of the table nothing is to be listed.
LEMMA BehindTheTable ==
  ASSUME ImportsInv, TableGoesOn, phase = "descriptor",
         index = max_count \/ (index < max_count /\ Terminates(Slot(index))),
         NEW i \in Nat, i >= index
  PROVE  ~Listed(pass, i)
<1> DEFINE D == DescriptorSize[pass]
           dir == file.directory[pass]
<1>1. /\ D \in Nat \ {0} /\ dir \in Addresses /\ index \in Nat /\ max_count \in Nat
      /\ max_count <= MaxDlls /\ MaxDlls \in Nat
      /\ max_count < MaxDlls => max_count = Available(dir) \div D
  BY ImportsAssumption DEF ImportsInv, Walking, TableGoesOn
<1>2. Available(dir) \in Nat
  BY <1>1, AnswerType DEF ImportsInv
<1> SUFFICES ASSUME InTable(pass, i) PROVE FALSE
  BY DEF Listed
<1>3. CASE index < max_count /\ Terminates(Slot(index))
  BY <1>1, <1>3, InTableGoesOn
<1>4. CASE index = max_count
  <2>1. i < MaxDlls /\ (i + 1) * D <= Available(dir)
    BY DEF InTable, Readable
  <2>2. max_count = Available(dir) \div D
    BY <1>1, <1>4, <2>1
  <2> DEFINE a == Available(dir)
             q == a \div D
  <2> HIDE DEF D, dir
  <2>3. a \in Nat /\ q \in Nat /\ a < (q + 1) * D
    <3> HIDE DEF a
    <3> QED BY <1>1, <1>2, SMT DEF a
  <2>4. PICK d \in Nat : i = q + d
    <3>1. i - q \in Nat /\ i = q + (i - q)
      BY <1>1, <1>4, <2>2, <2>3
    <3> QED BY <3>1
  <2> HIDE DEF a, q
  <2>5. (i + 1) * D = (q + 1) * D + d * D /\ d * D \in Nat /\ (q + 1) * D \in Nat
    BY <1>1, <2>3, <2>4
  <2> QED BY <1>1, <2>1, <2>3, <2>5 DEF a
<1> QED BY <1>3, <1>4

\* An enumeration that fails keeps the calls it made.
LEMMA FailureKeepsCalls ==
  ASSUME CallInv, UNCHANGED <<file, calls>>, phase' = "failed"
  PROVE  CallInv'
<1>1. Expected' = Expected
  BY FileDecides
<1>2. InOrder'
  BY <1>1 DEF CallInv, InOrder, Made, Precedes
<1> QED BY <1>2 DEF CallInv, TableGoesOn, ChainGoesOn

\* A step that makes no call may move on past what has none.
LEMMA MoveKeepsCalls ==
  ASSUME CallInv, UNCHANGED <<file, calls>>, phase # "failed",
         TableGoesOn', ChainGoesOn',
         \A c \in Expected : Before(c)' <=> Before(c),
         \A p \in Passes, i \in 0 .. MaxDlls :
           PassedOver(p, i)' /\ Listed(p, i) => Complete(p, i)
  PROVE  CallInv'
<1>1. /\ Expected' = Expected
      /\ \A p, i : Listed(p, i)' <=> Listed(p, i)
      /\ \A p, i : Complete(p, i)' <=> Complete(p, i)
  BY FileDecides
<1>2. InOrder'
  BY <1>1 DEF CallInv, InOrder, Made, Precedes
<1>3. Made' = {c \in Expected' : Before(c)'}
  BY <1>1 DEF CallInv, Made
<1>4. \A p \in Passes, i \in 0 .. MaxDlls :
        PassedOver(p, i)' /\ Listed(p, i)' => Complete(p, i)'
  BY <1>1
<1> QED BY <1>2, <1>3, <1>4 DEF CallInv

\* The end of a pass, when nothing of it is left to be listed.
LEMMA PassEndKeepsCalls ==
  ASSUME CallInv, pass \in Passes, phase \in {"directory", "descriptor"},
         PassEnds, \A i \in 0 .. MaxDlls :
                     Listed(pass, i) => phase = "descriptor" /\ i < index
  PROVE  CallInv'
<1>1. phase' \in {"directory", "done"} /\ UNCHANGED <<file, calls>> /\ phase # "failed"
  BY DEF PassEnds
<1>2. TableGoesOn' /\ ChainGoesOn'
  BY <1>1 DEF TableGoesOn, ChainGoesOn
<1>3. ASSUME NEW c \in Expected PROVE Before(c)' <=> Before(c)
  <2>1. c.pass \in Passes /\ (c.pass = pass => phase = "descriptor" /\ c.index < index)
    BY CallFields
  <2> QED BY <2>1 DEF PassEnds, Before, Passes
<1>4. ASSUME NEW p \in Passes, NEW i \in 0 .. MaxDlls, PassedOver(p, i)', Listed(p, i)
      PROVE  Complete(p, i)
  <2>1. PassedOver(p, i)
    BY <1>4 DEF PassEnds, PassedOver, Passes
  <2> QED BY <1>1, <1>4, <2>1 DEF CallInv
<1> QED BY <1>1, <1>2, <1>3, <1>4, MoveKeepsCalls

\* The table is the same one while its chains are walked.
LEMMA TableStays ==
  ASSUME TableGoesOn, phase \in {"descriptor", "thunk"},
         UNCHANGED <<file, pass, max_count>>,
         \A j \in 0 .. (index' - 1) : ~Terminates(Slot(j))
  PROVE  TableGoesOn'
<1>1. \A a : Available(a)' = Available(a)
  BY FileDecides
<1>2. \A j : Terminates(Slot(j))' <=> Terminates(Slot(j))
  BY <1>1, Zenon DEF Terminates, Slot, SlotAt, Offset
<1> QED BY <1>1, <1>2 DEF TableGoesOn

\* A table that is opened begins with its first descriptor.
LEMMA OpenKeepsCalls ==
  ASSUME ImportsInv, CallInv, OpenDirectory
  PROVE  CallInv'
<1> DEFINE rva == file.directory[pass]
           q == Available(rva) \div DescriptorSize[pass]
<1>1. phase = "directory" /\ UNCHANGED <<file, calls>> /\ pass \in Passes
      /\ MaxDlls \in Nat
  BY ImportsAssumption DEF OpenDirectory, Fails, PassEnds, ImportsInv
<1>2. CASE Fails
  BY <1>1, <1>2, FailureKeepsCalls DEF Fails
<1>3. CASE rva = 0 /\ PassEnds
  <2>1. \A i \in 0 .. MaxDlls : ~Listed(pass, i)
    BY <1>3 DEF Listed, InTable
  <2> QED BY <1>1, <1>3, <2>1, PassEndKeepsCalls
<1>4. CASE /\ rva > 0 /\ Readable(rva, DescriptorSize[pass])
           /\ phase' = "descriptor" /\ index' = 0 /\ max_count' = Smaller(MaxDlls, q)
           /\ UNCHANGED <<file, pass, thunk_rva, count, calls>>
  <2>1. q \in Int
    <3>1. /\ rva \in Addresses /\ DescriptorSize[pass] \in Nat \ {0}
      BY <1>1, <1>4, ImportsAssumption DEF ImportsInv, NoDirectory
    <3>2. Available(rva) \in Nat
      BY <3>1, AnswerType DEF ImportsInv
    <3> HIDE DEF rva
    <3> QED BY <3>1, <3>2
  <2>2. max_count' <= MaxDlls /\ (max_count' < MaxDlls => max_count' = q)
    <3> HIDE DEF q
    <3> QED BY <1>1, <1>4, <2>1 DEF Smaller
  <2>3. TableGoesOn'
    <3>1. \A a : Available(a)' = Available(a)
      BY <1>1, FileDecides
    <3>2. max_count' < MaxDlls =>
            max_count' = Available(file.directory[pass])' \div DescriptorSize[pass]'
      BY <1>1, <1>4, <2>2, <3>1
    <3> QED BY <1>4, <2>2, <3>2 DEF TableGoesOn
  <2>4. ChainGoesOn'
    BY <1>4 DEF ChainGoesOn
  <2>5. ASSUME NEW c \in Expected PROVE Before(c)' <=> Before(c)
    <3>1. c.index \in Nat
      BY <1>1, CallFields
    <3> QED BY <1>1, <1>4, <3>1 DEF Before
  <2>6. ASSUME NEW p \in Passes, NEW i \in 0 .. MaxDlls, PassedOver(p, i)', Listed(p, i)
        PROVE  Complete(p, i)
    <3>1. PassedOver(p, i)
      BY <1>1, <1>4, <2>6 DEF PassedOver
    <3> QED BY <1>1, <2>6, <3>1 DEF CallInv
  <2> QED BY <1>1, <2>3, <2>4, <2>5, <2>6, MoveKeepsCalls
<1> QED BY <1>2, <1>3, <1>4 DEF OpenDirectory

\* A descriptor is listed exactly when its chain is walked.
LEMMA UsableIsListed ==
  ASSUME ImportsInv, CallInv, phase = "descriptor", index < max_count,
         ~Terminates(Slot(index))
  PROVE  /\ Listed(pass, index) <=> Usable(Slot(index))
         /\ Start(pass, index) = ChainOf(Slot(index))
<1>1. InTable(pass, index)
  BY IndexInTable DEF CallInv
<1>2. pass \in Passes
  BY DEF ImportsInv
<1>3. Start(pass, index) = ChainOf(Slot(index))
  BY DEF Start, DescriptorOf, Slot, SlotAt
<1> DEFINE d == Slot(index)
<1>4. Listed(pass, index) <=> /\ d.name # 0 /\ Named(d.name)
                              /\ {d.table, d.fallback} # {0}
                              /\ pass = "delay" => d.rvas
  BY <1>1 DEF Listed, DescriptorOf, Slot, SlotAt
<1> HIDE DEF d
<1>5. {d.table, d.fallback} # {0} <=> ChainOf(d) # 0
  BY DEF ChainOf
<1>6. (pass = "delay" => d.rvas) <=> (pass = "imports" \/ d.rvas)
  BY <1>2 DEF Passes
<1> QED BY <1>3, <1>4, <1>5, <1>6 DEF Usable, d

\* Going to the next descriptor puts the whole chain behind.
LEMMA DescriptorKeepsCalls ==
  ASSUME ImportsInv, CallInv, NextDescriptor
  PROVE  CallInv'
<1>1. /\ phase = "descriptor" /\ index < max_count /\ ~Terminates(Slot(index))
      /\ UNCHANGED <<file, pass, max_count, calls>> /\ pass \in Passes /\ index \in Nat
      /\ MaxDlls \in Nat /\ MaxThunks \in Nat
  BY ImportsAssumption DEF NextDescriptor, ImportsInv, Walking
<1>2. \A j \in 0 .. (index' - 1) : ~Terminates(Slot(j))
  <2>1. index' \in {index, index + 1}
    BY DEF NextDescriptor
  <2>2. \A j \in 0 .. (index - 1) : ~Terminates(Slot(j))
    BY <1>1 DEF CallInv, TableGoesOn
  <2>3. CASE index' = index
    BY <2>2, <2>3
  <2>4. CASE index' = index + 1
    <3>1. \A j \in 0 .. index : j \in 0 .. (index - 1) \/ j = index
      BY <1>1
    <3> QED BY <1>1, <2>2, <2>4, <3>1
  <2> QED BY <2>1, <2>3, <2>4
<1>3. TableGoesOn'
  BY <1>1, <1>2, TableStays DEF CallInv
<1>4. CASE Usable(Slot(index))
  <2>1. /\ phase' = "thunk" /\ thunk_rva' = ChainOf(Slot(index)) /\ count' = 0
        /\ index' = index
    BY <1>4 DEF NextDescriptor
  <2>2. ChainGoesOn'
    <3>1. Listed(pass, index)' /\ Start(pass, index)' = thunk_rva'
      BY <1>1, <1>4, <2>1, UsableIsListed, FileDecides
    <3> QED BY <1>1, <2>1, <3>1 DEF ChainGoesOn
  <2>3. ASSUME NEW c \in Expected PROVE Before(c)' <=> Before(c)
    <3>1. c.count \in Nat /\ c.index \in Nat
      BY <1>1, CallFields
    <3> QED BY <1>1, <2>1, <3>1 DEF Before
  <2>4. ASSUME NEW p \in Passes, NEW i \in 0 .. MaxDlls, PassedOver(p, i)', Listed(p, i)
        PROVE  Complete(p, i)
    <3>1. PassedOver(p, i)
      BY <1>1, <2>1, <2>4 DEF PassedOver
    <3> QED BY <1>1, <2>4, <3>1 DEF CallInv
  <2> QED BY <1>1, <1>3, <2>2, <2>3, <2>4, MoveKeepsCalls
<1>5. CASE ~Usable(Slot(index))
  <2>1. phase' = phase /\ index' = index + 1 /\ ~Listed(pass, index)
    BY <1>1, <1>5, UsableIsListed DEF NextDescriptor
  <2>2. ChainGoesOn'
    BY <1>1, <2>1 DEF ChainGoesOn
  <2>3. ASSUME NEW c \in Expected PROVE Before(c)' <=> Before(c)
    <3>1. c.index \in Nat /\ (c.pass = pass => c.index # index)
      BY <1>1, <2>1, CallFields
    <3> QED BY <1>1, <2>1, <3>1 DEF Before
  <2>4. ASSUME NEW p \in Passes, NEW i \in 0 .. MaxDlls, PassedOver(p, i)', Listed(p, i)
        PROVE  Complete(p, i)
    <3>1. PassedOver(p, i)
      BY <1>1, <2>1, <2>4 DEF PassedOver
    <3> QED BY <1>1, <2>4, <3>1 DEF CallInv
  <2> QED BY <1>1, <1>3, <2>2, <2>3, <2>4, MoveKeepsCalls
<1> QED BY <1>4, <1>5

\* A chain that ends, at its end or at the limit, was called back for whole.
LEMMA ChainEndKeepsCalls ==
  ASSUME ImportsInv, CallInv, ChainEnds
  PROVE  CallInv'
<1>1. /\ phase = "thunk" /\ phase' = "descriptor" /\ index' = index + 1
      /\ UNCHANGED <<file, pass, max_count, calls>> /\ pass \in Passes /\ index \in Nat
      /\ index < max_count /\ MaxDlls \in Nat /\ MaxThunks \in Nat
  BY ImportsAssumption DEF ChainEnds, ImportsInv, Walking
<1>2. /\ Listed(pass, index) /\ thunk_rva = Start(pass, index)
      /\ count \in 0 .. MaxThunks
      /\ \A m \in 0 .. (count - 1) : InChain(Start(pass, index), m)
  BY <1>1 DEF CallInv, ChainGoesOn
<1>3. EndsAt(Start(pass, index), count)
  BY <1>2 DEF ChainEnds, EndsAt
<1>4. \A n \in Nat : InChain(Start(pass, index), n) => n < count
  <2> SUFFICES ASSUME NEW n \in Nat, InChain(Start(pass, index), n), ~(n < count)
               PROVE  FALSE
    OBVIOUS
  <2>1. n < MaxThunks /\ count \in 0 .. n /\ count # MaxThunks
    BY <1>1, <1>2 DEF InChain
  <2>2. Callable(ThunkOf(ThunkAt(Start(pass, index), count)))
    BY <2>1 DEF InChain
  <2>3. Ends(ThunkOf(ThunkAt(Start(pass, index), count)))
    BY <1>3, <2>1 DEF EndsAt
  <2> QED BY <2>2, <2>3 DEF Callable, Ends
<1>5. \A j \in 0 .. (index' - 1) : ~Terminates(Slot(j))
  <2>1. InTable(pass, index)
    BY <1>2 DEF Listed
  <2> QED BY <1>1, <2>1, InTableGoesOn
<1>6. TableGoesOn'
  BY <1>1, <1>5, TableStays DEF CallInv
<1>7. ChainGoesOn'
  BY <1>1 DEF ChainGoesOn
<1>8. ASSUME NEW c \in Expected PROVE Before(c)' <=> Before(c)
  <2>1. /\ c.index \in Nat /\ c.count \in Nat
        /\ c.pass = pass /\ c.index = index => c.count < count
    BY <1>1, <1>4, CallFields
  <2> QED BY <1>1, <2>1 DEF Before
<1>9. ASSUME NEW p \in Passes, NEW i \in 0 .. MaxDlls, PassedOver(p, i)', Listed(p, i)
      PROVE  Complete(p, i)
  <2>1. PassedOver(p, i) \/ (p = pass /\ i = index)
    BY <1>1, <1>9 DEF PassedOver
  <2>2. Complete(pass, index)
    BY <1>2, <1>3 DEF Complete
  <2> QED BY <1>1, <1>9, <2>1, <2>2 DEF CallInv
<1> QED BY <1>1, <1>6, <1>7, <1>8, <1>9, MoveKeepsCalls

\* What the walk calls back for is the next call that should be made.
LEMMA NextCall ==
  ASSUME ImportsInv, CallInv, WalkThunk
  PROVE  /\ Call(pass, index, count) \in Expected
         /\ calls' = Append(calls, Call(pass, index, count))
         /\ \A c \in Expected : Before(c)' <=> Before(c) \/ c = Call(pass, index, count)
         /\ ~Before(Call(pass, index, count))
<1> DEFINE c0 == Call(pass, index, count)
<1>1. /\ phase = "thunk" /\ count < MaxThunks /\ count' = count + 1
      /\ UNCHANGED <<file, pass, phase, index>> /\ pass \in Passes /\ index \in Nat
      /\ MaxDlls \in Nat /\ MaxThunks \in Nat
  BY ImportsAssumption DEF WalkThunk, ImportsInv, Walking
<1>2. /\ Listed(pass, index) /\ thunk_rva = Start(pass, index)
      /\ count \in 0 .. MaxThunks
      /\ \A m \in 0 .. (count - 1) : InChain(Start(pass, index), m)
  BY <1>1 DEF CallInv, ChainGoesOn
<1>3. index < MaxDlls
  BY <1>2 DEF Listed, InTable
<1>4. InChain(Start(pass, index), count)
  <2>1. /\ Readable(ThunkAt(thunk_rva, count), ThunkSize[file.bits])
        /\ Callable(ThunkOf(ThunkAt(thunk_rva, count)))
    BY DEF WalkThunk
  <2>2. ASSUME NEW m \in 0 .. count
        PROVE  /\ Readable(ThunkAt(thunk_rva, m), ThunkSize[file.bits])
               /\ Callable(ThunkOf(ThunkAt(thunk_rva, m)))
    <3>1. CASE m = count
      BY <2>1, <3>1
    <3>2. CASE m # count
      <4>1. m \in 0 .. (count - 1) /\ m \in 0 .. m
        BY <1>2, <3>2
      <4>2. InChain(thunk_rva, m)
        BY <1>2, <4>1
      <4> QED BY <4>1, <4>2 DEF InChain
    <3> QED BY <3>1, <3>2
  <2> QED BY <1>1, <1>2, <2>2 DEF InChain
<1>5. c0 \in Expected
  <2>1. index \in 0 .. MaxDlls
    BY <1>1, <1>3
  <2> QED BY <1>1, <1>2, <1>4, <2>1, ExpectedAre
<1>6. calls' = Append(calls, c0)
  BY <1>2 DEF WalkThunk, Call
<1>7. c0.pass = pass /\ c0.index = index /\ c0.count = count
  BY DEF Call
<1>8. ASSUME NEW c \in Expected PROVE Before(c)' <=> Before(c) \/ c = c0
  <2>1. /\ c.index \in Nat /\ c.count \in Nat
        /\ c = Call(c.pass, c.index, c.count)
    BY <1>1, CallFields
  <2>2. c = c0 <=> c.pass = pass /\ c.index = index /\ c.count = count
    BY <1>7, <2>1
  <2> HIDE DEF c0
  <2> QED BY <1>1, <1>2, <2>1, <2>2 DEF Before
<1>9. ~Before(c0)
  <2> HIDE DEF c0
  <2> QED BY <1>1, <1>2, <1>7 DEF Before, Passes
<1> QED BY <1>5, <1>6, <1>8, <1>9

\* A call that is made keeps the order, and is the only new one.
LEMMA WalkKeepsCalls ==
  ASSUME ImportsInv, CallInv, WalkThunk
  PROVE  CallInv'
<1> DEFINE c0 == Call(pass, index, count)
<1>1. /\ phase = "thunk" /\ count < MaxThunks /\ count' = count + 1
      /\ UNCHANGED <<file, pass, phase, max_count, index, thunk_rva>> /\ pass \in Passes
      /\ index \in Nat /\ MaxDlls \in Nat /\ MaxThunks \in Nat
  BY ImportsAssumption DEF WalkThunk, ImportsInv, Walking
<1>2. /\ Listed(pass, index) /\ thunk_rva = Start(pass, index)
      /\ count \in 0 .. MaxThunks
      /\ \A m \in 0 .. (count - 1) : InChain(thunk_rva, m)
  BY <1>1 DEF CallInv, ChainGoesOn
<1>3. /\ c0 \in Expected /\ calls' = Append(calls, c0) /\ ~Before(c0)
      /\ \A c \in Expected : Before(c)' <=> Before(c) \/ c = c0
  BY NextCall
<1>4. /\ Expected' = Expected
      /\ \A p, i : Listed(p, i)' <=> Listed(p, i)
      /\ \A p, i : Start(p, i)' = Start(p, i)
      /\ \A a, n : InChain(a, n)' <=> InChain(a, n)
      /\ \A p, i : Complete(p, i)' <=> Complete(p, i)
  BY <1>1, FileDecides
<1>5. c0.pass = pass /\ c0.index = index /\ c0.count = count
  BY DEF Call
<1>6. InChain(thunk_rva, count)
  BY <1>2, <1>3, <1>5, CallFields
<1> HIDE DEF c0
<1>7. /\ calls \in Seq(Expected) /\ Made = {c \in Expected : Before(c)}
      /\ \A k \in 1 .. (Len(calls) - 1) : Precedes(calls[k], calls[k + 1])
      /\ \A c \in Made, d \in Expected \ Made : Precedes(c, d)
  BY <1>1 DEF CallInv, InOrder
<1>8. /\ Len(calls) \in Nat /\ Len(calls') = Len(calls) + 1
      /\ \A k \in 1 .. Len(calls) : calls'[k] = calls[k] /\ calls[k] \in Made
      /\ calls'[Len(calls) + 1] = c0 /\ calls' \in Seq(Expected)
  <2> HIDE DEF Expected
  <2> QED BY <1>3, <1>7 DEF Made
<1>9. Made' = Made \cup {c0}
  BY <1>8 DEF Made
<1>10. ASSUME NEW d \in Expected, ~Before(d), d # c0 PROVE Precedes(c0, d)
  <2>1. /\ d.pass \in Passes /\ d.index \in Nat /\ d.count \in Nat
        /\ d = Call(d.pass, d.index, d.count)
    BY <1>1, CallFields
  <2>2. ~(d.pass = pass /\ d.index = index /\ d.count = count)
    BY <1>10, <2>1 DEF c0
  <2> QED BY <1>1, <1>2, <1>5, <1>10, <2>1, <2>2 DEF Before, Precedes, Passes
<1>11. InOrder'
  <2>1. ASSUME NEW k \in 1 .. (Len(calls') - 1)
        PROVE  Precedes(calls'[k], calls'[k + 1])
    <3>1. CASE k = Len(calls)
      <4>1. calls'[k] \in Made /\ calls'[k + 1] = c0
        BY <1>8, <2>1, <3>1
      <4> QED BY <1>3, <1>7, <4>1
    <3>2. CASE k # Len(calls)
      <4>1. k \in 1 .. (Len(calls) - 1) /\ k \in 1 .. Len(calls) /\ k + 1 \in 1 .. Len(calls)
        BY <1>8, <2>1, <3>2
      <4>2. Precedes(calls[k], calls[k + 1]) /\ calls'[k] = calls[k]
            /\ calls'[k + 1] = calls[k + 1]
        BY <1>7, <1>8, <4>1
      <4> QED BY <4>2
    <3> QED BY <3>1, <3>2
  <2>2. ASSUME NEW c \in Made', NEW d \in Expected \ Made' PROVE Precedes(c, d)
    <3>1. d \in Expected \ Made /\ d # c0 /\ ~Before(d)
      BY <1>7, <1>9, <2>2
    <3> QED BY <1>7, <1>9, <1>10, <2>2, <3>1
  <2>3. \A c, d : Precedes(c, d)' <=> Precedes(c, d)
    BY DEF Precedes
  <2> QED BY <1>4, <1>8, <2>1, <2>2, <2>3 DEF InOrder
<1>12. TableGoesOn'
  <2>1. \A j \in 0 .. (index' - 1) : ~Terminates(Slot(j))
    BY <1>1 DEF CallInv, TableGoesOn
  <2> QED BY <1>1, <2>1, TableStays DEF CallInv
<1>13. ChainGoesOn'
  <2>1. count' \in 0 .. MaxThunks
    BY <1>1, <1>2
  <2>2. ASSUME NEW m \in 0 .. (count' - 1) PROVE InChain(thunk_rva, m)
    <3>1. m \in 0 .. (count - 1) \/ m = count
      BY <1>1, <1>2
    <3> QED BY <1>2, <1>6, <3>1
  <2> QED BY <1>1, <1>2, <1>4, <2>1, <2>2 DEF ChainGoesOn
<1>14. Made' = {c \in Expected' : Before(c)'}
  BY <1>3, <1>4, <1>7, <1>9
<1>15. ASSUME NEW p \in Passes, NEW i \in 0 .. MaxDlls, PassedOver(p, i)', Listed(p, i)'
       PROVE  Complete(p, i)'
  <2>1. PassedOver(p, i) /\ Listed(p, i)
    BY <1>1, <1>4, <1>15 DEF PassedOver
  <2> QED BY <1>1, <1>4, <2>1 DEF CallInv
<1> QED BY <1>11, <1>12, <1>13, <1>14, <1>15 DEF CallInv

\* At the end of a table all its calls were made.
LEMMA TableEndKeepsCalls ==
  ASSUME ImportsInv, CallInv, TableEnds
  PROVE  CallInv'
<1>1. /\ phase = "descriptor" /\ PassEnds /\ pass \in Passes /\ index \in Nat
      /\ index = max_count \/ (index < max_count /\ Terminates(Slot(index)))
      /\ MaxDlls \in Nat
  BY ImportsAssumption DEF TableEnds, ImportsInv, Walking
<1>2. ASSUME NEW i \in 0 .. MaxDlls, Listed(pass, i) PROVE i < index
  <2>1. i >= index => ~Listed(pass, i)
    BY <1>1, BehindTheTable DEF CallInv
  <2> QED BY <1>1, <1>2, <2>1
<1> QED BY <1>1, <1>2, PassEndKeepsCalls

\* CallInv holds from the start on.
LEMMA CallInvariant == ImportsSpec => []CallInv
<1>1. Init => CallInv
  <2> SUFFICES ASSUME Init PROVE CallInv
    OBVIOUS
  <2>1. calls = <<>> /\ phase = "directory" /\ pass = "imports"
    BY DEF Init
  <2>2. Made = {}
    BY <2>1 DEF Made
  <2>3. calls \in Seq(Expected) /\ Len(calls) = 0
    <3> HIDE DEF Expected
    <3> QED BY <2>1
  <2>4. InOrder
    BY <2>2, <2>3 DEF InOrder
  <2>5. \A c \in Expected : ~Before(c)
    BY <2>1 DEF Before
  <2>6. \A p, i : ~PassedOver(p, i)
    BY <2>1 DEF PassedOver
  <2> QED BY <2>1, <2>2, <2>4, <2>5, <2>6 DEF CallInv, TableGoesOn, ChainGoesOn
<1>2. ImportsInv /\ CallInv /\ [Next]_importVars => CallInv'
  <2> SUFFICES ASSUME ImportsInv, CallInv, [Next]_importVars
               PROVE  CallInv'
    OBVIOUS
  <2>1. CASE ThunkFails
    BY <2>1, FailureKeepsCalls DEF ThunkFails, Fails
  <2>2. CASE UNCHANGED importVars
    <3>1. UNCHANGED <<file, pass, phase, max_count, index, thunk_rva, count, calls>>
      BY <2>2 DEF importVars
    <3>2. phase = "failed" => CallInv'
      BY <3>1, FailureKeepsCalls
    <3>3. TableGoesOn'
      BY <3>1, TableStays DEF CallInv, TableGoesOn
    <3>4. ChainGoesOn'
      BY <3>1, FileDecides DEF CallInv, ChainGoesOn
    <3>5. \A c : Before(c)' <=> Before(c)
      BY <3>1 DEF Before
    <3>6. \A p, i : PassedOver(p, i)' <=> PassedOver(p, i)
      BY <3>1 DEF PassedOver
    <3>7. phase # "failed" => \A p \in Passes, i \in 0 .. MaxDlls :
                                PassedOver(p, i)' /\ Listed(p, i) => Complete(p, i)
      BY <3>6 DEF CallInv
    <3> QED BY <3>1, <3>2, <3>3, <3>4, <3>5, <3>7, MoveKeepsCalls
  <2> QED
    BY <2>1, <2>2, OpenKeepsCalls, TableEndKeepsCalls, DescriptorKeepsCalls,
       ChainEndKeepsCalls, WalkKeepsCalls DEF Next
<1> QED BY <1>1, <1>2, ImportsInvariant, PTL DEF ImportsSpec

\* For any file: the callback is invoked once per imported function, in the
\* order of the tables, for everything before the place where the walk is and
\* for nothing else; a walk that succeeds has listed every import there is and
\* broke off no chain (pe.h:94; pe.c:370-603).
THEOREM CallsAreExact == ImportsSpec => []CallsExact
<1>1. CallInv => CallsExact
  <2> SUFFICES ASSUME CallInv PROVE CallsExact
    OBVIOUS
  <2>1. Made \subseteq Expected
    <3>1. calls \in Seq(Expected)
      BY DEF CallInv, InOrder
    <3> HIDE DEF Expected
    <3>2. \A k \in 1 .. Len(calls) : calls[k] \in Expected
      BY <3>1
    <3> QED BY <3>2 DEF Made
  <2>2. ASSUME phase = "done"
        PROVE  /\ Made = Expected
               /\ \A p \in Passes, i \in 0 .. MaxDlls : Listed(p, i) => Complete(p, i)
    <3>1. /\ \A c : Before(c)
          /\ \A p, i : PassedOver(p, i)
      BY <2>2 DEF Before, PassedOver
    <3> QED BY <2>2, <3>1 DEF CallInv
  <2> QED BY <2>1, <2>2 DEF CallInv, InOrder, CallsExact, Made, Complete
<1> QED BY <1>1, CallInvariant, PTL
=============================================================================
