------------------------------ MODULE HashFile ------------------------------
(***************************************************************************)
(* One call of fx_hash_file (FileXRay/hash.c): the contexts it acquires    *)
(* for the chosen algorithms, the buffers it reads and feeds to all of     *)
(* them, the digests it writes, and what it gives back, wherever it fails. *)
(* PageHash has the call among its threads; here are its resources and     *)
(* its results.                                                            *)
(*                                                                         *)
(* A word of the two checksums, and a byte, is the set of its bits that    *)
(* are one, at the width it has in the code.  What CNG computes is not     *)
(* modelled: a digest is the bytes the context was fed.                    *)
(* A variant before the definition it varies is a fault no specification   *)
(* uses; README.md says which property rejects it.                         *)
(***************************************************************************)
EXTENDS Integers, Sequences

CONSTANTS
  Selections,  \* the sets of algorithms the user may choose
  Buffers,     \* bound: what one ReadFile may return
  MaxBytes     \* bound: it returns nothing after so many

VARIABLES
  phase,
  hash_mask,
  fields,      \* the members of the contexts, file and buffer that are not NULL
  opened,      \* all that was ever acquired
  closed,      \* how often each of it was released
  todo,        \* what the failure path at work still releases
  content,     \* the bytes ReadFile returned
  fed,         \* to each CNG context
  crc,         \* crc32 and crc64
  result,      \* digests and completed_mask
  hr

hashFileVars == <<phase, hash_mask, fields, opened, closed, todo, content, fed,
                  crc, result, hr>>

-----------------------------------------------------------------------------
(* The checksums.                                                          *)

Checksums == {"crc32", "crc64"}
Ones == [crc32 |-> 0 .. 31, crc64 |-> 0 .. 63]
\* 0xedb88320 and FX_CRC64_POLY
Polynomial ==
  [crc32 |-> {5, 8, 9, 15, 19, 20, 21, 23, 24, 26, 27, 29, 30, 31},
   crc64 |-> {1, 6, 8, 9, 10, 11, 16, 17, 18, 23, 24, 25, 26, 28, 30, 31, 32, 34,
              36, 39, 40, 41, 42, 44, 46, 50, 51, 53, 54, 56, 59, 62, 63}]
Byte == SUBSET (0 .. 7)

Xor(a, b) == (a \ b) \cup (b \ a)
Shifted(a, n) == {bit - n : bit \in {b \in a : b >= n}}

\* fx_crc32_table, fx_crc64_table
TableEntry(c, byte) ==
  LET after[n \in 0 .. 8] ==
        IF n = 0 THEN byte
        ELSE LET word == after[n - 1]
             IN  IF 0 \in word THEN Xor(Shifted(word, 1), Polynomial[c])
                 ELSE Shifted(word, 1)
  IN  after[8]
Table == [c \in Checksums |-> [byte \in Byte |-> TableEntry(c, byte)]]

\* fx_crc32_update, fx_crc64_update
Update(c, word, data) ==
  LET after[n \in 0 .. Len(data)] ==
        IF n = 0 THEN word
        ELSE LET last == after[n - 1]
             IN  Xor(Table[c][Xor(last, data[n]) \cap (0 .. 7)], Shifted(last, 8))
  IN  after[Len(data)]

-----------------------------------------------------------------------------
(* What the call acquires.                                                 *)

Contexts == <<"md5", "sha1", "sha256", "sha512">>
Context == {Contexts[i] : i \in DOMAIN Contexts}
FinishOrder == <<"md5", "sha1", "crc32", "crc64", "sha256", "sha512">>
Algorithms == Context \cup Checksums

ASSUME HashAssumption ==
  /\ Selections \subseteq SUBSET Algorithms
  /\ Buffers \subseteq Seq(Byte)

Owners == Contexts \o <<"file", "buffer">>
Parts == <<"algorithm", "object", "hash">>
FreedOwners == <<"buffer", "file">> \o Contexts
FreedParts == <<"hash", "object", "algorithm">>
Resources == (Context \X {Parts[i] : i \in DOMAIN Parts})
             \cup {<<"file", "handle">>, <<"buffer", "memory">>}

Ahead(order, x, y) ==
  \E i, j \in DOMAIN order : i < j /\ order[i] = x /\ order[j] = y
Before(owners, parts, q, r) ==
  Ahead(owners, q[1], r[1]) \/ (q[1] = r[1] /\ Ahead(parts, q[2], r[2]))

Needed == {r \in Resources : r[1] \in Context => r[1] \in hash_mask}

HashFileInit ==
  /\ phase = "called" /\ hash_mask \in Selections /\ hr = "E_FAIL"
  /\ fields = {} /\ opened = {} /\ closed = [r \in Resources |-> 0] /\ todo = {}
  /\ content = <<>> /\ fed = [a \in Context |-> <<>>]
  /\ crc = Ones /\ result = [completed |-> {}, digest |-> <<>>, sum |-> <<>>]

\* Without an algorithm nothing is done.
Start ==
  /\ phase = "called"
  /\ IF hash_mask = {} THEN phase' = "returned" /\ hr' = "E_INVALIDARG"
     ELSE phase' = "acquire" /\ hr' = hr
  /\ UNCHANGED <<hash_mask, fields, opened, closed, todo, content, fed, crc, result>>

\* The fail label: everything that is not NULL.
CleanUp(left) == phase' = "cleanup" /\ todo' = left

Stop(code) ==
  /\ CleanUp(fields) /\ hr' = code
  /\ UNCHANGED <<hash_mask, fields, opened, closed, content, fed, crc, result>>

\* fx_prepare_hashes with fx_cng_init, CreateFileW, GetFileSizeEx, HeapAlloc.
Next(r) == /\ r \in Needed \ opened
           /\ \A q \in Needed : Before(Owners, Parts, q, r) => q \in opened

Acquire(r) ==
  /\ phase = "acquire" /\ Next(r)
  /\ fields' = fields \cup {r} /\ opened' = opened \cup {r}
  /\ phase' = IF opened' = Needed THEN "check" ELSE "acquire"
  /\ UNCHANGED <<hash_mask, closed, todo, content, fed, crc, result, hr>>

\* A context that cannot be completed is undone at once.
AcquireFails(r) ==
  /\ phase = "acquire" /\ Next(r) /\ hr' = "FAILED"
  /\ IF r[1] \in Context
     THEN phase' = "undo" /\ todo' = {q \in fields : q[1] = r[1]}
     ELSE CleanUp(fields)
  /\ UNCHANGED <<hash_mask, fields, opened, closed, content, fed, crc, result>>

Release(r) ==
  /\ phase \in {"undo", "cleanup"} /\ r \in todo
  /\ \A q \in todo : ~Before(FreedOwners, FreedParts, q, r)
  /\ closed' = [closed EXCEPT ![r] = @ + 1] /\ todo' = todo \ {r}
  /\ UNCHANGED <<phase, hash_mask, fields, opened, content, fed, crc, result, hr>>

\* ZeroMemory: what was released is not released again by the caller's label.
KeptAfterUndo == fields
LeftAfterUndo == {r \in fields : closed[r] = 0}
Undone ==
  /\ phase = "undo" /\ todo = {}
  /\ fields' = LeftAfterUndo /\ CleanUp(fields')
  /\ UNCHANGED <<hash_mask, opened, closed, content, fed, crc, result, hr>>

Return ==
  /\ phase = "cleanup" /\ todo = {}
  /\ phase' = "returned" /\ fields' = {}
  /\ UNCHANGED <<hash_mask, opened, closed, todo, content, fed, crc, result, hr>>

-----------------------------------------------------------------------------
(* The read loop.                                                          *)

\* The cancel flag at its head, ReadFile, and the answer of progress.
Cancelled == phase \in {"check", "report"} /\ Stop("CANCELLED")
ReadFails == phase = "check" /\ Stop("FAILED")

Report ==
  /\ phase = "report" /\ phase' = "check"
  /\ UNCHANGED <<hash_mask, fields, opened, closed, todo, content, fed, crc, result, hr>>

EndOfFile ==
  /\ phase = "check" /\ phase' = "finish"
  /\ UNCHANGED <<hash_mask, fields, opened, closed, todo, content, fed, crc, result, hr>>

\* A buffer goes to every chosen algorithm; the checksums come last.
Feed(a, data) == IF a \in hash_mask THEN fed[a] \o data ELSE fed[a]
RestartedSum(c, data) == IF c \in hash_mask THEN Update(c, Ones[c], data) ELSE crc[c]
Sum(c, data) == IF c \in hash_mask THEN Update(c, crc[c], data) ELSE crc[c]

Read(data) ==
  /\ phase = "check" /\ Len(content) < MaxBytes
  /\ phase' = "report" /\ content' = content \o data
  /\ fed' = [a \in DOMAIN fed |-> Feed(a, data)]
  /\ crc' = [c \in Checksums |-> Sum(c, data)]
  /\ UNCHANGED <<hash_mask, fields, opened, closed, todo, result, hr>>

\* BCryptHashData fails for a, after the contexts before it took the buffer.
UpdateFails(a, data) ==
  /\ phase = "check" /\ a \in hash_mask /\ Len(content) < MaxBytes
  /\ content' = content \o data
  /\ fed' = [b \in DOMAIN fed |->
              IF Ahead(Contexts, b, a) THEN Feed(b, data) ELSE fed[b]]
  /\ CleanUp(fields) /\ hr' = "FAILED"
  /\ UNCHANGED <<hash_mask, fields, opened, closed, crc, result>>

-----------------------------------------------------------------------------
(* fx_finish_hashes *)

Following(a) ==
  /\ a \in hash_mask \ result.completed
  /\ \A b \in hash_mask : Ahead(FinishOrder, b, a) => b \in result.completed

Inverted(c) == Xor(crc[c], Ones[c])
Extended(f, x, v) == [y \in DOMAIN f \cup {x} |-> IF y = x THEN v ELSE f[y]]

FinishHash(a) ==
  /\ phase = "finish" /\ Following(a)
  /\ result' = [completed |-> result.completed \cup {a},
                digest |-> IF a \in Checksums THEN result.digest
                           ELSE Extended(result.digest, a, fed[a]),
                sum |-> IF a \in Checksums THEN Extended(result.sum, a, Inverted(a))
                        ELSE result.sum]
  /\ UNCHANGED <<phase, hash_mask, fields, opened, closed, todo, content, fed, crc, hr>>

FinishFails == phase = "finish" /\ result.completed # hash_mask /\ Stop("FAILED")
Finished == phase = "finish" /\ result.completed = hash_mask /\ Stop("S_OK")

HashFileNext ==
  \/ Start \/ Undone \/ Return
  \/ \E r \in Resources : Acquire(r) \/ AcquireFails(r) \/ Release(r)
  \/ Cancelled \/ ReadFails \/ Report \/ EndOfFile
  \/ \E data \in Buffers : \/ Read(data)
                           \/ \E a \in DOMAIN fed : UpdateFails(a, data)
  \/ \E a \in hash_mask : FinishHash(a)
  \/ FinishFails \/ Finished

HashFileSpec == HashFileInit /\ [][HashFileNext]_hashFileVars

-----------------------------------------------------------------------------
\* Whichever of some twenty calls fails: what was acquired is released once,
\* the memory and the provider of a hash not before the hash itself, and
\* nothing is left when the function returns.
ReleasedOnce ==
  LET alive == {r \in opened : closed[r] = 0}
  IN  /\ \A r \in Resources : closed[r] <= IF r \in opened THEN 1 ELSE 0
      /\ \A r \in alive : r[2] = "hash" =>
           <<r[1], "object">> \in alive /\ <<r[1], "algorithm">> \in alive
      /\ phase = "returned" => alive = {}

\* The checksum by its definition, bit by bit and with no table: the first
\* places of the data complemented, the remainder of their division by the
\* polynomial, complemented.  The bits of the data are in the order of bytes,
\* the lowest first.
Checksum(c, data) ==
  LET places == 8 * Len(data)
      ones == {p \in 0 .. places - 1 : p % 8 \in data[1 + p \div 8]}
      divisor(p) == {p} \cup {p + 1 + b : b \in Polynomial[c]}
      after[p \in 0 .. places] ==
        IF p = 0 THEN Xor(ones, Ones[c])
        ELSE LET rest == after[p - 1]
             IN  IF p - 1 \in rest THEN Xor(rest, divisor(p - 1)) ELSE rest
  IN  Xor(Shifted(after[places], places), Ones[c])

\* A digest that is reported is that of everything that was read, whatever
\* the sizes of the buffers, the checksums are the remainders they are defined
\* as, and success means that all that was asked for is there.
DigestsExact ==
  /\ result.completed \subseteq hash_mask
  /\ \A a \in result.completed :
       IF a \in Checksums THEN result.sum[a] = Checksum(a, content)
       ELSE result.digest[a] = content
  /\ phase = "returned" /\ hr = "S_OK" => result.completed = hash_mask

-----------------------------------------------------------------------------
(* Inductive invariants.                                                   *)

Alive == {r \in opened : closed[r] = 0}
Working == {"called", "acquire", "check", "report", "finish"}
Early == {"called", "acquire", "undo", "check", "report"}

\* Until something fails all that was acquired is kept.  Then what is to be
\* released is alive, and of each owner all or nothing, the hash first.
ReleaseInv ==
  /\ opened \subseteq Resources /\ fields \subseteq opened /\ todo \subseteq Alive
  /\ closed \in [Resources -> {0, 1}]
  /\ \A r \in Resources : closed[r] = 1 => r \in opened
  /\ \A r \in Alive : r[2] = "hash" =>
       <<r[1], "object">> \in Alive /\ <<r[1], "algorithm">> \in Alive
  /\ \A q \in todo : \A r \in Alive : r[1] = q[1] => r \in todo
  /\ phase \in Working => fields = opened /\ todo = {} /\ \A r \in Resources : closed[r] = 0
  /\ phase = "called" => opened = {}
  /\ phase = "undo" => fields = opened
  /\ phase = "cleanup" => todo = Alive
  /\ phase = "returned" => Alive = {}

\* As long as nothing failed every chosen algorithm was fed all that was read,
\* and digests are taken only when that is everything.
DigestInv ==
  /\ hash_mask \subseteq Algorithms /\ content \in Seq(Byte) /\ DOMAIN fed = Context
  /\ phase \in Working =>
       /\ hr = "E_FAIL"
       /\ \A a \in hash_mask \cap Context : fed[a] = content
       /\ \A c \in hash_mask \cap Checksums : crc[c] = Update(c, Ones[c], content)
  /\ phase = "undo" => hr = "FAILED"
  /\ phase \in Early => result.completed = {}
  /\ result.completed \subseteq hash_mask
  /\ \A a \in result.completed :
       IF a \in Checksums
       THEN a \in DOMAIN result.sum /\ result.sum[a] = Checksum(a, content)
       ELSE a \in DOMAIN result.digest /\ result.digest[a] = content
  /\ phase \in {"cleanup", "returned"} /\ hr = "S_OK" =>
       result.completed = hash_mask
=============================================================================
