-------------------------- MODULE HashFile_proofs --------------------------
(***************************************************************************)
(* For any files, in buffers of any sizes, and wherever a call fails: what *)
(* it acquired is released once and in order, and what it reports are the  *)
(* digests of the whole file.  That the tables compute the checksums is    *)
(* the division, taken eight places at a time: a turn of the loop that     *)
(* fills a table is a step of the division, eight turns are linear, and    *)
(* what is above the lowest byte only moves.  The recursive functions are  *)
(* reasoned about by the least number at which a claim would fail.         *)
(***************************************************************************)
EXTENDS HashFile, WellFoundedInduction, TLAPS

-----------------------------------------------------------------------------
(* Functions that are defined step by step.                                *)

\* A set of naturals that is not empty has a least element.
LEMMA LeastNatural ==
  ASSUME NEW T, T \subseteq Nat, T # {}
  PROVE  \E i \in T : \A j \in T : ~(j < i)
<1>1. PICK i \in T : \A j \in T : ~(<<j, i>> \in OpToRel(<, Nat))
  BY WFMin, NatLessThanWellFounded
<1>2. \A j \in T : j < i => <<j, i>> \in OpToRel(<, Nat)
  BY DEF OpToRel
<1> QED
  BY <1>1, <1>2

\* What holds of 0, and of a number when it holds of the one before, holds up
\* to any bound: the least number of which it did not would be neither.
LEMMA UpToBound ==
  ASSUME NEW n \in Nat, NEW H, H \subseteq 0 .. n, 0 \in H,
         \A k \in 1 .. n : k - 1 \in H => k \in H
  PROVE  H = 0 .. n
<1> DEFINE T == (0 .. n) \ H
<1> SUFFICES ASSUME T # {} PROVE FALSE
  OBVIOUS
<1>1. PICK k \in T : \A j \in T : ~(j < k)
  <2>1. T \subseteq Nat
    OBVIOUS
  <2> HIDE DEF T
  <2> QED BY <2>1, LeastNatural
<1>2. k \in 1 .. n /\ k - 1 \in 0 .. n /\ k - 1 < k
  BY <1>1
<1>3. k - 1 \in H
  BY <1>1, <1>2
<1> QED
  BY <1>1, <1>2, <1>3

\* A function that gives each number what a step makes of the one before.
Iteration(g, n, start, step) ==
  g = [i \in 0 .. n |-> IF i = 0 THEN start ELSE step[<<i, g[i - 1]>>]]

\* A step that stays in a set can be taken n times from a start in it.
LEMMA IterationExists ==
  ASSUME NEW n \in Nat, NEW S, NEW start \in S, NEW step,
         \A i \in 1 .. n : \A w \in S : step[<<i, w>>] \in S
  PROVE  \E g : Iteration(g, n, start, step) /\ \A i \in 0 .. n : g[i] \in S
<1> DEFINE Good(k, g) == /\ Iteration(g, k, start, step)
                         /\ \A i \in 0 .. k : g[i] \in S
           H == {k \in 0 .. n : \E g : Good(k, g)}
<1>1. 0 \in H
  <2> DEFINE g == [i \in 0 .. 0 |-> start]
  <2>1. Good(0, g)
    BY DEF Iteration
  <2> HIDE DEF g, Good
  <2> QED BY <2>1
<1>2. ASSUME NEW k \in 1 .. n, k - 1 \in H
      PROVE  k \in H
  <2>1. PICK g : Good(k - 1, g)
    BY <1>2
  <2> DEFINE h == [i \in 0 .. k |-> IF i = k THEN step[<<k, g[k - 1]>>] ELSE g[i]]
  <2>2. /\ \A i \in 0 .. k - 1 : h[i] = g[i] /\ h[i] \in S
        /\ h[k] = step[<<k, g[k - 1]>>] /\ h[k] \in S
    <3>1. k - 1 \in 0 .. k - 1
      OBVIOUS
    <3> QED BY <2>1, <3>1
  <2>3. \A i \in 0 .. k - 1 : g[i] = IF i = 0 THEN start ELSE step[<<i, g[i - 1]>>]
    BY <2>1 DEF Iteration
  <2>4. ASSUME NEW i \in 0 .. k
        PROVE  h[i] = IF i = 0 THEN start ELSE step[<<i, h[i - 1]>>]
    <3>1. CASE i = k
      BY <2>2, <3>1
    <3>2. CASE i # k
      <4>1. i \in 0 .. k - 1 /\ (i # 0 => i - 1 \in 0 .. k - 1)
        BY <3>2
      <4> HIDE DEF h
      <4> QED BY <2>2, <2>3, <4>1
    <3> QED BY <3>1, <3>2
  <2>5. h = [i \in 0 .. k |-> h[i]]
    OBVIOUS
  <2>6. \A i \in 0 .. k : h[i] \in S
    <3>1. \A i \in 0 .. k : i \in 0 .. k - 1 \/ i = k
      OBVIOUS
    <3> HIDE DEF h
    <3> QED BY <2>2, <3>1
  <2> HIDE DEF h
  <2>7. Good(k, h)
    BY <2>4, <2>5, <2>6 DEF Iteration
  <2> HIDE DEF Good
  <2> QED BY <2>7
<1> HIDE DEF Good
<1>3. n \in H
  <2>1. H \subseteq 0 .. n
    OBVIOUS
  <2> HIDE DEF H
  <2>2. H = 0 .. n
    BY <1>1, <1>2, <2>1, UpToBound
  <2> QED BY <2>2
<1> QED
  BY <1>3 DEF Good

-----------------------------------------------------------------------------
(* Words as sets of bits.                                                  *)

Words == SUBSET Nat

\* A bit of an exclusive or is a bit of exactly one of both words.
LEMMA XorMember ==
  ASSUME NEW a, NEW b, NEW x
  PROVE  x \in Xor(a, b) <=> ~(x \in a <=> x \in b)
  BY DEF Xor

\* A bit of a shifted word is one that stood n places higher.
LEMMA ShiftedMember ==
  ASSUME NEW a \in Words, NEW n \in Nat, NEW x
  PROVE  x \in Shifted(a, n) <=> x \in Nat /\ x + n \in a
<1>1. ASSUME x \in Shifted(a, n) PROVE x \in Nat /\ x + n \in a
  <2>1. PICK bit \in a : bit >= n /\ x = bit - n
    BY <1>1 DEF Shifted
  <2> QED BY <2>1 DEF Words
<1>2. ASSUME x \in Nat, x + n \in a PROVE x \in Shifted(a, n)
  <2>1. x + n >= n /\ x = (x + n) - n
    BY <1>2
  <2> QED BY <1>2, <2>1 DEF Shifted
<1> QED BY <1>1, <1>2

\* Exclusive or and shift of words are words.
LEMMA WordsClosed ==
  ASSUME NEW a \in Words, NEW b \in Words, NEW n \in Nat
  PROVE  Xor(a, b) \in Words /\ Shifted(a, n) \in Words
<1>1. \A x \in Shifted(a, n) : x \in Nat
  BY ShiftedMember
<1> QED BY <1>1 DEF Words, Xor

\* Exclusive or is commutative and associative, with 0 as its neutral element.
LEMMA XorLaws ==
  ASSUME NEW a, NEW b, NEW c
  PROVE  /\ Xor(a, b) = Xor(b, a)
         /\ Xor(Xor(a, b), c) = Xor(a, Xor(b, c))
         /\ Xor(a, {}) = a
<1>1. Xor(a, b) = Xor(b, a)
  BY DEF Xor
<1>2. Xor(a, {}) = a
  BY DEF Xor
<1>3. Xor(Xor(a, b), c) = Xor(a, Xor(b, c))
  BY DEF Xor
<1> QED BY <1>1, <1>2, <1>3

\* A shift distributes over exclusive or.
LEMMA ShiftedXor ==
  ASSUME NEW a \in Words, NEW b \in Words, NEW n \in Nat
  PROVE  Shifted(Xor(a, b), n) = Xor(Shifted(a, n), Shifted(b, n))
<1>1. Xor(a, b) \in Words
  BY WordsClosed
<1>2. ASSUME NEW x
      PROVE  x \in Shifted(Xor(a, b), n) <=> x \in Xor(Shifted(a, n), Shifted(b, n))
  <2>1. x \in Shifted(Xor(a, b), n) <=> x \in Nat /\ x + n \in Xor(a, b)
    BY <1>1, ShiftedMember
  <2>2. /\ x \in Shifted(a, n) <=> x \in Nat /\ x + n \in a
        /\ x \in Shifted(b, n) <=> x \in Nat /\ x + n \in b
    BY ShiftedMember
  <2> QED BY <2>1, <2>2, XorMember
<1> QED BY <1>2

\* Two shifts are one by the sum.
LEMMA ShiftedTwice ==
  ASSUME NEW a \in Words, NEW m \in Nat, NEW n \in Nat
  PROVE  Shifted(Shifted(a, m), n) = Shifted(a, m + n)
<1>1. Shifted(a, m) \in Words
  BY WordsClosed
<1>2. ASSUME NEW x
      PROVE  x \in Shifted(Shifted(a, m), n) <=> x \in Shifted(a, m + n)
  <2>1. x \in Shifted(Shifted(a, m), n) <=> x \in Nat /\ x + n \in Shifted(a, m)
    BY <1>1, ShiftedMember
  <2>2. x \in Nat => (x + n \in Shifted(a, m) <=> (x + n) + m \in a) /\ x + n \in Nat
    BY ShiftedMember
  <2>3. m + n \in Nat
    OBVIOUS
  <2>4. x \in Shifted(a, m + n) <=> x \in Nat /\ x + (m + n) \in a
    BY <2>3, ShiftedMember
  <2>5. x \in Nat => (x + n) + m = x + (m + n)
    OBVIOUS
  <2> QED BY <2>1, <2>2, <2>4, <2>5
<1> QED BY <1>2

-----------------------------------------------------------------------------
(* A turn of the loop of fx_crc32_table and fx_crc64_table, and eight.     *)

Turn(c, w) == IF 0 \in w THEN Xor(Shifted(w, 1), Polynomial[c]) ELSE Shifted(w, 1)
Eight(c, w) ==
  Turn(c, Turn(c, Turn(c, Turn(c, Turn(c, Turn(c, Turn(c, Turn(c, w))))))))

\* The polynomials and the masks of ones are words.
LEMMA PolynomialType ==
  ASSUME NEW c \in Checksums
  PROVE  Polynomial[c] \in Words /\ Ones[c] \in Words
  BY DEF Checksums, Polynomial, Ones, Words

\* One bit's turn of a checksum is a word.
LEMMA TurnType ==
  ASSUME NEW c \in Checksums, NEW w \in Words
  PROVE  Turn(c, w) \in Words
  BY PolynomialType, WordsClosed DEF Turn

\* So are eight turns.
LEMMA EightType ==
  ASSUME NEW c \in Checksums, NEW w \in Words
  PROVE  Eight(c, w) \in Words
  BY TurnType DEF Eight

\* A turn distributes over exclusive or.
LEMMA TurnLinear ==
  ASSUME NEW c \in Checksums, NEW a \in Words, NEW b \in Words
  PROVE  Turn(c, Xor(a, b)) = Xor(Turn(c, a), Turn(c, b))
<1> DEFINE p == Polynomial[c]
           u == Shifted(a, 1)
           v == Shifted(b, 1)
<1>1. Shifted(Xor(a, b), 1) = Xor(u, v)
  BY ShiftedXor
<1>2. 0 \in Xor(a, b) <=> ~(0 \in a <=> 0 \in b)
  BY XorMember
<1> HIDE DEF p, u, v
<1>3. /\ Xor(Xor(u, v), p) = Xor(Xor(u, p), v)
      /\ Xor(Xor(u, v), p) = Xor(u, Xor(v, p))
      /\ Xor(u, v) = Xor(Xor(u, p), Xor(v, p))
  BY DEF Xor
<1> QED BY <1>1, <1>2, <1>3 DEF Turn, p, u, v

\* So do eight turns.
LEMMA EightLinear ==
  ASSUME NEW c \in Checksums, NEW a \in Words, NEW b \in Words
  PROVE  Eight(c, Xor(a, b)) = Xor(Eight(c, a), Eight(c, b))
<1> DEFINE a1 == Turn(c, a)   b1 == Turn(c, b)
           a2 == Turn(c, a1)  b2 == Turn(c, b1)
           a3 == Turn(c, a2)  b3 == Turn(c, b2)
           a4 == Turn(c, a3)  b4 == Turn(c, b3)
           a5 == Turn(c, a4)  b5 == Turn(c, b4)
           a6 == Turn(c, a5)  b6 == Turn(c, b5)
           a7 == Turn(c, a6)  b7 == Turn(c, b6)
<1> HIDE DEF a1, a2, a3, a4, a5, a6, a7, b1, b2, b3, b4, b5, b6, b7
<1>1. a1 \in Words /\ b1 \in Words /\ Turn(c, Xor(a, b)) = Xor(a1, b1)
  BY TurnLinear, TurnType DEF a1, b1
<1>2. a2 \in Words /\ b2 \in Words /\ Turn(c, Xor(a1, b1)) = Xor(a2, b2)
  BY <1>1, TurnLinear, TurnType DEF a2, b2
<1>3. a3 \in Words /\ b3 \in Words /\ Turn(c, Xor(a2, b2)) = Xor(a3, b3)
  BY <1>2, TurnLinear, TurnType DEF a3, b3
<1>4. a4 \in Words /\ b4 \in Words /\ Turn(c, Xor(a3, b3)) = Xor(a4, b4)
  BY <1>3, TurnLinear, TurnType DEF a4, b4
<1>5. a5 \in Words /\ b5 \in Words /\ Turn(c, Xor(a4, b4)) = Xor(a5, b5)
  BY <1>4, TurnLinear, TurnType DEF a5, b5
<1>6. a6 \in Words /\ b6 \in Words /\ Turn(c, Xor(a5, b5)) = Xor(a6, b6)
  BY <1>5, TurnLinear, TurnType DEF a6, b6
<1>7. a7 \in Words /\ b7 \in Words /\ Turn(c, Xor(a6, b6)) = Xor(a7, b7)
  BY <1>6, TurnLinear, TurnType DEF a7, b7
<1>8. Turn(c, Xor(a7, b7)) = Xor(Turn(c, a7), Turn(c, b7))
  BY <1>7, TurnLinear
<1>9. Eight(c, Xor(a, b)) = Turn(c, Xor(a7, b7))
  BY <1>1, <1>2, <1>3, <1>4, <1>5, <1>6, <1>7 DEF Eight
<1>10. Eight(c, a) = Turn(c, a7) /\ Eight(c, b) = Turn(c, b7)
  BY DEF Eight, a1, a2, a3, a4, a5, a6, a7, b1, b2, b3, b4, b5, b6, b7
<1> QED BY <1>8, <1>9, <1>10

\* The upper bits only move.
LEMMA EightOfHigh ==
  ASSUME NEW c \in Checksums, NEW a \in Words, \A x \in a : x >= 8
  PROVE  Eight(c, a) = Shifted(a, 8)
<1>1. ASSUME NEW w \in Words, 0 \notin w PROVE Turn(c, w) = Shifted(w, 1)
  BY <1>1 DEF Turn
<1>2. ASSUME NEW n \in 0 .. 7
      PROVE  /\ Shifted(a, n) \in Words /\ Turn(c, Shifted(a, n)) = Shifted(a, n + 1)
  <2>1. Shifted(a, n) \in Words /\ n \in Nat
    BY WordsClosed
  <2>2. 0 \notin Shifted(a, n)
    <3>1. 0 \in Shifted(a, n) => 0 + n \in a
      BY <2>1, ShiftedMember
    <3> QED BY <3>1
  <2>3. Shifted(Shifted(a, n), 1) = Shifted(a, n + 1)
    BY <2>1, ShiftedTwice
  <2> QED BY <1>1, <2>1, <2>2, <2>3
<1>3. Shifted(a, 0) = a
  <2>1. \A x : x \in Shifted(a, 0) <=> x \in Nat /\ x + 0 \in a
    BY ShiftedMember
  <2>2. \A x : x \in a => x \in Nat
    BY DEF Words
  <2> QED BY <2>1, <2>2
<1>4. /\ Turn(c, a) = Shifted(a, 1) /\ Turn(c, Shifted(a, 1)) = Shifted(a, 2)
      /\ Turn(c, Shifted(a, 2)) = Shifted(a, 3) /\ Turn(c, Shifted(a, 3)) = Shifted(a, 4)
      /\ Turn(c, Shifted(a, 4)) = Shifted(a, 5) /\ Turn(c, Shifted(a, 5)) = Shifted(a, 6)
      /\ Turn(c, Shifted(a, 6)) = Shifted(a, 7) /\ Turn(c, Shifted(a, 7)) = Shifted(a, 8)
  BY <1>2, <1>3
<1> QED BY <1>4 DEF Eight
-----------------------------------------------------------------------------
(* The tables, and what goes through them.                                 *)

\* A byte is a word.
LEMMA ByteType == Byte \subseteq Words
  BY DEF Byte, Words

\* hash.c:141-155, 167-181
LEMMA TableIs ==
  ASSUME NEW c \in Checksums, NEW byte \in Byte
  PROVE  Table[c][byte] = Eight(c, byte)
<1> DEFINE step == [x \in (1 .. 8) \X Words |-> Turn(c, x[2])]
           Loop(g) == g = [n \in 0 .. 8 |->
                             IF n = 0 THEN byte
                             ELSE LET word == g[n - 1]
                                  IN  IF 0 \in word
                                      THEN Xor(Shifted(word, 1), Polynomial[c])
                                      ELSE Shifted(word, 1)]
<1>1. byte \in Words
  BY ByteType
<1>2. \A i \in 1 .. 8 : \A w \in Words : step[<<i, w>>] = Turn(c, w) /\ step[<<i, w>>] \in Words
  BY TurnType
<1>3. PICK g : Iteration(g, 8, byte, step) /\ \A i \in 0 .. 8 : g[i] \in Words
  <2> HIDE DEF step
  <2> QED BY <1>1, <1>2, IterationExists
<1> HIDE DEF step
<1>4. \A n \in 0 .. 8 : g[n] = IF n = 0 THEN byte ELSE Turn(c, g[n - 1])
  <2>1. \A n \in 0 .. 8 : g[n] = IF n = 0 THEN byte ELSE step[<<n, g[n - 1]>>]
    BY <1>3 DEF Iteration
  <2>2. \A n \in 0 .. 8 : n # 0 => n - 1 \in 0 .. 8 /\ n \in 1 .. 8
    OBVIOUS
  <2> QED BY <1>2, <1>3, <2>1, <2>2
<1>5. Loop(g)
  <2>1. g = [n \in 0 .. 8 |-> g[n]]
    BY <1>3 DEF Iteration
  <2> QED BY <1>4, <2>1 DEF Turn
<1> DEFINE f == CHOOSE h : Loop(h)
<1>6. Loop(f)
  BY <1>5
<1>7. TableEntry(c, byte) = f[8]
  BY DEF TableEntry
<1> HIDE DEF f
<1>8. \A n \in 0 .. 8 : f[n] = IF n = 0 THEN byte ELSE Turn(c, f[n - 1])
  BY <1>6 DEF Turn
<1>9. f[8] = Eight(c, byte)
  <2>1. /\ f[0] = byte /\ f[1] = Turn(c, f[0]) /\ f[2] = Turn(c, f[1])
        /\ f[3] = Turn(c, f[2]) /\ f[4] = Turn(c, f[3]) /\ f[5] = Turn(c, f[4])
        /\ f[6] = Turn(c, f[5]) /\ f[7] = Turn(c, f[6]) /\ f[8] = Turn(c, f[7])
    BY <1>8
  <2> QED BY <2>1 DEF Eight
<1> QED BY <1>7, <1>9 DEF Table

\* What one byte makes of the word: it goes into the lowest bits, and then
\* there are eight turns.
ByteStep(c, w, byte) == Xor(Table[c][Xor(w, byte) \cap (0 .. 7)], Shifted(w, 8))

\* The look-up in the table, with the rest of the word shifted, is eight turns of the
\* word with the byte in it (hash.c, the tables of CRC32 and CRC64).
LEMMA ByteStepIs ==
  ASSUME NEW c \in Checksums, NEW w \in Words, NEW byte \in Byte
  PROVE  /\ ByteStep(c, w, byte) = Eight(c, Xor(w, byte))
         /\ ByteStep(c, w, byte) \in Words
<1> DEFINE x == Xor(w, byte)
           low == x \cap (0 .. 7)
           high == x \ (0 .. 7)
<1>1. byte \in Words /\ x \in Words
  BY ByteType, WordsClosed
<1> HIDE DEF x
<1>2. low \in Byte /\ low \in Words /\ high \in Words /\ x = Xor(low, high)
  BY <1>1 DEF Byte, Words, Xor
<1>3. Eight(c, x) = Xor(Eight(c, low), Eight(c, high))
  <2> HIDE DEF low, high
  <2> QED BY <1>2, EightLinear
<1>4. Eight(c, high) = Shifted(high, 8)
  <2>1. \A b \in high : b >= 8
    BY <1>1 DEF Words
  <2> HIDE DEF high
  <2> QED BY <1>2, <2>1, EightOfHigh
<1>5. Shifted(high, 8) = Shifted(w, 8)
  <2>1. ASSUME NEW b PROVE b \in Shifted(high, 8) <=> b \in Shifted(w, 8)
    <3>1. /\ b \in Shifted(high, 8) <=> b \in Nat /\ b + 8 \in high
          /\ b \in Shifted(w, 8) <=> b \in Nat /\ b + 8 \in w
      BY <1>2, ShiftedMember
    <3>2. b \in Nat => (b + 8 \in high <=> b + 8 \in w)
      <4>1. b \in Nat => b + 8 \notin byte /\ b + 8 \notin 0 .. 7
        BY DEF Byte
      <4>2. b + 8 \in x <=> ~(b + 8 \in w <=> b + 8 \in byte)
        BY XorMember DEF x
      <4> QED BY <4>1, <4>2
    <3> QED BY <3>1, <3>2
  <2> HIDE DEF high
  <2> QED BY <2>1
<1>6. Table[c][low] = Eight(c, low)
  BY <1>2, TableIs
<1>7. Eight(c, x) \in Words
  BY <1>1, EightType
<1> QED BY <1>3, <1>4, <1>5, <1>6, <1>7 DEF ByteStep, x

\* The words after each byte of the data.
Fed(f, c, word, data) ==
  /\ f[0] = word /\ \A n \in 0 .. Len(data) : f[n] \in Words
  /\ \A n \in 1 .. Len(data) : f[n] = ByteStep(c, f[n - 1], data[n])

\* hash.c:157-165, 183-191
LEMMA UpdateIs ==
  ASSUME NEW c \in Checksums, NEW word \in Words, NEW data \in Seq(Byte)
  PROVE  \E f : Fed(f, c, word, data) /\ Update(c, word, data) = f[Len(data)]
<1> DEFINE N == Len(data)
           step == [x \in (1 .. N) \X Words |-> ByteStep(c, x[2], data[x[1]])]
           Loop(g) == g = [n \in 0 .. N |->
                             IF n = 0 THEN word
                             ELSE LET last == g[n - 1]
                                  IN  Xor(Table[c][Xor(last, data[n]) \cap (0 .. 7)],
                                          Shifted(last, 8))]
<1>1. N \in Nat /\ \A i \in 1 .. N : data[i] \in Byte
  OBVIOUS
<1> HIDE DEF N
<1>2. \A i \in 1 .. N : \A w \in Words :
        step[<<i, w>>] = ByteStep(c, w, data[i]) /\ step[<<i, w>>] \in Words
  BY <1>1, ByteStepIs
<1>3. PICK g : Iteration(g, N, word, step) /\ \A i \in 0 .. N : g[i] \in Words
  <2> HIDE DEF step
  <2> QED BY <1>1, <1>2, IterationExists
<1> HIDE DEF step
<1>4. \A n \in 0 .. N : g[n] = IF n = 0 THEN word ELSE ByteStep(c, g[n - 1], data[n])
  <2>1. \A n \in 0 .. N : g[n] = IF n = 0 THEN word ELSE step[<<n, g[n - 1]>>]
    BY <1>3 DEF Iteration
  <2>2. \A n \in 0 .. N : n # 0 => n - 1 \in 0 .. N /\ n \in 1 .. N
    BY <1>1
  <2> QED BY <1>2, <1>3, <2>1, <2>2
<1>5. Loop(g)
  <2>1. g = [n \in 0 .. N |-> g[n]]
    BY <1>3 DEF Iteration
  <2> QED BY <1>4, <2>1 DEF ByteStep
<1> DEFINE f == CHOOSE h : Loop(h)
<1>6. Loop(f)
  BY <1>5
<1>7. Update(c, word, data) = f[N]
  BY DEF Update, N
<1> HIDE DEF f
<1>8. \A n \in 0 .. N : f[n] = IF n = 0 THEN word ELSE ByteStep(c, f[n - 1], data[n])
  BY <1>6 DEF ByteStep
<1>9. \A n \in 0 .. N : f[n] \in Words
  <2> DEFINE H == {n \in 0 .. N : f[n] \in Words}
  <2>1. 0 \in H
    BY <1>1, <1>8
  <2>2. ASSUME NEW k \in 1 .. N, k - 1 \in H PROVE k \in H
    BY <1>1, <1>8, <2>2, ByteStepIs
  <2>3. H \subseteq 0 .. N
    OBVIOUS
  <2> HIDE DEF H
  <2>4. H = 0 .. N
    BY <1>1, <2>1, <2>2, <2>3, UpToBound
  <2> QED BY <2>4 DEF H
<1>10. Fed(f, c, word, data)
  BY <1>1, <1>8, <1>9 DEF Fed, N
<1> QED BY <1>7, <1>10 DEF N
\* A buffer after a buffer is the one longer buffer.
LEMMA UpdateGoesOn ==
  ASSUME NEW c \in Checksums, NEW word \in Words,
         NEW x \in Seq(Byte), NEW y \in Seq(Byte)
  PROVE  Update(c, Update(c, word, x), y) = Update(c, word, x \o y)
<1> DEFINE m == Len(x)
           n == Len(y)
           z == x \o y
<1>1. /\ m \in Nat /\ n \in Nat /\ z \in Seq(Byte) /\ Len(z) = m + n
      /\ \A i \in 1 .. m : z[i] = x[i]
      /\ \A i \in 1 .. n : z[m + i] = y[i]
  OBVIOUS
<1> HIDE DEF m, n, z
<1>2. PICK f : Fed(f, c, word, x) /\ Update(c, word, x) = f[m]
  BY UpdateIs DEF m
<1>3. f[m] \in Words
  BY <1>1, <1>2 DEF Fed, m
<1>4. PICK g : Fed(g, c, f[m], y) /\ Update(c, f[m], y) = g[n]
  BY <1>3, UpdateIs DEF n
<1>5. PICK h : Fed(h, c, word, z) /\ Update(c, word, z) = h[m + n]
  BY <1>1, UpdateIs
<1>6. h[m] = f[m]
  <2> DEFINE H == {i \in 0 .. m : h[i] = f[i]}
  <2>1. 0 \in H
    BY <1>1, <1>2, <1>5 DEF Fed
  <2>2. ASSUME NEW k \in 1 .. m, k - 1 \in H PROVE k \in H
    <3>1. k \in 1 .. Len(z) /\ k \in 1 .. Len(x)
      BY <1>1 DEF m
    <3>2. h[k] = ByteStep(c, h[k - 1], z[k]) /\ f[k] = ByteStep(c, f[k - 1], x[k])
      BY <1>2, <1>5, <3>1 DEF Fed
    <3> QED BY <1>1, <2>2, <3>2
  <2>3. H \subseteq 0 .. m
    OBVIOUS
  <2> HIDE DEF H
  <2>4. H = 0 .. m
    BY <1>1, <2>1, <2>2, <2>3, UpToBound
  <2> QED BY <1>1, <2>4 DEF H
<1>7. h[m + n] = g[n]
  <2> DEFINE H == {i \in 0 .. n : h[m + i] = g[i]}
  <2>1. 0 \in H
    BY <1>1, <1>4, <1>6 DEF Fed
  <2>2. ASSUME NEW k \in 1 .. n, k - 1 \in H PROVE k \in H
    <3>1. m + k \in 1 .. Len(z) /\ k \in 1 .. Len(y) /\ m + (k - 1) = (m + k) - 1
      BY <1>1 DEF n
    <3>2. h[m + k] = ByteStep(c, h[(m + k) - 1], z[m + k])
          /\ g[k] = ByteStep(c, g[k - 1], y[k])
      BY <1>4, <1>5, <3>1 DEF Fed
    <3> QED BY <1>1, <2>2, <3>1, <3>2
  <2>3. H \subseteq 0 .. n
    OBVIOUS
  <2> HIDE DEF H
  <2>4. H = 0 .. n
    BY <1>1, <2>1, <2>2, <2>3, UpToBound
  <2>5. n \in H
    BY <1>1, <2>4
  <2> QED BY <2>5 DEF H
<1> QED BY <1>2, <1>4, <1>5, <1>7 DEF z

\* A running checksum stays a word over a buffer.
LEMMA UpdateType ==
  ASSUME NEW c \in Checksums, NEW word \in Words, NEW data \in Seq(Byte)
  PROVE  Update(c, word, data) \in Words
<1>1. PICK f : Fed(f, c, word, data) /\ Update(c, word, data) = f[Len(data)]
  BY UpdateIs
<1>2. Len(data) \in 0 .. Len(data)
  OBVIOUS
<1> QED BY <1>1, <1>2 DEF Fed

\* An empty buffer leaves the running checksum alone.
LEMMA UpdateOfNothing ==
  ASSUME NEW c \in Checksums, NEW word \in Words
  PROVE  Update(c, word, <<>>) = word
<1>1. <<>> \in Seq(Byte) /\ Len(<<>>) = 0
  OBVIOUS
<1>2. PICK f : Fed(f, c, word, <<>>) /\ Update(c, word, <<>>) = f[0]
  BY <1>1, UpdateIs
<1> QED BY <1>2 DEF Fed

-----------------------------------------------------------------------------
(* The division.                                                           *)

\* The places of the data that are one.
OnesOf(data) == {p \in 0 .. 8 * Len(data) - 1 : p % 8 \in data[1 + p \div 8]}

\* The rest after each step, counted from the place that is looked at next,
\* is what a turn makes of it.
Divided(r, c, data) ==
  /\ r[0] = Xor(OnesOf(data), Ones[c])
  /\ \A p \in 0 .. 8 * Len(data) : r[p] \in Words
  /\ \A p \in 1 .. 8 * Len(data) :
       Shifted(r[p], p) = Turn(c, Shifted(r[p - 1], p - 1))

\* One step of the division is, seen from where it stands, one turn.
LEMMA DivisionTurns ==
  ASSUME NEW c \in Checksums, NEW rest \in Words, NEW p \in Nat,
         NEW next, next = IF p \in rest
                          THEN Xor(rest, {p} \cup {p + 1 + b : b \in Polynomial[c]})
                          ELSE rest
  PROVE  next \in Words /\ Shifted(next, p + 1) = Turn(c, Shifted(rest, p))
<1> DEFINE D == {p} \cup {p + 1 + b : b \in Polynomial[c]}
           word == Shifted(rest, p)
<1>1. Polynomial[c] \in Words
  BY PolynomialType
<1>2. D \in Words
  BY <1>1 DEF Words
<1>3. next \in Words
  <2> HIDE DEF D
  <2> QED BY <1>2, WordsClosed DEF D
<1>4. Shifted(D, p + 1) = Polynomial[c]
  <2>1. ASSUME NEW x PROVE x \in Shifted(D, p + 1) <=> x \in Polynomial[c]
    <3>1. x \in Shifted(D, p + 1) <=> x \in Nat /\ x + (p + 1) \in D
      <4> HIDE DEF D
      <4> QED BY <1>2, ShiftedMember
    <3>2. x \in Nat => (x + (p + 1) \in D <=> x \in Polynomial[c])
      <4>1. ASSUME x \in Nat, x + (p + 1) \in D PROVE x \in Polynomial[c]
        <5>1. PICK b \in Polynomial[c] : x + (p + 1) = p + 1 + b
          BY <4>1
        <5>2. b \in Nat
          BY <1>1 DEF Words
        <5>3. x = b
          BY <4>1, <5>1, <5>2
        <5> QED BY <5>3
      <4>2. ASSUME x \in Nat, x \in Polynomial[c] PROVE x + (p + 1) \in D
        <5>1. x + (p + 1) = p + 1 + x
          BY <4>2
        <5> QED BY <4>2, <5>1
      <4> QED BY <4>1, <4>2
    <3>3. x \in Polynomial[c] => x \in Nat
      BY <1>1 DEF Words
    <3> QED BY <3>1, <3>2, <3>3
  <2> HIDE DEF D
  <2> QED BY <2>1
<1>5. Shifted(word, 1) = Shifted(rest, p + 1)
  BY ShiftedTwice
<1>6. 0 \in word <=> p \in rest
  BY ShiftedMember
<1>7. Shifted(Xor(rest, D), p + 1) = Xor(Shifted(rest, p + 1), Shifted(D, p + 1))
  <2> HIDE DEF D
  <2> QED BY <1>2, ShiftedXor
<1> HIDE DEF D, word
<1>8. next = IF p \in rest THEN Xor(rest, D) ELSE rest
  BY DEF D
<1> QED BY <1>3, <1>4, <1>5, <1>6, <1>7, <1>8 DEF Turn, word

\* A checksum is what the division of the data leaves, inverted.
LEMMA ChecksumIs ==
  ASSUME NEW c \in Checksums, NEW data \in Seq(Byte)
  PROVE  \E r : /\ Divided(r, c, data)
                /\ Checksum(c, data) =
                     Xor(Shifted(r[8 * Len(data)], 8 * Len(data)), Ones[c])
<1> DEFINE places == 8 * Len(data)
           start == Xor(OnesOf(data), Ones[c])
           divisor(p) == {p} \cup {p + 1 + b : b \in Polynomial[c]}
           Next1(p, rest) == IF p - 1 \in rest THEN Xor(rest, divisor(p - 1)) ELSE rest
           step == [x \in (1 .. places) \X Words |-> Next1(x[1], x[2])]
           Loop(g) == g = [p \in 0 .. places |->
                             IF p = 0 THEN start
                             ELSE LET rest == g[p - 1]
                                  IN  IF p - 1 \in rest THEN Xor(rest, divisor(p - 1))
                                      ELSE rest]
<1>1. places \in Nat
  OBVIOUS
<1>2. start \in Words
  <2>1. OnesOf(data) \in Words
    BY DEF OnesOf, Words
  <2> QED BY <2>1, PolynomialType, WordsClosed
<1> HIDE DEF start, places
<1>3. ASSUME NEW p \in 1 .. places, NEW w \in Words
      PROVE  /\ Next1(p, w) \in Words
             /\ Shifted(Next1(p, w), p) = Turn(c, Shifted(w, p - 1))
  <2>1. p - 1 \in Nat /\ (p - 1) + 1 = p
    BY <1>1
  <2>2. Next1(p, w) = IF p - 1 \in w
                      THEN Xor(w, {p - 1} \cup {(p - 1) + 1 + b : b \in Polynomial[c]})
                      ELSE w
    OBVIOUS
  <2> HIDE DEF Next1
  <2>3. /\ Next1(p, w) \in Words
        /\ Shifted(Next1(p, w), (p - 1) + 1) = Turn(c, Shifted(w, p - 1))
    BY <2>1, <2>2, DivisionTurns
  <2> QED BY <2>1, <2>3
<1>4. \A i \in 1 .. places : \A w \in Words :
        step[<<i, w>>] = Next1(i, w) /\ step[<<i, w>>] \in Words
  <2> HIDE DEF Next1
  <2> QED BY <1>1, <1>3
<1>5. PICK g : Iteration(g, places, start, step) /\ \A i \in 0 .. places : g[i] \in Words
  <2> HIDE DEF step
  <2> QED BY <1>1, <1>2, <1>4, IterationExists
<1> HIDE DEF step
<1>6. \A n \in 0 .. places : g[n] = IF n = 0 THEN start ELSE Next1(n, g[n - 1])
  <2>1. \A n \in 0 .. places : g[n] = IF n = 0 THEN start ELSE step[<<n, g[n - 1]>>]
    BY <1>5 DEF Iteration
  <2>2. \A n \in 0 .. places : n # 0 => n - 1 \in 0 .. places /\ n \in 1 .. places
    BY <1>1
  <2> HIDE DEF Next1
  <2> QED BY <1>4, <1>5, <2>1, <2>2
<1>7. Loop(g)
  <2>1. g = [n \in 0 .. places |-> g[n]]
    BY <1>5 DEF Iteration
  <2> QED BY <1>6, <2>1
<1> DEFINE f == CHOOSE h : Loop(h)
<1>8. Loop(f)
  BY <1>7
<1>9. Checksum(c, data) = Xor(Shifted(f[places], places), Ones[c])
  BY DEF Checksum, places, start, OnesOf
<1> HIDE DEF f
<1>10. \A n \in 0 .. places : f[n] = IF n = 0 THEN start ELSE Next1(n, f[n - 1])
  BY <1>8
<1> HIDE DEF Next1, Loop
<1>11. \A n \in 0 .. places : f[n] \in Words
  <2> DEFINE H == {n \in 0 .. places : f[n] \in Words}
  <2>1. 0 \in H
    BY <1>1, <1>2, <1>10
  <2>2. ASSUME NEW k \in 1 .. places, k - 1 \in H PROVE k \in H
    <3>1. k \in 0 .. places /\ k # 0
      BY <1>1
    <3> QED BY <1>1, <1>3, <1>10, <2>2, <3>1
  <2>3. H \subseteq 0 .. places
    OBVIOUS
  <2> HIDE DEF H
  <2>4. H = 0 .. places
    BY <1>1, <2>1, <2>2, <2>3, UpToBound
  <2> QED BY <2>4 DEF H
<1>12. \A p \in 1 .. places : Shifted(f[p], p) = Turn(c, Shifted(f[p - 1], p - 1))
  <2> TAKE p \in 1 .. places
  <2>1. p \in 0 .. places /\ p # 0 /\ p - 1 \in 0 .. places
    BY <1>1
  <2> QED BY <1>3, <1>10, <1>11, <2>1
<1>13. f[0] = start
  BY <1>1, <1>10
<1>14. Divided(f, c, data)
  BY <1>11, <1>12, <1>13 DEF Divided, places, start
<1> QED BY <1>9, <1>14 DEF places
\* The lowest bits of what is left of the data are those of its next byte.
LEMMA NextByte ==
  ASSUME NEW data \in Seq(Byte), NEW k \in 1 .. Len(data)
  PROVE  LET left == Shifted(OnesOf(data), 8 * (k - 1))
         IN  /\ left \in Words /\ left \cap (0 .. 7) = data[k] /\ data[k] \in Byte
             /\ Shifted(left \ (0 .. 7), 8) = Shifted(OnesOf(data), 8 * k)
<1> DEFINE ones == OnesOf(data)
           left == Shifted(ones, 8 * (k - 1))
<1>1. /\ ones \in Words /\ 8 * (k - 1) \in Nat /\ 8 * k \in Nat /\ data[k] \in Byte
      /\ 8 * (k - 1) + 8 = 8 * k /\ Len(data) \in Nat
  <2>1. ones \in Words
    BY DEF OnesOf, Words
  <2> QED BY <2>1
<1>2. left \in Words
  <2> HIDE DEF ones
  <2> QED BY <1>1, WordsClosed
<1>3. ASSUME NEW x \in 0 .. 7 PROVE x \in left <=> x \in data[k]
  <2>1. x \in left <=> x + 8 * (k - 1) \in ones
    <3> DEFINE q == 8 * (k - 1)
    <3>1. q \in Nat /\ x \in Nat
      BY <1>1
    <3> HIDE DEF ones, q
    <3>2. x \in Shifted(ones, q) <=> x + q \in ones
      BY <1>1, <3>1, ShiftedMember
    <3> QED BY <3>2 DEF q
  <2>2. /\ x + 8 * (k - 1) \in 0 .. 8 * Len(data) - 1
        /\ (x + 8 * (k - 1)) % 8 = x
        /\ 1 + (x + 8 * (k - 1)) \div 8 = k
    BY <1>1
  <2> QED BY <2>1, <2>2 DEF OnesOf
<1>4. left \cap (0 .. 7) = data[k]
  <2>1. data[k] \subseteq 0 .. 7
    BY <1>1 DEF Byte
  <2> HIDE DEF left
  <2> QED BY <1>3, <2>1
<1>5. Shifted(left \ (0 .. 7), 8) = Shifted(left, 8)
  <2> HIDE DEF left
  <2>1. left \ (0 .. 7) \in Words
    BY <1>2 DEF Words
  <2>2. ASSUME NEW x PROVE x \in Shifted(left \ (0 .. 7), 8) <=> x \in Shifted(left, 8)
    <3>1. /\ x \in Shifted(left \ (0 .. 7), 8) <=> x \in Nat /\ x + 8 \in left \ (0 .. 7)
          /\ x \in Shifted(left, 8) <=> x \in Nat /\ x + 8 \in left
      BY <1>2, <2>1, ShiftedMember
    <3>2. x \in Nat => x + 8 \notin 0 .. 7
      OBVIOUS
    <3> QED BY <3>1, <3>2
  <2> QED BY <2>2
<1>6. Shifted(left, 8) = Shifted(ones, 8 * k)
  <2> HIDE DEF ones
  <2> QED BY <1>1, ShiftedTwice
<1> QED BY <1>1, <1>2, <1>4, <1>5, <1>6

\* hash.c:141-191, 254-263: the tables and the loop over the bytes compute the
\* checksum of the data, as it is defined.
LEMMA UpdateIsChecksum ==
  ASSUME NEW c \in Checksums, NEW data \in Seq(Byte)
  PROVE  Xor(Update(c, Ones[c], data), Ones[c]) = Checksum(c, data)
<1> DEFINE N == Len(data)
           ones == OnesOf(data)
           Left(k) == Shifted(ones, 8 * k)
<1>1. N \in Nat /\ Ones[c] \in Words /\ ones \in Words
  <2>1. ones \in Words
    BY DEF OnesOf, Words
  <2> QED BY <2>1, PolynomialType
<1>2. PICK f : Fed(f, c, Ones[c], data) /\ Update(c, Ones[c], data) = f[N]
  BY <1>1, UpdateIs
<1>3. PICK r : /\ Divided(r, c, data)
               /\ Checksum(c, data) = Xor(Shifted(r[8 * N], 8 * N), Ones[c])
  BY ChecksumIs
<1> DEFINE Reg(p) == Shifted(r[p], p)
<1>4. ASSUME NEW k \in 1 .. N PROVE Reg(8 * k) = Eight(c, Reg(8 * (k - 1)))
  <2> DEFINE q == 8 * (k - 1)
  <2>1. /\ q \in Nat /\ 8 * k = q + 8
        /\ \A i \in 1 .. 8 : q + i \in 1 .. 8 * N /\ (q + i) - 1 = q + (i - 1)
    BY <1>1
  <2> HIDE DEF q, N
  <2>2. \A i \in 1 .. 8 : Reg(q + i) = Turn(c, Reg(q + (i - 1)))
    BY <1>3, <2>1 DEF Divided, N
  <2> HIDE DEF Reg
  <2>3. /\ Reg(q + 1) = Turn(c, Reg(q + 0)) /\ Reg(q + 2) = Turn(c, Reg(q + 1))
        /\ Reg(q + 3) = Turn(c, Reg(q + 2)) /\ Reg(q + 4) = Turn(c, Reg(q + 3))
        /\ Reg(q + 5) = Turn(c, Reg(q + 4)) /\ Reg(q + 6) = Turn(c, Reg(q + 5))
        /\ Reg(q + 7) = Turn(c, Reg(q + 6)) /\ Reg(q + 8) = Turn(c, Reg(q + 7))
    BY <2>2
  <2>4. q + 0 = q
    BY <2>1
  <2> QED BY <2>1, <2>3, <2>4 DEF Eight, q
<1> HIDE DEF Reg
<1>5. ASSUME NEW k \in 1 .. N, NEW w \in Words
      PROVE  Eight(c, Xor(w, Left(k - 1))) = Xor(ByteStep(c, w, data[k]), Left(k))
  <2> DEFINE left == Left(k - 1)
             high == left \ (0 .. 7)
  <2>1. /\ left \in Words /\ left \cap (0 .. 7) = data[k] /\ data[k] \in Byte
        /\ Shifted(high, 8) = Left(k)
    BY NextByte
  <2> HIDE DEF Left, left
  <2>2. high \in Words /\ data[k] \in Words /\ left = Xor(data[k], high)
        /\ \A x \in high : x >= 8
    BY <2>1 DEF Words, Xor
  <2> HIDE DEF high
  <2>3. Xor(w, left) = Xor(Xor(w, data[k]), high) /\ Xor(w, data[k]) \in Words
    BY <2>2, XorLaws, WordsClosed
  <2>4. Eight(c, Xor(w, left)) = Xor(Eight(c, Xor(w, data[k])), Eight(c, high))
    BY <2>2, <2>3, EightLinear
  <2>5. Eight(c, high) = Left(k)
    BY <2>1, <2>2, EightOfHigh
  <2>6. Eight(c, Xor(w, data[k])) = ByteStep(c, w, data[k])
    BY <2>1, ByteStepIs
  <2> QED BY <2>4, <2>5, <2>6 DEF left
<1>6. Reg(8 * N) = Xor(f[N], Left(N))
  <2> DEFINE H == {k \in 0 .. N : Reg(8 * k) = Xor(f[k], Left(k))}
  <2>1. 0 \in H
    <3>1. Reg(8 * 0) = Shifted(Xor(ones, Ones[c]), 0)
      BY <1>3 DEF Reg, Divided
    <3>2. Shifted(Xor(ones, Ones[c]), 0) = Xor(Shifted(ones, 0), Shifted(Ones[c], 0))
      BY <1>1, ShiftedXor
    <3>3. Shifted(Ones[c], 0) = Ones[c]
      <4>1. \A x : x \in Shifted(Ones[c], 0) <=> x \in Nat /\ x + 0 \in Ones[c]
        BY <1>1, ShiftedMember
      <4>2. \A x \in Nat : x + 0 = x
        OBVIOUS
      <4>3. \A x \in Ones[c] : x \in Nat
        BY <1>1 DEF Words
      <4> HIDE DEF ones
      <4> QED BY <4>1, <4>2, <4>3
    <3>4. f[0] = Ones[c] /\ Left(0) = Shifted(ones, 0)
      BY <1>2 DEF Fed
    <3>5. Reg(8 * 0) = Xor(f[0], Left(0))
      BY <3>1, <3>2, <3>3, <3>4, XorLaws
    <3> QED BY <1>1, <3>5
  <2>2. ASSUME NEW k \in 1 .. N, k - 1 \in H PROVE k \in H
    <3>1. Reg(8 * (k - 1)) = Xor(f[k - 1], Left(k - 1)) /\ k \in 0 .. N /\ k - 1 \in 0 .. N
      BY <1>1, <2>2
    <3>2. f[k - 1] \in Words /\ f[k] = ByteStep(c, f[k - 1], data[k])
      BY <1>2, <3>1 DEF Fed
    <3> HIDE DEF N, Left
    <3>3. Reg(8 * k) = Xor(f[k], Left(k))
      BY <1>4, <1>5, <3>1, <3>2
    <3> QED BY <3>1, <3>3
  <2>3. H \subseteq 0 .. N
    OBVIOUS
  <2> HIDE DEF H, N
  <2>4. H = 0 .. N
    BY <1>1, <2>1, <2>2, <2>3, UpToBound
  <2>5. N \in H
    BY <1>1, <2>4
  <2> QED BY <2>5 DEF H
<1>7. Left(N) = {}
  <2>1. ASSUME NEW x \in Left(N) PROVE FALSE
    <3>1. 8 * N \in Nat
      BY <1>1
    <3>2. x \in Nat /\ x + 8 * N \in ones
      <4> HIDE DEF ones, N
      <4> QED BY <1>1, <2>1, <3>1, ShiftedMember
    <3> QED BY <1>1, <3>2 DEF OnesOf
  <2> QED BY <2>1
<1>8. Reg(8 * N) = f[N]
  <2> HIDE DEF N, Left
  <2> QED BY <1>6, <1>7, XorLaws
<1> QED BY <1>2, <1>3, <1>8 DEF Reg
-----------------------------------------------------------------------------
(* What the call acquires it releases.                                     *)

\* The order of acquiring and of releasing, as far as the proofs need it.
LEMMA Orders ==
  /\ Ahead(Parts, "algorithm", "hash") /\ Ahead(Parts, "object", "hash")
  /\ Ahead(FreedParts, "hash", "algorithm") /\ Ahead(FreedParts, "hash", "object")
  /\ Ahead(Contexts, "md5", "sha512")
<1>1. /\ DOMAIN Parts = 1 .. 3 /\ Parts[1] = "algorithm" /\ Parts[2] = "object"
      /\ Parts[3] = "hash"
  BY DEF Parts
<1>2. /\ DOMAIN FreedParts = 1 .. 3 /\ FreedParts[1] = "hash"
      /\ FreedParts[2] = "object" /\ FreedParts[3] = "algorithm"
  BY DEF FreedParts
<1>3. /\ DOMAIN Contexts = 1 .. 4 /\ Contexts[1] = "md5" /\ Contexts[4] = "sha512"
  BY DEF Contexts
<1>4. 1 \in 1 .. 3 /\ 2 \in 1 .. 3 /\ 3 \in 1 .. 3 /\ 1 \in 1 .. 4 /\ 4 \in 1 .. 4
  OBVIOUS
<1> QED BY <1>1, <1>2, <1>3, <1>4 DEF Ahead

\* The parts of a context are those three.
LEMMA ResourceAre ==
  ASSUME NEW r \in Resources
  PROVE  /\ r = <<r[1], r[2]>>
         /\ r[1] \in Context =>
              /\ r[2] \in {"algorithm", "object", "hash"}
              /\ \A p \in {"algorithm", "object", "hash"} : <<r[1], p>> \in Resources
         /\ r[1] \notin Context => r[2] # "hash"
<1>1. {Parts[i] : i \in DOMAIN Parts} = {"algorithm", "object", "hash"}
  <2>1. DOMAIN Parts = 1 .. 3 /\ Parts[1] = "algorithm" /\ Parts[2] = "object"
        /\ Parts[3] = "hash"
    BY DEF Parts
  <2>2. \A i \in 1 .. 3 : i = 1 \/ i = 2 \/ i = 3
    OBVIOUS
  <2> QED BY <2>1, <2>2
<1>2. Context = {"md5", "sha1", "sha256", "sha512"}
  <2>1. /\ DOMAIN Contexts = 1 .. 4 /\ Contexts[1] = "md5" /\ Contexts[2] = "sha1"
        /\ Contexts[3] = "sha256" /\ Contexts[4] = "sha512"
    BY DEF Contexts
  <2>2. \A i \in 1 .. 4 : i = 1 \/ i = 2 \/ i = 3 \/ i = 4
    OBVIOUS
  <2> QED BY <2>1, <2>2 DEF Context
<1>3. r \in Context \X {"algorithm", "object", "hash"}
      \/ r = <<"file", "handle">> \/ r = <<"buffer", "memory">>
  BY <1>1 DEF Resources
<1>4. "file" \notin Context /\ "buffer" \notin Context
  BY <1>2
<1>5. \A o \in Context, p \in {"algorithm", "object", "hash"} : <<o, p>> \in Resources
  BY <1>1 DEF Resources
<1> HIDE DEF Resources
<1> QED BY <1>3, <1>4, <1>5

\* ReleaseInv holds from the start on.
LEMMA ReleaseInvariant == HashFileSpec => []ReleaseInv
<1>1. HashFileInit => ReleaseInv
  BY DEF HashFileInit, ReleaseInv, Alive, Working
<1>2. ReleaseInv /\ [HashFileNext]_hashFileVars => ReleaseInv'
  <2> SUFFICES ASSUME ReleaseInv, [HashFileNext]_hashFileVars PROVE ReleaseInv'
    OBVIOUS
  <2> USE DEF ReleaseInv
  <2>1. ASSUME UNCHANGED <<fields, opened, closed, todo>>, phase \in Working,
               phase' \in Working \ {"called"}
        PROVE  ReleaseInv'
    BY <2>1 DEF Alive, Working
  <2>2. ASSUME UNCHANGED <<fields, opened, closed>>, phase \in Working,
               CleanUp(fields)
        PROVE  ReleaseInv'
    BY <2>2 DEF Alive, Working, CleanUp
  <2>3. CASE Start
    <3>1. CASE hash_mask = {}
      BY <2>3, <3>1 DEF Start, Alive, Working
    <3>2. CASE hash_mask # {}
      BY <2>1, <2>3, <3>2 DEF Start, Working
    <3> QED BY <3>1, <3>2
  <2>4. CASE Undone
    BY <2>4 DEF Undone, LeftAfterUndo, CleanUp, Alive, Working
  <2>5. CASE Return
    BY <2>5 DEF Return, Alive, Working
  <2>6. ASSUME NEW r \in Resources, Acquire(r) PROVE ReleaseInv'
    <3>1. /\ phase = "acquire" /\ r \in Needed \ opened /\ closed[r] = 0
          /\ fields' = fields \cup {r} /\ opened' = opened \cup {r}
          /\ UNCHANGED <<closed, todo>> /\ phase' \in {"check", "acquire"}
      BY <2>6 DEF Acquire, Next, Working
    <3>2. Alive' = Alive \cup {r}
      BY <3>1 DEF Alive
    <3>3. ASSUME r[2] = "hash"
          PROVE  <<r[1], "object">> \in Alive' /\ <<r[1], "algorithm">> \in Alive'
      <4>1. r[1] \in Context /\ <<r[1], "object">> \in Resources
            /\ <<r[1], "algorithm">> \in Resources
        BY <3>3, ResourceAre
      <4>2. ASSUME NEW p \in {"object", "algorithm"} PROVE <<r[1], p>> \in opened
        <5>1. <<r[1], p>> \in Needed /\ Before(Owners, Parts, <<r[1], p>>, r)
          BY <3>1, <3>3, <4>1, Orders DEF Needed, Before
        <5> QED BY <2>6, <5>1 DEF Acquire, Next
      <4> QED BY <3>1, <3>2, <4>1, <4>2 DEF Alive, Working
    <3> QED BY <3>1, <3>2, <3>3 DEF Working
  <2>7. ASSUME NEW r \in Resources, AcquireFails(r) PROVE ReleaseInv'
    <3>1. phase = "acquire" /\ UNCHANGED <<fields, opened, closed>>
      BY <2>7 DEF AcquireFails
    <3>2. CASE r[1] \in Context
      BY <2>7, <3>1, <3>2 DEF AcquireFails, Alive, Working
    <3>3. CASE r[1] \notin Context
      BY <2>2, <2>7, <3>1, <3>3 DEF AcquireFails, Working
    <3> QED BY <3>2, <3>3
  <2>8. ASSUME NEW r \in Resources, Release(r) PROVE ReleaseInv'
    <3>1. /\ phase \in {"undo", "cleanup"} /\ r \in todo /\ todo' = todo \ {r}
          /\ \A q \in todo : ~Before(FreedOwners, FreedParts, q, r)
          /\ UNCHANGED <<phase, fields, opened>> /\ closed[r] = 0 /\ r \in opened
          /\ closed' = [closed EXCEPT ![r] = 1]
      <4>1. closed[r] = 0 /\ closed[r] + 1 = 1 /\ r \in todo /\ r \in opened
        BY <2>8 DEF Release, Alive
      <4> QED BY <2>8, <4>1 DEF Release
    <3>2. Alive' = Alive \ {r}
      BY <3>1 DEF Alive
    <3>3. ASSUME NEW q \in Alive', q[2] = "hash"
          PROVE  <<q[1], "object">> # r /\ <<q[1], "algorithm">> # r
      <4>1. SUFFICES ASSUME NEW p \in {"object", "algorithm"}, r = <<q[1], p>> PROVE FALSE
        OBVIOUS
      <4>2. q \in Alive /\ q[1] = r[1] /\ q \in todo
        BY <3>1, <3>2, <3>3, <4>1
      <4>3. Before(FreedOwners, FreedParts, q, r)
        BY <3>3, <4>1, <4>2, Orders DEF Before
      <4> QED BY <3>1, <4>2, <4>3
    <3>4. closed' \in [Resources -> {0, 1}] /\ \A q \in Resources : closed'[q] = 1 => q \in opened
      BY <3>1
    <3> QED BY <3>1, <3>2, <3>3, <3>4 DEF Working
  <2>9. CASE Cancelled \/ ReadFails \/ FinishFails \/ Finished
    BY <2>2, <2>9 DEF Cancelled, ReadFails, FinishFails, Finished, Stop, Working
  <2>10. CASE Report \/ EndOfFile
    BY <2>1, <2>10 DEF Report, EndOfFile, Working
  <2>11. ASSUME NEW data \in Buffers, Read(data) PROVE ReleaseInv'
    BY <2>1, <2>11 DEF Read, Working
  <2>12. ASSUME NEW data \in Buffers, NEW a, UpdateFails(a, data) PROVE ReleaseInv'
    BY <2>2, <2>12 DEF UpdateFails, Working
  <2>13. ASSUME NEW a, FinishHash(a) PROVE ReleaseInv'
    BY <2>1, <2>13 DEF FinishHash, Working
  <2>14. CASE UNCHANGED hashFileVars
    BY <2>14 DEF hashFileVars, Alive
  <2> QED
    BY <2>3, <2>4, <2>5, <2>6, <2>7, <2>8, <2>9, <2>10, <2>11, <2>12, <2>13, <2>14
       DEF HashFileNext
<1> QED BY <1>1, <1>2, PTL DEF HashFileSpec

\* Wherever the call fails, what it acquired is released once, the memory and
\* the provider of a hash not before the hash, and nothing is left at its end
\* (hash.c:23-101, 193-225, 416-427).
THEOREM EverythingIsReleasedOnce == HashFileSpec => []ReleasedOnce
<1>1. ReleaseInv => ReleasedOnce
  BY DEF ReleaseInv, ReleasedOnce, Alive
<1> QED BY <1>1, ReleaseInvariant, PTL

-----------------------------------------------------------------------------
(* What it reports.                                                        *)

\* A buffer goes to every chosen algorithm.
LEMMA ReadKeepsDigests ==
  ASSUME DigestInv, NEW data \in Buffers, Read(data)
  PROVE  DigestInv'
<1>1. /\ phase = "check" /\ phase' = "report" /\ content' = content \o data
      /\ UNCHANGED <<hash_mask, result, hr>> /\ content \in Seq(Byte)
      /\ data \in Seq(Byte) /\ result.completed = {}
  BY HashAssumption DEF Read, DigestInv, Early
<1>2. content' \in Seq(Byte)
  BY <1>1
<1>3. ASSUME NEW a \in hash_mask \cap Context PROVE fed'[a] = content'
  BY <1>1, <1>3 DEF Read, DigestInv, Feed, Working, Early
<1>4. ASSUME NEW c \in hash_mask \cap Checksums
      PROVE  crc'[c] = Update(c, Ones[c], content')
  <2>1. crc[c] = Update(c, Ones[c], content)
    BY <1>1 DEF DigestInv, Working, Early
  <2>2. crc'[c] = Update(c, crc[c], data)
    BY DEF Read, Sum
  <2>3. Ones[c] \in Words
    BY PolynomialType
  <2> QED BY <1>1, <2>1, <2>2, <2>3, UpdateGoesOn
<1>5. DOMAIN fed' = Context
  BY DEF Read, DigestInv
<1> QED BY <1>1, <1>2, <1>3, <1>4, <1>5 DEF DigestInv, Working, Early

\* A digest that is taken is that of all that was read.
LEMMA FinishKeepsDigests ==
  ASSUME DigestInv, NEW a \in hash_mask, FinishHash(a)
  PROVE  DigestInv'
<1>1. /\ phase = "finish" /\ UNCHANGED <<phase, hash_mask, content, fed, crc, hr>>
      /\ result'.completed = result.completed \cup {a}
  BY DEF FinishHash
<1>2. CASE a \in Checksums
  <2>1. result'.sum = Extended(result.sum, a, Inverted(a)) /\ result'.digest = result.digest
    BY <1>2 DEF FinishHash
  <2>2. Inverted(a) = Checksum(a, content)
    BY <1>1, <1>2, UpdateIsChecksum DEF DigestInv, Working, Inverted
  <2>3. /\ DOMAIN result'.sum = DOMAIN result.sum \cup {a}
        /\ result'.sum[a] = Checksum(a, content)
        /\ \A b \in DOMAIN result.sum : b # a => result'.sum[b] = result.sum[b]
    BY <2>1, <2>2 DEF Extended
  <2> QED BY <1>1, <1>2, <2>1, <2>3 DEF DigestInv, Working, Early
<1>3. CASE a \notin Checksums
  <2>1. result'.digest = Extended(result.digest, a, fed[a]) /\ result'.sum = result.sum
    BY <1>3 DEF FinishHash
  <2>2. fed[a] = content
    BY <1>1, <1>3 DEF DigestInv, Working, Algorithms
  <2>3. /\ DOMAIN result'.digest = DOMAIN result.digest \cup {a}
        /\ result'.digest[a] = content
        /\ \A b \in DOMAIN result.digest : b # a => result'.digest[b] = result.digest[b]
    BY <2>1, <2>2 DEF Extended
  <2> QED BY <1>1, <1>3, <2>1, <2>3 DEF DigestInv, Working, Early
<1> QED BY <1>2, <1>3

\* DigestInv holds from the start on.
LEMMA DigestInvariant == HashFileSpec => []DigestInv
<1>1. HashFileInit => DigestInv
  <2> SUFFICES ASSUME HashFileInit PROVE DigestInv
    OBVIOUS
  <2>1. hash_mask \subseteq Algorithms
    BY HashAssumption DEF HashFileInit
  <2>2. content \in Seq(Byte) /\ content = <<>>
    BY DEF HashFileInit
  <2>3. \A c \in Checksums : crc[c] = Update(c, Ones[c], content)
    BY <2>2, UpdateOfNothing, PolynomialType DEF HashFileInit
  <2> QED BY <2>1, <2>2, <2>3 DEF HashFileInit, DigestInv, Working, Early
<1>2. DigestInv /\ [HashFileNext]_hashFileVars => DigestInv'
  <2> SUFFICES ASSUME DigestInv, [HashFileNext]_hashFileVars PROVE DigestInv'
    OBVIOUS
  <2>1. ASSUME UNCHANGED <<hash_mask, content, fed, crc, result>>,
               phase' \in Working => phase \in Working /\ hr' = hr,
               phase' \in Early => phase \in Early,
               phase' = "undo" => hr' = "FAILED",
               phase' \in {"cleanup", "returned"} /\ hr' = "S_OK" =>
                 result.completed = hash_mask
        PROVE  DigestInv'
    BY <2>1 DEF DigestInv
  <2>2. ASSUME NEW code, Stop(code), code # "S_OK" \/ result.completed = hash_mask
        PROVE  DigestInv'
    BY <2>1, <2>2 DEF Stop, CleanUp, Working, Early
  <2>3. CASE Start \/ Undone \/ Return \/ Report \/ EndOfFile
    <3>1. CASE Start
      BY <2>1, <3>1 DEF Start, Working, Early
    <3>2. CASE Undone
      BY <2>1, <3>2 DEF Undone, CleanUp, Working, Early, DigestInv
    <3>3. CASE Return
      BY <2>1, <3>3 DEF Return, Working, Early, DigestInv
    <3>4. CASE Report \/ EndOfFile
      BY <2>1, <3>4 DEF Report, EndOfFile, Working, Early
    <3> QED BY <2>3, <3>1, <3>2, <3>3, <3>4
  <2>4. ASSUME NEW r, Acquire(r) \/ AcquireFails(r) \/ Release(r) PROVE DigestInv'
    <3>1. CASE Acquire(r)
      BY <2>1, <3>1 DEF Acquire, Working, Early
    <3>2. CASE AcquireFails(r)
      BY <2>1, <3>2 DEF AcquireFails, CleanUp, Working, Early
    <3>3. CASE Release(r)
      BY <2>1, <3>3 DEF Release, Working, Early, DigestInv
    <3> QED BY <2>4, <3>1, <3>2, <3>3
  <2>5. CASE Cancelled \/ ReadFails \/ FinishFails \/ Finished
    BY <2>2, <2>5 DEF Cancelled, ReadFails, FinishFails, Finished
  <2>6. ASSUME NEW data \in Buffers, NEW a, UpdateFails(a, data) PROVE DigestInv'
    <3>1. content' \in Seq(Byte) /\ result.completed = {} /\ DOMAIN fed' = Context
      BY <2>6, HashAssumption DEF UpdateFails, DigestInv, Early
    <3> QED BY <2>6, <3>1 DEF UpdateFails, CleanUp, DigestInv, Working, Early
  <2>7. CASE UNCHANGED hashFileVars
    BY <2>7 DEF hashFileVars, DigestInv, Working, Early
  <2> QED
    BY <2>3, <2>4, <2>5, <2>6, <2>7, ReadKeepsDigests, FinishKeepsDigests DEF HashFileNext
<1> QED BY <1>1, <1>2, PTL DEF HashFileSpec

\* For any files, read in buffers of any sizes: the tables of the two checksums
\* and the loop over the bytes compute the remainder of the division that
\* defines the checksum, a digest is that of everything that was read, and a
\* call that succeeds has all that were asked for (hash.c:103-191, 227-291,
\* 352-414).
THEOREM DigestsAreExact == HashFileSpec => []DigestsExact
<1>1. DigestInv => DigestsExact
  BY DEF DigestInv, DigestsExact
<1> QED BY <1>1, DigestInvariant, PTL
=============================================================================
