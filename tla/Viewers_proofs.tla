--------------------------- MODULE Viewers_proofs ---------------------------
(***************************************************************************)
(* The four viewers, for any files and any limits: the .dll viewer's lists *)
(* and rows, the .ico viewer's bounds and previews, the .efi viewer's      *)
(* bounds, the .iso viewer's queue of directories and what they show, its  *)
(* UDF version and its boot images; at the end, that the page which starts *)
(* one of them keeps what each has shown.                                  *)
(***************************************************************************)
EXTENDS Viewers, FiniteSetTheorems, WellFoundedInduction, TLAPS

-----------------------------------------------------------------------------
(* The .dll viewer (DllExports).  When a list is extended at its front, its *)
(* former first name is the successor of the new one.                      *)

\* The two arrays exist, with an entry per function and per name.
Arrays ==
  /\ todo \in 0 .. file.names
  /\ DOMAIN heads = Indices(file.functions)
  /\ DOMAIN next = Indices(file.names)
ChainInv == /\ file \in Files
            /\ phase \in {"link", "fill"} => Arrays
            /\ ChainsSound

\* The part of ChainInv that LinkName keeps: after a step that links name
\* todo - 1, both arrays describe the names from todo - 1 on.
LEMMA LinkKeepsChains ==
  ASSUME ChainInv, LinkName
  PROVE  ChainInv'
<1> DEFINE current == todo - 1
           function == file.ordinal[current]
<1>1. /\ file \in Files /\ file.names \in Nat /\ file.functions \in Nat
      /\ file.ordinal \in [Indices(file.names) -> Nat]
  BY ExportsAssumption DEF ChainInv
<1>2. phase = "link" /\ todo > 0 /\ Arrays /\ ChainsSound /\ todo \in Nat
  BY <1>1 DEF ChainInv, LinkName, Arrays
<1>3. current \in Indices(file.names) /\ function \in Nat
  BY <1>1, <1>2 DEF Arrays, Indices
<1>4. CASE function >= file.functions /\ Fails
  BY <1>1, <1>4 DEF Fails, ChainInv, ChainsSound
<1>5. ASSUME function < file.functions,
             next' = [next EXCEPT ![current] = heads[function]],
             heads' = [heads EXCEPT ![function] = current],
             todo' = current, UNCHANGED <<file, phase>>
      PROVE  ChainInv'
  <2>1. function \in Indices(file.functions)
    BY <1>1, <1>3, <1>5 DEF Indices
  <2>2. /\ \A f \in Indices(file.functions) : FirstFrom(todo, f, heads[f])
        /\ \A n \in todo .. (file.names - 1) :
             FirstFrom(n + 1, file.ordinal[n], next[n])
    BY <1>2 DEF ChainsSound
  <2>3. /\ \A f \in Indices(file.functions) :
             heads'[f] = IF f = function THEN current ELSE heads[f]
        /\ \A n \in Indices(file.names) :
             next'[n] = IF n = current THEN heads[function] ELSE next[n]
    BY <1>2, <1>5 DEF Arrays
  <2>4. Arrays'
    BY <1>1, <1>2, <1>3, <1>5 DEF Arrays, Indices
  <2>5. ASSUME NEW f \in Indices(file.functions)
        PROVE  FirstFrom(current, f, heads'[f])
    <3>1. CASE f = function
      BY <1>1, <1>3, <2>3, <3>1 DEF FirstFrom, Indices
    <3>2. CASE f # function
      <4>1. heads'[f] = heads[f] /\ FirstFrom(todo, f, heads[f])
        BY <2>2, <2>3, <3>2
      <4>2. \A m \in Int : m \in current .. (file.names - 1)
                             => m = current \/ m \in todo .. (file.names - 1)
        BY <1>1, <1>2
      <4>3. \A h : h \in todo .. (file.names - 1) =>
                     /\ h \in current .. (file.names - 1)
                     /\ \A m \in current .. (h - 1) :
                          m = current \/ m \in todo .. (h - 1)
        BY <1>1, <1>2
      <4> QED
        BY <1>1, <1>3, <3>2, <4>1, <4>2, <4>3 DEF FirstFrom
    <3> QED
      BY <3>1, <3>2
  <2>6. ASSUME NEW n \in current .. (file.names - 1)
        PROVE  FirstFrom(n + 1, file.ordinal[n], next'[n])
    <3>1. CASE n = current
      <4>1. n + 1 = todo /\ next'[n] = heads[function]
        BY <1>2, <1>3, <2>3, <3>1
      <4> QED
        BY <2>1, <2>2, <3>1, <4>1
    <3>2. CASE n # current
      <4>1. n \in todo .. (file.names - 1) /\ n \in Indices(file.names)
        BY <1>1, <1>2, <3>2 DEF Indices
      <4> QED
        BY <2>2, <2>3, <3>2, <4>1
    <3> QED
      BY <3>1, <3>2
  <2>7. ChainsSound'
    BY <1>5, <2>5, <2>6 DEF ChainsSound, FirstFrom
  <2> QED
    BY <1>1, <1>5, <2>4, <2>7 DEF ChainInv
<1> QED
  BY <1>4, <1>5 DEF LinkName

\* The loop starts with no name linked and every list empty.
LEMMA ReadStartsChains ==
  ASSUME ChainInv, ReadDirectory
  PROVE  ChainInv'
<1>1. /\ file \in Files /\ file.names \in Nat /\ file.functions \in Nat
  BY ExportsAssumption DEF ChainInv
<1>2. CASE TooLarge /\ Fails
  BY <1>1, <1>2 DEF Fails, ChainInv, ChainsSound
<1>3. CASE phase' = "shown" /\ file' = file
  BY <1>1, <1>3 DEF ChainInv, ChainsSound
<1>4. ASSUME phase' = "link", todo' = file.names, file' = file,
             heads' = [f \in Indices(file.functions) |-> NoName],
             next' = [n \in Indices(file.names) |-> Unset]
      PROVE  ChainInv'
  <2>1. Arrays'
    BY <1>1, <1>4 DEF Arrays
  <2>2. ChainsSound'
    BY <1>1, <1>4 DEF ChainsSound, FirstFrom
  <2> QED
    BY <1>1, <1>4, <2>1, <2>2 DEF ChainInv
<1> QED
  BY <1>2, <1>3, <1>4 DEF ReadDirectory

\* Every step keeps the lists and the arrays they are made of.
LEMMA ChainStep == ChainInv /\ [Next]_exportVars => ChainInv'
<1> SUFFICES ASSUME ChainInv, [Next]_exportVars
             PROVE  ChainInv'
  OBVIOUS
<1>1. CASE Fails
  BY <1>1 DEF Fails, ChainInv, ChainsSound
<1>2. CASE UNCHANGED <<file, todo, heads, next>>
           /\ phase' \in {phase, "shown"}
  BY <1>2 DEF ChainInv, Arrays, ChainsSound, FirstFrom
<1>3. ASSUME CountRows
      PROVE  ChainInv'
  <2>1. CASE phase = "link" /\ phase' = "fill"
             /\ UNCHANGED <<file, todo, heads, next>>
    BY <2>1 DEF ChainInv, Arrays, ChainsSound, FirstFrom
  <2> QED
    BY <1>1, <1>3, <2>1 DEF CountRows
<1>4. CASE ReadDirectory
  BY <1>4, ReadStartsChains
<1>5. CASE LinkName
  BY <1>5, LinkKeepsChains
<1>6. CASE Breaks \/ OrdinalFails
  BY <1>1, <1>6 DEF Breaks, OrdinalFails
<1>7. CASE SkipEmpty \/ InsertUnnamed \/ InsertName \/ Finish
  BY <1>2, <1>7 DEF SkipEmpty, InsertUnnamed, InsertName, Finish
<1>8. CASE UNCHANGED exportVars
  BY <1>2, <1>8 DEF exportVars
<1> QED
  BY <1>3, <1>4, <1>5, <1>6, <1>7, <1>8 DEF Next

\* No list is there before the directory is read.
LEMMA ChainStart == Init => ChainInv
  BY DEF Init, ChainInv, ChainsSound

\* The lists are sound, and made of arrays of the right size, at any time.
LEMMA ChainInvariant == ExportsSpec => []ChainInv
  BY ChainStart, ChainStep, PTL DEF ExportsSpec

\* For any export tables: while rows are inserted, every list has all names
\* of its function, once and in the order of the table (dll.c:199-212).
THEOREM ChainsAreSound == ExportsSpec => []ChainsSound
<1>1. ChainInv => ChainsSound
  BY DEF ChainInv
<1> QED BY <1>1, ChainInvariant, PTL

\* As many images as arguments, when no two arguments have the same one.
LEMMA InjectiveCounts ==
  ASSUME NEW S, IsFiniteSet(S), NEW T, NEW f \in [S -> T],
         \A x, y \in S : f[x] = f[y] => x = y,
         \A t \in T : \E x \in S : f[x] = t
  PROVE  IsFiniteSet(T) /\ Cardinality(T) = Cardinality(S)
<1>1. f \in Injection(S, T) /\ f \in Surjection(S, T)
  BY DEF Injection, IsInjective, Surjection
<1>2. ExistsBijection(S, T)
  BY <1>1 DEF ExistsBijection, Bijection
<1>3. ASSUME IsFiniteSet(S), ExistsBijection(S, T)
      PROVE  IsFiniteSet(T) /\ Cardinality(T) = Cardinality(S)
  BY <1>3, FS_Bijection, Zenon
<1> QED BY <1>2, <1>3

\* How many numbers there are from 0 or 1 on.
LEMMA CountIndices ==
  ASSUME NEW n \in Nat
  PROVE  /\ IsFiniteSet(1 .. n) /\ Cardinality(1 .. n) = n
         /\ IsFiniteSet(Indices(n)) /\ Cardinality(Indices(n)) = n
<1>1. IsFiniteSet(1 .. n) /\ Cardinality(1 .. n) = n
  <2>1. /\ IsFiniteSet(1 .. n)
        /\ Cardinality(1 .. n) = IF 1 > n THEN 0 ELSE n - 1 + 1
    BY FS_Interval
  <2> QED BY <2>1
<1>2. IsFiniteSet(Indices(n)) /\ Cardinality(Indices(n)) = n
  <2> DEFINE m == n - 1
  <2>1. m \in Int /\ Indices(n) = 0 .. m
    BY DEF Indices
  <2> HIDE DEF m
  <2>2. /\ IsFiniteSet(0 .. m)
        /\ Cardinality(0 .. m) = IF 0 > m THEN 0 ELSE m - 0 + 1
    BY <2>1, FS_Interval
  <2> QED BY <2>1, <2>2 DEF m
<1> QED BY <1>1, <1>2

\* A table of numbered rows in strictly rising order has no row twice.
LEMMA OrderedRowsCount ==
  ASSUME NEW s \in Seq(Int \X Int),
         \A i, j \in 1 .. Len(s) : i < j => Precedes(s[i], s[j])
  PROVE  /\ IsFiniteSet({s[i] : i \in 1 .. Len(s)})
         /\ Cardinality({s[i] : i \in 1 .. Len(s)}) = Len(s)
<1> DEFINE n == Len(s)
           R == {s[i] : i \in 1 .. n}
           f == [i \in 1 .. n |-> s[i]]
<1>1. n \in Nat /\ \A i \in 1 .. n : s[i] \in Int \X Int
  OBVIOUS
<1>2. ASSUME NEW i \in 1 .. n, NEW j \in 1 .. n, i # j PROVE s[i] # s[j]
  <2>1. \A r \in Int \X Int : ~Precedes(r, r)
    BY DEF Precedes
  <2>2. i < j \/ j < i
    BY <1>1, <1>2
  <2> QED BY <1>1, <2>1, <2>2
<1>3. f \in [1 .. n -> R] /\ \A i, j \in 1 .. n : f[i] = f[j] => i = j
  BY <1>2
<1>4. \A r \in R : \E i \in 1 .. n : f[i] = r
  OBVIOUS
<1>5. IsFiniteSet(1 .. n) /\ Cardinality(1 .. n) = n
  BY <1>1, CountIndices
<1> HIDE DEF n, R, f
<1>6. IsFiniteSet(R) /\ Cardinality(R) = n
  BY <1>3, <1>4, <1>5, InjectiveCounts
<1> QED BY <1>6 DEF n, R

\* Arrays and lists as CountRows finds them: every name is in its list.
Linked ==
  /\ file \in Files /\ phase \in {"link", "fill"} /\ todo = 0
  /\ DOMAIN heads = Indices(file.functions)
  /\ \A n \in Indices(file.names) : file.ordinal[n] < file.functions
  /\ \A f \in Indices(file.functions) : FirstFrom(0, f, heads[f])
  /\ \A n \in Indices(file.names) : FirstFrom(n + 1, file.ordinal[n], next[n])

\* The fields of an export directory have their types.
LEMMA FileTypes ==
  ASSUME file \in Files
  PROVE  /\ file.names \in Nat /\ file.functions \in Nat /\ file.base \in Nat
         /\ file.ordinal \in [Indices(file.names) -> Nat]
         /\ file.empty \subseteq Indices(file.functions)
BY ExportsAssumption

\* A function has no name exactly when its list is empty.
LEMMA NamelessIsEmpty ==
  ASSUME Linked, NEW f \in Indices(file.functions)
  PROVE  /\ heads[f] = NoName <=> \A n \in Indices(file.names) : file.ordinal[n] # f
         /\ heads[f] # NoName =>
              /\ heads[f] \in Indices(file.names) /\ file.ordinal[heads[f]] = f
              /\ \A n \in Indices(file.names) :
                   file.ordinal[n] = f => n >= heads[f]
<1>1. FirstFrom(0, f, heads[f]) /\ file.names \in Nat
  BY FileTypes DEF Linked
<1> QED BY <1>1, FileTypes DEF FirstFrom, Indices, NoName

\* The number that is tested against the limit is the number of rows.
LEMMA ExpectedCount ==
  ASSUME Linked
  PROVE  /\ IsFiniteSet(Expected)
         /\ Cardinality(Unnamed) \in Nat
         /\ Cardinality(Expected) = file.names + Cardinality(Unnamed)
<1> DEFINE N == Indices(file.names)
           A == {<<file.ordinal[n], n>> : n \in N}
           B == {<<f, NoName>> : f \in Unnamed}
           a == [n \in N |-> <<file.ordinal[n], n>>]
           b == [f \in Unnamed |-> <<f, NoName>>]
<1>0. file.names \in Nat /\ file.functions \in Nat /\ file.ordinal \in [N -> Nat]
  BY FileTypes DEF Linked
<1>1. Expected = A \cup B
  <2>1. Unnamed = {g \in Indices(file.functions) \ file.empty :
                     \A n \in N : file.ordinal[n] # g}
    BY NamelessIsEmpty DEF Unnamed
  <2> QED BY <2>1 DEF Expected
<1>2. IsFiniteSet(N) /\ Cardinality(N) = file.names
  BY <1>0, CountIndices
<1>3. IsFiniteSet(Unnamed) /\ Cardinality(Unnamed) \in Nat
  <2>1. IsFiniteSet(Indices(file.functions))
    BY <1>0, CountIndices
  <2>2. Unnamed \subseteq Indices(file.functions)
    BY DEF Unnamed
  <2> QED BY <2>1, <2>2, FS_Subset, FS_CardinalityType
<1>4. IsFiniteSet(A) /\ Cardinality(A) = file.names
  <2>1. a \in [N -> A] /\ \A m, n \in N : a[m] = a[n] => m = n
    OBVIOUS
  <2>2. \A t \in A : \E n \in N : a[n] = t
    OBVIOUS
  <2> HIDE DEF a, A, N
  <2> QED BY <1>2, <2>1, <2>2, InjectiveCounts
<1>5. IsFiniteSet(B) /\ Cardinality(B) = Cardinality(Unnamed)
  <2>1. b \in [Unnamed -> B]
        /\ \A f, g \in Unnamed : b[f] = b[g] => f = g
    OBVIOUS
  <2>2. \A t \in B : \E f \in Unnamed : b[f] = t
    OBVIOUS
  <2> HIDE DEF b, B
  <2> QED BY <1>3, <2>1, <2>2, InjectiveCounts
<1>6. A \cap B = {}
  BY <1>0 DEF Indices, NoName
<1>7. Cardinality(A \cap B) = 0
  BY <1>6, FS_EmptySet
<1> HIDE DEF A, B, N
<1>8. /\ IsFiniteSet(A \cup B)
      /\ Cardinality(A \cup B) = Cardinality(A) + Cardinality(B) - 0
  BY <1>4, <1>5, <1>7, FS_Union
<1> QED BY <1>0, <1>1, <1>3, <1>4, <1>5, <1>8

\* While rows are inserted there is room for them: those that are there are
\* some of those that were counted.
LEMMA RowsFit ==
  ASSUME Linked, FillInv, rows \in Seq(Int \X Int),
         \A i, j \in 1 .. Len(rows) : i < j => Precedes(rows[i], rows[j])
  PROVE  /\ Len(rows) <= rowCount
         /\ (\A r \in Expected : Passed(r)) => Len(rows) = rowCount
<1> DEFINE R == {rows[i] : i \in 1 .. Len(rows)}
<1>1. R \subseteq Expected /\ ((\A r \in Expected : Passed(r)) => R = Expected)
  BY DEF FillInv
<1>2. Cardinality(R) = Len(rows)
  BY OrderedRowsCount
<1>3. IsFiniteSet(Expected) /\ Cardinality(Expected) = rowCount
  <2>1. /\ IsFiniteSet(Expected)
        /\ Cardinality(Expected) = file.names + Cardinality(Unnamed)
    BY ExpectedCount
  <2>2. rowCount = file.names + Cardinality(Unnamed)
    BY DEF FillInv
  <2> QED BY <2>1, <2>2
<1>4. Cardinality(R) <= Cardinality(Expected)
  <2> HIDE DEF R
  <2> QED BY <1>1, <1>3, FS_Subset
<1> QED BY <1>1, <1>2, <1>3, <1>4

\* The rows of one function, in the order in which the loop meets them.
LEMMA RowsOf ==
  ASSUME Linked, NEW f \in Indices(file.functions), NEW r \in Expected, r[1] = f
  PROVE  \/ /\ heads[f] = NoName /\ f \notin file.empty /\ r = <<f, NoName>>
         \/ /\ heads[f] # NoName /\ r[2] \in Indices(file.names)
            /\ r = <<f, r[2]>> /\ file.ordinal[r[2]] = f /\ r[2] >= heads[f]
<1>1. CASE \E n \in Indices(file.names) : r = <<file.ordinal[n], n>>
  BY <1>1, NamelessIsEmpty
<1>2. CASE \E g \in Indices(file.functions) \ file.empty :
             /\ \A n \in Indices(file.names) : file.ordinal[n] # g
             /\ r = <<g, NoName>>
  BY <1>2, NamelessIsEmpty
<1> QED BY <1>1, <1>2 DEF Expected

\* One row more, which none of those before reaches.
LEMMA AppendRow ==
  ASSUME NEW r \in Int \X Int, rows \in Seq(Int \X Int), rows' = Append(rows, r),
         \A i, j \in 1 .. Len(rows) : i < j => Precedes(rows[i], rows[j]),
         \A i \in 1 .. Len(rows) : Precedes(rows[i], r)
  PROVE  /\ rows' \in Seq(Int \X Int)
         /\ \A i, j \in 1 .. Len(rows') : i < j => Precedes(rows'[i], rows'[j])
         /\ {rows'[i] : i \in 1 .. Len(rows')}
              = {rows[i] : i \in 1 .. Len(rows)} \cup {r}
<1>1. /\ Len(rows') = Len(rows) + 1 /\ Len(rows) \in Nat
      /\ rows'[Len(rows) + 1] = r
      /\ \A i \in 1 .. Len(rows) : rows'[i] = rows[i]
  OBVIOUS
<1>2. \A i \in 1 .. Len(rows') : i \in 1 .. Len(rows) \/ i = Len(rows) + 1
  BY <1>1
<1>3. \A i, j \in 1 .. Len(rows') : i < j => Precedes(rows'[i], rows'[j])
  BY <1>1, <1>2
<1> QED BY <1>1, <1>2, <1>3

\* No name is in work at a function that has none.
LEMMA NoCursor ==
  ASSUME Linked, FillInv, at < file.functions, heads[at] = NoName
  PROVE  cursor = Unset
<1>1. at \in Indices(file.functions)
  BY FileTypes DEF FillInv, Linked, Indices
<1> QED BY <1>1, NamelessIsEmpty DEF FillInv

\* A step of the loop that inserts r, and after which r and no other row has
\* become one that is passed.
LEMMA InsertKeepsFill ==
  ASSUME Linked, FillInv, rows \in Seq(Int \X Int), NEW r \in Int \X Int,
         \A i, j \in 1 .. Len(rows) : i < j => Precedes(rows[i], rows[j]),
         rows' = Append(rows, r), r \in Expected,
         UNCHANGED <<file, todo, heads, rowCount>>,
         \A e \in Expected : Passed(e) => Precedes(e, r),
         \A e \in Expected : Passed(e)' <=> Passed(e) \/ e = r,
         at' \in 0 .. file.functions,
         cursor' # Unset => cursor' \in Indices(file.names)
                            /\ file.ordinal[cursor'] = at'
  PROVE  /\ FillInv' /\ rows' \in Seq(Int \X Int)
         /\ \A i, j \in 1 .. Len(rows') : i < j => Precedes(rows'[i], rows'[j])
<1>1. \A i \in 1 .. Len(rows) : Precedes(rows[i], r)
  BY DEF FillInv
<1>2. /\ rows' \in Seq(Int \X Int)
      /\ \A i, j \in 1 .. Len(rows') : i < j => Precedes(rows'[i], rows'[j])
      /\ {rows'[i] : i \in 1 .. Len(rows')}
           = {rows[i] : i \in 1 .. Len(rows)} \cup {r}
  BY <1>1, AppendRow
<1>3. Expected' = Expected /\ Unnamed' = Unnamed
  BY DEF Expected, Unnamed
<1>4. {rows'[i] : i \in 1 .. Len(rows')} = {e \in Expected' : Passed(e)'}
  BY <1>2, <1>3 DEF FillInv
<1> HIDE DEF Passed
<1> QED BY <1>2, <1>3, <1>4 DEF FillInv

\* The first function is reached with nothing passed and everything counted.
LEMMA CountStartsFill ==
  ASSUME Linked, phase' = "fill", rowCount' = file.names + Cardinality(Unnamed),
         \A f \in file.empty : heads[f] = NoName, rowCount' <= MaxEntries,
         rows = <<>>, at = 0, cursor = Unset,
         UNCHANGED <<file, todo, heads, next, at, cursor, rows>>
  PROVE  FillInv' /\ rowCount' \in Nat
<1>1. file.names \in Nat /\ file.functions \in Nat /\ Cardinality(Unnamed) \in Nat
  BY FileTypes, ExpectedCount DEF Linked
<1>2. Expected' = Expected /\ Unnamed' = Unnamed
  BY DEF Expected, Unnamed
<1>3. ASSUME NEW r \in Expected PROVE ~Passed(r)'
  <2>1. at' = 0 /\ cursor' = Unset
    OBVIOUS
  <2>2. r[1] \in Nat
    <3>1. CASE r \in {<<file.ordinal[n], n>> : n \in Indices(file.names)}
      <4>1. PICK n \in Indices(file.names) : r = <<file.ordinal[n], n>>
        BY <3>1
      <4>2. file.ordinal[n] \in Nat
        BY FileTypes DEF Linked
      <4> QED BY <4>1, <4>2
    <3>2. CASE r[1] \in Indices(file.functions)
      BY <3>2 DEF Indices
    <3> QED BY <3>1, <3>2 DEF Expected
  <2> QED BY <2>1, <2>2 DEF Passed
<1>4. {rows'[i] : i \in 1 .. Len(rows')} = {}
  OBVIOUS
<1>5. {r \in Expected' : Passed(r)'} = {}
  BY <1>2, <1>3
<1>6. /\ rowCount' \in Nat /\ at' \in 0 .. file'.functions
      /\ rowCount' = file'.names + Cardinality(Unnamed')
  BY <1>1, <1>2
<1>7. todo' = 0 /\ \A f \in file'.empty : heads'[f] = NoName
  BY DEF Linked
<1> HIDE DEF Passed
<1> QED BY <1>4, <1>5, <1>6, <1>7 DEF FillInv

\* An empty function has no row.
LEMMA SkipKeepsFill ==
  ASSUME Linked, FillInv, SkipEmpty
  PROVE  FillInv'
<1>1. /\ file.functions \in Nat /\ at \in Indices(file.functions)
      /\ heads[at] = NoName /\ at \in file.empty /\ at' = at + 1
      /\ UNCHANGED <<file, todo, heads, rowCount, cursor, rows>>
  BY FileTypes DEF SkipEmpty, Filling, FillInv, Linked, Indices
<1>2. cursor = Unset
  BY <1>1, NoCursor DEF SkipEmpty, Filling
<1>3. Expected' = Expected /\ Unnamed' = Unnamed
  BY <1>1 DEF Expected, Unnamed
<1>4. ASSUME NEW r \in Expected PROVE Passed(r)' <=> Passed(r)
  <2>1. r[1] # at
    BY <1>1, RowsOf
  <2>2. r[1] \in Nat
    BY FileTypes DEF Expected, Linked, Indices
  <2> QED BY <1>1, <1>2, <2>1, <2>2 DEF Passed, Indices
<1>5. {r \in Expected' : Passed(r)'} = {r \in Expected : Passed(r)}
  BY <1>3, <1>4
<1>6. at' \in 0 .. file.functions
  BY <1>1 DEF Indices
<1>7. {rows'[i] : i \in 1 .. Len(rows')} = {rows[i] : i \in 1 .. Len(rows)}
  BY <1>1
<1> HIDE DEF Passed
<1> QED BY <1>1, <1>2, <1>3, <1>5, <1>6, <1>7 DEF FillInv

\* A function without a name has one row.
LEMMA UnnamedKeepsFill ==
  ASSUME Linked, FillInv, InsertUnnamed, rows \in Seq(Int \X Int),
         \A i, j \in 1 .. Len(rows) : i < j => Precedes(rows[i], rows[j])
  PROVE  /\ FillInv' /\ rows' \in Seq(Int \X Int)
         /\ \A i, j \in 1 .. Len(rows') : i < j => Precedes(rows'[i], rows'[j])
<1> DEFINE r == <<at, NoName>>
<1>1. /\ file.functions \in Nat /\ at \in Indices(file.functions)
      /\ heads[at] = NoName /\ at \notin file.empty /\ at' = at + 1
      /\ rows' = Append(rows, r)
      /\ UNCHANGED <<file, todo, heads, rowCount, cursor>>
  BY FileTypes DEF InsertUnnamed, Inserting, Filling, FillInv, Linked, Indices
<1>2. cursor = Unset
  BY <1>1, NoCursor DEF InsertUnnamed, Inserting, Filling
<1>3. r \in Expected /\ r \in Int \X Int
  <2>1. \A n \in Indices(file.names) : file.ordinal[n] # at
    BY <1>1, NamelessIsEmpty
  <2>2. r \in Expected
    BY <1>1, <2>1 DEF Expected
  <2> QED BY <1>1, <2>2 DEF NoName, Indices
<1>4. \A e \in Expected : e[1] \in Nat /\ e[2] \in Int
  BY FileTypes DEF Expected, Linked, Indices, NoName
<1>5. \A e \in Expected : e[1] = at => e = r
  BY <1>1, RowsOf
<1>6. \A e \in Expected : Passed(e) => Precedes(e, r)
  BY <1>1, <1>2, <1>4 DEF Passed, Precedes, Indices
<1>7. \A e \in Expected : Passed(e)' <=> Passed(e) \/ e = r
  BY <1>1, <1>2, <1>4, <1>5 DEF Passed, Indices
<1>8. at' \in 0 .. file.functions
  BY <1>1 DEF Indices
<1> HIDE DEF r, Passed
<1> QED BY <1>1, <1>2, <1>3, <1>6, <1>7, <1>8, InsertKeepsFill

\* A function with names has a row for each, in the order of its list.
LEMMA NameKeepsFill ==
  ASSUME Linked, FillInv, InsertName, rows \in Seq(Int \X Int),
         \A i, j \in 1 .. Len(rows) : i < j => Precedes(rows[i], rows[j])
  PROVE  /\ FillInv' /\ rows' \in Seq(Int \X Int)
         /\ \A i, j \in 1 .. Len(rows') : i < j => Precedes(rows'[i], rows'[j])
<1> DEFINE name == IF cursor = Unset THEN heads[at] ELSE cursor
           last == next[name] = NoName
           r == <<at, name>>
<1>0. /\ file.functions \in Nat /\ file.names \in Nat
      /\ at \in Indices(file.functions) /\ heads[at] # NoName
      /\ rows' = Append(rows, r)
      /\ UNCHANGED <<file, todo, heads, next, rowCount>>
      /\ cursor' = IF last THEN Unset ELSE next[name]
      /\ at' = IF last THEN at + 1 ELSE at
  BY FileTypes DEF InsertName, Inserting, Filling, FillInv, Linked, Indices
<1>1. name \in Indices(file.names) /\ file.ordinal[name] = at
  BY <1>0, NamelessIsEmpty DEF FillInv
<1>2. \A e \in Expected : e[1] \in Nat /\ e[2] \in Int
  BY FileTypes DEF Expected, Linked, Indices, NoName
<1>3. \A e \in Expected : e[1] = at =>
        e[2] \in Indices(file.names) /\ file.ordinal[e[2]] = at
        /\ e[2] >= heads[at] /\ e = <<at, e[2]>>
  BY <1>0, RowsOf
<1>4. r \in Expected /\ r \in Int \X Int
  BY <1>0, <1>1 DEF Expected, Indices
<1>5. /\ next[name] = NoName \/ next[name] \in Indices(file.names)
      /\ ~last => file.ordinal[next[name]] = at /\ next[name] > name
      /\ \A n \in Indices(file.names) :
           file.ordinal[n] = at /\ n > name => ~last /\ n >= next[name]
  <2>1. FirstFrom(name + 1, at, next[name])
    BY <1>1 DEF Linked
  <2> HIDE DEF name
  <2> QED BY <1>0, <1>1, <2>1 DEF FirstFrom, Indices, NoName
<1>6. \A e \in Expected : Passed(e) <=> e[1] < at \/ (e[1] = at /\ e[2] < name)
  <2>1. CASE cursor = Unset
    <3>1. \A e \in Expected : e[1] = at => ~(e[2] < name)
      BY <1>2, <1>3, <1>1, <2>1 DEF Indices
    <3> QED BY <1>2, <2>1, <3>1 DEF Passed
  <2>2. CASE cursor # Unset
    BY <2>2 DEF Passed
  <2> QED BY <2>1, <2>2
<1> HIDE DEF name
<1>7. \A e \in Expected : Passed(e) => Precedes(e, r)
  BY <1>6 DEF Precedes
<1>8. ASSUME NEW e \in Expected PROVE Passed(e)' <=> Passed(e) \/ e = r
  <2>1. e[1] = at => e = <<at, e[2]>> /\ e[2] \in Indices(file.names)
                     /\ file.ordinal[e[2]] = at
    BY <1>3
  <2>2. CASE last
    <3>1. e[1] = at => e[2] <= name
      BY <1>1, <1>5, <2>1, <2>2 DEF Indices
    <3>2. cursor' = Unset /\ at' = at + 1 /\ e[1] \in Nat /\ at \in Nat /\ name \in Nat
      BY <1>0, <1>1, <1>2, <2>2 DEF Indices
    <3>3. Passed(e)' <=> e[1] < at \/ e[1] = at
      BY <3>2 DEF Passed
    <3> QED BY <1>1, <1>6, <2>1, <3>1, <3>2, <3>3 DEF Indices
  <2>3. CASE ~last
    <3>1. e[1] = at => (e[2] < next[name] <=> e[2] <= name)
      BY <1>1, <1>5, <2>1, <2>3 DEF Indices
    <3>2. cursor' = next[name] /\ cursor' # Unset /\ at' = at
      BY <1>0, <1>5, <2>3 DEF Indices, Unset, NoName
    <3>3. Passed(e)' <=> e[1] < at \/ (e[1] = at /\ e[2] < next[name])
      BY <3>2 DEF Passed
    <3> QED BY <1>1, <1>6, <2>1, <3>1, <3>3 DEF Indices
  <2> QED BY <2>2, <2>3
<1>9. at' \in 0 .. file.functions
  BY <1>0 DEF Indices
<1>10. cursor' # Unset => cursor' \in Indices(file.names)
                          /\ file.ordinal[cursor'] = at'
  BY <1>0, <1>5
<1> HIDE DEF r, Passed, last
<1> QED BY <1>0, <1>4, <1>7, <1>8, <1>9, <1>10, InsertKeepsFill

\* What the two invariants say once every name is in its list.
LEMMA AllLinked ==
  ASSUME ChainInv, RowsInv, phase \in {"link", "fill"}, todo = 0
  PROVE  Linked
BY DEF ChainInv, RowsInv, Arrays, ChainsSound, Linked, Indices

\* A failure takes the rows away; a table is accepted with none.
LEMMA OtherStepsKeepRows ==
  ASSUME ChainInv, RowsInv, Fails \/ ReadDirectory \/ LinkName
  PROVE  RowsInv'
<1>1. /\ file.names \in Nat /\ file.functions \in Nat
      /\ file.ordinal \in [Indices(file.names) -> Nat]
  BY FileTypes DEF ChainInv
<1>2. CASE Fails
  <2>1. rowCount \in Nat /\ rowCount <= MaxEntries
    BY DEF RowsInv, RowsExact, FillInv
  <2> QED BY <1>2, <2>1 DEF Fails, RowsInv, RowsExact
<1>3. CASE ReadDirectory
  <2>1. CASE TooLarge /\ Fails
    BY <1>2, <2>1
  <2>2. ASSUME ~TooLarge, file.functions = 0, phase = "open", phase' = "shown",
               UNCHANGED <<file, rowCount, at, cursor, rows>>
        PROVE  RowsInv'
    <3>1. Expected = {}
      BY <1>1, <2>2 DEF TooLarge, Expected, Indices
    <3>2. Expected' = {}
      BY <3>1, <2>2 DEF Expected
    <3>3. rows' = <<>> /\ rowCount' = 0 /\ MaxEntries \in Nat
      BY <2>2, ExportsAssumption DEF RowsInv
    <3> QED BY <2>2, <3>2, <3>3 DEF RowsInv, RowsExact
  <2>3. ASSUME phase = "open", phase' = "link", todo' = file.names,
               UNCHANGED <<file, rowCount, at, cursor, rows>>
        PROVE  RowsInv'
    BY <1>1, <2>3 DEF RowsInv, RowsExact
  <2> QED BY <1>3, <2>1, <2>2, <2>3 DEF ReadDirectory
<1>4. CASE LinkName
  <2>1. todo \in 0 .. file.names /\ todo > 0 /\ phase = "link"
    BY <1>4 DEF LinkName, ChainInv, Arrays
  <2>2. CASE file.ordinal[todo - 1] >= file.functions /\ Fails
    BY <1>2, <2>2
  <2>3. ASSUME file.ordinal[todo - 1] < file.functions, todo' = todo - 1,
               UNCHANGED <<file, phase, rowCount, at, cursor, rows>>
        PROVE  RowsInv'
    <3>1. \A n \in (todo - 1) .. (file.names - 1) :
            n = todo - 1 \/ n \in todo .. (file.names - 1)
      BY <1>1, <2>1
    <3>2. \A n \in todo' .. (file.names - 1) : file.ordinal[n] < file.functions
      BY <2>1, <2>3, <3>1 DEF RowsInv
    <3> QED BY <2>1, <2>3, <3>2 DEF RowsInv, RowsExact
  <2> QED BY <1>4, <2>2, <2>3 DEF LinkName
<1> QED BY <1>2, <1>3, <1>4

\* The loop that inserts rows does what was counted.
LEMMA FillStepsKeepRows ==
  ASSUME ChainInv, RowsInv,
         CountRows \/ SkipEmpty \/ InsertUnnamed \/ InsertName \/ Finish
  PROVE  RowsInv'
<1>1. CASE CountRows
  <2>1. Linked /\ phase = "link"
    BY <1>1, AllLinked DEF CountRows
  <2>2. CASE Fails
    BY <2>2, OtherStepsKeepRows
  <2>3. CASE ~Fails
    <3>1. /\ phase' = "fill" /\ rowCount' = file.names + Cardinality(Unnamed)
          /\ ~\E f \in file.empty : heads[f] # NoName
          /\ ~(file.names + Cardinality(Unnamed) > MaxEntries)
          /\ UNCHANGED <<file, todo, heads, next, at, cursor, rows>>
      <4> DEFINE refused ==
            \/ \E f \in file.empty : heads[f] # NoName
            \/ file.names + Cardinality(Unnamed) > MaxEntries
      <4>1. IF refused THEN Fails
            ELSE /\ phase' = "fill"
                 /\ rowCount' = file.names + Cardinality(Unnamed)
                 /\ UNCHANGED <<file, todo, heads, next, at, cursor, rows>>
        BY <1>1 DEF CountRows
      <4>2. ~refused
        BY <2>3, <4>1
      <4> QED BY <4>1, <4>2
    <3>2. file.names + Cardinality(Unnamed) \in Nat /\ MaxEntries \in Nat
      BY <2>1, ExpectedCount, FileTypes, ExportsAssumption DEF Linked
    <3>3. FillInv' /\ rowCount' \in Nat
      BY <2>1, <3>1, <3>2, CountStartsFill DEF RowsInv
    <3> QED BY <2>1, <3>1, <3>2, <3>3 DEF RowsInv, RowsExact, FillInv
  <2> QED BY <2>2, <2>3
<1>2. ASSUME Filling
      PROVE  /\ Linked /\ FillInv /\ rowCount \in Nat /\ rows \in Seq(Int \X Int)
             /\ \A i, j \in 1 .. Len(rows) : i < j => Precedes(rows[i], rows[j])
  BY <1>2, AllLinked DEF Filling, RowsInv, FillInv
<1>3. ASSUME phase = "fill", FillInv', rows' \in Seq(Int \X Int),
             UNCHANGED <<file, phase, todo, rowCount>>,
             \A i, j \in 1 .. Len(rows') : i < j => Precedes(rows'[i], rows'[j])
      PROVE  RowsInv'
  BY <1>3 DEF RowsInv
<1>4. CASE SkipEmpty
  <2>1. FillInv'
    BY <1>2, <1>4, SkipKeepsFill DEF SkipEmpty
  <2> QED BY <1>2, <1>3, <1>4, <2>1 DEF SkipEmpty, Filling
<1>5. CASE InsertUnnamed
  BY <1>2, <1>3, <1>5, UnnamedKeepsFill DEF InsertUnnamed, Inserting, Filling
<1>6. CASE InsertName
  BY <1>2, <1>3, <1>6, NameKeepsFill DEF InsertName, Inserting, Filling
<1>7. CASE Finish
  <2>1. Linked /\ FillInv
    BY <1>7, AllLinked DEF Finish, RowsInv, FillInv
  <2>2. \A r \in Expected : Passed(r)
    BY <1>7, <2>1, FileTypes DEF Finish, Passed, Expected, Linked, Indices
  <2>3. Len(rows) = rowCount
    BY <2>1, <2>2, RowsFit DEF RowsInv
  <2>4. {rows[i] : i \in 1 .. Len(rows)} = Expected
    BY <2>1, <2>2 DEF FillInv
  <2>5. Expected' = Expected
    BY <1>7 DEF Finish, Expected
  <2> QED BY <1>7, <2>1, <2>3, <2>4, <2>5
          DEF Finish, RowsInv, RowsExact, FillInv
<1> QED BY <1>1, <1>4, <1>5, <1>6, <1>7

\* Every step of fx_dll_populate keeps the invariant of the rows.
LEMMA RowsStep == ChainInv /\ RowsInv /\ [Next]_exportVars => RowsInv'
<1> SUFFICES ASSUME ChainInv, RowsInv, [Next]_exportVars PROVE RowsInv'
  OBVIOUS
<1>1. CASE Breaks \/ OrdinalFails
  BY <1>1, OtherStepsKeepRows DEF Breaks, OrdinalFails
<1>2. CASE UNCHANGED exportVars
  BY <1>2 DEF exportVars, RowsInv, RowsExact, FillInv, Passed, Expected, Unnamed
<1> QED BY <1>1, <1>2, OtherStepsKeepRows, FillStepsKeepRows DEF Next

\* No row is inserted before the directory is read.
LEMMA RowsStart == Init => RowsInv
  BY ExportsAssumption DEF Init, RowsInv, RowsExact

\* While rows are inserted there is room, since those that are there are some
\* of those that were counted.
LEMMA RowsGive == ChainInv /\ RowsInv => RowsExact
<1> SUFFICES ASSUME ChainInv, RowsInv, phase = "fill" PROVE RowsExact
  BY DEF RowsInv
<1>1. Linked /\ FillInv
  BY AllLinked DEF RowsInv, FillInv
<1> QED BY <1>1, RowsFit DEF RowsInv, RowsExact, FillInv

\* For any export tables: a page that is shown has every export once and in
\* order, and no page has more rows than were counted (dll.c:215-292).
THEOREM RowsAreExact == ExportsSpec => []RowsExact
  BY RowsStart, RowsStep, RowsGive, ChainInvariant, PTL DEF ExportsSpec

-----------------------------------------------------------------------------
(* The .ico viewer (IcoFile).                                              *)

\* What Append does, place by place.
LEMMA AppendFacts ==
  ASSUME NEW S, NEW s \in Seq(S), NEW x \in S
  PROVE  /\ Append(s, x) \in Seq(S) /\ Len(s) \in Nat
         /\ DOMAIN s = 1 .. Len(s) /\ \A k \in 1 .. Len(s) : s[k] \in S
         /\ DOMAIN Append(s, x) = 1 .. (Len(s) + 1)
         /\ Len(Append(s, x)) = Len(s) + 1
         /\ Append(s, x)[Len(s) + 1] = x
         /\ \A k \in 1 .. Len(s) : Append(s, x)[k] = s[k]
OBVIOUS

\* An element of a sequence is one of what the sequence is made of.
LEMMA ElementType ==
  ASSUME NEW S, NEW s \in Seq(S), NEW k \in 1 .. Len(s)
  PROVE  s[k] \in S
OBVIOUS

\* What the directory says of its images.
LEMMA IcoFileTypes ==
  ASSUME icoFile \in IcoFiles
  PROVE  /\ icoFile.size \in Nat /\ icoFile.count \in Nat
         /\ icoFile.count = Len(icoFile.entries)
         /\ icoFile.entries \in Seq([bits : Nat, bytes : Nat, offset : Nat])
         /\ \A o : ImageAt(o).depth \in Nat /\ ImageAt(o).bits \in Nat
<1>1. NoImage.depth = 0 /\ NoImage.bits = 0
  BY DEF NoImage
<1> QED BY <1>1, IcoAssumption DEF ImageAt

\* The first bytes of an image are bytes of the image.
LEMMA LookedAtFits ==
  ASSUME NEW e \in [bits : Nat, bytes : Nat, offset : Nat]
  PROVE  LookedAt(e) \in Nat /\ LookedAt(e) <= e.bytes
<1>1. e.bytes \in Nat
  OBVIOUS
<1>2. e.bytes >= PngSignature \/ ~IsPng(ImageAt(e.offset), e.bytes)
  BY DEF IsPng
<1> QED BY <1>1, <1>2 DEF LookedAt, PngSignature, PngHeader, DibCore, DibInfo

\* An inferred depth is a number.
LEMMA BitsType ==
  ASSUME icoFile \in IcoFiles, NEW o, NEW size
  PROVE  PngBits(ImageAt(o), size) \in Nat /\ DibBits(ImageAt(o), size) \in Nat
<1>1. Channels(ImageAt(o).color) \in 0 .. 4
  BY DEF Channels
<1>2. \A d \in Nat, c \in 0 .. 4 : d * c \in Nat
  OBVIOUS
<1> QED BY <1>1, <1>2, IcoFileTypes DEF PngBits, DibBits

\* Where the viewer fails nothing is left to be wrong.
LEMMA FailedKeeps ==
  ASSUME IcoTypeOK, IcoInv, IcoFails
  PROVE  IcoTypeOK' /\ IcoInv'
<1>1. IcoTypeOK'
  BY DEF IcoFails, IcoTypeOK
<1>2. RowsMatch'
  BY DEF IcoFails, RowsMatch
<1>3. IcoReadsInside'
  BY DEF IcoFails, IcoInv, IcoReadsInside
<1> QED BY <1>1, <1>2, <1>3 DEF IcoFails, IcoInv

\* An entry that is taken names bytes of the file.
LEMMA EntryKeeps ==
  ASSUME IcoTypeOK, IcoInv, ParseEntry
  PROVE  IcoTypeOK' /\ IcoInv'
<1> DEFINE n == Len(icoEntries) + 1
           e == icoFile.entries[n]
           i == ImageAt(e.offset)
           png == IsPng(i, e.bytes)
           bits == IF e.bits # 0 THEN e.bits ELSE IF png THEN PngBits(i, e.bytes)
                   ELSE DibBits(i, e.bytes)
           taken == [png |-> png, bytes |-> e.bytes, offset |-> e.offset,
                     bits |-> bits]
<1>1. icoPhase = "entries" /\ e \in [bits : Nat, bytes : Nat, offset : Nat]
  <2>1. Len(icoEntries) \in Nat /\ Len(icoEntries) < icoFile.count
    BY DEF ParseEntry, IcoTypeOK
  <2>2. icoFile.entries \in Seq([bits : Nat, bytes : Nat, offset : Nat])
        /\ icoFile.count = Len(icoFile.entries)
    BY IcoFileTypes DEF IcoTypeOK
  <2>3. n \in 1 .. Len(icoFile.entries)
    BY <2>1, <2>2
  <2>4. icoPhase = "entries"
    BY DEF ParseEntry
  <2> HIDE DEF n
  <2> QED BY <2>2, <2>3, <2>4, ElementType
<1>2. CASE IcoFails
  BY <1>2, FailedKeeps
<1>3. ASSUME EntryFits(e), icoEntries' = Append(icoEntries, taken),
             icoRead' = [at |-> e.offset, size |-> LookedAt(e)],
             UNCHANGED <<icoFile, icoPhase, icoImages, icoRows>>
      PROVE  IcoTypeOK' /\ IcoInv'
  <2>1. e.offset \in Nat /\ e.bytes \in Nat /\ icoFile.size \in Nat
    BY <1>1, IcoFileTypes DEF IcoTypeOK
  <2>2. e.offset + e.bytes <= icoFile.size
    BY <1>3, <2>1 DEF EntryFits
  <2>3. LookedAt(e) \in Nat /\ LookedAt(e) <= e.bytes
    BY <1>1, LookedAtFits
  <2>4. bits \in Nat
    BY <1>1, BitsType DEF IcoTypeOK
  <2>5. taken \in [png : BOOLEAN, bytes : Nat, offset : Nat, bits : Nat]
        /\ taken.offset = e.offset /\ taken.bytes = e.bytes
    BY <2>1, <2>4 DEF IsPng
  <2> HIDE DEF taken, bits, png, i, e
  <2>6. IcoTypeOK'
    BY <1>3, <2>1, <2>3, <2>5 DEF IcoTypeOK
  <2>7. \A k \in DOMAIN icoEntries' :
          \/ icoEntries'[k] = taken
          \/ k \in DOMAIN icoEntries /\ icoEntries'[k] = icoEntries[k]
    <3> DEFINE S == [png : BOOLEAN, bytes : Nat, offset : Nat, bits : Nat]
    <3>1. icoEntries \in Seq(S) /\ taken \in S
      BY <2>5 DEF IcoTypeOK
    <3> HIDE DEF S
    <3>2. /\ DOMAIN icoEntries = 1 .. Len(icoEntries) /\ Len(icoEntries) \in Nat
          /\ DOMAIN icoEntries' = 1 .. (Len(icoEntries) + 1)
          /\ icoEntries'[Len(icoEntries) + 1] = taken
          /\ \A k \in 1 .. Len(icoEntries) : icoEntries'[k] = icoEntries[k]
      BY <1>3, <3>1, AppendFacts
    <3> QED BY <3>2
  <2>8. \A k \in DOMAIN icoEntries' :
          icoEntries'[k].offset + icoEntries'[k].bytes <= icoFile.size
    BY <2>2, <2>5, <2>7 DEF IcoInv
  <2>9. icoRead'.at + icoRead'.size <= icoFile.size
    BY <1>3, <2>1, <2>2, <2>3
  <2>10. icoRows = <<>>
    BY <1>1 DEF IcoInv
  <2>11. IcoHeaderSize + icoFile.count * IcoEntrySize <= icoFile.size
    BY <1>1 DEF IcoInv, IcoReadsInside
  <2>12. icoPhase' = "entries" /\ icoFile' = icoFile /\ icoRows' = <<>>
    BY <1>1, <1>3, <2>10
  <2>13. RowsMatch'
    BY <1>3 DEF IcoInv, RowsMatch, HasIcon
  <2> QED BY <2>6, <2>8, <2>9, <2>11, <2>12, <2>13 DEF IcoInv, IcoReadsInside
<1> QED BY <1>2, <1>3 DEF ParseEntry

\* A row gets the number of the image that is added with it.
LEMMA RowKeeps ==
  ASSUME IcoTypeOK, IcoInv, AddRow
  PROVE  IcoTypeOK' /\ IcoInv'
<1>0. PICK n : n = Len(icoRows) + 1
  OBVIOUS
<1> DEFINE e == icoEntries[n]
<1>1. icoPhase = "rows" /\ n \in DOMAIN icoEntries /\ n \in Nat
  <2>1. /\ icoPhase = "rows" /\ Len(icoRows) < icoFile.count
        /\ Len(icoEntries) = icoFile.count
    BY DEF AddRow, IcoInv
  <2>2. Len(icoRows) \in Nat /\ Len(icoEntries) \in Nat
        /\ DOMAIN icoEntries = 1 .. Len(icoEntries)
    BY DEF IcoTypeOK
  <2> QED BY <1>0, <2>1, <2>2
<1>2. CASE IcoFails
  BY <1>2, FailedKeeps
<1>3. ASSUME NEW image \in Nat, icoRows' = Append(icoRows, [entry |-> n, image |-> image]),
             \/ image = 0 /\ icoImages' = icoImages
             \/ image = Len(icoImages) /\ icoImages' = Append(icoImages, n),
             icoRead' = [at |-> e.offset, size |-> e.bytes],
             UNCHANGED <<icoFile, icoPhase, icoEntries>>
      PROVE  IcoTypeOK' /\ IcoInv'
  <2> DEFINE row == [entry |-> n, image |-> image]
  <2>1. row \in [entry : Nat, image : Nat] /\ row.entry = n /\ row.image = image
    BY <1>1
  <2>2. /\ e.offset \in Nat /\ e.bytes \in Nat
        /\ e.offset + e.bytes <= icoFile.size
    <3>1. icoEntries[n] \in [png : BOOLEAN, bytes : Nat, offset : Nat, bits : Nat]
      <4> DEFINE S == [png : BOOLEAN, bytes : Nat, offset : Nat, bits : Nat]
      <4>1. icoEntries \in Seq(S)
        BY DEF IcoTypeOK
      <4> HIDE DEF S
      <4>2. n \in 1 .. Len(icoEntries)
        BY <1>1, <4>1
      <4>3. icoEntries[n] \in S
        BY <4>1, <4>2, ElementType
      <4> QED BY <4>3 DEF S
    <3> QED BY <1>1, <3>1 DEF IcoInv
  <2>3. /\ DOMAIN icoImages = 1 .. Len(icoImages) /\ Len(icoImages) \in Nat
        /\ icoImages \in Seq(Nat)
    BY DEF IcoTypeOK
  <2> HIDE DEF e, row
  <2>4. ASSUME image = Len(icoImages), icoImages' = Append(icoImages, n)
        PROVE  /\ icoImages' \in Seq(Nat)
               /\ DOMAIN icoImages' = 1 .. (Len(icoImages) + 1)
               /\ icoImages'[Len(icoImages) + 1] = n
               /\ \A k \in 1 .. Len(icoImages) : icoImages'[k] = icoImages[k]
    BY <1>1, <2>3, <2>4, AppendFacts
  <2>5. icoImages' \in Seq(Nat)
    BY <1>3, <2>3, <2>4
  <2>6. IcoTypeOK'
    <3>1. icoRows \in Seq([entry : Nat, image : Nat]) /\ icoRows' = Append(icoRows, row)
      BY <1>3 DEF IcoTypeOK, row
    <3>2. icoRows' \in Seq([entry : Nat, image : Nat])
      BY <2>1, <3>1
    <3>3. icoRead' \in [at : Nat, size : Nat]
      BY <1>3, <2>2
    <3> QED BY <1>3, <2>5, <3>2, <3>3 DEF IcoTypeOK
  <2>7. /\ DOMAIN icoRows = 1 .. Len(icoRows) /\ Len(icoRows) \in Nat
        /\ n = Len(icoRows) + 1 /\ DOMAIN icoRows' = 1 .. n /\ icoRows'[n] = row
        /\ \A r \in 1 .. Len(icoRows) : icoRows'[r] = icoRows[r]
    <3> DEFINE R == [entry : Nat, image : Nat]
    <3>1. icoRows \in Seq(R) /\ row \in R
      BY <2>1 DEF IcoTypeOK
    <3>2. icoRows' = Append(icoRows, row) /\ n = Len(icoRows) + 1
      BY <1>0, <1>3 DEF row
    <3> HIDE DEF R
    <3> QED BY <3>1, <3>2, AppendFacts
  <2>0. RowsMatch
    BY DEF IcoInv
  <2>8. ASSUME NEW j \in DOMAIN icoImages
        PROVE  icoImages[j] \in DOMAIN icoRows /\ icoImages[j] # n
    <3>1. icoImages[j] \in DOMAIN icoRows
      BY <2>0 DEF RowsMatch
    <3> QED BY <2>7, <3>1
  <2>9. RowsMatch'
    <3>1. CASE image = 0 /\ icoImages' = icoImages
      <4>1. ~HasIcon(n)'
        BY <2>8, <3>1 DEF HasIcon
      <4>2. \A r \in DOMAIN icoRows : HasIcon(r)' <=> HasIcon(r)
        BY <3>1 DEF HasIcon
      <4>3. ASSUME NEW r \in DOMAIN icoRows'
            PROVE  r = n \/ (r \in DOMAIN icoRows /\ icoRows'[r] = icoRows[r])
        BY <2>7
      <4>4. \A r \in DOMAIN icoRows : r \in DOMAIN icoRows'
        BY <2>7
      <4>5. ASSUME NEW r \in DOMAIN icoRows'
            PROVE  /\ icoRows'[r].entry = r
                   /\ HasIcon(r)' => /\ icoRows'[r].image + 1 \in DOMAIN icoImages'
                                     /\ icoImages'[icoRows'[r].image + 1] = r
                   /\ ~HasIcon(r)' => icoRows'[r].image = 0
        <5>1. CASE r = n
          BY <2>1, <2>7, <3>1, <4>1, <5>1
        <5>2. CASE r # n
          <6>1. r \in DOMAIN icoRows /\ icoRows'[r] = icoRows[r] /\ (HasIcon(r)' <=> HasIcon(r))
            BY <4>2, <4>3, <5>2
          <6> QED BY <2>0, <3>1, <6>1 DEF RowsMatch
        <5> QED BY <5>1, <5>2
      <4>6. \A j \in DOMAIN icoImages' : icoImages'[j] \in DOMAIN icoRows'
        BY <2>8, <3>1, <4>4
      <4> QED BY <4>5, <4>6 DEF RowsMatch
    <3>2. CASE image = Len(icoImages) /\ icoImages' = Append(icoImages, n)
      <4>0. /\ DOMAIN icoImages' = 1 .. (Len(icoImages) + 1)
            /\ icoImages'[Len(icoImages) + 1] = n
            /\ \A k \in 1 .. Len(icoImages) : icoImages'[k] = icoImages[k]
        BY <2>4, <3>2
      <4>1. image + 1 \in DOMAIN icoImages' /\ icoImages'[image + 1] = n
        BY <2>3, <3>2, <4>0
      <4>2. HasIcon(n)'
        BY <4>1 DEF HasIcon
      <4>3. ASSUME NEW r \in DOMAIN icoRows
            PROVE  /\ HasIcon(r)' <=> HasIcon(r)
                   /\ r \in DOMAIN icoRows' /\ icoRows'[r] = icoRows[r] /\ r # n
        <5>1. r \in DOMAIN icoRows' /\ icoRows'[r] = icoRows[r] /\ r # n
          BY <2>7
        <5>2. HasIcon(r) => HasIcon(r)'
          BY <2>3, <4>0 DEF HasIcon
        <5>3. HasIcon(r)' => HasIcon(r)
          <6> SUFFICES ASSUME NEW j \in DOMAIN icoImages', icoImages'[j] = r
                       PROVE  HasIcon(r)
            BY DEF HasIcon
          <6>1. j \in 1 .. Len(icoImages)
            BY <2>3, <4>0, <5>1
          <6> QED BY <2>3, <4>0, <6>1 DEF HasIcon
        <5> QED BY <5>1, <5>2, <5>3
      <4>4. \A k \in DOMAIN icoImages : k \in DOMAIN icoImages' /\ icoImages'[k] = icoImages[k]
        BY <2>3, <4>0
      <4>5. ASSUME NEW r \in DOMAIN icoRows'
            PROVE  /\ icoRows'[r].entry = r
                   /\ HasIcon(r)' => /\ icoRows'[r].image + 1 \in DOMAIN icoImages'
                                     /\ icoImages'[icoRows'[r].image + 1] = r
                   /\ ~HasIcon(r)' => icoRows'[r].image = 0
        <5>1. CASE r = n
          BY <2>1, <2>7, <4>1, <4>2, <5>1
        <5>2. CASE r # n
          <6>1. r \in DOMAIN icoRows
            BY <2>7, <5>2
          <6>2. icoRows'[r] = icoRows[r] /\ (HasIcon(r)' <=> HasIcon(r))
            BY <4>3, <6>1
          <6> QED BY <2>0, <4>4, <6>1, <6>2 DEF RowsMatch
        <5> QED BY <5>1, <5>2
      <4>6. ASSUME NEW j \in DOMAIN icoImages' PROVE icoImages'[j] \in DOMAIN icoRows'
        <5>1. j \in DOMAIN icoImages \/ icoImages'[j] = n
          BY <2>3, <4>0
        <5>2. n \in DOMAIN icoRows'
          BY <2>7
        <5> QED BY <2>8, <4>3, <4>4, <5>1, <5>2
      <4> QED BY <4>5, <4>6 DEF RowsMatch
    <3> QED BY <1>3, <3>1, <3>2
  <2>10. icoRead'.at + icoRead'.size <= icoFile.size
    BY <1>3, <2>2
  <2>11. /\ IcoHeaderSize + icoFile.count * IcoEntrySize <= icoFile.size
         /\ Len(icoEntries) = icoFile.count
         /\ \A k \in DOMAIN icoEntries :
              icoEntries[k].offset + icoEntries[k].bytes <= icoFile.size
    BY <1>1 DEF IcoInv, IcoReadsInside
  <2>12. icoPhase' = "rows" /\ icoFile' = icoFile /\ icoEntries' = icoEntries
    BY <1>1, <1>3
  <2> QED BY <2>6, <2>9, <2>10, <2>11, <2>12 DEF IcoInv, IcoReadsInside
<1>4. Len(icoImages) \in Nat
  BY DEF IcoTypeOK
<1> QED BY <1>0, <1>2, <1>3, <1>4 DEF AddRow, Added

\* A directory that fits in what is left behind the header fits in the file.
LEMMA RoomForEntries ==
  ASSUME NEW size \in Nat, NEW count \in Nat,
         count > 0, count <= (size - 6) \div 16
  PROVE  6 + count * 16 <= size /\ 6 <= size
<1> DEFINE left == size - 6
           q == left \div 16
<1>1. left \in Int
  OBVIOUS
<1> HIDE DEF left
<1>2. q \in Int /\ q * 16 <= left
  BY <1>1
<1>3. count <= q
  BY DEF left
<1> HIDE DEF q
<1>4. count * 16 <= left
  BY <1>1, <1>2, <1>3
<1> QED BY <1>4 DEF left

\* Every step of fx_ico_load and fx_ico_populate keeps the invariant.
LEMMA IcoStep == IcoTypeOK /\ IcoInv /\ [IcoNext]_icoVars => IcoTypeOK' /\ IcoInv'
<1> SUFFICES ASSUME IcoTypeOK, IcoInv, [IcoNext]_icoVars
             PROVE  IcoTypeOK' /\ IcoInv'
  OBVIOUS
<1>1. CASE IcoFails
  BY <1>1, FailedKeeps
<1>2. UNCHANGED <<icoRows, icoImages>> => RowsMatch'
  BY DEF IcoInv, RowsMatch, HasIcon
<1> USE DEF IcoTypeOK, IcoInv, IcoReadsInside
<1>3. CASE ReadIco
  BY <1>1, <1>2, <1>3 DEF ReadIco
<1>4. CASE ParseHeader
  <2>1. CASE DirectoryFits /\ ~IcoFails
    <3>1. icoFile.size \in Nat /\ icoFile.count \in Nat
      BY IcoFileTypes
    <3>2. icoFile.count > 0 /\ icoFile.count <= (icoFile.size - 6) \div 16
      BY <2>1 DEF DirectoryFits, IcoHeaderSize, IcoEntrySize
    <3>3. 6 + icoFile.count * 16 <= icoFile.size /\ 6 <= icoFile.size
      BY <3>1, <3>2, RoomForEntries
    <3>4. IcoHeaderSize + icoFile.count * IcoEntrySize <= icoFile.size
      BY <3>3 DEF IcoHeaderSize, IcoEntrySize
    <3>5. icoRead' = [at |-> 0, size |-> 6] /\ icoPhase' = "entries"
          /\ icoPhase = "header" /\ UNCHANGED <<icoFile, icoEntries, icoImages, icoRows>>
      BY <1>4, <2>1 DEF ParseHeader, IcoHeaderSize
    <3>6. icoRead'.at + icoRead'.size <= icoFile.size
      BY <3>3, <3>5
    <3> QED BY <1>2, <3>4, <3>5, <3>6
  <2> QED BY <1>1, <1>4, <2>1 DEF ParseHeader
<1>5. CASE ParseEntry
  BY <1>5, EntryKeeps
<1>6. CASE CreateImageList
  BY <1>1, <1>2, <1>6 DEF CreateImageList
<1>7. CASE AddRow
  BY <1>7, RowKeeps
<1>8. CASE ShowIcons
  BY <1>2, <1>8 DEF ShowIcons
<1>9. CASE UNCHANGED icoVars
  BY <1>2, <1>9 DEF icoVars
<1> QED BY <1>3, <1>4, <1>5, <1>6, <1>7, <1>8, <1>9 DEF IcoNext

\* Nothing is read before the file is.
LEMMA IcoStart == IcoInit => IcoTypeOK /\ IcoInv
  BY IcoAssumption DEF IcoInit, IcoTypeOK, IcoInv, IcoReadsInside, RowsMatch

\* A row that names the place of its image is drawn with it, one that names
\* the first place with the first.
LEMMA RowsDraw == IcoTypeOK /\ IcoInv => IconsSound
<1> SUFFICES ASSUME IcoTypeOK, IcoInv PROVE IconsSound
  OBVIOUS
<1>1. ASSUME NEW r \in DOMAIN icoRows
      PROVE  /\ icoRows[r].entry = r
             /\ HasIcon(r) => Drawn(r) = r
             /\ ~HasIcon(r) /\ icoImages # <<>> => Drawn(r) = icoImages[1]
  <2>1. HasIcon(r) => Drawn(r) = r
    BY DEF IcoInv, RowsMatch, Drawn
  <2>2. ASSUME ~HasIcon(r), icoImages # <<>> PROVE Drawn(r) = icoImages[1]
    <3>1. 1 \in DOMAIN icoImages
      BY <2>2 DEF IcoTypeOK
    <3>2. icoRows[r].image = 0
      BY <2>2 DEF IcoInv, RowsMatch
    <3> QED BY <3>1, <3>2 DEF Drawn
  <2> QED BY <2>1, <2>2 DEF IcoInv, RowsMatch
<1> QED BY <1>1 DEF IcoInv, IconsSound

\* For any directory of images, overlapping or in any order: nothing outside
\* the file is read, every row with an icon previews it, and a row without
\* one is drawn with the first icon there is (ico.c:188-388).
THEOREM IconsAreSound == IcoSpec => []IconsSound
<1> QED BY IcoStart, IcoStep, RowsDraw, PTL DEF IcoSpec

-----------------------------------------------------------------------------
(* The .efi viewer (EfiImage).                                             *)

\* A set of naturals that is not empty has a least element.
LEMMA LeastNatural ==
  ASSUME NEW T, T \subseteq Nat, T # {}
  PROVE  \E i \in T : \A j \in T : ~(j < i)
<1>1. PICK i \in T : \A j \in T : ~(<<j, i>> \in OpToRel(<, Nat))
  BY WFMin, NatLessThanWellFounded
<1>2. \A j \in T : j < i => <<j, i>> \in OpToRel(<, Nat)
  BY DEF OpToRel
<1> QED
  BY <1>1, <1>2

\* The first section of the name is a section of the table (pe.c:145).
LEMMA FirstSection ==
  ASSUME mapped \in EfiFiles, SbatSections # {}
  PROVE  TheSbat.ptr \in Nat /\ TheSbat.raw \in Nat
<1> DEFINE S == SbatSections
           m == Sets!Min(S)
           T == [sbat : BOOLEAN, ptr : Nat, raw : Nat]
<1>1. mapped.sections \in Seq(T)
  BY EfiAssumption
<1>2. S \subseteq Nat /\ S # {} /\ S \subseteq 1 .. Len(mapped.sections)
  <2>1. S \subseteq DOMAIN mapped.sections /\ S # {}
    BY DEF SbatSections
  <2>2. DOMAIN mapped.sections = 1 .. Len(mapped.sections) /\ Len(mapped.sections) \in Nat
    BY <1>1
  <2> HIDE DEF S, T
  <2>3. S \subseteq 1 .. Len(mapped.sections)
    BY <2>1, <2>2
  <2>4. S \subseteq Nat
    BY <2>2, <2>3
  <2> QED BY <2>1, <2>3, <2>4
<1>3. PICK x \in S : \A y \in S : ~(y < x)
  <2> HIDE DEF S
  <2> QED BY <1>2, LeastNatural
<1>4. \A y \in S : x <= y
  <2> HIDE DEF S, T, m
  <2>1. ASSUME NEW y \in S PROVE x <= y
    <3>1. x \in Nat /\ y \in Nat /\ ~(y < x)
      BY <1>2, <1>3
    <3> QED BY <3>1
  <2> QED BY <2>1
<1>5. m \in S
  <2> HIDE DEF S
  <2> QED BY <1>4 DEF Sets!Min
<1>6. mapped.sections[m] \in T
  <2> HIDE DEF T, S, m
  <2> QED BY <1>1, <1>2, <1>5, ElementType
<1> QED BY <1>6 DEF TheSbat

\* What holds of 0, and of m when of m - 1, holds up to n.
LEMMA UpTo ==
  ASSUME NEW n \in Nat, NEW T, 0 \in T, \A m \in 1 .. n : m - 1 \in T => m \in T
  PROVE  0 .. n \subseteq T
<1> DEFINE Off == {m \in 0 .. n : m \notin T}
<1> SUFFICES ASSUME Off # {} PROVE FALSE
  OBVIOUS
<1>1. PICK m \in Off : \A k \in Off : ~(k < m)
  <2>1. Off \subseteq Nat
    OBVIOUS
  <2> HIDE DEF Off
  <2> QED BY <2>1, LeastNatural
<1>2. m \in 1 .. n /\ m - 1 \in 0 .. n /\ m - 1 \in T
  BY <1>1
<1> QED BY <1>1, <1>2

\* A sequence of sequences is flattened one by one.
LEMMA FlattenedFrom ==
  ASSUME NEW S, NEW n \in Nat, NEW seqs \in [1 .. n -> Seq(S)]
  PROVE  \E f \in [0 .. n -> Seq(S)] :
           /\ f[0] = <<>> /\ \A i \in 1 .. n : f[i] = f[i - 1] \o seqs[i]
           /\ Seqs!FlattenSeq(seqs) = f[n]
<1> DEFINE Right(m, f) == /\ f \in [0 .. m -> Seq(S)] /\ f[0] = <<>>
                          /\ \A i \in 1 .. m : f[i] = f[i - 1] \o seqs[i]
<1>1. \E f : Right(0, f)
  <2> DEFINE f == [i \in 0 .. 0 |-> <<>>]
  <2>1. f \in [0 .. 0 -> Seq(S)] /\ f[0] = <<>> /\ 1 .. 0 = {}
    OBVIOUS
  <2> QED BY <2>1
<1>2. ASSUME NEW m \in 1 .. n, NEW f, Right(m - 1, f) PROVE \E g : Right(m, g)
  <2> DEFINE last == f[m - 1] \o seqs[m]
             g == [i \in 0 .. m |-> IF i = m THEN last ELSE f[i]]
  <2>1. m - 1 \in 0 .. m - 1 /\ f \in [0 .. m - 1 -> Seq(S)] /\ f[0] = <<>>
        /\ 0 \in 0 .. m /\ 0 # m
    BY <1>2
  <2>2. last \in Seq(S)
    BY <2>1
  <2> HIDE DEF last
  <2>3. ASSUME NEW i \in 0 .. m PROVE g[i] \in Seq(S)
    BY <2>1, <2>2
  <2>4. ASSUME NEW i \in 1 .. m PROVE g[i] = g[i - 1] \o seqs[i]
    <3>1. CASE i = m
      <4>1. m - 1 \in 0 .. m /\ m - 1 # m /\ g[m] = last /\ g[m - 1] = f[m - 1]
        OBVIOUS
      <4> QED BY <3>1, <4>1 DEF last
    <3>2. CASE i # m
      <4>1. i \in 1 .. m - 1 /\ i - 1 # m /\ i - 1 \in 0 .. m /\ i \in 0 .. m
        BY <3>2
      <4>2. f[i] = f[i - 1] \o seqs[i]
        BY <1>2, <4>1
      <4> QED BY <3>2, <4>1, <4>2
    <3> QED BY <3>1, <3>2
  <2>5. g[0] = <<>>
    BY <2>1
  <2> QED BY <2>3, <2>4, <2>5
<1>3. PICK f : Right(n, f)
  <2> DEFINE T == {m \in 0 .. n : \E f : Right(m, f)}
  <2> HIDE DEF Right
  <2>1. 0 .. n \subseteq T
    <3>1. 0 \in T
      BY <1>1
    <3>2. ASSUME NEW m \in 1 .. n, m - 1 \in T PROVE m \in T
      <4>1. \E f : Right(m, f)
        BY <1>2, <3>2
      <4> QED BY <4>1
    <3> HIDE DEF T
    <3> QED BY <3>1, <3>2, UpTo
  <2>2. n \in T
    BY <2>1
  <2> QED BY <2>2
<1>5. Len(seqs) = n
  OBVIOUS
<1>6. CASE n = 0
  <2>1. seqs = <<>>
    BY <1>6
  <2>2. Seqs!FlattenSeq(seqs) = seqs
    BY <1>5, <1>6 DEF Seqs!FlattenSeq
  <2> QED BY <1>3, <1>6, <2>1, <2>2
<1>7. CASE n # 0
  <2> DEFINE h == [i \in 1 .. n |-> f[i]]
  <2>1. f[1] = seqs[1]
    <3>1. 1 \in 1 .. n
      BY <1>7
    <3>2. f[1] = f[1 - 1] \o seqs[1] /\ f[0] = <<>> /\ seqs[1] \in Seq(S)
      BY <1>3, <3>1
    <3>3. 1 - 1 = 0
      OBVIOUS
    <3>4. f[1] = <<>> \o seqs[1]
      BY <3>2, <3>3
    <3>5. <<>> \o seqs[1] = seqs[1]
      BY <3>2
    <3> QED BY <3>4, <3>5
  <2>2. h = [i \in 1 .. n |-> IF i = 1 THEN seqs[i] ELSE h[i - 1] \o seqs[i]]
    <3>1. ASSUME NEW i \in 1 .. n
          PROVE  f[i] = IF i = 1 THEN seqs[i] ELSE h[i - 1] \o seqs[i]
      <4>1. CASE i = 1
        BY <2>1, <4>1
      <4>2. CASE i # 1
        <5>1. i - 1 \in 1 .. n
          BY <4>2
        <5>2. f[i] = f[i - 1] \o seqs[i]
          BY <1>3
        <5> QED BY <4>2, <5>1, <5>2
      <4> QED BY <4>1, <4>2
    <3> QED BY <3>1
  <2> DEFINE F == CHOOSE g : g = [i \in 1 .. n |->
                    IF i = 1 THEN seqs[i] ELSE g[i - 1] \o seqs[i]]
  <2>3. F = [i \in 1 .. n |-> IF i = 1 THEN seqs[i] ELSE F[i - 1] \o seqs[i]]
    <3> HIDE DEF h
    <3> QED BY <2>2
  <2>4. Seqs!FlattenSeq(seqs) = F[n]
    BY <1>5, <1>7 DEF Seqs!FlattenSeq
  <2> HIDE DEF F, h
  <2>5. \A i \in 1 .. n : F[i] = f[i]
    <3> DEFINE T == {0} \cup {i \in 1 .. n : F[i] = f[i]}
    <3>1. ASSUME NEW i \in 1 .. n, i - 1 \in T PROVE i \in T
      <4>1. CASE i = 1
        BY <2>1, <2>3, <4>1
      <4>2. CASE i # 1
        <5>1. i - 1 \in 1 .. n /\ F[i - 1] = f[i - 1]
          BY <3>1, <4>2
        <5>2. F[i] = f[i - 1] \o seqs[i]
          BY <2>3, <4>2, <5>1
        <5> QED BY <1>3, <5>2
      <4> QED BY <4>1, <4>2
    <3>2. 0 .. n \subseteq T
      <4>1. 0 \in T
        OBVIOUS
      <4> HIDE DEF T
      <4> QED BY <3>1, <4>1, UpTo
    <3> QED BY <3>2
  <2>6. n \in 1 .. n
    BY <1>7
  <2>7. Seqs!FlattenSeq(seqs) = f[n]
    BY <2>4, <2>5, <2>6
  <2> QED BY <1>3, <2>7
<1> QED BY <1>6, <1>7

\* What the characters up to each one are written as.
Writes(C, t, f) ==
  /\ Len(t) \in Nat /\ "cr" \in C /\ \A i \in 1 .. Len(t) : t[i] \in C
  /\ f \in [0 .. Len(t) -> Seq(C)]
  /\ f[0] = <<>> /\ \A i \in 1 .. Len(t) : f[i] = f[i - 1] \o Written(t, i)

\* A line feed that needs it adds two characters to what is written, anything else one.
LEMMA OneMoreWritten ==
  ASSUME NEW C, NEW t, NEW f, Writes(C, t, f), NEW n \in 1 .. Len(t)
  PROVE  LET o == Len(f[n - 1])
         IN  /\ o \in Nat /\ \A j \in 1 .. o : f[n][j] = f[n - 1][j]
             /\ Lonely(t, n) => /\ Len(f[n]) = o + 2 /\ t[n] = "lf"
                                /\ f[n][o + 1] = "cr" /\ f[n][o + 2] = "lf"
             /\ ~Lonely(t, n) => Len(f[n]) = o + 1 /\ f[n][o + 1] = t[n]
<1>0. Len(t) \in Nat /\ f \in [0 .. Len(t) -> Seq(C)] /\ t[n] \in C /\ "cr" \in C
  BY DEF Writes
<1>1. n - 1 \in 0 .. Len(t) /\ f[n - 1] \in Seq(C)
  BY <1>0
<1>2. f[n] = f[n - 1] \o Written(t, n)
  BY DEF Writes
<1> DEFINE s == f[n - 1]
           o == Len(s)
<1>3. s \in Seq(C) /\ o \in Nat
  BY <1>1
<1>4. CASE Lonely(t, n)
  <2>1. f[n] = s \o <<"cr", t[n]>> /\ t[n] = "lf"
    BY <1>2, <1>4 DEF Written, Lonely
  <2> HIDE DEF s
  <2>2. <<"cr", t[n]>> \in Seq(C)
    BY <1>0
  <2>3. /\ Len(s \o <<"cr", t[n]>>) = o + 2
        /\ \A j \in 1 .. o : (s \o <<"cr", t[n]>>)[j] = s[j]
        /\ (s \o <<"cr", t[n]>>)[o + 1] = "cr" /\ (s \o <<"cr", t[n]>>)[o + 2] = t[n]
    BY <1>3, <2>2
  <2> QED BY <1>3, <1>4, <2>1, <2>3 DEF s
<1>5. CASE ~Lonely(t, n)
  <2>1. f[n] = s \o <<t[n]>>
    BY <1>2, <1>5 DEF Written
  <2> HIDE DEF s
  <2>2. <<t[n]>> \in Seq(C)
    BY <1>0
  <2>3. /\ Len(s \o <<t[n]>>) = o + 1
        /\ \A j \in 1 .. o : (s \o <<t[n]>>)[j] = s[j]
        /\ (s \o <<t[n]>>)[o + 1] = t[n]
    BY <1>3, <2>2
  <2> QED BY <1>3, <1>5, <2>1, <2>3 DEF s
<1> QED BY <1>4, <1>5

\* What is written stays at the front of what is written later.
LEMMA WrittenStays ==
  ASSUME NEW C, NEW t, NEW f, Writes(C, t, f), NEW k \in 0 .. Len(t)
  PROVE  \A m \in k .. Len(t) : /\ Len(f[k]) <= Len(f[m])
                                /\ k < m => Len(f[k]) < Len(f[m])
                                /\ \A j \in 1 .. Len(f[k]) : f[m][j] = f[k][j]
<1> DEFINE Stays(m) == /\ Len(f[k]) <= Len(f[m])
                       /\ k < m => Len(f[k]) < Len(f[m])
                       /\ \A j \in 1 .. Len(f[k]) : f[m][j] = f[k][j]
           T == {d \in 0 .. Len(t) : k + d <= Len(t) => Stays(k + d)}
<1>0. Len(t) \in Nat /\ f \in [0 .. Len(t) -> Seq(C)]
  BY DEF Writes
<1>1. f[k] \in Seq(C) /\ Len(f[k]) \in Nat /\ Len(t) \in Nat
  BY <1>0
<1>2. 0 \in T
  BY <1>1
<1>3. ASSUME NEW d \in 1 .. Len(t), d - 1 \in T PROVE d \in T
  <2> SUFFICES ASSUME k + d <= Len(t) PROVE Stays(k + d)
    OBVIOUS
  <2> DEFINE n == k + d
             o == Len(f[n - 1])
  <2>1. n \in 1 .. Len(t) /\ n - 1 = k + (d - 1) /\ k + (d - 1) <= Len(t)
    BY <1>1
  <2>2. Stays(n - 1)
    BY <1>3, <2>1
  <2> HIDE DEF n
  <2>3. /\ o \in Nat /\ \A j \in 1 .. o : f[n][j] = f[n - 1][j]
        /\ Len(f[n]) = o + 1 \/ Len(f[n]) = o + 2
    <3> HIDE DEF T, Stays
    <3>1. LET p == Len(f[n - 1])
          IN  /\ p \in Nat /\ \A j \in 1 .. p : f[n][j] = f[n - 1][j]
              /\ Lonely(t, n) => Len(f[n]) = p + 2
              /\ ~Lonely(t, n) => Len(f[n]) = p + 1
      BY <2>1, OneMoreWritten
    <3> QED BY <3>1
  <2> HIDE DEF o
  <2>4. Len(f[k]) <= o /\ \A j \in 1 .. Len(f[k]) : j \in 1 .. o /\ f[n - 1][j] = f[k][j]
    BY <1>1, <2>2, <2>3 DEF o
  <2>5. Stays(n)
    BY <1>1, <2>3, <2>4
  <2> QED BY <2>5 DEF n
<1>4. 0 .. Len(t) \subseteq T
  <2> HIDE DEF T
  <2> QED BY <1>1, <1>2, <1>3, UpTo
<1> QED
  <2> HIDE DEF Stays
  <2>1. ASSUME NEW m \in k .. Len(t) PROVE Stays(m)
    <3>1. m - k \in 0 .. Len(t) /\ k + (m - k) = m /\ m <= Len(t)
      BY <1>1
    <3>2. m - k \in T
      BY <1>4, <3>1
    <3> QED BY <3>1, <3>2
  <2> QED BY <2>1 DEF Stays

\* The room is that of the characters and of what is added to them.
LEMMA RoomFor ==
  ASSUME NEW C, NEW t, NEW f, Writes(C, t, f)
  PROVE  Len(f[Len(t)]) = Len(t) + Cardinality({n \in 1 .. Len(t) : Lonely(t, n)})
<1> DEFINE Gained(m) == {n \in 1 .. m : Lonely(t, n)}
           T == {m \in 0 .. Len(t) : /\ IsFiniteSet(Gained(m))
                                     /\ Len(f[m]) = m + Cardinality(Gained(m))}
<1>0. Len(t) \in Nat
  BY DEF Writes
<1>1. 0 \in T
  <2>1. Gained(0) = {} /\ Len(f[0]) = 0
    BY DEF Writes
  <2> QED BY <1>0, <2>1, FS_EmptySet
<1>2. ASSUME NEW m \in 1 .. Len(t), m - 1 \in T PROVE m \in T
  <2> DEFINE A == Gained(m - 1)
             o == Len(f[m - 1])
  <2>1. IsFiniteSet(A) /\ Cardinality(A) \in Nat /\ o = m - 1 + Cardinality(A)
    BY <1>2, FS_CardinalityType
  <2>2. /\ Lonely(t, m) => Len(f[m]) = o + 2
        /\ ~Lonely(t, m) => Len(f[m]) = o + 1
    <3> HIDE DEF T, Gained
    <3> QED BY OneMoreWritten
  <2>3. m \notin A /\ \A n : n \in 1 .. m <=> n \in 1 .. m - 1 \/ n = m
    OBVIOUS
  <2>4. CASE Lonely(t, m)
    <3>1. Gained(m) = A \cup {m}
      BY <2>3, <2>4
    <3> HIDE DEF A, o, Gained
    <3>2. IsFiniteSet(A \cup {m}) /\ Cardinality(A \cup {m}) = Cardinality(A) + 1
      <4>1. \A z : z \notin A =>
              IsFiniteSet(A \cup {z}) /\ Cardinality(A \cup {z}) = Cardinality(A) + 1
        BY <2>1, FS_AddElement
      <4> QED BY <2>3, <4>1
    <3>3. Len(f[m]) = m + (Cardinality(A) + 1)
      BY <2>1, <2>2, <2>4
    <3>4. IsFiniteSet(Gained(m)) /\ Len(f[m]) = m + Cardinality(Gained(m))
      BY <3>1, <3>2, <3>3
    <3> QED BY <1>0, <3>4
  <2>5. CASE ~Lonely(t, m)
    <3>1. Gained(m) = A
      BY <2>3, <2>5
    <3> HIDE DEF A, o, Gained
    <3> QED BY <2>1, <2>2, <2>5, <3>1
  <2> QED BY <2>4, <2>5
<1>3. Len(t) \in T
  <2> HIDE DEF T
  <2>1. 0 .. Len(t) \subseteq T
    BY <1>0, <1>1, <1>2, UpTo
  <2> QED BY <1>0, <2>1
<1> QED BY <1>3

\* The last that is written of a character is the character, and no line feed is
\* written without a carriage return.
LEMMA LinesEnd ==
  ASSUME NEW C, NEW t, NEW f, Writes(C, t, f)
  PROVE  \A j \in 1 .. Len(f[Len(t)]) :
           f[Len(t)][j] = "lf" => j > 1 /\ f[Len(t)][j - 1] = "cr"
<1> DEFINE Ends(m) == \A j \in 1 .. Len(f[m]) :
                        f[m][j] = "lf" => j > 1 /\ f[m][j - 1] = "cr"
           Last(m) == Len(f[m]) > 0 /\ f[m][Len(f[m])] = t[m]
           T == {m \in 0 .. Len(t) : Ends(m) /\ (m > 0 => Last(m))}
<1>0. Len(t) \in Nat
  BY DEF Writes
<1>1. 0 \in T
  <2>1. Len(f[0]) = 0
    BY DEF Writes
  <2> QED BY <1>0, <2>1
<1>2. ASSUME NEW m \in 1 .. Len(t), m - 1 \in T PROVE m \in T
  <2> DEFINE o == Len(f[m - 1])
  <2>1. /\ o \in Nat /\ \A j \in 1 .. o : f[m][j] = f[m - 1][j]
        /\ Lonely(t, m) => /\ Len(f[m]) = o + 2 /\ t[m] = "lf"
                           /\ f[m][o + 1] = "cr" /\ f[m][o + 2] = "lf"
        /\ ~Lonely(t, m) => Len(f[m]) = o + 1 /\ f[m][o + 1] = t[m]
    <3> HIDE DEF T
    <3> QED BY OneMoreWritten
  <2>2. Ends(m - 1) /\ (m - 1 > 0 => o > 0 /\ f[m - 1][o] = t[m - 1])
    BY <1>2
  <2> HIDE DEF o
  <2>3. \A j \in 1 .. o : f[m][j] = "lf" => j > 1 /\ f[m][j - 1] = "cr"
    <3> SUFFICES ASSUME NEW j \in 1 .. o, f[m][j] = "lf"
                 PROVE  j > 1 /\ f[m][j - 1] = "cr"
      OBVIOUS
    <3>1. j > 1 /\ f[m - 1][j - 1] = "cr"
      BY <2>1, <2>2 DEF o
    <3>2. j - 1 \in 1 .. o
      BY <2>1, <3>1
    <3> QED BY <2>1, <3>1, <3>2
  <2>4. CASE Lonely(t, m)
    <3>1. Len(f[m]) = o + 2 /\ f[m][o + 1] = "cr" /\ f[m][o + 2] = "lf" /\ t[m] = "lf"
      BY <2>1, <2>4
    <3>2. ASSUME NEW j \in 1 .. o + 2, f[m][j] = "lf"
          PROVE  j > 1 /\ f[m][j - 1] = "cr"
      <4>1. j \in 1 .. o \/ j = o + 1 \/ j = o + 2
        BY <2>1
      <4>2. CASE j \in 1 .. o
        BY <2>3, <3>2, <4>2
      <4>3. CASE j = o + 2
        <5>1. j - 1 = o + 1 /\ j > 1
          BY <2>1, <4>3
        <5> QED BY <3>1, <5>1
      <4>4. CASE j = o + 1
        BY <3>1, <3>2, <4>4
      <4> QED BY <4>1, <4>2, <4>3, <4>4
    <3>3. Ends(m)
      BY <3>1, <3>2
    <3>4. Last(m)
      BY <2>1, <3>1
    <3> HIDE DEF Ends, Last
    <3> QED BY <1>0, <3>3, <3>4
  <2>5. CASE ~Lonely(t, m)
    <3>1. Len(f[m]) = o + 1 /\ f[m][o + 1] = t[m]
      BY <2>1, <2>5
    <3>2. t[m] = "lf" => o > 0 /\ f[m][o] = "cr"
      <4> SUFFICES ASSUME t[m] = "lf" PROVE o > 0 /\ f[m][o] = "cr"
        OBVIOUS
      <4>1. m # 1 /\ t[m - 1] = "cr"
        BY <2>5 DEF Lonely
      <4>2. o > 0 /\ f[m - 1][o] = "cr"
        BY <1>0, <2>2, <4>1
      <4>3. o \in 1 .. o
        BY <2>1, <4>2
      <4> QED BY <2>1, <4>2, <4>3
    <3>3. ASSUME NEW j \in 1 .. o + 1, f[m][j] = "lf"
          PROVE  j > 1 /\ f[m][j - 1] = "cr"
      <4>1. j \in 1 .. o \/ j = o + 1
        BY <2>1
      <4>2. CASE j \in 1 .. o
        BY <2>3, <3>3, <4>2
      <4>3. CASE j = o + 1
        <5>1. j - 1 = o
          BY <2>1, <4>3
        <5>2. o > 0 /\ f[m][o] = "cr"
          BY <3>1, <3>2, <3>3, <4>3
        <5> QED BY <2>1, <4>3, <5>1, <5>2
      <4> QED BY <4>1, <4>2, <4>3
    <3>4. Ends(m)
      BY <3>1, <3>3
    <3>5. Last(m)
      BY <2>1, <3>1
    <3> HIDE DEF Ends, Last
    <3> QED BY <1>0, <3>4, <3>5
  <2> QED BY <2>4, <2>5
<1>3. Len(t) \in T
  <2> HIDE DEF T
  <2>1. 0 .. Len(t) \subseteq T
    BY <1>0, <1>1, <1>2, UpTo
  <2> QED BY <1>0, <2>1
<1> QED BY <1>3

\* Without the carriage returns before line feeds, what is written is the text.
LEMMA SameBare ==
  ASSUME NEW C, NEW t, NEW f, Writes(C, t, f)
  PROVE  Bare(f[Len(t)]) = Bare(t)
<1> DEFINE x == f[Len(t)]
<1>0. /\ Len(t) \in Nat /\ f \in [0 .. Len(t) -> Seq(C)] /\ f[0] = <<>>
      /\ \A i \in 1 .. Len(t) : t[i] \in C
  BY DEF Writes
<1>1. x \in Seq(C) /\ Len(x) \in Nat
  BY <1>0
<1>2. \A i \in 1 .. Len(t) : Remains(t, i) \in Seq(C)
  BY <1>0 DEF Remains
<1>3. \A i \in 1 .. Len(x) : Remains(x, i) \in Seq(C)
  <2> HIDE DEF x
  <2> QED BY <1>1 DEF Remains
<1>4. PICK g \in [0 .. Len(t) -> Seq(C)] :
        /\ g[0] = <<>> /\ \A i \in 1 .. Len(t) : g[i] = g[i - 1] \o Remains(t, i)
        /\ Bare(t) = g[Len(t)]
  <2> DEFINE s == [i \in 1 .. Len(t) |-> Remains(t, i)]
  <2>1. s \in [1 .. Len(t) -> Seq(C)]
    BY <1>2
  <2>2. \A i \in 1 .. Len(t) : s[i] = Remains(t, i)
    OBVIOUS
  <2>3. Bare(t) = Seqs!FlattenSeq(s)
    BY DEF Bare
  <2> HIDE DEF s
  <2>4. \E g \in [0 .. Len(t) -> Seq(C)] :
          /\ g[0] = <<>> /\ \A i \in 1 .. Len(t) : g[i] = g[i - 1] \o s[i]
          /\ Seqs!FlattenSeq(s) = g[Len(t)]
    <3>1. Len(t) \in Nat
      BY <1>0
    <3> QED BY <2>1, <3>1, FlattenedFrom
  <2> QED BY <2>2, <2>3, <2>4
<1>5. PICK h \in [0 .. Len(x) -> Seq(C)] :
        /\ h[0] = <<>> /\ \A i \in 1 .. Len(x) : h[i] = h[i - 1] \o Remains(x, i)
        /\ Bare(x) = h[Len(x)]
  <2> DEFINE s == [i \in 1 .. Len(x) |-> Remains(x, i)]
  <2>1. s \in [1 .. Len(x) -> Seq(C)]
    BY <1>3
  <2>2. \A i \in 1 .. Len(x) : s[i] = Remains(x, i)
    OBVIOUS
  <2>3. Bare(x) = Seqs!FlattenSeq(s)
    BY DEF Bare
  <2> HIDE DEF s, x
  <2>4. \E q \in [0 .. Len(x) -> Seq(C)] :
          /\ q[0] = <<>> /\ \A i \in 1 .. Len(x) : q[i] = q[i - 1] \o s[i]
          /\ Seqs!FlattenSeq(s) = q[Len(x)]
    BY <1>1, <2>1, FlattenedFrom
  <2> QED BY <2>2, <2>3, <2>4
<1> DEFINE T == {m \in 0 .. Len(t) : h[Len(f[m])] = g[m]}
<1>6. 0 \in T
  <2>1. Len(f[0]) = 0
    BY <1>0
  <2> QED BY <1>0, <1>4, <1>5, <2>1
<1>7. ASSUME NEW m \in 1 .. Len(t), m - 1 \in T PROVE m \in T
  <2> DEFINE o == Len(f[m - 1])
  <2>1. /\ o \in Nat
        /\ Lonely(t, m) => /\ Len(f[m]) = o + 2 /\ t[m] = "lf"
                           /\ f[m][o + 1] = "cr" /\ f[m][o + 2] = "lf"
        /\ ~Lonely(t, m) => Len(f[m]) = o + 1 /\ f[m][o + 1] = t[m]
    <3> HIDE DEF T
    <3> QED BY OneMoreWritten
  <2>2. \A k \in 1 .. Len(t) : /\ Len(f[k]) <= Len(x) /\ (k < Len(t) => Len(f[k]) < Len(x))
                               /\ \A j \in 1 .. Len(f[k]) : x[j] = f[k][j]
    <3> HIDE DEF T
    <3>1. ASSUME NEW k \in 1 .. Len(t)
          PROVE  /\ Len(f[k]) <= Len(x) /\ (k < Len(t) => Len(f[k]) < Len(x))
                 /\ \A j \in 1 .. Len(f[k]) : x[j] = f[k][j]
      <4>1. k \in 0 .. Len(t) /\ Len(t) \in k .. Len(t)
        BY <1>0
      <4> QED BY <4>1, WrittenStays
    <3> QED BY <3>1
  <2>3. h[o] = g[m - 1] /\ g[m - 1] \in Seq(C) /\ g[m] = g[m - 1] \o Remains(t, m)
    <3>1. m - 1 \in 0 .. Len(t)
      BY <1>0
    <3> QED BY <1>4, <1>7, <3>1
  <2> HIDE DEF x, o
  <2>4. CASE Lonely(t, m)
    <3>1. o + 1 \in 1 .. Len(x) /\ o + 2 \in 1 .. Len(x) /\ Len(f[m]) = o + 2
          /\ o + 1 \in 1 .. Len(f[m]) /\ o + 2 \in 1 .. Len(f[m])
      BY <1>1, <2>1, <2>2, <2>4
    <3>2. x[o + 1] = "cr" /\ x[o + 2] = "lf" /\ t[m] = "lf" /\ o + 1 < Len(x)
          /\ (o + 1) + 1 = o + 2 /\ (o + 1) - 1 = o /\ (o + 2) - 1 = o + 1
      BY <1>1, <2>1, <2>2, <2>4, <3>1
    <3>3. Remains(x, o + 1) = <<>> /\ Remains(x, o + 2) = <<"lf">>
      BY <3>2 DEF Remains, Swallowed
    <3>4. Remains(t, m) = <<"lf">>
      BY <3>2 DEF Remains, Swallowed
    <3>5. h[o + 1] = h[o] \o <<>> /\ h[o + 2] = h[o + 1] \o <<"lf">>
      BY <1>5, <3>1, <3>2, <3>3
    <3>6. h[o] \o <<>> = h[o]
      BY <2>3
    <3>7. h[Len(f[m])] = g[m]
      BY <2>3, <3>1, <3>4, <3>5, <3>6
    <3> QED BY <1>0, <3>7
  <2>5. CASE ~Lonely(t, m)
    <3>1. o + 1 \in 1 .. Len(x) /\ Len(f[m]) = o + 1 /\ o + 1 \in 1 .. Len(f[m])
          /\ (o + 1) - 1 = o
      BY <1>1, <2>1, <2>2, <2>5
    <3>2. x[o + 1] = t[m]
      BY <2>1, <2>2, <2>5, <3>1
    <3>3. ASSUME t[m] = "cr"
          PROVE  Swallowed(x, o + 1) <=> Swallowed(t, m)
      <4>1. CASE m = Len(t)
        <5>1. ~(m < Len(t)) /\ ~(o + 1 < Len(x))
          BY <1>0, <2>1, <3>1, <4>1 DEF x
        <5> QED BY <5>1 DEF Swallowed
      <4>2. CASE m # Len(t)
        <5> DEFINE n == m + 1
        <5>1. n \in 1 .. Len(t) /\ m < Len(t) /\ n # 1 /\ n - 1 = m
          BY <1>0, <4>2
        <5>2. ~Lonely(t, n)
          BY <3>3, <5>1 DEF Lonely
        <5>3. Len(f[n]) = Len(f[m]) + 1 /\ f[n][Len(f[m]) + 1] = t[n]
          <6> HIDE DEF n, T
          <6>1. LET p == Len(f[n - 1])
                IN  ~Lonely(t, n) => Len(f[n]) = p + 1 /\ f[n][p + 1] = t[n]
            BY <5>1, OneMoreWritten
          <6> QED BY <5>1, <5>2, <6>1
        <5>4. o + 2 \in 1 .. Len(f[n]) /\ f[n][o + 2] = t[n] /\ o + 1 < Len(x)
              /\ (o + 1) + 1 = o + 2
          <6> HIDE DEF n
          <6>1. Len(f[n]) = o + 2 /\ (o + 1) + 1 = o + 2
            BY <2>1, <3>1, <5>3
          <6>2. f[n][o + 2] = t[n]
            BY <3>1, <5>3, <6>1
          <6>3. o + 1 < Len(x)
            BY <2>2, <3>1, <5>1
          <6> QED BY <2>1, <6>1, <6>2, <6>3
        <5>5. x[o + 2] = t[m + 1]
          BY <2>2, <5>1, <5>4
        <5> QED BY <3>2, <5>1, <5>4, <5>5 DEF Swallowed
      <4> QED BY <4>1, <4>2
    <3>4. Swallowed(x, o + 1) <=> Swallowed(t, m)
      BY <3>2, <3>3 DEF Swallowed
    <3>5. Remains(x, o + 1) = Remains(t, m)
      BY <3>2, <3>4 DEF Remains
    <3>6. h[o + 1] = h[o] \o Remains(x, o + 1)
      BY <1>5, <3>1
    <3>7. h[Len(f[m])] = g[m]
      BY <2>3, <3>1, <3>5, <3>6
    <3> QED BY <1>0, <3>7
  <2> QED BY <2>4, <2>5
<1>8. h[Len(x)] = g[Len(t)]
  <2>1. 0 .. Len(t) \subseteq T
    <3> HIDE DEF T
    <3> QED BY <1>0, <1>6, <1>7, UpTo
  <2> QED BY <1>0, <2>1
<1> QED BY <1>4, <1>5, <1>8

\* The first NUL of a text, or the place behind its end.
FirstAt(t, k) == /\ \A j \in 1 .. k : t[j] # "nul"
                 /\ k < Len(t) => t[k + 1] = "nul"

\* There is such a place in every text.
LEMMA NulOrEnd ==
  ASSUME NEW t, Len(t) \in Nat, DOMAIN t = 1 .. Len(t)
  PROVE  \E k \in 0 .. Len(t) : FirstAt(t, k)
<1> DEFINE n == Len(t)
           T == {n + 1} \cup {j \in 1 .. n : t[j] = "nul"}
<1>1. PICK x \in T : \A y \in T : ~(y < x)
  <2>1. T \subseteq Nat /\ T # {}
    OBVIOUS
  <2> HIDE DEF T
  <2> QED BY <2>1, LeastNatural
<1> DEFINE k == x - 1
<1>2. x \in 1 .. n + 1 /\ k \in 0 .. n /\ k + 1 = x
  OBVIOUS
<1>3. ASSUME NEW j \in 1 .. k, t[j] = "nul" PROVE FALSE
  <2>1. j \in 1 .. n /\ j < x
    BY <1>2
  <2>2. j \in T
    BY <1>3, <2>1
  <2> QED BY <1>1, <2>1, <2>2
<1>4. k < n => t[k + 1] = "nul"
  <2> SUFFICES ASSUME k < n PROVE t[x] = "nul"
    BY <1>2
  <2>1. x # n + 1
    BY <1>2
  <2> QED BY <2>1
<1> HIDE DEF k
<1> QED BY <1>2, <1>3, <1>4 DEF FirstAt

\* That place is the one FirstNul finds.
LEMMA FirstNulIs ==
  ASSUME NEW t, Len(t) \in Nat, DOMAIN t = 1 .. Len(t),
         NEW k \in 0 .. Len(t), FirstAt(t, k)
  PROVE  FirstNul(t) = k + 1
<1> DEFINE T == {Len(t) + 1} \cup {n \in DOMAIN t : t[n] = "nul"}
<1>1. k + 1 \in T
  BY DEF FirstAt
<1>2. ASSUME NEW y \in T PROVE y \in Nat /\ k + 1 <= y
  <2>1. CASE y = Len(t) + 1
    BY <2>1
  <2>2. CASE y \in 1 .. Len(t) /\ t[y] = "nul"
    BY <2>2 DEF FirstAt
  <2> QED BY <2>1, <2>2
<1>3. FirstNul(t) = Sets!Min(T)
  BY DEF FirstNul
<1> HIDE DEF T
<1>4. Sets!Min(T) \in T /\ \A y \in T : Sets!Min(T) <= y
  BY <1>1, <1>2 DEF Sets!Min
<1>5. Sets!Min(T) \in Nat /\ Sets!Min(T) <= k + 1 /\ k + 1 <= Sets!Min(T)
  BY <1>1, <1>2, <1>4
<1> QED BY <1>3, <1>5

\* What is written of a text without NUL has none, and a NUL is written as
\* itself: the string that is written ends where the text's does.
LEMMA CutWritten ==
  ASSUME NEW C, NEW t, NEW f, Writes(C, t, f), NEW k \in 0 .. Len(t), FirstAt(t, k)
  PROVE  /\ Len(f[k]) <= Len(f[Len(t)])
         /\ \A j \in 1 .. Len(f[k]) : f[Len(t)][j] = f[k][j]
         /\ FirstAt(f[Len(t)], Len(f[k]))
<1> DEFINE T == {m \in 0 .. k : \A j \in 1 .. Len(f[m]) : f[m][j] # "nul"}
<1>0. Len(t) \in Nat /\ k \in Nat /\ k <= Len(t)
  BY DEF Writes
<1>1. 0 \in T
  <2>1. Len(f[0]) = 0
    BY DEF Writes
  <2> QED BY <1>0, <2>1
<1>2. ASSUME NEW m \in 1 .. k, m - 1 \in T PROVE m \in T
  <2> DEFINE o == Len(f[m - 1])
  <2>1. /\ o \in Nat /\ \A j \in 1 .. o : f[m][j] = f[m - 1][j]
        /\ Lonely(t, m) => /\ Len(f[m]) = o + 2 /\ t[m] = "lf"
                           /\ f[m][o + 1] = "cr" /\ f[m][o + 2] = "lf"
        /\ ~Lonely(t, m) => Len(f[m]) = o + 1 /\ f[m][o + 1] = t[m]
    <3>1. m \in 1 .. Len(t)
      BY <1>0
    <3> HIDE DEF T
    <3> QED BY <3>1, OneMoreWritten
  <2>2. \A j \in 1 .. o : f[m - 1][j] # "nul"
    BY <1>2
  <2>3. t[m] # "nul"
    BY DEF FirstAt
  <2> HIDE DEF o
  <2>4. ASSUME NEW j \in 1 .. Len(f[m]) PROVE f[m][j] # "nul"
    <3>1. j \in 1 .. o \/ j = o + 1 \/ (j = o + 2 /\ Lonely(t, m))
      BY <2>1
    <3> QED BY <2>1, <2>2, <2>3, <3>1
  <2> QED BY <2>4
<1>3. \A j \in 1 .. Len(f[k]) : f[k][j] # "nul"
  <2>1. 0 .. k \subseteq T
    <3> HIDE DEF T
    <3> QED BY <1>0, <1>1, <1>2, UpTo
  <2> QED BY <1>0, <2>1
<1>4. \A i \in 0 .. Len(t), m \in 0 .. Len(t) : i <= m =>
        Len(f[i]) <= Len(f[m]) /\ \A j \in 1 .. Len(f[i]) : f[m][j] = f[i][j]
  <2> SUFFICES ASSUME NEW i \in 0 .. Len(t), NEW m \in 0 .. Len(t), i <= m
               PROVE  Len(f[i]) <= Len(f[m]) /\ \A j \in 1 .. Len(f[i]) : f[m][j] = f[i][j]
    OBVIOUS
  <2>1. m \in i .. Len(t)
    BY <1>0
  <2> QED BY <2>1, WrittenStays
<1>5. /\ Len(f[k]) <= Len(f[Len(t)])
      /\ \A j \in 1 .. Len(f[k]) : f[Len(t)][j] = f[k][j]
  BY <1>0, <1>4
<1>6. ASSUME Len(f[k]) < Len(f[Len(t)]) PROVE f[Len(t)][Len(f[k]) + 1] = "nul"
  <2>1. k # Len(t)
    <3> SUFFICES ASSUME k = Len(t) PROVE FALSE
      OBVIOUS
    <3>1. f[k] \in Seq(C)
      BY <1>0 DEF Writes
    <3>2. Len(f[k]) \in Nat
      BY <3>1
    <3> QED BY <1>6, <3>2
  <2> DEFINE n == k + 1
  <2>2. n \in 1 .. Len(t) /\ n - 1 = k /\ t[n] = "nul"
    BY <1>0, <2>1 DEF FirstAt
  <2>3. ~Lonely(t, n)
    BY <2>2 DEF Lonely
  <2> HIDE DEF n
  <2>4. Len(f[k]) \in Nat /\ Len(f[n]) = Len(f[k]) + 1 /\ f[n][Len(f[k]) + 1] = "nul"
    <3> HIDE DEF T
    <3>1. f[k] \in Seq(C)
      BY <1>0 DEF Writes
    <3>2. Len(f[k]) \in Nat
      BY <3>1
    <3>3. LET o == Len(f[n - 1])
          IN  ~Lonely(t, n) => Len(f[n]) = o + 1 /\ f[n][o + 1] = t[n]
      BY <2>2, OneMoreWritten
    <3> QED BY <2>2, <2>3, <3>2, <3>3
  <2>5. Len(f[k]) + 1 \in 1 .. Len(f[n])
    BY <2>4
  <2>6. n \in 0 .. Len(t) /\ Len(t) \in 0 .. Len(t) /\ n <= Len(t)
    BY <1>0, <2>2
  <2> QED BY <1>4, <2>4, <2>5, <2>6
<1> QED BY <1>3, <1>5, <1>6 DEF FirstAt

\* What the window shows of what is written is the text up to its first NUL,
\* but for the line ends.
LEMMA SameString ==
  ASSUME NEW C, NEW t \in Seq(C), NEW f, Writes(C, t, f)
  PROVE  Bare(UpToNul(f[Len(t)])) = Bare(UpToNul(t))
<1> DEFINE x == f[Len(t)]
<1>0. /\ Len(t) \in Nat /\ DOMAIN t = 1 .. Len(t) /\ "cr" \in C
      /\ f \in [0 .. Len(t) -> Seq(C)] /\ f[0] = <<>>
      /\ \A i \in 1 .. Len(t) : t[i] \in C /\ f[i] = f[i - 1] \o Written(t, i)
  BY DEF Writes
<1>1. PICK k \in 0 .. Len(t) : FirstAt(t, k)
  BY <1>0, NulOrEnd
<1>2. f[k] \in Seq(C) /\ x \in Seq(C)
  BY <1>0
<1> DEFINE u == SubSeq(t, 1, k)
           g == [i \in 0 .. k |-> f[i]]
<1>3. UpToNul(t) = u
  <2>1. FirstNul(t) = k + 1 /\ (k + 1) - 1 = k
    BY <1>0, <1>1, FirstNulIs
  <2> QED BY <2>1 DEF UpToNul
<1>4. UpToNul(x) = f[k]
  <2>1. /\ Len(f[k]) <= Len(x) /\ \A j \in 1 .. Len(f[k]) : x[j] = f[k][j]
        /\ FirstAt(x, Len(f[k]))
    BY <1>1, CutWritten
  <2> HIDE DEF x
  <2>2. /\ Len(x) \in Nat /\ DOMAIN x = 1 .. Len(x) /\ Len(f[k]) \in 0 .. Len(x)
        /\ Len(f[k]) \in Nat
    BY <1>2, <2>1
  <2>3. FirstNul(x) = Len(f[k]) + 1
    BY <2>1, <2>2, FirstNulIs
  <2>4. UpToNul(x) = SubSeq(x, 1, Len(f[k]))
    BY <2>2, <2>3 DEF UpToNul
  <2>5. SubSeq(x, 1, Len(f[k])) = f[k]
    BY <1>2, <2>1, <2>2
  <2> QED BY <2>4, <2>5
<1>5. u \in Seq(C) /\ Len(u) = k /\ \A i \in 1 .. k : u[i] = t[i]
  BY <1>0
<1>6. \A i \in 1 .. k : i \in 1 .. Len(t) /\ i - 1 \in 0 .. k
  BY <1>0
<1> HIDE DEF u, x
<1>7. \A i \in 1 .. k : Written(u, i) = Written(t, i)
  <2> SUFFICES ASSUME NEW i \in 1 .. k PROVE Written(u, i) = Written(t, i)
    OBVIOUS
  <2>1. i # 1 => i - 1 \in 1 .. k
    BY <1>0
  <2>2. Lonely(u, i) <=> Lonely(t, i)
    BY <1>5, <2>1 DEF Lonely
  <2> QED BY <1>5, <2>2 DEF Written
<1>8. Writes(C, u, g)
  <2>1. g \in [0 .. Len(u) -> Seq(C)] /\ g[0] = <<>>
    <3>1. ASSUME NEW i \in 0 .. k PROVE f[i] \in Seq(C)
      BY <1>0
    <3>2. 0 \in 0 .. k /\ Len(u) = k
      BY <1>5
    <3> QED BY <1>0, <3>1, <3>2
  <2>4. \A i \in 0 .. k : g[i] = f[i]
    OBVIOUS
  <2> HIDE DEF g
  <2>2. \A i \in 1 .. k : g[i] = g[i - 1] \o Written(u, i)
    <3> SUFFICES ASSUME NEW i \in 1 .. k PROVE g[i] = g[i - 1] \o Written(u, i)
      OBVIOUS
    <3>1. i \in 0 .. k /\ i - 1 \in 0 .. k
      BY <1>6
    <3>2. g[i] = f[i] /\ g[i - 1] = f[i - 1]
      BY <2>4, <3>1
    <3> QED BY <1>0, <1>6, <1>7, <3>2
  <2>3. \A i \in 1 .. k : u[i] \in C
    BY <1>0, <1>5, <1>6
  <2>5. Len(u) \in Nat /\ "cr" \in C /\ 1 .. Len(u) = 1 .. k
    BY <1>0, <1>5
  <2>6. /\ \A i \in 1 .. Len(u) : u[i] \in C
        /\ \A i \in 1 .. Len(u) : g[i] = g[i - 1] \o Written(u, i)
    BY <2>2, <2>3, <2>5
  <2> QED BY <2>1, <2>5, <2>6, Zenon DEF Writes
<1>9. g[k] = f[k]
  BY <1>0
<1> HIDE DEF g
<1>10. Bare(g[k]) = Bare(u)
  BY <1>5, <1>8, SameBare
<1> QED BY <1>3, <1>4, <1>9, <1>10 DEF x

\* fx_efi_convert_sbat fills the buffer it allocated, ends every line right, and
\* keeps the text and the string that it starts with.
LEMMA ConvertedIsExact ==
  ASSUME NEW S, NEW t \in Seq(S)
  PROVE  LET c == Converted(t)
         IN  /\ Len(c.text) = c.room
             /\ \A n \in DOMAIN c.text : c.text[n] = "lf" => n > 1 /\ c.text[n - 1] = "cr"
             /\ Bare(c.text) = Bare(t) /\ Bare(UpToNul(c.text)) = Bare(UpToNul(t))
<1> DEFINE C == S \cup {"cr"}
           s == [n \in 1 .. Len(t) |-> Written(t, n)]
<1>1. /\ Len(t) \in Nat /\ "cr" \in C /\ t \in Seq(C)
      /\ \A i \in 1 .. Len(t) : t[i] \in C
  OBVIOUS
<1>2. s \in [1 .. Len(t) -> Seq(C)]
  <2> SUFFICES ASSUME NEW n \in 1 .. Len(t) PROVE Written(t, n) \in Seq(C)
    OBVIOUS
  <2>1. t[n] \in C /\ "cr" \in C
    BY <1>1
  <2> HIDE DEF C
  <2> QED BY <2>1 DEF Written
<1>3. \A n \in 1 .. Len(t) : s[n] = Written(t, n)
  OBVIOUS
<1>4. Converted(t).text = Seqs!FlattenSeq(s)
      /\ Converted(t).room = Len(t) + Cardinality({n \in 1 .. Len(t) : Lonely(t, n)})
  BY DEF Converted
<1> HIDE DEF s, C
<1>5. PICK f \in [0 .. Len(t) -> Seq(C)] :
        /\ f[0] = <<>> /\ \A i \in 1 .. Len(t) : f[i] = f[i - 1] \o s[i]
        /\ Seqs!FlattenSeq(s) = f[Len(t)]
  BY <1>1, <1>2, FlattenedFrom
<1>6. Writes(C, t, f)
  BY <1>1, <1>3, <1>5 DEF Writes
<1>7. Len(f[Len(t)]) = Converted(t).room
  BY <1>4, <1>6, RoomFor
<1>8. Bare(f[Len(t)]) = Bare(t)
  BY <1>6, SameBare
<1>11. Bare(UpToNul(f[Len(t)])) = Bare(UpToNul(t))
  BY <1>1, <1>6, SameString
<1>9. DOMAIN f[Len(t)] = 1 .. Len(f[Len(t)])
  <2>1. Len(t) \in 0 .. Len(t)
    BY <1>1
  <2>2. f[Len(t)] \in Seq(C)
    BY <2>1
  <2> QED BY <2>2
<1>10. \A n \in DOMAIN f[Len(t)] :
         f[Len(t)][n] = "lf" => n > 1 /\ f[Len(t)][n - 1] = "cr"
  BY <1>6, <1>9, LinesEnd
<1> QED BY <1>4, <1>5, <1>7, <1>8, <1>10, <1>11

\* Without its trailing NULs a section is still a text.
LEMMA GreatestIn ==
  ASSUME NEW n \in Nat, NEW T, T \subseteq 0 .. n, T # {}
  PROVE  Sets!Max(T) \in T
<1> DEFINE D == {n - k : k \in T}
<1>1. D \subseteq Nat /\ D # {}
  <2>1. \A k \in T : n - k \in Nat
    OBVIOUS
  <2>2. PICK k \in T : TRUE
    OBVIOUS
  <2>3. n - k \in D
    OBVIOUS
  <2> QED BY <2>1, <2>3
<1>2. PICK d \in D : \A e \in D : ~(e < d)
  <2> HIDE DEF D
  <2> QED BY <1>1, LeastNatural
<1>3. PICK x \in T : d = n - x
  OBVIOUS
<1>4. \A y \in T : x >= y
  <2> SUFFICES ASSUME NEW y \in T PROVE x >= y
    OBVIOUS
  <2>1. ~(n - y < n - x)
    BY <1>2, <1>3
  <2>2. x \in 0 .. n /\ y \in 0 .. n
    BY <1>3
  <2> QED BY <2>1, <2>2
<1> HIDE DEF D
<1> QED BY <1>4 DEF Sets!Max

\* What is left of the section is a sequence no longer than the section.
LEMMA TrimmedIsText ==
  ASSUME NEW s, s.raw \in Nat
  PROVE  \E S : Trimmed(Content(s)) \in Seq(S) /\ Len(Trimmed(Content(s))) <= s.raw
<1> DEFINE c == Content(s)
           S == {c[n] : n \in 1 .. s.raw}
           T == {0} \cup {n \in DOMAIN c : c[n] # "nul"}
           m == Sets!Max(T)
<1>1. c \in [1 .. s.raw -> S] /\ DOMAIN c = 1 .. s.raw
  BY DEF Content, BytesFrom
<1>2. T \subseteq 0 .. s.raw /\ T # {}
  <2> HIDE DEF c
  <2> QED BY <1>1
<1>3. m \in 0 .. s.raw
  <2> HIDE DEF T
  <2>1. m \in T
    BY <1>2, GreatestIn
  <2> QED BY <1>2, <2>1
<1>4. Trimmed(c) = SubSeq(c, 1, m)
  BY DEF Trimmed
<1> HIDE DEF c, m, S
<1>5. c \in Seq(S) /\ Len(c) = s.raw
  BY <1>1
<1>6. SubSeq(c, 1, m) \in Seq(S) /\ Len(SubSeq(c, 1, m)) = m
  BY <1>3, <1>5
<1> QED BY <1>3, <1>4, <1>6 DEF c

\* From the section's start there is a NUL at the latest behind the file, so
\* the string that starts there ends one byte behind the file at most.
LEMMA StringEnds ==
  ASSUME mapped \in EfiFiles, NEW s, s.ptr \in Nat, s.ptr <= mapped.size,
         NEW r, r = SubSeq(Rest(s), 1, FirstNul(Rest(s)))
  PROVE  \E S : r \in Seq(S) /\ s.ptr + Len(r) <= mapped.size + 1
<1> DEFINE N == mapped.size - s.ptr + 1
           t == Rest(s)
           S == {t[n] : n \in 1 .. N}
<1>1. mapped.size \in Nat /\ DOMAIN mapped.bytes \subseteq 1 .. mapped.size
  BY EfiAssumption
<1>2. N \in Nat /\ N > 0 /\ s.ptr + N = mapped.size + 1
  BY <1>1
<1>3. t \in [1 .. N -> S] /\ DOMAIN t = 1 .. N
  BY DEF Rest, BytesFrom
<1>4. t[N] = "nul"
  <2>1. mapped.size + 1 \notin 1 .. mapped.size
    BY <1>1
  <2>2. s.ptr + N \notin DOMAIN mapped.bytes
    BY <1>1, <1>2, <2>1
  <2>3. N \in 1 .. N /\ t = BytesFrom(s, N)
    BY <1>2 DEF Rest
  <2> HIDE DEF t, N
  <2> QED BY <2>2, <2>3 DEF BytesFrom
<1> HIDE DEF S, t, N
<1>5. t \in Seq(S) /\ Len(t) = N
  BY <1>2, <1>3
<1>6. PICK k \in 0 .. N : FirstAt(t, k)
  BY <1>2, <1>3, <1>5, NulOrEnd
<1>7. FirstNul(t) = k + 1
  BY <1>2, <1>3, <1>5, <1>6, FirstNulIs
<1>8. k # N
  BY <1>2, <1>4, <1>6 DEF FirstAt
<1>9. PICK m \in 0 .. N : m = k + 1
  BY <1>2, <1>6, <1>8
<1>10. r = SubSeq(t, 1, m)
  BY <1>7, <1>9 DEF t
<1>11. r \in Seq(S) /\ Len(r) = m
  <2>1. SubSeq(t, 1, m) \in Seq(S) /\ Len(SubSeq(t, 1, m)) = m
    BY <1>2, <1>5, <1>9
  <2> QED BY <1>10, <2>1
<1>12. s.ptr + m <= mapped.size + 1
  BY <1>1, <1>2, <1>9
<1> QED BY <1>11, <1>12

\* What is given to be converted: the text, if an int can say how long it is,
\* or what ends one byte behind the file at most.
LEMMA GivenFits ==
  ASSUME mapped \in EfiFiles, NEW s, s.ptr \in Nat, s.raw \in Nat, SbatInside(s)
  PROVE  /\ \E S : Given(s) \in Seq(S)
         /\ s.ptr + Len(Given(s)) <= mapped.size + 1
         /\ Len(Trimmed(Content(s))) <= IntMax =>
              Given(s) = Trimmed(Content(s)) /\ s.ptr + Len(Given(s)) <= mapped.size
<1> DEFINE t == Trimmed(Content(s))
<1>1. mapped.size \in Nat /\ s.ptr <= mapped.size /\ s.ptr + s.raw <= mapped.size
  BY EfiAssumption DEF SbatInside
<1>2. PICK S : t \in Seq(S) /\ Len(t) <= s.raw
  BY TrimmedIsText
<1> HIDE DEF t
<1>3. Len(t) \in Nat
  BY <1>2
<1>4. CASE Len(t) <= IntMax
  <2>1. Given(s) = t
    BY <1>4 DEF Given, t
  <2>2. s.ptr + Len(t) <= mapped.size
    BY <1>1, <1>2, <1>3
  <2> QED BY <1>1, <1>2, <1>3, <2>1, <2>2 DEF t
<1>5. CASE ~(Len(t) <= IntMax)
  <2>1. Given(s) = SubSeq(Rest(s), 1, FirstNul(Rest(s)))
    BY <1>5 DEF Given, t
  <2>2. \E U : Given(s) \in Seq(U) /\ s.ptr + Len(Given(s)) <= mapped.size + 1
    BY <1>1, <2>1, StringEnds
  <2> QED BY <1>5, <2>2 DEF t
<1> QED BY <1>4, <1>5

\* The text that is shown is exact.
LEMMA ShownIsExact ==
  ASSUME NEW S, NEW g \in Seq(S), NEW t, Len(t) <= IntMax => g = t,
         sbatText' = [text |-> Converted(g).text, room |-> Converted(g).room,
                      given |-> g, section |-> t]
  PROVE  EfiTextExact'
<1> DEFINE c == Converted(g)
           w == c.text
<1>1. /\ Len(w) = c.room
      /\ \A n \in DOMAIN w : w[n] = "lf" => n > 1 /\ w[n - 1] = "cr"
      /\ Bare(w) = Bare(g) /\ Bare(UpToNul(w)) = Bare(UpToNul(g))
  BY ConvertedIsExact
<1>2. /\ sbatText'.text = w /\ sbatText'.room = c.room
      /\ sbatText'.given = g /\ sbatText'.section = t
  OBVIOUS
<1> HIDE DEF c, w
<1>3. Len(t) <= IntMax => Bare(UpToNul(w)) = Bare(UpToNul(t))
  BY <1>1
<1> QED BY <1>1, <1>2, <1>3 DEF EfiTextExact

\* Every step reads inside the file that is mapped, but for the exception, and
\* shows nothing or what the section is converted to.
LEMMA EfiStepSound == EfiInv /\ [EfiNext]_efiVars => EfiInv'
<1> SUFFICES ASSUME EfiInv, [EfiNext]_efiVars PROVE EfiInv'
  OBVIOUS
<1>0. EfiReadsInside' /\ sbatText' = sbatText => EfiSound'
  BY DEF EfiInv, EfiSound, EfiTextExact
<1>1. EfiReadsInside' /\ EfiFails => EfiInv'
  BY <1>0 DEF EfiInv, EfiFails
<1>8. efiRead' = efiRead => EfiReadsInside'
  BY DEF EfiInv, EfiSound, EfiReadsInside
<1>2. CASE CheckSize
  BY <1>0, <1>1, <1>2, <1>8 DEF CheckSize, EfiInv
<1>3. CASE OpenEfi
  BY <1>0, <1>1, <1>3, <1>8 DEF OpenEfi, EfiInv
<1>4. CASE GetImageBase
  BY <1>0, <1>1, <1>4, <1>8 DEF GetImageBase, EfiInv
<1>5. CASE ReadSbat
  <2>1. mapped \in EfiFiles /\ mapped.size \in Nat
    BY <1>5, EfiAssumption DEF ReadSbat, EfiInv
  <2>2. sbatText' = NoText => EfiTextExact'
    BY DEF EfiTextExact, NoText
  <2>3. \A text : ShowEfi(text) /\ EfiReadsInside' /\ EfiTextExact' => EfiInv'
    BY DEF ShowEfi, EfiInv, EfiSound
  <2>4. CASE ~HasSbat /\ ShowEfi(NoText) /\ efiRead' = efiRead
    BY <1>8, <2>2, <2>3, <2>4 DEF ShowEfi
  <2>5. CASE EfiFails /\ efiRead' = efiRead
    BY <1>1, <1>8, <2>5
  <2>6. CASE HasSbat /\ SbatInside(TheSbat) /\ Looks(TheSbat)
    <3> DEFINE t == Trimmed(Content(TheSbat))
               g == Given(TheSbat)
    <3>1. TheSbat.ptr \in Nat /\ TheSbat.raw \in Nat
      BY <2>1, <2>6, FirstSection DEF HasSbat
    <3>2. TheSbat.ptr + TheSbat.raw <= mapped.size
      BY <2>1, <2>6, <3>1 DEF SbatInside
    <3>3. /\ \E S : g \in Seq(S)
          /\ TheSbat.ptr + Len(g) <= mapped.size + 1
          /\ Len(t) <= IntMax => g = t /\ TheSbat.ptr + Len(g) <= mapped.size
      BY <2>1, <2>6, <3>1, GivenFits
    <3>4. efiRead' = [at |-> TheSbat.ptr, size |-> TheSbat.raw, text |-> Len(t),
                      given |-> Len(g), of |-> mapped.size]
      BY <2>6 DEF Looks
    <3> HIDE DEF t, g
    <3>5. EfiReadsInside'
      BY <3>2, <3>3, <3>4 DEF EfiReadsInside
    <3>6. CASE ShowEfi(NoText)
      BY <2>2, <2>3, <3>5, <3>6 DEF ShowEfi
    <3>7. CASE UNCHANGED <<efiFile, checked, mapped, sbatText>> /\ efiPhase' = "faulted"
      BY <1>0, <3>5, <3>7 DEF EfiInv
    <3>8. CASE ShowEfi([text |-> Converted(g).text, room |-> Converted(g).room,
                        given |-> g, section |-> t])
      <4>1. sbatText' = [text |-> Converted(g).text, room |-> Converted(g).room,
                         given |-> g, section |-> t]
        BY <3>8 DEF ShowEfi
      <4>2. EfiTextExact'
        BY <3>3, <4>1, ShownIsExact
      <4> QED BY <2>3, <3>5, <3>8, <4>2
    <3>9. CASE EfiFails
      BY <1>1, <3>5, <3>9
    <3> QED BY <1>5, <2>6, <3>6, <3>7, <3>8, <3>9 DEF ReadSbat, t, g
  <2> QED BY <1>5, <2>4, <2>5, <2>6 DEF ReadSbat
<1>6. CASE ReplaceFile
  BY <1>0, <1>6, <1>8 DEF ReplaceFile, EfiInv
<1>7. CASE UNCHANGED efiVars
  BY <1>0, <1>7, <1>8 DEF efiVars, EfiInv
<1> QED BY <1>2, <1>3, <1>4, <1>5, <1>6, <1>7 DEF EfiNext, EfiStep

\* Nothing is read or shown before the size is tested.
LEMMA EfiStart == EfiInit => EfiInv
  BY EfiAssumption
  DEF EfiInit, EfiInv, EfiSound, EfiReadsInside, EfiTextExact, NoRead, NoText

\* For any files that take each other's place: what is read of the section
\* lies in the file that is mapped, and the window shows the section up to its
\* first NUL, its lines ended by carriage return and line feed, of a buffer the
\* text fills.  Of a text longer than an int can say no more is claimed than
\* that it is what was read, from one byte behind the file at most
\* (efi.c:23-76, 113-144, 261-264).
THEOREM EfiIsSound == EfiSpec => []EfiSound
<1>1. EfiInv => EfiSound
  BY DEF EfiInv
<1> QED BY <1>1, EfiStart, EfiStepSound, PTL DEF EfiSpec

-----------------------------------------------------------------------------
(* The .iso viewer (IsoVolume).  That the queue goes level by level is not *)
(* inductive: it takes the fact that nothing queued lies deeper than one   *)
(* level below the directory in work (iso.c:484-565).                      *)

Queued == [extent : Dwords, size : Dwords, depth : Nat]

\* Until the descriptors are read there is no queue, and a root comes from a
\* record.
NoQueueYet ==
  isoPhase \in {"open", "descriptors"} =>
    /\ items = <<>> /\ item_index = 0
    /\ {"iso9660", "root"} \subseteq DOMAIN info /\ IsExtent(info.root)

\* The directory in work is queued, and the rest at most a level below it.
OneLevelBelow ==
  /\ isoPhase \in {"directory", "records"} => item_index \in 1 .. Len(items)
  /\ item_index = 0 => Len(items) <= 1
  /\ item_index >= 1 =>
       \A j \in DOMAIN items : items[j].depth <= items[item_index].depth + 1

QueueInv == /\ isoFile \in Images
            /\ items \in Seq(Queued) /\ item_index \in Nat
            /\ QueueSound /\ NoQueueYet /\ OneLevelBelow

\* The queue is a sequence of directories with depths.
LEMMA QueueTypes ==
  ASSUME QueueInv
  PROVE  /\ Len(items) \in Nat /\ item_index \in Nat /\ DOMAIN items = 1 .. Len(items)
         /\ \A i \in 1 .. Len(items) : items[i].depth \in Nat
<1>1. items \in Seq(Queued)
  BY DEF QueueInv
<1>2. \A i \in 1 .. Len(items) : items[i] \in Queued
  BY <1>1
<1> QED
  BY <1>1, <1>2 DEF QueueInv, Queued

\* What QueueSound says of two directories in a row.
LEMMA QueueOrder ==
  ASSUME QueueInv, NEW i \in 1 .. Len(items), NEW j \in 1 .. i - 1
  PROVE  /\ items[j].depth <= items[i].depth
         /\ <<items[j].extent, items[j].size>> # <<items[i].extent, items[i].size>>
<1>1. i \in DOMAIN items
  BY QueueTypes
<1> QED
  BY <1>1 DEF QueueInv, QueueSound

\* What a sector says of extents and sizes are DWORDs, also if it is blank.
LEMMA SectorType ==
  ASSUME isoFile \in Images, NEW lba
  PROVE  /\ IsRecord(At(lba).root)
         /\ \A p \in DOMAIN At(lba).records : IsRecord(At(lba).records[p])
<1>1. 0 \in Dwords
  BY IsoAssumption DEF Dwords
<1>2. CASE lba \in DOMAIN isoFile.at
  BY <1>2, IsoAssumption DEF At, IsSector
<1>3. CASE lba \notin DOMAIN isoFile.at
  BY <1>1, <1>3 DEF At, Blank, NoRecord, IsRecord, IsExtent
<1> QED
  BY <1>2, <1>3

\* A descriptor keeps a root that is a record, or brings one.
LEMMA DescribedRoot ==
  ASSUME NEW i, {"iso9660", "root"} \subseteq DOMAIN i, IsExtent(i.root),
         NEW s, IsRecord(s.root)
  PROVE  /\ {"iso9660", "root"} \subseteq DOMAIN Described(i, s)
         /\ IsExtent(Described(i, s).root)
  BY DEF Described, Scanned, IsRecord, IsExtent

\* The root alone is a queue.
LEMMA RootQueued ==
  ASSUME QueueInv, isoPhase = "descriptors", StartDirectories
  PROVE  QueueInv'
<1>1. IsExtent(info.root) /\ 0 \in Nat /\ MaxDirs \in Nat \ {0} /\ MaxDepth \in Nat
  BY IsoAssumption DEF QueueInv, NoQueueYet
<1>2. items = <<>> /\ item_index = 0 /\ item_index' = 0
  BY DEF QueueInv, NoQueueYet, StartDirectories
<1>3. isoFile' \in Images
  BY DEF QueueInv, StartDirectories
<1>4. isoPhase' \in {"items", "vrs"}
  BY DEF StartDirectories
<1>5. CASE items' = <<>>
  BY <1>1, <1>2, <1>3, <1>4, <1>5
     DEF QueueInv, QueueSound, NoQueueYet, OneLevelBelow
<1>6. CASE items' # <<>>
  <2> DEFINE root == [extent |-> info.root.extent, size |-> info.root.size, depth |-> 0]
  <2>1. items' = <<root>> /\ root.extent # 0 /\ root.size # 0
    BY <1>2, <1>6 DEF StartDirectories
  <2>2. root \in Queued /\ root.depth = 0
    BY <1>1 DEF Queued, IsRecord, IsExtent
  <2> HIDE DEF root
  <2>3. items' \in Seq(Queued) /\ Len(items') = 1 /\ DOMAIN items' = {1}
        /\ items'[1] = root
    BY <2>1, <2>2
  <2> QED
    BY <1>1, <1>2, <1>3, <1>4, <2>1, <2>2, <2>3
       DEF QueueInv, QueueSound, NoQueueYet, OneLevelBelow
<1> QED
  BY <1>5, <1>6

\* The next directory is queued and no shallower than the last.
LEMMA TakenInOrder ==
  ASSUME QueueInv, TakeItem
  PROVE  QueueInv'
<1>1. /\ isoFile' = isoFile /\ items' = items /\ isoPhase' \in {"directory", "vrs"}
      /\ Len(items) \in Nat /\ item_index \in Nat /\ DOMAIN items = 1 .. Len(items)
      /\ \A i \in DOMAIN items : items[i].depth \in Nat
  BY QueueTypes DEF TakeItem
<1>2. CASE item_index < Len(items)
  <2>1. item_index' = item_index + 1 /\ item_index' \in 1 .. Len(items)
    BY <1>1, <1>2 DEF TakeItem
  <2>2. \A j \in DOMAIN items : items[j].depth <= items[item_index + 1].depth + 1
    <3>1. CASE item_index = 0
      BY <1>1, <2>1, <3>1 DEF QueueInv, OneLevelBelow
    <3>2. CASE item_index >= 1
      <4>1. items[item_index].depth <= items[item_index + 1].depth
        <5>1. item_index + 1 \in 1 .. Len(items)
              /\ item_index \in 1 .. (item_index + 1) - 1
          BY <1>1, <2>1, <3>2
        <5> QED BY <5>1, QueueOrder
      <4>2. item_index \in DOMAIN items /\ item_index + 1 \in DOMAIN items
        BY <1>1, <2>1, <3>2
      <4> QED
        BY <1>1, <3>2, <4>1, <4>2 DEF QueueInv, OneLevelBelow
    <3> QED
      BY <1>1, <3>1, <3>2
  <2>3. QueueSound'
    <3>1. QueueSound
      BY DEF QueueInv
    <3>2. item_index' <= Len(items')
      BY <1>1, <2>1
    <3>3. 1 .. item_index \subseteq 1 .. item_index'
      BY <1>1, <2>1
    <3> QED
      BY <1>1, <3>1, <3>2, <3>3 DEF QueueSound
  <2> QED
    BY <1>1, <2>1, <2>2, <2>3 DEF QueueInv, NoQueueYet, OneLevelBelow
<1>3. CASE ~(item_index < Len(items))
  <2>1. item_index' = item_index /\ isoPhase' = "vrs"
    BY <1>3 DEF TakeItem
  <2> QED
    BY <1>1, <2>1 DEF QueueInv, QueueSound, NoQueueYet, OneLevelBelow
<1> QED
  BY <1>2, <1>3

\* An index of a queue that grew by one is an old one or the new one.
LEMMA OldOrLast ==
  ASSUME NEW n \in Nat, NEW i \in 1 .. n + 1
  PROVE  i \in 1 .. n \/ i = n + 1
  OBVIOUS

\* What the directory in work shows joins one level below it, behind all
\* that is no deeper.
LEMMA SubdirectoryQueued ==
  ASSUME QueueInv, isoPhase = "records", Queues(Record),
         items' = Append(items, [extent |-> Record.extent, size |-> Record.size,
                                 depth |-> Item.depth + 1]),
         UNCHANGED <<isoFile, isoPhase, item_index>>
  PROVE  QueueInv'
<1> DEFINE e == [extent |-> Record.extent, size |-> Record.size,
                 depth |-> Item.depth + 1]
           n == Len(items)
<1>1. /\ item_index \in 1 .. n /\ n \in Nat /\ DOMAIN items = 1 .. n
      /\ \A i \in 1 .. n : items[i].depth \in Nat
  BY QueueTypes DEF QueueInv, OneLevelBelow
<1>2. IsRecord(Record)
  <2>1. 0 \in Dwords
    BY IsoAssumption DEF Dwords
  <2> QED
    BY <2>1, SectorType DEF QueueInv, Record, NoRecord, IsRecord, IsExtent
<1>3. /\ Record.extent # 0 /\ Record.size # 0 /\ Item.depth < MaxDepth
      /\ n < MaxDirs /\ ~Seen(Record)
  BY DEF Queues, IsSubdirectory
<1>4. Item.depth = items[item_index].depth /\ Item.depth \in Nat
  BY <1>1 DEF Item
<1>5. /\ e \in Queued /\ e.depth = Item.depth + 1
      /\ e.extent = Record.extent /\ e.size = Record.size
  BY <1>2, <1>4 DEF Queued, IsRecord, IsExtent
<1>6. \A i \in 1 .. n : <<items[i].extent, items[i].size>> # <<e.extent, e.size>>
  BY <1>1, <1>3, <1>5 DEF Seen
<1>7. \A i \in 1 .. n : items[i].depth <= e.depth
  BY <1>1, <1>4, <1>5 DEF QueueInv, OneLevelBelow
<1>8. MaxDirs \in Nat /\ MaxDepth \in Nat
  BY IsoAssumption
<1>9. items' = Append(items, e)
  OBVIOUS
<1>10. \A i \in 1 .. n + 1 : i \in 1 .. n \/ i = n + 1
  <2>1. n \in Nat
    BY <1>1
  <2> HIDE DEF n
  <2> QED BY <2>1, OldOrLast
<1> HIDE DEF e
<1>11. /\ items' \in Seq(Queued) /\ Len(items') = n + 1
       /\ DOMAIN items' = 1 .. n + 1
       /\ \A i \in 1 .. n : items'[i] = items[i]
       /\ items'[n + 1] = e
  BY <1>5, <1>9 DEF QueueInv
<1>12. QueueSound'
  <2>1. Len(items') <= MaxDirs /\ item_index' <= Len(items')
    BY <1>1, <1>3, <1>8, <1>11
  <2>2. ASSUME NEW i \in 1 .. n + 1
        PROVE  /\ items'[i].depth <= MaxDepth /\ items'[i].extent # 0
               /\ items'[i].size # 0
    <3>1. CASE i \in 1 .. n
      BY <1>1, <1>11, <3>1 DEF QueueInv, QueueSound
    <3>2. CASE i = n + 1
      <4>1. items'[i].depth = Item.depth + 1
        BY <1>5, <1>11, <3>2
      <4>2. items'[i].extent = Record.extent /\ items'[i].size = Record.size
        BY <1>5, <1>11, <3>2
      <4>3. Item.depth + 1 <= MaxDepth
        BY <1>3, <1>4, <1>8
      <4> QED BY <1>3, <4>1, <4>2, <4>3
    <3> QED BY <1>10, <3>1, <3>2
  <2>3. ASSUME NEW i \in 1 .. n + 1, NEW j \in 1 .. i - 1
        PROVE  /\ items'[j].depth <= items'[i].depth
               /\ <<items'[j].extent, items'[j].size>>
                    # <<items'[i].extent, items'[i].size>>
    <3>1. CASE i \in 1 .. n
      <4>1. j \in 1 .. n /\ items'[j] = items[j] /\ items'[i] = items[i]
        BY <1>1, <1>11, <3>1
      <4> QED
        BY <3>1, <4>1, QueueOrder
    <3>2. CASE i = n + 1
      <4>1. j \in 1 .. n /\ items'[j] = items[j] /\ items'[i] = e
        BY <1>1, <1>11, <3>2
      <4> QED
        BY <1>6, <1>7, <4>1
    <3> QED BY <1>10, <3>1, <3>2
  <2>4. ASSUME NEW i \in 1 .. n + 1, i > 1
        PROVE  \E j \in 1 .. item_index' : items'[j].depth + 1 = items'[i].depth
    <3>1. CASE i \in 1 .. n
      <4>1. PICK j \in 1 .. item_index : items[j].depth + 1 = items[i].depth
        BY <1>1, <2>4, <3>1 DEF QueueInv, QueueSound
      <4> QED
        BY <1>1, <1>11, <3>1, <4>1
    <3>2. CASE i = n + 1
      <4>1. items'[item_index].depth + 1 = items'[i].depth
        BY <1>1, <1>4, <1>5, <1>11, <3>2
      <4>2. item_index' = item_index /\ item_index \in 1 .. item_index'
        BY <1>1
      <4> QED BY <4>1, <4>2
    <3> QED BY <1>10, <3>1, <3>2
  <2> QED
    BY <1>11, <2>1, <2>2, <2>3, <2>4 DEF QueueSound
<1>13. OneLevelBelow'
  BY <1>1, <1>4, <1>5, <1>11 DEF QueueInv, OneLevelBelow
<1> QED
  BY <1>1, <1>11, <1>12, <1>13 DEF QueueInv, NoQueueYet

\* The parser starts with an empty queue.
LEMMA QueueInit == IsoInit => QueueInv
<1> SUFFICES ASSUME IsoInit PROVE QueueInv
  OBVIOUS
<1>1. /\ items = <<>> /\ items \in Seq(Queued) /\ Len(items) = 0
      /\ item_index = 0 /\ isoPhase = "open" /\ MaxDirs \in Nat
      /\ DOMAIN items = {}
  BY IsoAssumption DEF IsoInit
<1>2. {"iso9660", "root"} \subseteq DOMAIN info /\ IsExtent(info.root)
  BY IsoAssumption DEF IsoInit, NoInfo, IsExtent, Dwords
<1> QED
  BY <1>1, <1>2 DEF IsoInit, QueueInv, QueueSound, NoQueueYet, OneLevelBelow

\* Every step of the parser keeps the queue.
LEMMA QueueStep == QueueInv /\ [IsoNext]_isoVars => QueueInv'
<1> SUFFICES ASSUME QueueInv, [IsoNext]_isoVars PROVE QueueInv'
  OBVIOUS
\* Most steps leave the queue alone, and after the descriptors the root.
<1>1. ASSUME UNCHANGED <<isoFile, items, item_index>>,
             isoPhase' \notin {"open", "descriptors"},
             isoPhase' \in {"directory", "records"} =>
               isoPhase \in {"directory", "records"}
      PROVE  QueueInv'
  BY <1>1 DEF QueueInv, QueueSound, NoQueueYet, OneLevelBelow
<1>2. CASE OpenImage
  BY <1>1, <1>2
     DEF OpenImage, IsoFails, QueueInv, QueueSound, NoQueueYet, OneLevelBelow
<1>3. CASE ReadDescriptor
  <2> DEFINE s == At(FirstDescriptor + index)
  <2>1. CASE StartDirectories
    BY <1>3, <2>1, RootQueued DEF ReadDescriptor
  <2>2. CASE /\ info' = Described(info, s)
             /\ UNCHANGED <<isoFile, isoPhase, items, item_index>>
    <3>1. IsRecord(s.root) /\ isoPhase = "descriptors"
      BY <1>3, SectorType DEF QueueInv, ReadDescriptor
    <3>2. {"iso9660", "root"} \subseteq DOMAIN info' /\ IsExtent(info'.root)
      BY <2>2, <3>1, DescribedRoot DEF QueueInv, NoQueueYet
    <3> QED
      BY <2>2, <3>1, <3>2 DEF QueueInv, QueueSound, NoQueueYet, OneLevelBelow
  <2> QED
    BY <1>3, <2>1, <2>2 DEF ReadDescriptor
<1>4. CASE TakeItem
  BY <1>4, TakenInOrder
<1>5. CASE ReadDirectorySector
  BY <1>1, <1>5 DEF ReadDirectorySector, IsoFails
<1>6. CASE ScanRecord
  <2>1. CASE SectorEnds
    BY <1>1, <1>6, <2>1 DEF ScanRecord, SectorEnds
  <2>2. CASE ~SectorEnds
    <3>1. /\ isoPhase = "records" /\ UNCHANGED <<isoFile, isoPhase, item_index>>
          /\ items' = IF Queues(Record)
                      THEN Append(items, [extent |-> Record.extent,
                                          size |-> Record.size,
                                          depth |-> Item.depth + 1])
                      ELSE items
      BY <1>6, <2>2 DEF ScanRecord
    <3> QED
      BY <1>1, <3>1, SubdirectoryQueued
  <2> QED BY <2>1, <2>2
<1>7. CASE ReadVrs
  BY <1>1, <1>7 DEF ReadVrs
<1>8. CASE TryAnchor
  BY <1>1, <1>8 DEF TryAnchor, UdfEnds
<1>9. CASE ReadSequence
  BY <1>1, <1>9 DEF ReadSequence, UdfEnds
<1>10. CASE ReadCatalog
  BY <1>1, <1>10 DEF ReadCatalog, CatalogEnds
<1>11. CASE ReadEntry
  BY <1>1, <1>11 DEF ReadEntry, CatalogEnds
<1>12. CASE ReadSection
  BY <1>1, <1>12 DEF ReadSection, SectionEnds, CatalogEnds
<1>13. CASE FinishIso
  BY <1>1, <1>13 DEF FinishIso
<1>14. CASE UNCHANGED isoVars
  BY <1>14 DEF isoVars, QueueInv, QueueSound, NoQueueYet, OneLevelBelow
<1> QED
  BY <1>2, <1>3, <1>4, <1>5, <1>6, <1>7, <1>8, <1>9, <1>10, <1>11, <1>12,
     <1>13, <1>14 DEF IsoNext

\* fx_iso_scan_directories (iso.c:484-565): whatever the records of an image
\* say, the queue stays within its array and its depth, holds no directory
\* twice, so that the walk comes to an end, and goes level by level.
THEOREM QueueIsSound == IsoSpec => []QueueSound
<1>1. QueueInv => QueueSound
  BY DEF QueueInv
<1> QED BY <1>1, QueueInit, QueueStep, PTL DEF IsoSpec

-----------------------------------------------------------------------------
(* UDF (IsoVolume).  The recognition sequence is read up to its end, then  *)
(* the anchors one after the other, each with its sequence                 *)
(* (fx_iso_parse_udf_vrs and what it calls, iso.c).                        *)

\* What the other readers do with the information leaves that of UDF and of
\* the boot catalogue, and an image that is added the rest.
LEMMA OthersKeep ==
  ASSUME NEW i, DOMAIN NoInfo \subseteq DOMAIN i
  PROVE  /\ \A s : LET d == Described(i, s)
                   IN  /\ DOMAIN NoInfo \subseteq DOMAIN d /\ d.udf = i.udf
                       /\ d.images = i.images /\ d.platforms = i.platforms
         /\ \A r : LET d == Scanned(i, r)
                   IN  /\ DOMAIN NoInfo \subseteq DOMAIN d /\ d.udf = i.udf
                       /\ d.images = i.images /\ d.platforms = i.platforms
         /\ \A p, n : LET w == WithImage(i, p, n)
                      IN  /\ DOMAIN NoInfo \subseteq DOMAIN w
                          /\ w.udf = i.udf /\ w.version = i.version
                          /\ w.el_torito = i.el_torito /\ w.catalog = i.catalog
                          /\ w.platform = i.platform
                          /\ w.name = i.name /\ w.traits = i.traits
<1> DEFINE Fields == {"udf", "images", "platforms"}
<1>1. Fields \cup {"version", "el_torito", "catalog", "platform", "name", "traits"}
        \subseteq DOMAIN i
  BY DEF NoInfo
<1>2. ASSUME NEW j, NEW r
      PROVE  DOMAIN Scanned(j, r) = DOMAIN j /\ \A f \in Fields : Scanned(j, r)[f] = j[f]
  BY DEF Scanned
<1>3. ASSUME NEW s
      PROVE  DOMAIN Described(i, s) = DOMAIN i /\ \A f \in Fields : Described(i, s)[f] = i[f]
  <2> DEFINE j == [i EXCEPT !.iso9660 = TRUE,
                            !.root = [extent |-> s.root.extent, size |-> s.root.size]]
  <2>1. DOMAIN j = DOMAIN i /\ \A f \in Fields : j[f] = i[f]
    BY <1>1
  <2>2. DOMAIN Scanned(j, s.root) = DOMAIN j
        /\ \A f \in Fields : Scanned(j, s.root)[f] = j[f]
    BY <1>2
  <2>3. CASE s.id = "primary" /\ s.root.length >= MinRecord
    <3>1. Described(i, s) = Scanned(j, s.root)
      BY <2>3 DEF Described
    <3> HIDE DEF j
    <3> QED BY <2>1, <2>2, <3>1
  <2>4. CASE ~(s.id = "primary" /\ s.root.length >= MinRecord)
    BY <1>1, <2>4 DEF Described
  <2> QED BY <2>3, <2>4
<1>4. ASSUME NEW p, NEW n
      PROVE  LET w == WithImage(i, p, n)
             IN  /\ DOMAIN w = DOMAIN i /\ w.udf = i.udf /\ w.version = i.version
                 /\ w.el_torito = i.el_torito /\ w.catalog = i.catalog
                 /\ w.platform = i.platform
                 /\ w.name = i.name /\ w.traits = i.traits
  BY <1>1 DEF WithImage
<1> QED BY <1>1, <1>2, <1>3, <1>4

\* A length in sectors, if its sum does not overflow.
LEMMA Rounded ==
  ASSUME NEW s \in Nat \ {0}, NEW bytes \in Nat, NEW n \in Nat
  PROVE  n < (bytes + s - 1) \div s <=> n * s < bytes
<1> DEFINE q == (bytes + s - 1) \div s
<1>1. q \in Nat /\ q * s <= bytes + s - 1 /\ bytes + s - 1 < (q + 1) * s
  <2> DEFINE b == bytes + s - 1
  <2>1. b \in Nat
    OBVIOUS
  <2> HIDE DEF b
  <2>2. b \div s \in Nat /\ (b \div s) * s <= b /\ b < ((b \div s) + 1) * s
    BY <2>1
  <2> QED BY <2>2 DEF b
<1> HIDE DEF q
<1>2. ASSUME n < q PROVE n * s < bytes
  <2>1. n + 1 <= q
    BY <1>1, <1>2
  <2>2. (n + 1) * s <= q * s
    BY <1>1, <2>1
  <2>3. (n + 1) * s = n * s + s
    OBVIOUS
  <2>4. n * s \in Int /\ q * s \in Int
    BY <1>1
  <2> QED BY <1>1, <2>2, <2>3, <2>4
<1>3. ASSUME ~(n < q) PROVE ~(n * s < bytes)
  <2>1. q * s <= n * s
    BY <1>1, <1>3
  <2>2. (q + 1) * s = q * s + s
    BY <1>1
  <2>3. n * s \in Int /\ q * s \in Int
    BY <1>1
  <2> QED BY <1>1, <2>1, <2>2, <2>3
<1> QED BY <1>2, <1>3 DEF q

\* A number below the modulus is its own remainder.
LEMMA SmallRemainder ==
  ASSUME NEW x \in Nat, NEW m \in Nat, x < m
  PROVE  x % m = x
OBVIOUS

\* The length that an anchor gives its sequence is a number.
LEMMA AnchorLength ==
  ASSUME NEW anchor, isoFile \in Images
  PROVE  At(anchor).length \in Nat /\ SequenceLength(At(anchor).length) \in Int
<1> DEFINE length == At(anchor).length
<1>1. /\ IsoMaxDword \in Nat /\ SectorSize \in Nat \ {0} /\ MaxSequence \in Nat
  BY IsoAssumption
<1>2. length \in Nat
  <2>1. CASE anchor \in DOMAIN isoFile.at
    BY <2>1, <1>1, IsoAssumption DEF At, IsSector, Dwords
  <2>2. CASE anchor \notin DOMAIN isoFile.at
    BY <2>2 DEF At, Blank
  <2> QED BY <2>1, <2>2
<1> HIDE DEF length
<1>3. (length + SectorSize - 1) % (IsoMaxDword + 1) \in Int
  BY <1>1, <1>2
<1>4. ((length + SectorSize - 1) % (IsoMaxDword + 1)) \div SectorSize \in Int
  BY <1>1, <1>3
<1>5. SequenceLength(length) \in Int
  BY <1>1, <1>4 DEF SequenceLength
<1> QED BY <1>2, <1>5 DEF length

\* The sectors that are read of a sequence are those that its length touches.
LEMMA SequenceLengthIs ==
  ASSUME NEW anchor, isoFile \in Images, NoWrap(anchor), NEW n \in Nat
  PROVE  n < SequenceLength(At(anchor).length)
           <=> n < MaxSequence /\ n * SectorSize < At(anchor).length
<1> DEFINE length == At(anchor).length
           sum == length + SectorSize - 1
           q == sum \div SectorSize
<1>1. /\ IsoMaxDword \in Nat /\ SectorSize \in Nat \ {0} /\ MaxSequence \in Nat
  BY IsoAssumption
<1>2. length \in Nat
  BY AnchorLength
<1>3. sum \in Nat /\ sum < IsoMaxDword + 1
  <2>1. length <= IsoMaxDword - (SectorSize - 1)
    BY DEF NoWrap
  <2> HIDE DEF length
  <2> QED BY <1>1, <1>2, <2>1
<1>4. sum % (IsoMaxDword + 1) = sum
  <2> HIDE DEF sum
  <2> QED BY <1>1, <1>3, SmallRemainder
<1>5. SequenceLength(length) = IF q > MaxSequence THEN MaxSequence ELSE q
  BY <1>4 DEF SequenceLength
<1>6. n < q <=> n * SectorSize < length
  BY <1>1, <1>2, Rounded
<1>7. q \in Int
  <2> HIDE DEF sum
  <2> QED BY <1>1, <1>3
<1>8. n < (IF q > MaxSequence THEN MaxSequence ELSE q) <=> n < MaxSequence /\ n < q
  <2> HIDE DEF q
  <2> QED BY <1>1, <1>7
<1> QED BY <1>5, <1>6, <1>8

\* What a sequence says, from what was read of it.
LEMMA RevisionsAre ==
  ASSUME NEW anchor, isoFile \in Images, IsAnchor(anchor), NoWrap(anchor), NEW k \in Nat,
         \A j \in 0 .. k - 1 : Silent(anchor, j)
  PROVE  LET lba == (At(anchor).location + k) % (IsoMaxDword + 1)
             n == SequenceLength(At(anchor).length)
         IN  /\ k >= n \/ ~Readable(lba) \/ At(lba).tag = 8 => Revisions(anchor) = {}
             /\ k < n /\ Readable(lba) /\ At(lba).tag = 6 /\ At(lba).revision # None
                  => At(lba).revision \in Revisions(anchor)
<1> DEFINE Lba(j) == (At(anchor).location + j) % (IsoMaxDword + 1)
           n == SequenceLength(At(anchor).length)
           Tells(j) == /\ j * SectorSize < At(anchor).length
                       /\ \A l \in 0 .. j : Readable(Lba(l)) /\ At(Lba(l)).tag # 8
                       /\ \A l \in 0 .. j - 1 : \/ At(Lba(l)).tag # 6
                                                \/ At(Lba(l)).revision = None
                       /\ At(Lba(j)).tag = 6 /\ At(Lba(j)).revision # None
<1>1. Revisions(anchor) = {At(Lba(j)).revision : j \in {l \in 0 .. MaxSequence - 1 : Tells(l)}}
  BY Zenon DEF Revisions
<1>2. \A j \in 0 .. k - 1 : /\ Readable(Lba(j)) /\ At(Lba(j)).tag # 8
                            /\ At(Lba(j)).tag # 6 \/ At(Lba(j)).revision = None
  BY DEF Silent
<1>3. \A j \in Nat : j < n <=> j < MaxSequence /\ j * SectorSize < At(anchor).length
  BY SequenceLengthIs
<1>4. MaxSequence \in Nat
  BY IsoAssumption
<1>5. n \in Int
  BY AnchorLength
<1> HIDE DEF n, Lba
<1>6. ASSUME k >= n \/ ~Readable(Lba(k)) \/ At(Lba(k)).tag = 8
      PROVE  Revisions(anchor) = {}
  <2>1. ASSUME NEW j \in 0 .. MaxSequence - 1, Tells(j) PROVE FALSE
    <3>1. j \in Nat /\ j < n
      BY <1>3, <1>4, <2>1
    <3>2. j >= k
      BY <1>2, <2>1, <3>1
    <3>3. k \in 0 .. j
      BY <3>1, <3>2
    <3> QED BY <1>5, <1>6, <2>1, <3>1, <3>2, <3>3
  <2> HIDE DEF Tells
  <2> QED BY <1>1, <2>1
<1>7. ASSUME k < n, Readable(Lba(k)), At(Lba(k)).tag = 6, At(Lba(k)).revision # None
      PROVE  At(Lba(k)).revision \in Revisions(anchor)
  <2>1. k \in 0 .. MaxSequence - 1 /\ k * SectorSize < At(anchor).length
    BY <1>3, <1>4, <1>7
  <2>2. \A l \in 0 .. k : l \in 0 .. k - 1 \/ l = k
    OBVIOUS
  <2>3. Tells(k)
    BY <1>2, <1>7, <2>1, <2>2
  <2> HIDE DEF Tells
  <2> QED BY <1>1, <2>1, <2>3
<1> QED BY <1>6, <1>7 DEF n, Lba

\* What a file says does not change.
LEMMA FileKept ==
  ASSUME isoFile' = isoFile
  PROVE  /\ Recognised' = Recognised /\ Anchors' = Anchors /\ NoneWraps' = NoneWraps
         /\ \A k : ReadThrough(k)' = ReadThrough(k) /\ Naming(k)' = Naming(k)
         /\ \A i : Fruitless(i)' = Fruitless(i)
         /\ \A lba : At(lba)' = At(lba) /\ Readable(lba)' = Readable(lba)
         /\ \A a : IsAnchor(a)' = IsAnchor(a)
         /\ \A a, k : Silent(a, k)' = Silent(a, k)
         /\ \A v : RightVersion(v)' = RightVersion(v)
<1>1. \A lba : At(lba)' = At(lba) /\ Readable(lba)' = Readable(lba)
  BY DEF At, Readable
<1>2. Recognised' = Recognised
  BY DEF Recognised, At, Readable, Nsr
<1>3. Anchors' = Anchors /\ NoneWraps' = NoneWraps
  BY DEF Anchors, AnchorsAt, NoneWraps, NoWrap, At
<1>4. \A k : ReadThrough(k)' = ReadThrough(k)
  BY DEF ReadThrough, At, Readable
<1>5. \A k : Naming(k)' = Naming(k)
  BY DEF Naming, Nsr, At
<1>6. \A i : Fruitless(i)' = Fruitless(i)
  BY DEF Fruitless, NoWrap, Anchors, AnchorsAt, Revisions, IsAnchor, Readable, At
<1>7. \A a : IsAnchor(a)' = IsAnchor(a)
  BY DEF IsAnchor, Readable, At
<1>8. \A a, k : Silent(a, k)' = Silent(a, k)
  BY DEF Silent, Readable, At
<1>9. \A v : RightVersion(v)' = RightVersion(v)
  BY DEF RightVersion, AnchorsAt, Revisions, IsAnchor, Readable, At, Recognised, Nsr
<1> QED BY <1>1, <1>2, <1>3, <1>4, <1>5, <1>6, <1>7, <1>8, <1>9

\* Behind UDF nothing changes what is shown of it.
LEMMA UdfStays ==
  ASSUME UdfInv, isoPhase \in AfterUdf, isoPhase' \in AfterUdf \cup {"failed"},
         isoFile' = isoFile, DOMAIN NoInfo \subseteq DOMAIN info',
         info'.udf = info.udf, info'.version = info.version
  PROVE  UdfInv'
<1>1. RightVersion(info.version)' = RightVersion(info.version)
  BY FileKept
<1>2. isoPhase' \notin {"open", "descriptors", "items", "directory", "records", "vrs",
                       "anchors", "sequence"}
  BY DEF AfterUdf
<1> QED BY <1>1, <1>2, FileKept DEF UdfInv

\* Before it nothing is known.
LEMMA UdfNotYet ==
  ASSUME UdfInv, isoPhase \in {"open", "descriptors", "items", "directory", "records"},
         isoPhase' \in {"open", "descriptors", "items", "directory", "records", "failed"}
           \/ (isoPhase' = "vrs" /\ index' = 0),
         isoPhase' \in {"items", "directory", "records"} => index' = 0,
         isoFile' = isoFile, DOMAIN NoInfo \subseteq DOMAIN info', info'.udf = info.udf
  PROVE  UdfInv'
<1>1. info.udf = FALSE
  BY DEF UdfInv
<1>2. CASE isoPhase' = "vrs" /\ index' = 0
  <2>1. Naming(0) = {} /\ ReadThrough(0)
    BY DEF Naming, ReadThrough
  <2>2. Naming(index)' = {} /\ ReadThrough(index)'
    BY <1>2, <2>1, FileKept
  <2>3. 0 \in 0 .. MaxDescriptors
    BY IsoAssumption
  <2>4. info'.udf = (Naming(index)' # {})
    BY <1>1, <2>2
  <2> QED BY <1>1, <1>2, <2>2, <2>3, <2>4 DEF UdfInv, AfterUdf
<1>3. CASE isoPhase' # "vrs"
  BY <1>1, <1>3 DEF UdfInv, AfterUdf
<1> QED BY <1>2, <1>3

\* The sequence of recognition ends.
LEMMA RecognitionEnds ==
  ASSUME UdfInv, isoPhase = "vrs", VrsEnds(At(FirstDescriptor + index))
  PROVE  Recognised = Naming(index)
<1>1. index \in 0 .. MaxDescriptors /\ MaxDescriptors \in Nat /\ ReadThrough(index)
  BY IsoAssumption DEF UdfInv
<1>2. \/ index = MaxDescriptors \/ ~Readable(FirstDescriptor + index)
      \/ At(FirstDescriptor + index).id = "tea"
  BY <1>1 DEF VrsEnds
<1>3. ASSUME NEW i \in Naming(index) PROVE i \in Recognised
  <2>1. i \in 0 .. index - 1 /\ Nsr(At(FirstDescriptor + i)) # 0
    BY DEF Naming
  <2>2. i \in 0 .. MaxDescriptors - 1 /\ 0 .. i \subseteq 0 .. index - 1
    BY <1>1, <2>1
  <2> QED BY <1>1, <2>1, <2>2 DEF Recognised, ReadThrough
<1>4. ASSUME NEW i \in Recognised PROVE i \in Naming(index)
  <2>1. /\ i \in 0 .. MaxDescriptors - 1 /\ Nsr(At(FirstDescriptor + i)) # 0
        /\ \A j \in 0 .. i : /\ Readable(FirstDescriptor + j)
                             /\ At(FirstDescriptor + j).id # "tea"
    BY DEF Recognised
  <2>2. i < index
    <3> SUFFICES ASSUME ~(i < index) PROVE FALSE
      OBVIOUS
    <3>1. index \in 0 .. i /\ index < MaxDescriptors
      BY <1>1, <2>1
    <3> QED BY <1>1, <1>2, <2>1, <3>1
  <2> QED BY <1>1, <2>1, <2>2 DEF Naming
<1> QED BY <1>3, <1>4

\* A sector of the recognition sequence adds to what was seen of it (fx_iso_parse_udf_vrs).
LEMMA ReadVrsKeepsUdf ==
  ASSUME UdfInv, ReadVrs
  PROVE  UdfInv'
<1> DEFINE s == At(FirstDescriptor + index)
<1>1. /\ isoPhase = "vrs" /\ isoFile' = isoFile
      /\ index \in 0 .. MaxDescriptors /\ MaxDescriptors \in Nat /\ ReadThrough(index)
      /\ info.udf = (Naming(index) # {}) /\ (info.udf => OfLast(Naming(index)))
      /\ isoFile \in Images /\ DOMAIN NoInfo \subseteq DOMAIN info /\ "udf" \in DOMAIN info
  BY IsoAssumption DEF UdfInv, ReadVrs, NoInfo
<1>2. CASE VrsEnds(s)
  <2>1. /\ isoPhase' = IF info.udf THEN "anchors" ELSE "catalog"
        /\ index' = 0 /\ UNCHANGED <<info, inside>>
    BY <1>2 DEF ReadVrs
  <2>2. Recognised = Naming(index) /\ Recognised' = Recognised
    BY <1>1, <1>2, RecognitionEnds, FileKept
  <2>3. CASE info.udf
    <3>1. isoPhase' = "anchors" /\ info'.udf = TRUE /\ Recognised' # {}
      BY <1>1, <2>1, <2>2, <2>3
    <3>2. OfLast(Recognised)
      BY <1>1, <2>2, <2>3
    <3>3. OfLast(Recognised)'
      BY <1>1, <2>1, <2>2, <3>2, FileKept DEF OfLast, Nsr
    <3>4. index' \in 0 .. Len(Anchors') /\ \A i \in 1 .. index' : Fruitless(i)'
      <4>1. Len(Anchors) \in Nat
        BY DEF Anchors, AnchorsAt
      <4>2. Anchors' = Anchors
        BY <1>1, FileKept
      <4> QED BY <2>1, <4>1, <4>2
    <3> QED BY <1>1, <2>1, <3>1, <3>3, <3>4 DEF UdfInv, AfterUdf
  <2>4. CASE ~info.udf
    <3>1. isoPhase' = "catalog" /\ info' = info /\ Recognised' = {}
      BY <1>1, <2>1, <2>2, <2>4
    <3>2. info'.udf = (Recognised' # {}) /\ ~info'.udf
      BY <1>1, <2>2, <2>4, <3>1
    <3> QED BY <1>1, <3>1, <3>2 DEF UdfInv, AfterUdf
  <2> QED BY <2>3, <2>4
<1>3. CASE ~VrsEnds(s)
  <2>1. /\ isoPhase' = "vrs" /\ index' = index + 1
        /\ IF Nsr(s) # 0 THEN info' = [info EXCEPT !.udf = TRUE] /\ inside' = Nsr(s)
           ELSE UNCHANGED <<info, inside>>
    BY <1>1, <1>3 DEF ReadVrs
  <2>2. index < MaxDescriptors /\ Readable(FirstDescriptor + index) /\ s.id # "tea"
    BY <1>1, <1>3 DEF VrsEnds
  <2>3. index' \in 0 .. MaxDescriptors
    BY <1>1, <2>1, <2>2
  <2>4. \A j \in 0 .. index' - 1 : j \in 0 .. index - 1 \/ j = index
    BY <1>1, <2>1
  <2>5. ReadThrough(index')
    BY <1>1, <2>2, <2>4 DEF ReadThrough
  <2>6. Naming(index') = IF Nsr(s) # 0 THEN Naming(index) \cup {index} ELSE Naming(index)
    <3>1. 0 .. index' - 1 = (0 .. index - 1) \cup {index}
      BY <1>1, <2>1
    <3> QED BY <3>1 DEF Naming
  <2>7. ReadThrough(index)' /\ Naming(index)' = Naming(index')
    BY <1>1, <2>5, FileKept DEF ReadThrough, Naming, Nsr
  <2>8. CASE Nsr(s) # 0
    <3>1. info'.udf = TRUE /\ DOMAIN info' = DOMAIN info /\ inside' = Nsr(s)
      BY <1>1, <2>1, <2>8
    <3>2. index \in Naming(index') /\ \A j \in Naming(index') : j <= index
      BY <1>1, <2>6, <2>8 DEF Naming
    <3>3. \E i \in Naming(index') : /\ inside' = Nsr(At(FirstDescriptor + i))
                                    /\ \A j \in Naming(index') : j <= i
      BY <3>1, <3>2
    <3>4. OfLast(Naming(index))'
      BY <1>1, <2>7, <3>3, FileKept DEF OfLast, Nsr
    <3>5. info'.udf = (Naming(index)' # {})
      BY <2>7, <3>1, <3>2
    <3> QED BY <1>1, <2>1, <2>3, <2>7, <3>1, <3>4, <3>5 DEF UdfInv, AfterUdf
  <2>9. CASE Nsr(s) = 0
    <3>1. info' = info /\ inside' = inside /\ Naming(index)' = Naming(index)
      BY <2>1, <2>6, <2>7, <2>9
    <3>2. info'.udf = (Naming(index)' # {})
      BY <1>1, <3>1
    <3>3. info'.udf => OfLast(Naming(index))'
      <4>1. ASSUME info.udf PROVE OfLast(Naming(index))'
        BY <1>1, <3>1, <4>1, FileKept DEF OfLast, Nsr
      <4> QED BY <3>1, <4>1
    <3> QED BY <1>1, <2>1, <2>3, <2>7, <3>1, <3>2, <3>3 DEF UdfInv, AfterUdf
  <2> QED BY <2>8, <2>9
<1> QED BY <1>2, <1>3

\* The version of the last name, when no anchor led to another.
LEMMA VersionOfLast ==
  ASSUME Recognised # {}, OfLast(Recognised),
         \A i \in DOMAIN Anchors : Revisions(Anchors[i]) = {},
         NEW version, version = IF inside = 2 THEN "1.x" ELSE "2.x"
  PROVE  RightVersion(version)
<1> DEFINE last == CHOOSE i \in Recognised : \A j \in Recognised : j <= i
<1>1. PICK i \in Recognised : /\ inside = Nsr(At(FirstDescriptor + i))
                              /\ \A j \in Recognised : j <= i
  BY DEF OfLast
<1>2. Recognised \subseteq Int
  BY IsoAssumption DEF Recognised
<1>3. last \in Recognised /\ \A j \in Recognised : j <= last
  BY <1>1
<1> HIDE DEF last
<1>4. last = i
  BY <1>1, <1>2, <1>3
<1>5. inside = 2 <=> At(FirstDescriptor + last).id = "nsr2"
  BY <1>1, <1>4 DEF Nsr
<1> QED BY <1>5 DEF RightVersion, Anchors, last

\* The revision that the first usable anchor leads to.
LEMMA VersionOfAnchor ==
  ASSUME NEW i \in DOMAIN Anchors, NEW version, version \in Revisions(Anchors[i]),
         \A j \in 1 .. i - 1 : Revisions(Anchors[j]) = {}
  PROVE  RightVersion(version)
<1> DEFINE usable == {j \in DOMAIN Anchors : Revisions(Anchors[j]) # {}}
<1>1. DOMAIN Anchors \subseteq Nat \ {0}
  BY DEF Anchors, AnchorsAt
<1>2. i \in usable
  OBVIOUS
<1>3. \A j \in usable : i <= j
  <2> SUFFICES ASSUME NEW j \in usable, ~(i <= j) PROVE FALSE
    OBVIOUS
  <2>1. j \in 1 .. i - 1
    BY <1>1
  <2> QED BY <2>1
<1> HIDE DEF usable
<1>4. usable # {} /\ \E k \in usable : /\ \A j \in usable : k <= j
                                       /\ version \in Revisions(Anchors[k])
  BY <1>2, <1>3
<1> QED BY <1>4 DEF RightVersion, Anchors, usable

\* What was found is not changed any more.
LEMMA UdfEndsRight ==
  ASSUME UdfInv, isoPhase \in {"anchors", "sequence"}, NEW version, UdfEnds(version),
         NoneWraps => RightVersion(version)
  PROVE  UdfInv'
<1>1. /\ isoFile' = isoFile /\ info' = [info EXCEPT !.version = version]
      /\ isoPhase' = "catalog"
  BY DEF UdfEnds
<1>2. /\ isoFile \in Images /\ DOMAIN NoInfo \subseteq DOMAIN info
      /\ info.udf = TRUE /\ Recognised # {}
  BY DEF UdfInv
<1>3. "udf" \in DOMAIN info /\ "version" \in DOMAIN info
  BY <1>2 DEF NoInfo
<1>4. DOMAIN info' = DOMAIN info /\ info'.udf = TRUE /\ info'.version = version
  BY <1>1, <1>2, <1>3
<1>5. info'.udf = (Recognised' # {})
  BY <1>1, <1>2, <1>4, FileKept
<1>6. NoneWraps' => RightVersion(info.version)'
  <2>1. RightVersion(version)' = RightVersion(version) /\ NoneWraps' = NoneWraps
    BY <1>1, FileKept
  <2> QED BY <1>4, <2>1, FileKept, <1>1
<1> QED BY <1>1, <1>2, <1>4, <1>5, <1>6 DEF UdfInv, AfterUdf

\* The places to look for an anchor are a sequence.
LEMMA AnchorsAreSequence == isoFile \in Images => Len(Anchors) \in Nat
                                                  /\ DOMAIN Anchors = 1 .. Len(Anchors)
BY DEF Anchors, AnchorsAt

\* A place without an anchor leads to no revision (fx_iso_parse_udf_anchor).
LEMMA TryAnchorKeepsUdf ==
  ASSUME UdfInv, TryAnchor
  PROVE  UdfInv'
<1>1. /\ isoPhase = "anchors" /\ isoFile \in Images /\ DOMAIN NoInfo \subseteq DOMAIN info
      /\ info.udf = TRUE /\ Recognised # {} /\ OfLast(Recognised)
      /\ index \in 0 .. Len(Anchors) /\ \A i \in 1 .. index : Fruitless(i)
  BY DEF UdfInv, TryAnchor
<1>2. Len(Anchors) \in Nat /\ DOMAIN Anchors = 1 .. Len(Anchors)
  BY <1>1, AnchorsAreSequence
<1>3. CASE index = Len(Anchors) /\ UdfEnds(IF inside = 2 THEN "1.x" ELSE "2.x")
  <2> DEFINE version == IF inside = 2 THEN "1.x" ELSE "2.x"
  <2>1. NoneWraps => RightVersion(version)
    <3>1. ASSUME NoneWraps PROVE \A i \in DOMAIN Anchors : Revisions(Anchors[i]) = {}
      BY <1>1, <1>2, <1>3, <3>1 DEF NoneWraps, Fruitless, Anchors
    <3> QED BY <1>1, <3>1, VersionOfLast
  <2> QED BY <1>1, <1>3, <2>1, UdfEndsRight
<1>4. CASE /\ index < Len(Anchors) /\ index' = index + 1
           /\ IF IsAnchor(Anchors[index + 1]) THEN isoPhase' = "sequence" /\ pos' = 0
              ELSE UNCHANGED <<isoPhase, pos>>
           /\ UNCHANGED <<isoFile, info, items, item_index, offset, inside>>
  <2>1. Recognised' = Recognised /\ OfLast(Recognised)' /\ Anchors' = Anchors
    BY <1>1, <1>4, FileKept DEF OfLast, Nsr
  <2>2. index' \in 1 .. Len(Anchors) /\ \A i \in 1 .. index' - 1 : Fruitless(i)
    BY <1>1, <1>2, <1>4
  <2>3. CASE IsAnchor(Anchors[index + 1])
    <3>1. isoPhase' = "sequence" /\ pos' = 0 /\ IsAnchor(Anchors[index'])
      BY <1>4, <2>3
    <3>2. /\ index' \in 1 .. Len(Anchors') /\ IsAnchor(Anchors[index])'
          /\ \A i \in 1 .. index' - 1 : Fruitless(i)'
      BY <1>4, <2>1, <2>2, <3>1, FileKept
    <3>3. \A k \in 0 .. pos' - 1 : Silent(Anchors[index], k)'
      BY <3>1
    <3> QED BY <1>1, <1>4, <2>1, <3>1, <3>2, <3>3 DEF UdfInv, AfterUdf
  <2>4. CASE ~IsAnchor(Anchors[index + 1])
    <3>1. isoPhase' = "anchors" /\ Fruitless(index')
      BY <1>1, <1>4, <2>4 DEF Fruitless, Revisions
    <3> DEFINE n == index'
    <3>2. \A i \in 1 .. n : i \in 1 .. n - 1 \/ i = n
      <4>1. n \in Int
        BY <1>2, <2>2
      <4> HIDE DEF n
      <4> QED BY <4>1
    <3>3. \A i \in 1 .. index' : Fruitless(i)'
      BY <1>4, <2>2, <3>1, <3>2, FileKept
    <3>4. index' \in 0 .. Len(Anchors')
      BY <1>2, <2>1, <2>2
    <3> QED BY <1>1, <1>4, <2>1, <3>1, <3>3, <3>4 DEF UdfInv, AfterUdf
  <2> QED BY <2>3, <2>4
<1> QED BY <1>3, <1>4 DEF TryAnchor, Anchors

\* A descriptor of the sequence gives the revision, ends it, or adds to those that give
\* none (fx_iso_scan_udf_volume_sequence).
LEMMA ReadSequenceKeepsUdf ==
  ASSUME UdfInv, ReadSequence
  PROVE  UdfInv'
<1> DEFINE anchor == Anchors[index]
           lba == (At(anchor).location + pos) % (IsoMaxDword + 1)
           n == SequenceLength(At(anchor).length)
<1>1. /\ isoPhase = "sequence" /\ isoFile \in Images /\ DOMAIN NoInfo \subseteq DOMAIN info
      /\ info.udf = TRUE /\ Recognised # {} /\ OfLast(Recognised)
      /\ index \in 1 .. Len(Anchors) /\ pos \in Nat
      /\ \A i \in 1 .. index - 1 : Fruitless(i)
      /\ IsAnchor(anchor) /\ \A k \in 0 .. pos - 1 : Silent(anchor, k)
  BY DEF UdfInv, ReadSequence
<1>2. Len(Anchors) \in Nat /\ DOMAIN Anchors = 1 .. Len(Anchors)
  BY <1>1, AnchorsAreSequence
<1>3. NoWrap(anchor) =>
        /\ pos >= n \/ ~Readable(lba) \/ At(lba).tag = 8 => Revisions(anchor) = {}
        /\ pos < n /\ Readable(lba) /\ At(lba).tag = 6 /\ At(lba).revision # None
             => At(lba).revision \in Revisions(anchor)
  BY <1>1, RevisionsAre
<1> HIDE DEF lba, n
<1>4. \/ /\ pos >= n \/ ~Readable(lba) \/ At(lba).tag = 8
         /\ isoPhase' = "anchors"
         /\ UNCHANGED <<isoFile, index, info, items, item_index, offset, pos, inside>>
      \/ /\ pos < n /\ Readable(lba) /\ At(lba).tag # 8
         /\ IF At(lba).tag = 6 /\ At(lba).revision # None
            THEN UdfEnds(At(lba).revision)
            ELSE /\ pos' = pos + 1
                 /\ UNCHANGED <<isoFile, isoPhase, index, info, items, item_index,
                                offset, inside>>
  BY DEF ReadSequence, Anchors, lba, n
<1>5. CASE /\ pos >= n \/ ~Readable(lba) \/ At(lba).tag = 8
           /\ isoPhase' = "anchors"
           /\ UNCHANGED <<isoFile, index, info, items, item_index, offset, pos, inside>>
  <2>1. Recognised' = Recognised /\ OfLast(Recognised)' /\ Anchors' = Anchors
    BY <1>1, <1>5, FileKept DEF OfLast, Nsr
  <2>2. Fruitless(index)
    BY <1>3, <1>5 DEF Fruitless
  <2>3. \A i \in 1 .. index : i \in 1 .. index - 1 \/ i = index
    BY <1>1
  <2>4. \A i \in 1 .. index : Fruitless(i)
    BY <1>1, <2>2, <2>3
  <2>5. \A i \in 1 .. index' : Fruitless(i)'
    BY <1>5, <2>4, FileKept
  <2>6. index' \in 0 .. Len(Anchors')
    BY <1>1, <1>2, <1>5, <2>1
  <2> QED BY <1>1, <1>5, <2>1, <2>5, <2>6 DEF UdfInv, AfterUdf
<1>6. CASE /\ pos < n /\ Readable(lba) /\ At(lba).tag = 6 /\ At(lba).revision # None
           /\ UdfEnds(At(lba).revision)
  <2>1. ASSUME NoneWraps PROVE RightVersion(At(lba).revision)
    <3>1. \A i \in DOMAIN Anchors : NoWrap(Anchors[i])
      BY <2>1 DEF NoneWraps, Anchors
    <3>2. index \in DOMAIN Anchors /\ \A j \in 1 .. index - 1 : j \in DOMAIN Anchors
      BY <1>1, <1>2
    <3>3. \A j \in 1 .. index - 1 : Revisions(Anchors[j]) = {}
      BY <1>1, <3>1, <3>2 DEF Fruitless
    <3>4. At(lba).revision \in Revisions(Anchors[index])
      BY <1>3, <1>6, <3>1, <3>2
    <3> QED BY <3>2, <3>3, <3>4, VersionOfAnchor
  <2> QED BY <1>1, <1>6, <2>1, UdfEndsRight
<1>7. CASE /\ Readable(lba) /\ At(lba).tag # 8
           /\ At(lba).tag # 6 \/ At(lba).revision = None
           /\ pos' = pos + 1
           /\ UNCHANGED <<isoFile, isoPhase, index, info, items, item_index,
                          offset, inside>>
  <2>1. Recognised' = Recognised /\ OfLast(Recognised)' /\ Anchors' = Anchors
    BY <1>1, <1>7, FileKept DEF OfLast, Nsr
  <2>2. Silent(anchor, pos)
    BY <1>7 DEF Silent, lba
  <2>3. \A k \in 0 .. pos' - 1 : k \in 0 .. pos - 1 \/ k = pos
    BY <1>1, <1>7
  <2>4. \A k \in 0 .. pos' - 1 : Silent(anchor, k)
    BY <1>1, <2>2, <2>3
  <2>5. \A k \in 0 .. pos' - 1 : Silent(Anchors[index], k)'
    BY <1>7, <2>1, <2>4, FileKept
  <2>6. index' \in 1 .. Len(Anchors') /\ IsAnchor(Anchors[index])' /\ pos' \in Nat
        /\ \A i \in 1 .. index' - 1 : Fruitless(i)'
    BY <1>1, <1>7, <2>1, FileKept
  <2> QED BY <1>1, <1>7, <2>1, <2>5, <2>6 DEF UdfInv, AfterUdf
<1> QED BY <1>4, <1>5, <1>6, <1>7

\* At the start nothing of UDF is seen.
LEMMA UdfStart == IsoInit => UdfInv
BY DEF IsoInit, UdfInv, NoInfo, AfterUdf

\* Every step of the parser keeps what its phase has seen.
LEMMA UdfStep == UdfInv /\ [IsoNext]_isoVars => UdfInv'
<1> SUFFICES ASSUME UdfInv, [IsoNext]_isoVars PROVE UdfInv'
  OBVIOUS
<1>1. /\ isoFile \in Images /\ DOMAIN NoInfo \subseteq DOMAIN info
      /\ isoPhase \in {"items", "directory", "records"} => index = 0
  BY DEF UdfInv
<1>2. CASE OpenImage
  BY <1>1, <1>2, UdfNotYet DEF OpenImage, IsoFails
<1>3. CASE ReadDescriptor
  <2>1. CASE StartDirectories
    BY <1>1, <1>3, <2>1, UdfNotYet DEF ReadDescriptor, StartDirectories
  <2>2. CASE ~StartDirectories
    <3>1. /\ isoPhase = "descriptors" /\ UNCHANGED <<isoFile, isoPhase>>
          /\ info' = Described(info, At(FirstDescriptor + index))
      BY <1>3, <2>2 DEF ReadDescriptor
    <3>2. DOMAIN NoInfo \subseteq DOMAIN info' /\ info'.udf = info.udf
      BY <1>1, <3>1, OthersKeep
    <3> QED BY <3>1, <3>2, UdfNotYet
  <2> QED BY <2>1, <2>2
<1>4. CASE TakeItem \/ ReadDirectorySector
  BY <1>1, <1>4, UdfNotYet DEF TakeItem, ReadDirectorySector, IsoFails
<1>5. CASE ScanRecord
  <2>1. CASE SectorEnds
    BY <1>1, <1>5, <2>1, UdfNotYet DEF ScanRecord, SectorEnds
  <2>2. CASE ~SectorEnds
    <3>1. /\ isoPhase = "records" /\ UNCHANGED <<isoFile, isoPhase, index>>
          /\ info' = Scanned(info, Record)
      BY <1>5, <2>2 DEF ScanRecord
    <3>2. DOMAIN NoInfo \subseteq DOMAIN info' /\ info'.udf = info.udf
      BY <1>1, <3>1, OthersKeep
    <3> QED BY <1>1, <3>1, <3>2, UdfNotYet
  <2> QED BY <2>1, <2>2
<1>6. CASE ReadVrs
  BY <1>6, ReadVrsKeepsUdf
<1>7. CASE TryAnchor
  BY <1>7, TryAnchorKeepsUdf
<1>8. CASE ReadSequence
  BY <1>8, ReadSequenceKeepsUdf
\* The platforms and images of the catalogue are other fields.
<1>9. ASSUME NEW e PROVE LET i == [info EXCEPT !.platform = e.platform,
                                               !.platforms = @ \cup {e.platform}]
                         IN  /\ DOMAIN NoInfo \subseteq DOMAIN i
                             /\ i.udf = info.udf /\ i.version = info.version
  BY <1>1 DEF NoInfo
<1>10. CASE ReadCatalog
  <2>1. isoPhase = "catalog" /\ isoPhase' \in {"hybrid", "entries"} /\ isoFile' = isoFile
    BY <1>10 DEF ReadCatalog, CatalogEnds
  <2>2. CASE info' = info
    BY <1>1, <2>1, <2>2, UdfStays DEF AfterUdf
  <2>3. CASE info' # info
    <3> DEFINE e == Entry(1)
               i == [info EXCEPT !.platform = e.platform,
                                 !.platforms = @ \cup {e.platform}]
    <3>1. info' = WithImage(i, e.platform, 2)
      BY <1>10, <2>3 DEF ReadCatalog, CatalogEnds
    <3>2. DOMAIN NoInfo \subseteq DOMAIN i /\ i.udf = info.udf /\ i.version = info.version
      BY <1>9
    <3> HIDE DEF i
    <3>3. DOMAIN NoInfo \subseteq DOMAIN info' /\ info'.udf = info.udf
          /\ info'.version = info.version
      BY <3>1, <3>2, OthersKeep
    <3> QED BY <2>1, <3>3, UdfStays DEF AfterUdf
  <2> QED BY <2>2, <2>3
<1>11. CASE ReadEntry
  <2>1. /\ isoPhase = "entries" /\ isoFile' = isoFile
        /\ isoPhase' \in {"hybrid", "entries", "section", "lastSection"}
    BY <1>11 DEF ReadEntry, CatalogEnds
  <2>2. \/ info' = info
        \/ info' = [info EXCEPT !.platform = Entry(index).platform,
                                !.platforms = @ \cup {Entry(index).platform}]
        \/ info' = WithImage(info, info.platform, index)
    BY <1>11 DEF ReadEntry, CatalogEnds
  <2>3. DOMAIN NoInfo \subseteq DOMAIN info' /\ info'.udf = info.udf
        /\ info'.version = info.version
    <3> DEFINE e == Entry(index)
    <3>1. CASE info' = info
      BY <1>1, <3>1
    <3>2. CASE info' = [info EXCEPT !.platform = e.platform, !.platforms = @ \cup {e.platform}]
      BY <1>9, <3>2
    <3>3. CASE info' = WithImage(info, info.platform, index)
      BY <1>1, <3>3, OthersKeep
    <3> QED BY <2>2, <3>1, <3>2, <3>3
  <2> QED BY <2>1, <2>3, UdfStays DEF AfterUdf
<1>12. CASE ReadSection
  <2>1. /\ isoPhase \in {"section", "lastSection"} /\ isoFile' = isoFile
        /\ isoPhase' \in {"hybrid", "entries", "section", "lastSection"}
    BY <1>12 DEF ReadSection, SectionEnds, CatalogEnds
  <2>2. info' = info \/ info' = WithImage(info, info.platform, index)
    BY <1>12 DEF ReadSection, SectionEnds, CatalogEnds
  <2>3. DOMAIN NoInfo \subseteq DOMAIN info' /\ info'.udf = info.udf
        /\ info'.version = info.version
    BY <1>1, <2>2, OthersKeep
  <2> QED BY <2>1, <2>3, UdfStays DEF AfterUdf
<1>13. CASE FinishIso
  <2>1. /\ isoPhase = "hybrid" /\ isoFile' = isoFile /\ isoPhase' \in {"done", "failed"}
        /\ info' = [info EXCEPT !.hybrid = Readable(0) /\ At(0).hybrid]
    BY <1>13 DEF FinishIso
  <2>2. DOMAIN NoInfo \subseteq DOMAIN info' /\ info'.udf = info.udf
        /\ info'.version = info.version
    BY <1>1, <2>1 DEF NoInfo
  <2> QED BY <2>1, <2>2, UdfStays DEF AfterUdf
<1>14. CASE UNCHANGED isoVars
  BY <1>14, FileKept DEF isoVars, UdfInv, OfLast, Nsr
<1> QED
  BY <1>2, <1>3, <1>4, <1>5, <1>6, <1>7, <1>8, <1>10, <1>11, <1>12, <1>13, <1>14
     DEF IsoNext

\* At the end, what was seen is what is shown.
LEMMA UdfGives == UdfInv => UdfExact
BY DEF UdfInv, UdfExact, AfterUdf

\* fx_iso_parse_udf_vrs: for any image and any limits, UDF is shown if and only if the
\* recognition sequence names it, with the revision of the first anchor that leads
\* to one, or else that of the last name, unless the length of a sequence
\* overflows a DWORD.
THEOREM UdfIsExact == IsoSpec => []UdfExact
BY UdfStart, UdfStep, UdfGives, PTL DEF IsoSpec

-----------------------------------------------------------------------------
(* The boot catalogue (IsoVolume).  The role of an entry is that of the    *)
(* step which reads it, and the images shown grow with each entry          *)
(* (fx_iso_parse_el_torito, fx_iso_add_boot_image).                        *)

Role == {"validation", "initial", "end", "inside", "header", "alone"}

\* A role is told by the roles before it.
LEMMA RoleOfBelow ==
  ASSUME NEW c, NEW f, NEW g, NEW n \in Nat,
         \A m \in 1 .. n - 1 : f[m] = g[m]
  PROVE  RoleOf(c, f, n) = RoleOf(c, g, n) /\ RoleOf(c, f, n) \in Role
<1>1. {h \in 3 .. n - 1 : f[h] = "header"} = {h \in 3 .. n - 1 : g[h] = "header"}
  OBVIOUS
<1>2. (\E m \in 3 .. n - 1 : f[m] = "end") <=> (\E m \in 3 .. n - 1 : g[m] = "end")
  OBVIOUS
<1>3. RoleOf(c, f, n) = RoleOf(c, g, n)
  BY <1>1, <1>2 DEF RoleOf
<1>4. RoleOf(c, f, n) \in Role
  BY DEF RoleOf, Role
<1> QED BY <1>3, <1>4

\* So the roles of a catalogue are what their definition says.
LEMMA RolesAre ==
  ASSUME NEW c
  PROVE  \A n \in 1 .. CatalogEntries : Roles(c)[n] = RoleOf(c, Roles(c), n)
<1> DEFINE Right(m, f) == f = [n \in 1 .. m |-> RoleOf(c, f, n)]
           Wrong == {m \in Nat : ~\E f : Right(m, f)}
<1>1. ASSUME NEW m \in Nat \ {0}, NEW f, Right(m - 1, f) PROVE \E g : Right(m, g)
  <2> DEFINE g == [n \in 1 .. m |-> IF n = m THEN RoleOf(c, f, m) ELSE f[n]]
  <2>1. ASSUME NEW n \in 1 .. m PROVE g[n] = RoleOf(c, g, n)
    <3>1. \A k \in 1 .. n - 1 : k \in 1 .. m /\ k # m
      OBVIOUS
    <3>2. \A k \in 1 .. n - 1 : f[k] = g[k]
      BY <3>1
    <3>3. RoleOf(c, f, n) = RoleOf(c, g, n)
      BY <3>2, RoleOfBelow
    <3>4. CASE n = m
      BY <3>3, <3>4
    <3>5. CASE n # m
      <4>1. n \in 1 .. m - 1
        BY <3>5
      <4>2. f[n] = RoleOf(c, f, n)
        BY <1>1, <4>1
      <4> QED BY <3>3, <3>5, <4>2
    <3> QED BY <3>4, <3>5
  <2>2. g = [n \in 1 .. m |-> RoleOf(c, g, n)]
    <3>1. g = [n \in 1 .. m |-> g[n]]
      OBVIOUS
    <3> HIDE DEF g
    <3> QED BY <2>1, <3>1
  <2> HIDE DEF g
  <2> QED BY <2>2
<1>2. \E f : Right(0, f)
  <2>1. <<>> = [n \in 1 .. 0 |-> RoleOf(c, <<>>, n)]
    OBVIOUS
  <2> QED BY <2>1
<1>3. Wrong = {}
  <2> HIDE DEF Right
  <2> SUFFICES ASSUME Wrong # {} PROVE FALSE
    OBVIOUS
  <2>1. PICK m \in Wrong : \A k \in Wrong : ~(k < m)
    <3>1. Wrong \subseteq Nat
      OBVIOUS
    <3> HIDE DEF Wrong
    <3> QED BY <3>1, LeastNatural
  <2>2. m \in Nat \ {0} /\ ~\E f : Right(m, f)
    BY <1>2, <2>1
  <2>3. m - 1 \in Nat /\ m - 1 \notin Wrong
    BY <2>1, <2>2
  <2>4. \E f : Right(m - 1, f)
    BY <2>3
  <2> QED BY <1>1, <2>2, <2>4
<1>4. CatalogEntries \in Nat
  BY IsoAssumption
<1>5. \E f : f = [n \in 1 .. CatalogEntries |-> RoleOf(c, f, n)]
  BY <1>3, <1>4
<1>6. Roles(c) = [n \in 1 .. CatalogEntries |-> RoleOf(c, Roles(c), n)]
  BY <1>5 DEF Roles
<1> HIDE DEF Right
<1> QED BY <1>6

\* What the roles of three kinds of entries are.
LEMMA FirstRoles ==
  ASSUME NEW c
  PROVE  Roles(c)[1] = "validation" /\ Roles(c)[2] = "initial"
<1>1. 1 \in 1 .. CatalogEntries /\ 2 \in 1 .. CatalogEntries
  BY IsoAssumption
<1>2. RoleOf(c, Roles(c), 1) = "validation" /\ RoleOf(c, Roles(c), 2) = "initial"
  BY DEF RoleOf
<1> QED BY <1>1, <1>2, RolesAre

\* Before the end of the catalogue an entry is inside a section, ends the catalogue, is a
\* header or stands alone.
LEMMA LaterRole ==
  ASSUME NEW c, NEW n \in 3 .. CatalogEntries,
         \A m \in 3 .. n - 1 : Roles(c)[m] # "end"
  PROVE  Roles(c)[n] =
           IF \E h \in HeadersBefore(Roles(c), n) : n - h <= EntryOf(c, h).count
           THEN "inside"
           ELSE IF EntryOf(c, n).indicator = 0
                   \/ \E h \in HeadersBefore(Roles(c), n) : EntryOf(c, h).indicator = 91
           THEN "end"
           ELSE IF IsHeader(EntryOf(c, n)) THEN "header" ELSE "alone"
<1>1. n \in 1 .. CatalogEntries /\ n # 1 /\ n # 2
  BY IsoAssumption
<1>2. Roles(c)[n] = RoleOf(c, Roles(c), n)
  BY <1>1, RolesAre
<1> QED BY <1>1, <1>2 DEF RoleOf, HeadersBefore

\* Behind the end of the catalogue is nothing else.
LEMMA RolesBehindEnd ==
  ASSUME NEW c, NEW n \in 3 .. CatalogEntries, Roles(c)[n] = "end",
         NEW m \in n .. CatalogEntries
  PROVE  Roles(c)[m] = "end"
<1>1. CASE m = n
  BY <1>1
<1>2. CASE m # n
  <2>1. m \in 1 .. CatalogEntries /\ m > 2 /\ m # 1 /\ m # 2 /\ n \in 3 .. m - 1
    BY <1>2, IsoAssumption
  <2>2. Roles(c)[m] = RoleOf(c, Roles(c), m)
    BY <2>1, RolesAre
  <2>3. \E k \in 3 .. m - 1 : Roles(c)[k] = "end"
    BY <2>1
  <2> QED BY <2>1, <2>2, <2>3 DEF RoleOf
<1> QED BY <1>1, <1>2

\* There is a last header, or else the validation entry.
LEMMA OwnerIs ==
  ASSUME NEW roles, roles[1] = "validation", NEW n \in Nat, n >= 2
  PROVE  /\ Owner(roles, n) \in Named(roles, n)
         /\ \A k \in Named(roles, n) : k <= Owner(roles, n)
<1> DEFINE S == Named(roles, n)
           T == {n - k : k \in S}
<1>1. S \subseteq 1 .. n - 1 /\ 1 \in S
  BY DEF Named
<1>2. T \subseteq Nat /\ T # {}
  <2> HIDE DEF S
  <2>1. \A k \in S : n - k \in Nat
    BY <1>1
  <2> QED BY <1>1, <2>1
<1>3. PICK t \in T : \A u \in T : ~(u < t)
  <2> HIDE DEF T
  <2> QED BY <1>2, LeastNatural
<1>4. \E m \in S : \A k \in S : k <= m
  <2> HIDE DEF S
  <2>1. PICK m \in S : t = n - m
    BY <1>3
  <2>2. ASSUME NEW k \in S PROVE k <= m
    <3>1. n - k \in T
      BY <2>2
    <3>2. ~(n - k < n - m)
      BY <1>3, <2>1, <3>1
    <3>3. k \in Nat /\ m \in Nat
      BY <1>1, <2>1, <2>2
    <3> QED BY <3>2, <3>3
  <2> QED BY <2>2
<1> QED BY <1>4 DEF Owner

\* The last entry that names a platform is the owner.
LEMMA OwnerUnique ==
  ASSUME NEW roles, NEW n \in Nat, NEW m \in Named(roles, n),
         \A k \in Named(roles, n) : k <= m
  PROVE  Owner(roles, n) = m
<1>1. Named(roles, n) \subseteq Int
  BY DEF Named
<1>2. \A k \in Named(roles, n) : (\A l \in Named(roles, n) : l <= k) => k = m
  BY <1>1
<1> QED BY <1>2 DEF Owner

\* What an entry adds to those before it.
LEMMA OneMoreNamed ==
  ASSUME NEW roles, NEW n \in Nat \ {0}
  PROVE  Named(roles, n + 1) = Named(roles, n) \cup
           (IF roles[n] \in {"validation", "header"} THEN {n} ELSE {})
<1>1. \A m : m \in 1 .. (n + 1) - 1 <=> m \in 1 .. n - 1 \/ m = n
  OBVIOUS
<1> QED BY <1>1 DEF Named

Shows(c, roles, n) ==
  /\ \/ roles[n] = "initial"
     \/ roles[n] = "inside" /\ EntryOf(c, n).indicator \in {88, 0}
     \/ roles[n] = "alone" /\ EntryOf(c, n).indicator = 88
  /\ IsImage(EntryOf(c, n))

\* The images before the next entry are those before this one, and this one if it is
\* shown.
LEMMA OneMoreImage ==
  ASSUME NEW c, NEW roles, NEW n \in Nat, n >= 2
  PROVE  /\ BootImages(c, roles, n) \subseteq 2 .. n - 1
         /\ Shows(c, roles, n) =>
              BootImages(c, roles, n + 1) = BootImages(c, roles, n) \cup {n}
         /\ ~Shows(c, roles, n) =>
              BootImages(c, roles, n + 1) = BootImages(c, roles, n)
<1>1. \A m : m \in 2 .. (n + 1) - 1 <=> m \in 2 .. n - 1 \/ m = n
  OBVIOUS
<1>2. \A m : m \in BootImages(c, roles, n) <=> m \in 2 .. n - 1 /\ Shows(c, roles, m)
  BY DEF BootImages, Shows
<1>3. \A m : m \in BootImages(c, roles, n + 1)
               <=> m \in 2 .. (n + 1) - 1 /\ Shows(c, roles, m)
  BY DEF BootImages, Shows
<1> QED BY <1>1, <1>2, <1>3

\* An entry that is neither the first nor a header changes no platform.
LEMMA OwnerStays ==
  ASSUME NEW roles, NEW n \in Nat \ {0}, roles[n] \notin {"validation", "header"}
  PROVE  Named(roles, n + 1) = Named(roles, n) /\ Owner(roles, n + 1) = Owner(roles, n)
<1>1. Named(roles, n + 1) = Named(roles, n)
  BY OneMoreNamed
<1> QED BY <1>1 DEF Owner

\* The entries behind a header are of its platform.
LEMMA OwnerIsHeader ==
  ASSUME NEW roles, NEW n \in Nat \ {0}, roles[n] = "header"
  PROVE  Named(roles, n + 1) = Named(roles, n) \cup {n} /\ Owner(roles, n + 1) = n
<1>1. Named(roles, n + 1) = Named(roles, n) \cup {n}
  BY OneMoreNamed
<1>2. \A k \in Named(roles, n) : k <= n
  BY DEF Named
<1>3. n + 1 \in Nat /\ n \in Named(roles, n + 1)
      /\ \A k \in Named(roles, n + 1) : k <= n
  BY <1>1, <1>2
<1> QED BY <1>1, <1>3, OwnerUnique

\* An entry that is no image adds nothing, and a header its platform.
LEMMA NoImageAdded ==
  ASSUME NEW c, NEW roles, NEW i, NEW n \in Nat, n >= 2,
         BootUpTo(c, roles, i, n), ~Shows(c, roles, n),
         NEW j, j.images = i.images,
         j.platforms = {EntryOf(c, m).platform : m \in Named(roles, n + 1)}
  PROVE  BootUpTo(c, roles, j, n + 1)
<1>1. BootImages(c, roles, n + 1) = BootImages(c, roles, n)
  BY OneMoreImage
<1> QED BY <1>1 DEF BootUpTo

\* An image that is appended, or finds no room, is the next of those to be shown.
LEMMA ImageAdded ==
  ASSUME NEW roles, roles[1] = "validation", NEW i, NEW n \in Nat, n >= 2,
         BootUpTo(Catalog, roles, i, n), Shows(Catalog, roles, n),
         roles[n] \notin {"validation", "header"},
         NEW p \in Nat, p = Entry(Owner(roles, n)).platform,
         DOMAIN NoInfo \subseteq DOMAIN i, Len(i.images) <= MaxImages,
         i.images \in Seq([entry : Nat, platform : Nat])
  PROVE  LET w == WithImage(i, p, n)
         IN  /\ BootUpTo(Catalog, roles, w, n + 1)
             /\ Len(w.images) <= MaxImages
             /\ w.images \in Seq([entry : Nat, platform : Nat])
<1> DEFINE w == WithImage(i, p, n)
           T == [entry : Nat, platform : Nat]
           shown == BootImages(Catalog, roles, n)
           s == i.images
           owner == Entry(Owner(roles, n))
<1>1. MaxImages \in Nat /\ Len(s) \in Nat /\ DOMAIN s = 1 .. Len(s)
  BY IsoAssumption
<1>2. Named(roles, n + 1) = Named(roles, n)
  BY OwnerStays
<1>3. BootImages(Catalog, roles, n + 1) = shown \cup {n} /\ shown \subseteq 2 .. n - 1
  BY OneMoreImage
<1>4. /\ i.platforms = {EntryOf(Catalog, m).platform : m \in Named(roles, n)}
      /\ \A j \in 1 .. Len(s) :
           /\ s[j].entry \in shown
           /\ s[j].platform = EntryOf(Catalog, Owner(roles, s[j].entry)).platform
           /\ {k \in shown : k < s[j].entry} = {s[k].entry : k \in 1 .. j - 1}
      /\ Len(s) = MaxImages \/ shown = {s[j].entry : j \in 1 .. Len(s)}
  BY <1>1 DEF BootUpTo
<1>5. \A m \in shown : {k \in shown \cup {n} : k < m} = {k \in shown : k < m}
  BY <1>3
<1>6. CASE Len(s) >= MaxImages
  <2>1. Len(s) = MaxImages /\ w = i
    BY <1>1, <1>6 DEF WithImage
  <2> HIDE DEF w
  <2>2. BootUpTo(Catalog, roles, i, n + 1)
    <3> HIDE DEF shown
    <3>1. \A j \in DOMAIN i.images :
            /\ i.images[j].entry \in shown \cup {n}
            /\ i.images[j].platform =
                 EntryOf(Catalog, Owner(roles, i.images[j].entry)).platform
            /\ {k \in shown \cup {n} : k < i.images[j].entry}
                 = {i.images[k].entry : k \in 1 .. j - 1}
      BY <1>1, <1>4, <1>5
    <3> QED BY <1>2, <1>3, <1>4, <2>1, <3>1 DEF BootUpTo
  <2> QED BY <2>1, <2>2 DEF w
<1>7. CASE Len(s) < MaxImages
  <2> DEFINE e == [entry |-> n, platform |-> p]
             t == Append(s, e)
  <2>1. /\ t \in Seq(T) /\ DOMAIN t = 1 .. (Len(s) + 1) /\ Len(t) = Len(s) + 1
        /\ t[Len(s) + 1] = e /\ \A k \in 1 .. Len(s) : t[k] = s[k]
    <3>1. e \in T /\ s \in Seq(T)
      OBVIOUS
    <3> HIDE DEF e, T, s
    <3> QED BY <3>1, AppendFacts
  <2>2. w.images = t /\ w.platforms = i.platforms \cup {p}
    BY <1>1, <1>7 DEF WithImage, Shows, Entry, NoInfo
  <2>3. p \in i.platforms
    BY <1>4, OwnerIs DEF Entry
  <2>4. shown = {s[j].entry : j \in 1 .. Len(s)}
    BY <1>1, <1>4, <1>7
  <2> HIDE DEF w, t, shown, s, T
  <2>5. \A j \in 1 .. Len(s) + 1 : j \in 1 .. Len(s) \/ j = Len(s) + 1
    BY <1>1
  <2>6. \A j \in 1 .. Len(s) + 1 : {t[k].entry : k \in 1 .. j - 1} = {s[k].entry : k \in 1 .. j - 1}
    <3>1. \A j \in 1 .. Len(s) + 1 : \A k \in 1 .. j - 1 : k \in 1 .. Len(s)
      BY <1>1
    <3> QED BY <2>1, <3>1
  <2>7. ASSUME NEW j \in 1 .. Len(s)
        PROVE  /\ t[j].entry \in shown \cup {n}
               /\ t[j].platform = EntryOf(Catalog, Owner(roles, t[j].entry)).platform
               /\ {k \in shown \cup {n} : k < t[j].entry} = {t[k].entry : k \in 1 .. j - 1}
    <3>1. t[j] = s[j] /\ j \in 1 .. Len(s) + 1
      BY <1>1, <2>1
    <3> QED BY <1>4, <1>5, <2>6, <3>1
  <2>8. LET j == Len(s) + 1
        IN  /\ t[j].entry \in shown \cup {n}
            /\ t[j].platform = EntryOf(Catalog, Owner(roles, t[j].entry)).platform
            /\ {k \in shown \cup {n} : k < t[j].entry} = {t[k].entry : k \in 1 .. j - 1}
    <3>1. {k \in shown \cup {n} : k < n} = shown
      <4>1. \A k \in shown : k < n
        BY <1>3
      <4> QED BY <4>1
    <3>2. {t[k].entry : k \in 1 .. (Len(s) + 1) - 1} = shown
      <4>1. 1 .. (Len(s) + 1) - 1 = 1 .. Len(s) /\ Len(s) + 1 \in 1 .. Len(s) + 1
        BY <1>1
      <4> QED BY <2>4, <2>6, <4>1
    <3>3. t[Len(s) + 1].entry = n /\ t[Len(s) + 1].platform = p
      BY <2>1
    <3>4. p = EntryOf(Catalog, Owner(roles, n)).platform
      BY DEF Entry
    <3> QED BY <3>1, <3>2, <3>3, <3>4
  <2>9. {t[j].entry : j \in 1 .. Len(s) + 1} = shown \cup {n}
    <3>1. t[Len(s) + 1].entry = n /\ Len(s) + 1 \in 1 .. Len(s) + 1
      BY <1>1, <2>1
    <3>2. \A j \in 1 .. Len(s) : t[j].entry = s[j].entry /\ j \in 1 .. Len(s) + 1
      BY <1>1, <2>1
    <3> HIDE DEF e
    <3> QED BY <2>4, <2>5, <3>1, <3>2
  <2>10. w.platforms = {EntryOf(Catalog, m).platform : m \in Named(roles, n + 1)}
    BY <1>2, <1>4, <2>2, <2>3
  <2>11. BootUpTo(Catalog, roles, w, n + 1)
    <3>1. DOMAIN w.images = 1 .. Len(s) + 1
      BY <2>1, <2>2
    <3>2. \A j \in 1 .. Len(s) + 1 :
            /\ w.images[j].entry \in shown \cup {n}
            /\ w.images[j].platform =
                 EntryOf(Catalog, Owner(roles, w.images[j].entry)).platform
            /\ {k \in shown \cup {n} : k < w.images[j].entry}
                 = {w.images[k].entry : k \in 1 .. j - 1}
      BY <2>2, <2>5, <2>7, <2>8
    <3>3. shown \cup {n} = {w.images[j].entry : j \in DOMAIN w.images}
      BY <2>2, <2>9, <3>1
    <3> QED BY <1>3, <2>10, <3>1, <3>2, <3>3 DEF BootUpTo
  <2>12. t \in Seq([entry : Nat, platform : Nat]) /\ Len(t) <= MaxImages
    BY <1>1, <1>7, <2>1 DEF T
  <2> QED BY <2>2, <2>11, <2>12 DEF w
<1> QED BY <1>1, <1>6, <1>7

\* Behind the last entry, or one that ends the catalogue, nothing is added.
LEMMA NothingBehind ==
  ASSUME NEW c, NEW i, NEW n \in 3 .. CatalogEntries + 1,
         n = CatalogEntries + 1 \/ Roles(c)[n] = "end",
         BootUpTo(c, Roles(c), i, n)
  PROVE  BootUpTo(c, Roles(c), i, CatalogEntries + 1)
<1>1. CASE n = CatalogEntries + 1
  BY <1>1
<1>2. CASE n # CatalogEntries + 1
  <2>1. CatalogEntries \in Nat /\ n \in 3 .. CatalogEntries
    BY <1>2, IsoAssumption
  <2>2. \A m \in n .. CatalogEntries : Roles(c)[m] = "end"
    BY <1>2, <2>1, RolesBehindEnd
  <2>3. \A m \in 1 .. (CatalogEntries + 1) - 1 : m \in 1 .. n - 1 \/ Roles(c)[m] = "end"
    <3>1. \A m \in 1 .. (CatalogEntries + 1) - 1 : m \in 1 .. n - 1 \/ m \in n .. CatalogEntries
      BY <2>1
    <3> QED BY <2>2, <3>1
  <2>4. 1 .. n - 1 \subseteq 1 .. (CatalogEntries + 1) - 1
    BY <2>1
  <2>5. Named(Roles(c), CatalogEntries + 1) = Named(Roles(c), n)
    BY <2>3, <2>4 DEF Named
  <2>6. BootImages(c, Roles(c), CatalogEntries + 1) = BootImages(c, Roles(c), n)
    <3>1. \A m : m \in 2 .. n - 1 => m \in 2 .. (CatalogEntries + 1) - 1
      BY <2>1
    <3>2. \A m : m \in 2 .. (CatalogEntries + 1) - 1
                   => m \in 1 .. (CatalogEntries + 1) - 1 /\ (m \in 1 .. n - 1 => m \in 2 .. n - 1)
      BY <2>1
    <3> QED BY <2>3, <3>1, <3>2 DEF BootImages
  <2> QED BY <2>5, <2>6 DEF BootUpTo
<1> QED BY <1>1, <1>2

\* fx_iso_add_boot_image with the entry at hand keeps what is shown up to it, also where
\* it is no image.
LEMMA EntryShown ==
  ASSUME NEW roles, roles[1] = "validation", NEW i, NEW n \in Nat, n >= 2,
         BootUpTo(Catalog, roles, i, n),
         \/ roles[n] = "initial"
         \/ roles[n] = "inside" /\ Entry(n).indicator \in {88, 0}
         \/ roles[n] = "alone" /\ Entry(n).indicator = 88,
         NEW p \in Nat, p = Entry(Owner(roles, n)).platform,
         DOMAIN NoInfo \subseteq DOMAIN i, Len(i.images) <= MaxImages,
         i.images \in Seq([entry : Nat, platform : Nat])
  PROVE  LET w == WithImage(i, p, n)
         IN  /\ BootUpTo(Catalog, roles, w, n + 1)
             /\ Len(w.images) <= MaxImages
             /\ w.images \in Seq([entry : Nat, platform : Nat])
<1>1. roles[n] \notin {"validation", "header"}
  OBVIOUS
<1>2. CASE IsImage(Entry(n))
  <2>1. Shows(Catalog, roles, n)
    BY <1>2 DEF Shows, Entry
  <2> QED BY <1>1, <2>1, ImageAdded
<1>3. CASE ~IsImage(Entry(n))
  <2>1. ~Shows(Catalog, roles, n) /\ WithImage(i, p, n) = i
    BY <1>3 DEF Shows, Entry, WithImage
  <2>2. i.platforms = {EntryOf(Catalog, m).platform : m \in Named(roles, n + 1)}
    BY <1>1, OwnerStays DEF BootUpTo
  <2>3. BootUpTo(Catalog, roles, i, n + 1)
    BY <2>1, <2>2, NoImageAdded
  <2> QED BY <2>1, <2>3
<1> QED BY <1>2, <1>3

\* An entry's numbers are natural, also behind the catalogue.
LEMMA EntryTypes ==
  ASSUME isoFile \in Images
  PROVE  \A n : Entry(n).count \in Nat /\ Entry(n).platform \in Nat
<1>1. CASE info.catalog \in DOMAIN isoFile.at
  <2>1. IsSector(isoFile.at[info.catalog])
    BY <1>1, IsoAssumption
  <2> QED BY <1>1, <2>1 DEF Entry, EntryOf, Catalog, At, IsSector, NoEntry
<1>2. CASE info.catalog \notin DOMAIN isoFile.at
  BY <1>2 DEF Entry, EntryOf, Catalog, At, Blank, NoEntry
<1> QED BY <1>1, <1>2

\* While the same catalogue is read, it says the same.
LEMMA CatalogKept ==
  ASSUME isoFile' = isoFile, info'.el_torito = info.el_torito,
         info'.catalog = info.catalog
  PROVE  Catalog' = Catalog /\ HasCatalog' = HasCatalog
BY DEF Catalog, At, HasCatalog, Readable

\* Before the catalogue no step adds an image.
LEMMA BootNotYet ==
  ASSUME BootInv, isoPhase \in BeforeCatalog, isoPhase' \in BeforeCatalog \cup {"failed"},
         isoFile' = isoFile, DOMAIN NoInfo \subseteq DOMAIN info',
         info'.images = info.images, info'.platforms = info.platforms
  PROVE  BootInv'
<1>1. isoPhase' \notin {"entries", "hybrid", "done"} \cup InSection
  BY DEF BeforeCatalog, InSection
<1>2. InfoSound(info)' /\ info'.images = <<>> /\ info'.platforms = {}
  BY DEF BootInv, InfoSound
<1> QED BY <1>1, <1>2 DEF BootInv

\* The three ways to go on.
LEMMA CatalogOver ==
  ASSUME BootInv, isoPhase' = "hybrid", UNCHANGED <<isoFile, info>>,
         HasCatalog => BootUpTo(Catalog, Roles(Catalog), info, CatalogEntries + 1)
  PROVE  BootInv'
<1>1. Catalog' = Catalog /\ HasCatalog' = HasCatalog
  BY CatalogKept
<1>2. isoPhase' \notin {"entries"} \cup InSection \cup BeforeCatalog
  BY DEF BeforeCatalog, InSection
<1>3. HasCatalog' =>
        BootUpTo(Catalog', Roles(Catalog'), info', CatalogEntries + 1)
  BY <1>1
<1> QED BY <1>1, <1>2, <1>3 DEF BootInv

\* Between sections, when all are closed.
LEMMA EntriesGoOn ==
  ASSUME BootInv, isoPhase' = "entries", isoFile' = isoFile, HasCatalog, inside' \in Nat,
         info'.el_torito = info.el_torito, info'.catalog = info.catalog,
         InfoSound(info'), EntriesRead(Catalog, info', index'), AllClosed(Catalog, index')
  PROVE  BootInv'
<1>1. Catalog' = Catalog /\ HasCatalog' = HasCatalog
  BY CatalogKept
<1>2. isoPhase' \notin {"hybrid", "done"} \cup InSection \cup BeforeCatalog
  BY DEF BeforeCatalog, InSection
<1>3. EntriesRead(Catalog', info', index') /\ AllClosed(Catalog', index')
  BY <1>1
<1> QED BY <1>1, <1>2, <1>3 DEF BootInv

\* Inside a section, when it is the only one open.
LEMMA SectionGoesOn ==
  ASSUME BootInv, isoPhase' \in InSection, isoFile' = isoFile, HasCatalog, inside' \in Nat,
         info'.el_torito = info.el_torito, info'.catalog = info.catalog,
         InfoSound(info'), EntriesRead(Catalog, info', index'),
         OneOpen(Catalog, index', inside', isoPhase' = "lastSection")
  PROVE  BootInv'
<1>1. Catalog' = Catalog /\ HasCatalog' = HasCatalog
  BY CatalogKept
<1>2. isoPhase' \notin {"entries", "hybrid", "done"} \cup BeforeCatalog
  BY DEF BeforeCatalog, InSection
<1>3. EntriesRead(Catalog', info', index')
      /\ OneOpen(Catalog', index', inside', isoPhase' = "lastSection")
  BY <1>1
<1> QED BY <1>1, <1>2, <1>3 DEF BootInv

\* The first two entries are the validation entry and the initial one, and a catalogue
\* that cannot be read shows none.
LEMMA ReadCatalogKeepsBoot ==
  ASSUME BootInv, ReadCatalog
  PROVE  BootInv'
<1>1. /\ isoPhase = "catalog" /\ isoFile' = isoFile /\ isoFile \in Images
      /\ DOMAIN NoInfo \subseteq DOMAIN info
      /\ info.images = <<>> /\ info.platforms = {}
  BY DEF BootInv, InfoSound, ReadCatalog, BeforeCatalog
<1>2. CASE ~HasCatalog
  <2>1. isoPhase' = "hybrid" /\ info' = info
    BY <1>2 DEF ReadCatalog, HasCatalog, CatalogEnds
  <2> QED BY <1>1, <1>2, <2>1, CatalogOver
<1>3. CASE HasCatalog
  <2> DEFINE roles == Roles(Catalog)
             p == Entry(1).platform
             i == [info EXCEPT !.platform = p, !.platforms = @ \cup {p}]
             w == WithImage(i, p, 2)
  <2>1. isoPhase' = "entries" /\ index' = 3 /\ inside' = 0 /\ info' = w
    BY <1>3 DEF ReadCatalog, HasCatalog
  <2>2. /\ DOMAIN NoInfo \subseteq DOMAIN i /\ i.images = <<>> /\ i.platforms = {p}
        /\ i.platform = p /\ i.el_torito = info.el_torito /\ i.catalog = info.catalog
    BY <1>1 DEF NoInfo
  <2>3. p \in Nat /\ MaxImages \in Nat /\ CatalogEntries \in Nat /\ CatalogEntries >= 2
    BY <1>1, EntryTypes, IsoAssumption
  <2>4. roles[1] = "validation" /\ roles[2] = "initial"
    BY FirstRoles
  <2> HIDE DEF roles, i, p
  <2>5. Named(roles, 2) = {1}
    BY <2>4 DEF Named
  <2>6. Owner(roles, 2) = 1 /\ Owner(roles, 3) = 1 /\ p = Entry(Owner(roles, 2)).platform
    <3>1. Owner(roles, 2) = 1
      BY <2>5, OwnerUnique
    <3>2. Owner(roles, 2 + 1) = Owner(roles, 2)
      BY <2>4, OwnerStays
    <3> QED BY <3>1, <3>2 DEF p
  <2>7. BootUpTo(Catalog, roles, i, 2)
    <3>1. BootImages(Catalog, roles, 2) = {}
      BY DEF BootImages
    <3>2. {EntryOf(Catalog, m).platform : m \in Named(roles, 2)} = {p}
      BY <2>5 DEF p, Entry
    <3>3. DOMAIN i.images = {} /\ {i.images[j].entry : j \in DOMAIN i.images} = {}
      BY <2>2
    <3> QED BY <2>2, <3>1, <3>2, <3>3 DEF BootUpTo
  <2>8. Len(i.images) <= MaxImages /\ i.images \in Seq([entry : Nat, platform : Nat])
    BY <2>2, <2>3
  <2>9. /\ BootUpTo(Catalog, roles, w, 2 + 1) /\ Len(w.images) <= MaxImages
        /\ w.images \in Seq([entry : Nat, platform : Nat])
    <3>1. 2 \in Nat /\ 2 >= 2
      OBVIOUS
    <3> QED BY <2>2, <2>3, <2>4, <2>6, <2>7, <2>8, <3>1, EntryShown
  <2>10. /\ DOMAIN NoInfo \subseteq DOMAIN w /\ w.el_torito = info.el_torito
         /\ w.catalog = info.catalog /\ w.platform = p
    BY <2>2, OthersKeep
  <2> HIDE DEF w
  <2>11. InfoSound(info')
    BY <2>1, <2>9, <2>10 DEF InfoSound
  <2>12. EntriesRead(Catalog, info', index')
    <3>1. 3 \in 3 .. CatalogEntries + 1 /\ 3 .. 3 - 1 = {} /\ 2 + 1 = 3
      BY <2>3
    <3>2. w.platform = EntryOf(Catalog, Owner(roles, 3)).platform
      BY <2>6, <2>10 DEF Entry, p
    <3> QED BY <2>1, <2>9, <3>1, <3>2 DEF EntriesRead, roles
  <2>13. AllClosed(Catalog, index')
    <3>1. 3 .. 3 - 1 = {}
      OBVIOUS
    <3> QED BY <2>1, <3>1 DEF AllClosed, HeadersBefore
  <2> QED BY <1>1, <1>3, <2>1, <2>10, <2>11, <2>12, <2>13, EntriesGoOn
<1> QED BY <1>2, <1>3

\* Before an entry that is read: its number, the names so far and their owner.
LEMMA EntryPlace ==
  ASSUME BootInv, isoPhase \in {"entries"} \cup InSection
  PROVE  LET roles == Roles(Catalog)
         IN  /\ isoFile \in Images /\ InfoSound(info) /\ HasCatalog /\ inside \in Nat
             /\ CatalogEntries \in Nat /\ index \in Nat /\ index >= 3
             /\ index \in 3 .. CatalogEntries + 1
             /\ \A m \in 3 .. index - 1 : roles[m] # "end"
             /\ BootUpTo(Catalog, roles, info, index)
             /\ info.platform = Entry(Owner(roles, index)).platform
             /\ info.platform \in Nat /\ roles[1] = "validation"
<1>1. isoFile \in Images /\ InfoSound(info) /\ HasCatalog /\ inside \in Nat
      /\ EntriesRead(Catalog, info, index)
  BY DEF BootInv
<1>2. CatalogEntries \in Nat /\ index \in 3 .. CatalogEntries + 1
  BY <1>1, IsoAssumption DEF EntriesRead
<1>3. info.platform = Entry(Owner(Roles(Catalog), index)).platform
  BY <1>1 DEF EntriesRead, Entry
<1>4. info.platform \in Nat
  BY <1>1, <1>3, EntryTypes
<1> QED BY <1>1, <1>2, <1>3, <1>4, FirstRoles DEF EntriesRead

\* One more entry that names no platform and may be an image.
LEMMA OneMoreEntry ==
  ASSUME BootInv, isoPhase \in {"entries"} \cup InSection, index <= CatalogEntries,
         NEW i, DOMAIN NoInfo \subseteq DOMAIN i, i.platform = info.platform,
         InfoSound(i), BootUpTo(Catalog, Roles(Catalog), i, index + 1),
         Roles(Catalog)[index] \in {"inside", "alone"}
  PROVE  /\ EntriesRead(Catalog, i, index + 1)
         /\ HeadersBefore(Roles(Catalog), index + 1) = HeadersBefore(Roles(Catalog), index)
<1> DEFINE roles == Roles(Catalog)
<1>1. /\ CatalogEntries \in Nat /\ index \in 3 .. CatalogEntries + 1 /\ index \in Nat
      /\ \A m \in 3 .. index - 1 : roles[m] # "end"
      /\ info.platform = Entry(Owner(roles, index)).platform
  BY EntryPlace
<1>2. Owner(roles, index + 1) = Owner(roles, index)
  BY <1>1, OwnerStays
<1> HIDE DEF roles
<1>3. \A m : m \in 3 .. (index + 1) - 1 <=> m \in 3 .. index - 1 \/ m = index
  BY <1>1
<1>4. \A m \in 3 .. (index + 1) - 1 : roles[m] # "end"
  BY <1>1, <1>3 DEF roles
<1>5. index + 1 \in 3 .. CatalogEntries + 1
  BY <1>1
<1>6. HeadersBefore(roles, index + 1) = HeadersBefore(roles, index)
  BY <1>3 DEF HeadersBefore, roles
<1> QED BY <1>1, <1>2, <1>4, <1>5, <1>6 DEF EntriesRead, roles, Entry

\* A section that is closed stays closed.
LEMMA ClosedStays ==
  ASSUME NEW c, NEW n \in Nat, NEW h \in Nat, EntryOf(c, h).count \in Nat, Closed(c, n, h)
  PROVE  Closed(c, n + 1, h)
BY DEF Closed

\* An entry of a section, or one that stands alone, is an image or not.
LEMMA EntryCounted ==
  ASSUME BootInv, isoPhase \in {"entries"} \cup InSection, index <= CatalogEntries,
         \/ /\ Roles(Catalog)[index] = "inside"
            /\ info' = IF Entry(index).indicator \in {88, 0}
                       THEN WithImage(info, info.platform, index) ELSE info
         \/ /\ Roles(Catalog)[index] = "alone"
            /\ info' = IF Entry(index).indicator = 88
                       THEN WithImage(info, info.platform, index) ELSE info
  PROVE  /\ EntriesRead(Catalog, info', index + 1) /\ InfoSound(info')
         /\ HeadersBefore(Roles(Catalog), index + 1) = HeadersBefore(Roles(Catalog), index)
         /\ info'.el_torito = info.el_torito /\ info'.catalog = info.catalog
<1> DEFINE roles == Roles(Catalog)
           w == WithImage(info, info.platform, index)
<1>1. /\ InfoSound(info) /\ index \in Nat /\ index >= 2
      /\ BootUpTo(Catalog, roles, info, index)
      /\ info.platform = Entry(Owner(roles, index)).platform
      /\ info.platform \in Nat /\ roles[1] = "validation"
  BY EntryPlace
<1>2. roles[index] \in {"inside", "alone"} /\ roles[index] \notin {"validation", "header"}
  OBVIOUS
<1> HIDE DEF roles, w
<1>3. /\ DOMAIN NoInfo \subseteq DOMAIN info' /\ InfoSound(info')
      /\ info'.platform = info.platform /\ BootUpTo(Catalog, roles, info', index + 1)
      /\ info'.el_torito = info.el_torito /\ info'.catalog = info.catalog
  <2>1. CASE info' = w
             /\ (\/ roles[index] = "inside" /\ Entry(index).indicator \in {88, 0}
                 \/ roles[index] = "alone" /\ Entry(index).indicator = 88)
    <3>1. /\ BootUpTo(Catalog, roles, w, index + 1) /\ Len(w.images) <= MaxImages
          /\ w.images \in Seq([entry : Nat, platform : Nat])
      BY <1>1, <2>1, EntryShown DEF InfoSound, w
    <3>2. /\ DOMAIN NoInfo \subseteq DOMAIN w /\ w.el_torito = info.el_torito
          /\ w.catalog = info.catalog /\ w.platform = info.platform
      BY <1>1, OthersKeep DEF InfoSound, w
    <3> QED BY <2>1, <3>1, <3>2 DEF InfoSound
  <2>2. CASE info' = info
             /\ ~(\/ roles[index] = "inside" /\ Entry(index).indicator \in {88, 0}
                  \/ roles[index] = "alone" /\ Entry(index).indicator = 88)
    <3>1. ~Shows(Catalog, roles, index)
      BY <1>2, <2>2 DEF Shows, Entry
    <3>2. info.platforms = {EntryOf(Catalog, m).platform : m \in Named(roles, index + 1)}
      BY <1>1, <1>2, OwnerStays DEF BootUpTo
    <3>3. BootUpTo(Catalog, roles, info, index + 1)
      BY <1>1, <3>1, <3>2, NoImageAdded
    <3> QED BY <1>1, <2>2, <3>3 DEF InfoSound
  <2> QED BY <1>2, <2>1, <2>2 DEF roles, w
<1>4. /\ EntriesRead(Catalog, info', index + 1)
      /\ HeadersBefore(Roles(Catalog), index + 1) = HeadersBefore(Roles(Catalog), index)
  BY <1>2, <1>3, OneMoreEntry DEF roles
<1> QED BY <1>3, <1>4

\* An entry between sections is a header, stands alone or ends the catalogue.
LEMMA ReadEntryKeepsBoot ==
  ASSUME BootInv, ReadEntry
  PROVE  BootInv'
<1> DEFINE roles == Roles(Catalog)
           Headers == HeadersBefore(roles, index)
           e == Entry(index)
<1>1. /\ isoFile \in Images /\ InfoSound(info) /\ HasCatalog /\ inside \in Nat
      /\ CatalogEntries \in Nat /\ index \in Nat /\ index >= 3
      /\ index \in 3 .. CatalogEntries + 1
      /\ \A m \in 3 .. index - 1 : roles[m] # "end"
      /\ BootUpTo(Catalog, roles, info, index)
      /\ info.platform = Entry(Owner(roles, index)).platform
      /\ info.platform \in Nat /\ roles[1] = "validation"
  BY EntryPlace DEF ReadEntry
<1>2. isoPhase = "entries" /\ isoFile' = isoFile /\ AllClosed(Catalog, index)
  BY DEF ReadEntry, BootInv
<1>3. \A h \in Headers : h \in Nat /\ Entry(h).count \in Nat
  BY <1>1, EntryTypes DEF HeadersBefore
<1>4. ASSUME index <= CatalogEntries
      PROVE  /\ \A h \in Headers : Closed(Catalog, index, h)
             /\ roles[index] = IF e.indicator = 0 THEN "end"
                               ELSE IF IsHeader(e) THEN "header" ELSE "alone"
  <2>1. \A h \in Headers : Closed(Catalog, index, h)
    BY <1>1, <1>2, <1>4 DEF AllClosed
  <2>2. \A h \in Headers : ~(index - h <= EntryOf(Catalog, h).count)
                           /\ EntryOf(Catalog, h).indicator # 91
    BY <1>1, <1>3, <2>1 DEF Closed, Entry
  <2>3. index \in 3 .. CatalogEntries
    BY <1>1, <1>4
  <2> QED BY <1>1, <2>1, <2>2, <2>3, LaterRole DEF Entry
<1> HIDE DEF roles, Headers, e
<1>5. CASE (index > CatalogEntries \/ e.indicator = 0) /\ CatalogEnds(info)
  <2>1. index = CatalogEntries + 1 \/ roles[index] = "end"
    <3>1. CASE index > CatalogEntries
      BY <1>1, <3>1
    <3>2. CASE ~(index > CatalogEntries)
      BY <1>1, <1>4, <1>5, <3>2
    <3> QED BY <3>1, <3>2
  <2>2. BootUpTo(Catalog, Roles(Catalog), info, CatalogEntries + 1)
    BY <1>1, <2>1, NothingBehind DEF roles
  <2> QED BY <1>2, <1>5, <2>2, CatalogOver DEF CatalogEnds
<1>6. CASE /\ index <= CatalogEntries /\ IsHeader(e)
           /\ isoPhase' = IF e.indicator = 91 THEN "lastSection" ELSE "section"
           /\ index' = index + 1 /\ inside' = e.count
           /\ info' = [info EXCEPT !.platform = e.platform,
                                   !.platforms = @ \cup {e.platform}]
  <2>1. roles[index] = "header"
    BY <1>4, <1>6 DEF IsHeader
  <2>2. /\ DOMAIN NoInfo \subseteq DOMAIN info' /\ info'.images = info.images
        /\ info'.platforms = info.platforms \cup {e.platform}
        /\ info'.platform = e.platform /\ info'.el_torito = info.el_torito
        /\ info'.catalog = info.catalog
    BY <1>1, <1>6 DEF InfoSound, NoInfo
  <2>3. InfoSound(info')
    BY <1>1, <2>2 DEF InfoSound
  <2>4. Named(roles, index + 1) = Named(roles, index) \cup {index}
        /\ Owner(roles, index + 1) = index
    BY <1>1, <2>1, OwnerIsHeader
  <2>5. info'.platforms = {EntryOf(Catalog, m).platform : m \in Named(roles, index + 1)}
    <3>1. info.platforms = {EntryOf(Catalog, m).platform : m \in Named(roles, index)}
      BY <1>1 DEF BootUpTo
    <3> QED BY <2>2, <2>4, <3>1 DEF e, Entry
  <2>6. BootUpTo(Catalog, roles, info', index + 1)
    <3>1. ~Shows(Catalog, roles, index) /\ index >= 2
      BY <1>1, <2>1 DEF Shows
    <3> QED BY <1>1, <2>2, <2>5, <3>1, NoImageAdded
  <2>7. \A m : m \in 3 .. (index + 1) - 1 <=> m \in 3 .. index - 1 \/ m = index
    BY <1>1
  <2>8. EntriesRead(Catalog, info', index')
    <3>1. \A m \in 3 .. index' - 1 : roles[m] # "end"
      BY <1>1, <1>6, <2>1, <2>7
    <3>2. index' \in 3 .. CatalogEntries + 1
      BY <1>1, <1>6
    <3> QED BY <1>6, <2>2, <2>4, <2>6, <3>1, <3>2 DEF EntriesRead, roles, e, Entry
  <2>9. HeadersBefore(roles, index') = Headers \cup {index} /\ index \notin Headers
    <3>1. index \notin 3 .. index - 1
      BY <1>1
    <3> QED BY <1>6, <2>1, <2>7, <3>1 DEF HeadersBefore, Headers
  <2>10. OneOpen(Catalog, index', inside', isoPhase' = "lastSection")
    <3>1. inside' = EntryOf(Catalog, index).count - (index' - 1 - index)
      <4>1. e.count \in Nat
        BY <1>1, EntryTypes DEF e
      <4>2. index' - 1 - index = 0 /\ inside' = e.count
        BY <1>1, <1>6
      <4> QED BY <4>1, <4>2 DEF e, Entry
    <3>2. (EntryOf(Catalog, index).indicator = 91) = (isoPhase' = "lastSection")
      <4>1. (e.indicator = 91) <=> (isoPhase' = "lastSection")
        BY <1>6
      <4> QED BY <4>1 DEF e, Entry
    <3>3. \A g \in HeadersBefore(roles, index') \ {index} : Closed(Catalog, index', g)
      BY <1>1, <1>3, <1>4, <1>6, <2>9, ClosedStays DEF Entry
    <3> QED BY <2>9, <3>1, <3>2, <3>3 DEF OneOpen, roles
  <2>11. isoPhase' \in InSection /\ inside' \in Nat
    BY <1>1, <1>6, EntryTypes DEF InSection, e
  <2> QED BY <1>1, <1>2, <2>2, <2>3, <2>8, <2>10, <2>11, SectionGoesOn
<1>7. CASE /\ index <= CatalogEntries /\ e.indicator # 0 /\ ~IsHeader(e)
           /\ index' = index + 1 /\ UNCHANGED <<isoPhase, inside>>
           /\ info' = IF e.indicator = 88 THEN WithImage(info, info.platform, index)
                      ELSE info
  <2>1. roles[index] = "alone"
    BY <1>4, <1>7
  <2>2. /\ EntriesRead(Catalog, info', index') /\ InfoSound(info')
        /\ HeadersBefore(roles, index') = Headers
        /\ info'.el_torito = info.el_torito /\ info'.catalog = info.catalog
    BY <1>2, <1>7, <2>1, EntryCounted DEF roles, Headers, e
  <2>3. AllClosed(Catalog, index')
    <3>1. \A h \in Headers : Closed(Catalog, index', h)
      BY <1>1, <1>3, <1>4, <1>7, ClosedStays DEF Entry
    <3> QED BY <2>2, <3>1 DEF AllClosed, roles
  <2> QED BY <1>1, <1>2, <1>7, <2>2, <2>3, EntriesGoOn
<1> QED BY <1>5, <1>6, <1>7 DEF ReadEntry, e

\* An entry in a section is the section's, and the last one closes it.
LEMMA ReadSectionKeepsBoot ==
  ASSUME BootInv, ReadSection
  PROVE  BootInv'
<1> DEFINE roles == Roles(Catalog)
           Headers == HeadersBefore(roles, index)
<1>1. /\ isoFile \in Images /\ InfoSound(info) /\ HasCatalog /\ inside \in Nat
      /\ CatalogEntries \in Nat /\ index \in Nat /\ index >= 3
      /\ index \in 3 .. CatalogEntries + 1
      /\ \A m \in 3 .. index - 1 : roles[m] # "end"
      /\ BootUpTo(Catalog, roles, info, index)
  <2>1. isoPhase \in {"entries"} \cup InSection
    BY DEF ReadSection, InSection
  <2> QED BY <2>1, EntryPlace
<1>2. /\ isoPhase \in InSection /\ isoFile' = isoFile
      /\ OneOpen(Catalog, index, inside, isoPhase = "lastSection")
      /\ EntriesRead(Catalog, info, index)
  BY DEF ReadSection, BootInv, InSection
<1>3. \A h \in Headers : h \in Nat /\ h < index /\ Entry(h).count \in Nat
  BY <1>1, EntryTypes DEF HeadersBefore
<1>4. PICK h \in Headers : /\ inside = Entry(h).count - (index - 1 - h)
                           /\ (Entry(h).indicator = 91) = (isoPhase = "lastSection")
                           /\ \A g \in Headers \ {h} : Closed(Catalog, index, g)
  BY <1>2 DEF OneOpen, Entry
<1> HIDE DEF roles, Headers
<1>5. h \in Nat /\ h < index /\ Entry(h).count \in Nat
  BY <1>3, <1>4
<1>6. CASE (inside = 0 \/ index > CatalogEntries) /\ SectionEnds
  <2>1. CASE isoPhase = "lastSection"
    <3>1. index = CatalogEntries + 1 \/ roles[index] = "end"
      <4>1. CASE index > CatalogEntries
        BY <1>1, <4>1
      <4>2. CASE ~(index > CatalogEntries)
        <5>1. inside = 0 /\ index \in 3 .. CatalogEntries
          BY <1>1, <1>6, <4>2
        <5>2. ~(index - h <= Entry(h).count) /\ Entry(h).indicator = 91
          BY <1>1, <1>4, <1>5, <2>1, <5>1
        <5>3. \A g \in Headers \ {h} : ~(index - g <= Entry(g).count)
          BY <1>1, <1>3, <1>4 DEF Closed, Entry
        <5>4. \A g \in Headers : ~(index - g <= EntryOf(Catalog, g).count)
          BY <5>2, <5>3 DEF Entry
        <5>5. EntryOf(Catalog, h).indicator = 91
          BY <5>2 DEF Entry
        <5> QED BY <1>1, <1>4, <5>1, <5>4, <5>5, LaterRole DEF roles, Headers
      <4> QED BY <4>1, <4>2
    <3>2. BootUpTo(Catalog, Roles(Catalog), info, CatalogEntries + 1)
      BY <1>1, <3>1, NothingBehind DEF roles
    <3> QED BY <1>2, <1>6, <2>1, <3>2, CatalogOver DEF SectionEnds, CatalogEnds
  <2>2. CASE isoPhase # "lastSection"
    <3>1. isoPhase' = "entries" /\ UNCHANGED <<index, info, inside>>
      BY <1>6, <2>2 DEF SectionEnds
    <3>2. AllClosed(Catalog, index)
      <4>1. CASE index > CatalogEntries
        BY <4>1 DEF AllClosed
      <4>2. CASE ~(index > CatalogEntries)
        <5>1. Entry(h).count < index - h /\ Entry(h).indicator # 91
          BY <1>1, <1>4, <1>5, <1>6, <2>2, <4>2
        <5>2. Closed(Catalog, index, h)
          BY <5>1 DEF Closed, Entry
        <5> QED BY <1>4, <5>2 DEF AllClosed, roles, Headers
      <4> QED BY <4>1, <4>2
    <3> QED BY <1>1, <1>2, <3>1, <3>2, EntriesGoOn
  <2> QED BY <2>1, <2>2
<1>7. CASE /\ inside > 0 /\ index <= CatalogEntries
           /\ info' = IF Entry(index).indicator \in {88, 0}
                      THEN WithImage(info, info.platform, index) ELSE info
           /\ index' = index + 1 /\ inside' = inside - 1 /\ isoPhase' = isoPhase
  <2>1. roles[index] = "inside"
    <3>1. index - h <= EntryOf(Catalog, h).count /\ index \in 3 .. CatalogEntries
      BY <1>1, <1>4, <1>5, <1>7 DEF Entry
    <3> QED BY <1>1, <1>4, <3>1, LaterRole DEF roles, Headers
  <2>2. /\ EntriesRead(Catalog, info', index') /\ InfoSound(info')
        /\ HeadersBefore(roles, index') = Headers
        /\ info'.el_torito = info.el_torito /\ info'.catalog = info.catalog
    BY <1>2, <1>7, <2>1, EntryCounted DEF roles, Headers
  <2>3. OneOpen(Catalog, index', inside', isoPhase' = "lastSection")
    <3>1. inside' = EntryOf(Catalog, h).count - (index' - 1 - h)
      BY <1>1, <1>4, <1>5, <1>7 DEF Entry
    <3>2. \A g \in Headers \ {h} : Closed(Catalog, index', g)
      BY <1>1, <1>3, <1>4, <1>7, ClosedStays DEF Entry
    <3>3. (EntryOf(Catalog, h).indicator = 91) = (isoPhase' = "lastSection")
      BY <1>4, <1>7 DEF Entry
    <3> QED BY <1>4, <2>2, <3>1, <3>2, <3>3 DEF OneOpen, roles
  <2>4. inside' \in Nat
    BY <1>1, <1>7
  <2> QED BY <1>1, <1>2, <1>7, <2>2, <2>3, <2>4, SectionGoesOn
<1> QED BY <1>6, <1>7 DEF ReadSection

\* At the start no image is shown.
LEMMA BootStart == IsoInit => BootInv
<1> SUFFICES ASSUME IsoInit PROVE BootInv
  OBVIOUS
<1>1. isoFile \in Images /\ isoPhase = "open" /\ info = NoInfo
  BY DEF IsoInit
<1>2. info.images = <<>> /\ info.platforms = {} /\ InfoSound(info)
  BY <1>1, IsoAssumption DEF NoInfo, InfoSound
<1>3. isoPhase \notin {"entries", "hybrid", "done"} \cup InSection
  BY <1>1 DEF InSection
<1> QED BY <1>1, <1>2, <1>3 DEF BootInv

\* Every step of the parser keeps what is shown of the entries read.
LEMMA BootStep == BootInv /\ [IsoNext]_isoVars => BootInv'
<1> SUFFICES ASSUME BootInv, [IsoNext]_isoVars PROVE BootInv'
  OBVIOUS
<1>1. DOMAIN NoInfo \subseteq DOMAIN info /\ isoFile \in Images
  BY DEF BootInv, InfoSound
<1>2. CASE OpenImage
  BY <1>1, <1>2, BootNotYet DEF OpenImage, IsoFails, BeforeCatalog
<1>3. CASE ReadDescriptor
  <2>1. CASE StartDirectories
    BY <1>1, <1>3, <2>1, BootNotYet DEF ReadDescriptor, StartDirectories, BeforeCatalog
  <2>2. CASE ~StartDirectories
    <3>1. /\ isoPhase = "descriptors" /\ UNCHANGED <<isoFile, isoPhase>>
          /\ info' = Described(info, At(FirstDescriptor + index))
      BY <1>3, <2>2 DEF ReadDescriptor
    <3>2. /\ DOMAIN NoInfo \subseteq DOMAIN info' /\ info'.images = info.images
          /\ info'.platforms = info.platforms
      BY <1>1, <3>1, OthersKeep
    <3> QED BY <3>1, <3>2, BootNotYet DEF BeforeCatalog
  <2> QED BY <2>1, <2>2
<1>4. CASE TakeItem \/ ReadDirectorySector
  BY <1>1, <1>4, BootNotYet DEF TakeItem, ReadDirectorySector, IsoFails, BeforeCatalog
<1>5. CASE ScanRecord
  <2>1. CASE SectorEnds
    BY <1>1, <1>5, <2>1, BootNotYet DEF ScanRecord, SectorEnds, BeforeCatalog
  <2>2. CASE ~SectorEnds
    <3>1. /\ isoPhase = "records" /\ UNCHANGED <<isoFile, isoPhase>>
          /\ info' = Scanned(info, Record)
      BY <1>5, <2>2 DEF ScanRecord
    <3>2. /\ DOMAIN NoInfo \subseteq DOMAIN info' /\ info'.images = info.images
          /\ info'.platforms = info.platforms
      BY <1>1, <3>1, OthersKeep
    <3> QED BY <3>1, <3>2, BootNotYet DEF BeforeCatalog
  <2> QED BY <2>1, <2>2
\* The version and the name of UDF are other fields.
<1>6. CASE ReadVrs \/ TryAnchor \/ ReadSequence
  <2>1. /\ isoPhase \in {"vrs", "anchors", "sequence"} /\ isoFile' = isoFile
        /\ isoPhase' \in {"vrs", "anchors", "sequence", "catalog"}
    BY <1>6 DEF ReadVrs, TryAnchor, ReadSequence, UdfEnds
  <2>2. \/ info' = info \/ info' = [info EXCEPT !.udf = TRUE]
        \/ \E v : info' = [info EXCEPT !.version = v]
    <3>1. CASE ReadVrs
      BY <3>1 DEF ReadVrs
    <3>2. CASE TryAnchor
      BY <3>2 DEF TryAnchor, UdfEnds
    <3>3. CASE ReadSequence
      BY <3>3 DEF ReadSequence, UdfEnds
    <3> QED BY <1>6, <3>1, <3>2, <3>3
  <2>3. /\ DOMAIN NoInfo \subseteq DOMAIN info' /\ info'.images = info.images
        /\ info'.platforms = info.platforms
    BY <1>1, <2>2 DEF NoInfo
  <2> QED BY <2>1, <2>3, BootNotYet DEF BeforeCatalog
<1>7. CASE ReadCatalog
  BY <1>7, ReadCatalogKeepsBoot
<1>8. CASE ReadEntry
  BY <1>8, ReadEntryKeepsBoot
<1>9. CASE ReadSection
  BY <1>9, ReadSectionKeepsBoot
<1>10. CASE FinishIso
  <2>1. /\ isoPhase = "hybrid" /\ isoFile' = isoFile /\ isoPhase' \in {"done", "failed"}
        /\ info' = [info EXCEPT !.hybrid = Readable(0) /\ At(0).hybrid]
    BY <1>10 DEF FinishIso
  <2>2. /\ info'.images = info.images /\ info'.platforms = info.platforms
        /\ info'.el_torito = info.el_torito /\ info'.catalog = info.catalog
        /\ DOMAIN NoInfo \subseteq DOMAIN info'
    BY <1>1, <2>1 DEF NoInfo
  <2>3. Catalog' = Catalog /\ HasCatalog' = HasCatalog
    BY <2>1, <2>2, CatalogKept
  <2>4. InfoSound(info')
    BY <2>2 DEF BootInv, InfoSound
  <2>5. HasCatalog => BootUpTo(Catalog, Roles(Catalog), info', CatalogEntries + 1)
    BY <2>1, <2>2 DEF BootInv, BootUpTo
  <2>6. HasCatalog' => BootUpTo(Catalog', Roles(Catalog'), info', CatalogEntries + 1)
    BY <2>3, <2>5
  <2>7. isoPhase' \notin {"entries"} \cup InSection \cup BeforeCatalog
    BY <2>1 DEF BeforeCatalog, InSection
  <2> QED BY <1>1, <2>1, <2>4, <2>6, <2>7 DEF BootInv
<1>11. CASE UNCHANGED isoVars
  <2>1. /\ isoFile' = isoFile /\ isoPhase' = isoPhase /\ info' = info /\ index' = index
        /\ inside' = inside
    BY <1>11 DEF isoVars
  <2>2. Catalog' = Catalog /\ HasCatalog' = HasCatalog
    BY <2>1, CatalogKept
  <2> QED BY <2>1, <2>2 DEF BootInv
<1> QED
  BY <1>2, <1>3, <1>4, <1>5, <1>6, <1>7, <1>8, <1>9, <1>10, <1>11 DEF IsoNext

\* At the end all entries are read.
LEMMA BootGives == BootInv => BootExact
BY DEF BootInv, BootExact

\* fx_iso_parse_el_torito: for any catalogue and any limit on the images, those
\* shown are the catalogue's in its order, each under the platform of the header
\* before it, and none is left out before the array is full.
THEOREM BootIsExact == IsoSpec => []BootExact
BY BootStart, BootStep, BootGives, PTL DEF IsoSpec

-----------------------------------------------------------------------------
(* The directories of the .iso viewer (IsoVolume): of what the scan has    *)
(* passed it has missed nothing (fx_iso_scan_directories, iso.c:484-565).  *)

\* A position starts a record or not as the positions before it say.
LEMMA StartOfBelow ==
  ASSUME NEW records, NEW bytes, NEW f, NEW g, NEW p \in Nat,
         \A q \in 0 .. p - 1 : f[q] = g[q]
  PROVE  StartOf(records, bytes, f, p) = StartOf(records, bytes, g, p)
<1>1. StartOf(records, bytes, f, p) <=> StartOf(records, bytes, g, p)
  BY DEF StartOf
<1> QED BY <1>1 DEF StartOf

\* The starts of records are defined at every position of a sector.
LEMMA StartsAre ==
  ASSUME NEW records, NEW bytes
  PROVE  \A p \in 0 .. SectorSize :
           Starts(records, bytes)[p] = StartOf(records, bytes, Starts(records, bytes), p)
<1> DEFINE Body(f, p) == StartOf(records, bytes, f, p)
           Right(m, f) == f = [p \in 0 .. m |-> Body(f, p)]
           Wrong == {m \in Nat : ~\E f : Right(m, f)}
<1>1. ASSUME NEW m \in Nat \ {0}, NEW f, Right(m - 1, f) PROVE \E g : Right(m, g)
  <2> DEFINE g == [p \in 0 .. m |-> IF p = m THEN Body(f, m) ELSE f[p]]
  <2>1. ASSUME NEW p \in 0 .. m PROVE g[p] = Body(g, p)
    <3>1. \A k \in 0 .. p - 1 : k \in 0 .. m /\ k # m
      OBVIOUS
    <3>2. \A k \in 0 .. p - 1 : f[k] = g[k]
      BY <3>1
    <3>3. Body(f, p) = Body(g, p)
      BY <3>2, StartOfBelow
    <3>4. CASE p = m
      BY <3>3, <3>4
    <3>5. CASE p # m
      <4>1. p \in 0 .. m - 1
        BY <3>5
      <4>2. f[p] = Body(f, p)
        BY <1>1, <4>1
      <4> QED BY <3>3, <3>5, <4>2
    <3> QED BY <3>4, <3>5
  <2>2. g = [p \in 0 .. m |-> Body(g, p)]
    <3>1. g = [p \in 0 .. m |-> g[p]]
      OBVIOUS
    <3> HIDE DEF g, Body
    <3> QED BY <2>1, <3>1
  <2> HIDE DEF g
  <2> QED BY <2>2
<1>2. \E f : Right(0, f)
  <2> DEFINE f == [p \in 0 .. 0 |-> Body(<<>>, p)]
  <2>1. ASSUME NEW p \in 0 .. 0 PROVE f[p] = Body(f, p)
    <3>1. p \in Nat /\ 0 .. p - 1 = {}
      OBVIOUS
    <3>2. Body(f, p) = Body(<<>>, p)
      BY <3>1, StartOfBelow
    <3> QED BY <3>2
  <2>2. f = [p \in 0 .. 0 |-> f[p]]
    OBVIOUS
  <2> HIDE DEF f, Body
  <2>3. f = [p \in 0 .. 0 |-> Body(f, p)]
    BY <2>1, <2>2
  <2> QED BY <2>3
<1> HIDE DEF Body
<1>3. Wrong = {}
  <2> HIDE DEF Right
  <2> SUFFICES ASSUME Wrong # {} PROVE FALSE
    OBVIOUS
  <2>1. PICK m \in Wrong : \A k \in Wrong : ~(k < m)
    <3>1. Wrong \subseteq Nat
      OBVIOUS
    <3> HIDE DEF Wrong
    <3> QED BY <3>1, LeastNatural
  <2>2. m \in Nat \ {0} /\ ~\E f : Right(m, f)
    BY <1>2, <2>1
  <2>3. m - 1 \in Nat /\ m - 1 \notin Wrong
    BY <2>1, <2>2
  <2>4. \E f : Right(m - 1, f)
    BY <2>3
  <2> QED BY <1>1, <2>2, <2>4
<1>4. SectorSize \in Nat
  BY IsoAssumption
<1>5. \E f : f = [p \in 0 .. SectorSize |-> Body(f, p)]
  BY <1>3, <1>4
<1>6. Starts(records, bytes)
        = [p \in 0 .. SectorSize |-> StartOf(records, bytes, Starts(records, bytes), p)]
  BY <1>5 DEF Starts, Body
<1> QED BY <1>6

\* At the start of a record, the next one starts where it ends, or nowhere.
LEMMA NoStartBetween ==
  ASSUME NEW records, \A p \in DOMAIN records : records[p].length \in Nat,
         NEW bytes \in Int, NEW p, AtStart(records, bytes, p),
         NEW q \in 0 .. SectorSize, q > p, Starts(records, bytes)[q]
  PROVE  Whole(records, bytes, p) /\ p + records[p].length <= q
<1> DEFINE start == Starts(records, bytes)
           T == {n \in 0 .. SectorSize : n > p /\ start[n]
                   /\ ~(Whole(records, bytes, p) /\ p + records[p].length <= n)}
<1>1. SectorSize \in Nat /\ p \in 0 .. SectorSize
  BY IsoAssumption DEF AtStart
<1> SUFFICES ASSUME T # {} PROVE FALSE
  OBVIOUS
<1>2. T \subseteq Nat
  OBVIOUS
<1>3. PICK n \in T : \A m \in T : ~(m < n)
  <2> HIDE DEF T
  <2> QED BY <1>2, LeastNatural
<1>4. n \in 0 .. SectorSize /\ n > p /\ start[n]
      /\ ~(Whole(records, bytes, p) /\ p + records[p].length <= n)
  BY <1>3
<1>5. PICK m \in 0 .. n - 1 : /\ start[m] /\ Whole(records, bytes, m)
                              /\ m + records[m].length = n
  <2>1. StartOf(records, bytes, start, n)
    BY <1>4, StartsAre
  <2> QED BY <1>1, <1>4, <2>1 DEF StartOf
<1>6. CASE m < p
  <2>1. m \in 0 .. p - 1
    BY <1>1, <1>5, <1>6
  <2>2. m + records[m].length <= p
    BY <1>5, <2>1 DEF AtStart
  <2> QED BY <1>1, <1>4, <1>5, <2>2
<1>7. CASE m = p
  BY <1>1, <1>4, <1>5, <1>7
<1>8. CASE m > p
  <2>1. m \in 0 .. SectorSize /\ m < n
    BY <1>1, <1>4, <1>5
  <2>2. m \notin T
    BY <1>3, <2>1
  <2>3. Whole(records, bytes, p) /\ p + records[p].length <= m
    BY <1>5, <1>8, <2>1, <2>2
  <2>4. records[p].length \in Nat
    BY <2>3 DEF Whole
  <2> QED BY <1>1, <1>4, <2>1, <2>3, <2>4
<1> QED BY <1>1, <1>5, <1>6, <1>7, <1>8

\* The chain of a sector starts at its start, grows by a record and ends at the
\* first position that has none.
LEMMA ChainStarts ==
  ASSUME NEW records, NEW bytes
  PROVE  AtStart(records, bytes, 0) /\ Chain(records, bytes, 0) = {}
<1>1. 0 \in 0 .. SectorSize
  BY IsoAssumption
<1>2. Starts(records, bytes)[0]
  BY <1>1, StartsAre DEF StartOf
<1> QED BY <1>1, <1>2 DEF AtStart, Chain

\* Passing a whole record adds it to those passed and stands at the start of the next.
LEMMA ChainGrows ==
  ASSUME NEW records, \A p \in DOMAIN records : records[p].length \in Nat,
         NEW bytes \in Int, bytes <= SectorSize,
         NEW p, AtStart(records, bytes, p), Whole(records, bytes, p)
  PROVE  LET n == p + records[p].length
         IN  /\ AtStart(records, bytes, n)
             /\ Chain(records, bytes, n) = Chain(records, bytes, p) \cup {records[p]}
<1> DEFINE start == Starts(records, bytes)
           n == p + records[p].length
<1>1. SectorSize \in Nat /\ p \in 0 .. SectorSize /\ start[p]
  BY IsoAssumption DEF AtStart
<1>2. records[p].length \in Nat /\ records[p].length > 0 /\ records[p].length <= bytes - p
  BY DEF Whole
<1>3. n \in 0 .. SectorSize /\ p \in 0 .. n - 1
  BY <1>1, <1>2
<1>4. start[n]
  <2>1. StartOf(records, bytes, start, n)
    <3>1. p \in 0 .. n - 1 /\ start[p] /\ p + records[p].length = n
      BY <1>1, <1>3
    <3> HIDE DEF n, start
    <3> QED BY <3>1 DEF StartOf
  <2> HIDE DEF n
  <2> QED BY <1>3, <2>1, StartsAre
<1>5. ASSUME NEW q \in 0 .. n - 1, start[q], q # p
      PROVE  q \in 0 .. p - 1
  <2>1. q \in 0 .. SectorSize
    BY <1>1, <1>3
  <2>2. CASE q > p
    <3>1. n <= q
      BY <1>5, <2>1, <2>2, NoStartBetween
    <3> QED BY <1>3, <3>1
  <2> QED BY <1>1, <1>5, <2>1, <2>2
<1>6. \A q \in 0 .. n - 1 : start[q] => Whole(records, bytes, q) /\ q + records[q].length <= n
  <2> SUFFICES ASSUME NEW q \in 0 .. n - 1, start[q]
               PROVE  Whole(records, bytes, q) /\ q + records[q].length <= n
    OBVIOUS
  <2>1. CASE q = p
    BY <1>2, <1>3, <2>1
  <2>2. CASE q # p
    <3>1. q \in 0 .. p - 1
      BY <1>5, <2>2
    <3>2. Whole(records, bytes, q) /\ q + records[q].length <= p
      BY <3>1 DEF AtStart
    <3>3. records[q].length \in Nat
      BY <3>2 DEF Whole
    <3> QED BY <1>1, <1>2, <3>1, <3>2, <3>3
  <2> QED BY <2>1, <2>2
<1>7. Chain(records, bytes, n) = Chain(records, bytes, p) \cup {records[p]}
  <2>1. \A q : q \in 0 .. n - 1 /\ start[q] <=> (q \in 0 .. p - 1 /\ start[q]) \/ q = p
    <3>1. 0 .. p - 1 \subseteq 0 .. n - 1
      BY <1>1, <1>3
    <3> QED BY <1>1, <1>3, <1>5, <3>1
  <2> QED BY <2>1 DEF Chain
<1> QED BY <1>3, <1>4, <1>6, <1>7 DEF AtStart

\* Where no whole record starts the sector has none left.
LEMMA ChainEnds ==
  ASSUME NEW records, \A p \in DOMAIN records : records[p].length \in Nat,
         NEW bytes \in Int, NEW p, AtStart(records, bytes, p), ~Whole(records, bytes, p)
  PROVE  Chain(records, bytes, SectorSize) = Chain(records, bytes, p)
<1> DEFINE start == Starts(records, bytes)
<1>1. SectorSize \in Nat /\ p \in 0 .. SectorSize
  BY IsoAssumption DEF AtStart
<1>2. ASSUME NEW q \in 0 .. SectorSize - 1, start[q], Whole(records, bytes, q)
      PROVE  q \in 0 .. p - 1
  <2>1. q \in 0 .. SectorSize
    BY <1>1
  <2>2. ~(q > p)
    BY <1>2, <2>1, NoStartBetween
  <2> QED BY <1>1, <1>2, <2>1, <2>2
<1>3. 0 .. p - 1 \subseteq 0 .. SectorSize - 1
  BY <1>1
<1> QED BY <1>2, <1>3 DEF Chain

\* Sectors of a directory, when the offset is computed in a DWORD.
LEMMA Multiples ==
  ASSUME NEW s \in Nat \ {0}, NEW k \in Nat
  PROVE  k * s \in Nat /\ (k * s) \div s = k /\ (k * s) % s = 0
OBVIOUS

\* A multiple of the sector is a number of sectors.
LEMMA WholeSectors ==
  ASSUME NEW s \in Nat \ {0}, NEW o \in Nat, o % s = 0
  PROVE  o \div s \in Nat /\ o = (o \div s) * s
OBVIOUS

\* The offset goes to the next sector, or back to the first when the DWORD wraps
\* (iso.c:507).
LEMMA NextSector ==
  ASSUME NEW s \in Nat \ {0}, NEW m \in Nat, (m + 1) % s = 0, NEW o \in 0 .. m, o % s = 0
  PROVE  LET n == (o + s) % (m + 1)
         IN  /\ n \in 0 .. m /\ n % s = 0
             /\ n \div s = 0 \/ n \div s = o \div s + 1
<1> DEFINE k == o \div s
           q == (m + 1) \div s
<1>1. k \in Nat /\ o = k * s
  BY WholeSectors
<1>2. q \in Nat /\ m + 1 = q * s
  BY WholeSectors
<1> HIDE DEF k, q
<1>3. o + s = (k + 1) * s
  BY <1>1
<1>4. k < q
  <2>1. k * s < q * s
    BY <1>1, <1>2
  <2> QED BY <1>1, <1>2, <2>1
<1>5. o + s <= m + 1
  <2>1. k + 1 <= q
    BY <1>1, <1>2, <1>4
  <2>2. (k + 1) * s <= q * s
    BY <1>1, <1>2, <2>1
  <2> QED BY <1>2, <1>3, <2>2
<1>6. CASE o + s = m + 1
  <2>1. (o + s) % (m + 1) = 0
    BY <1>6
  <2>2. 0 % s = 0 /\ 0 \div s = 0
    OBVIOUS
  <2> QED BY <2>1, <2>2
<1>7. CASE o + s # m + 1
  <2>1. o + s \in 0 .. m
    BY <1>5, <1>7
  <2>2. (o + s) % (m + 1) = o + s
    BY <2>1, SmallRemainder
  <2>3. k + 1 \in Nat /\ (o + s) % s = 0 /\ (o + s) \div s = k + 1
    BY <1>1, <1>3, Multiples
  <2> QED BY <2>1, <2>2, <2>3 DEF k
<1> QED BY <1>6, <1>7

\* A sector begins inside the directory exactly when it is one of its sectors.
LEMMA SectorInside ==
  ASSUME NEW s \in Nat \ {0}, NEW size \in Nat \ {0}, NEW k \in Nat
  PROVE  k * s < size <=> k \in 0 .. (size - 1) \div s
<1> DEFINE b == size - 1
           q == b \div s
<1>1. b \in Nat
  OBVIOUS
<1> HIDE DEF b
<1>2. q \in Nat /\ q * s <= b /\ b < (q + 1) * s
  BY <1>1
<1> HIDE DEF q
<1>3. ASSUME k * s < size PROVE k <= q
  <2>1. k * s < (q + 1) * s
    BY <1>1, <1>2, <1>3 DEF b
  <2>2. k < q + 1
    BY <1>2, <2>1
  <2> QED BY <1>2, <2>2
<1>4. ASSUME k <= q PROVE k * s < size
  <2>1. k * s <= q * s
    BY <1>2, <1>4
  <2>2. k * s \in Int /\ q * s \in Int
    BY <1>2
  <2> QED BY <1>1, <1>2, <2>1, <2>2 DEF b
<1>5. k \in 0 .. q <=> k <= q
  BY <1>2
<1> QED BY <1>3, <1>4, <1>5 DEF q, b

\* What a record that is scanned adds to the information.
LEMMA ScannedTells ==
  ASSUME NEW i, DOMAIN NoInfo \subseteq DOMAIN i, i.name \in Nat, NEW r, IsRecord(r)
  PROVE  LET j == Scanned(i, r)
         IN  /\ DOMAIN NoInfo \subseteq DOMAIN j /\ j.name \in Nat /\ Told(j, r)
             /\ j.iso9660 = i.iso9660 /\ j.root = i.root
             /\ \A q : IsRecord(q) /\ Told(i, q) => Told(j, q)
             /\ \A t \in j.traits : t \in i.traits \/ (Telling(r) /\ t \in r.traits)
<1>1. {"name", "traits", "iso9660", "root"} \subseteq DOMAIN i
  BY DEF NoInfo
<1>2. MinRecord \in Nat /\ r.length \in Nat /\ r.name \in Nat
  BY IsoAssumption DEF IsRecord
<1>3. CASE ~Telling(r)
  <2>1. Scanned(i, r) = i
    BY <1>2, <1>3 DEF Scanned, Telling
  <2> QED BY <1>3, <2>1 DEF Told
<1>4. CASE Telling(r)
  <2> DEFINE n == IF r.special \/ r.name < i.name THEN i.name ELSE r.name
             j == [i EXCEPT !.traits = @ \cup r.traits, !.name = n]
  <2>1. Scanned(i, r) = j
    BY <1>2, <1>4 DEF Scanned, Telling
  <2>2. n \in Nat /\ i.name <= n /\ (r.special \/ r.name <= n)
    BY <1>2
  <2> HIDE DEF n
  <2>3. /\ DOMAIN j = DOMAIN i /\ j.name = n /\ j.traits = i.traits \cup r.traits
        /\ j.iso9660 = i.iso9660 /\ j.root = i.root
    BY <1>1
  <2> HIDE DEF j
  <2>4. ASSUME NEW q, IsRecord(q), Told(i, q) PROVE Told(j, q)
    <3>1. q.name \in Nat
      BY <2>4 DEF IsRecord
    <3>2. q.name <= i.name => q.name <= n
      BY <2>2, <3>1
    <3> QED BY <2>3, <2>4, <3>2 DEF Told
  <2>5. Told(j, r)
    BY <2>2, <2>3 DEF Told
  <2> QED BY <1>4, <2>1, <2>2, <2>3, <2>4, <2>5
<1> QED BY <1>3, <1>4

\* What a descriptor adds to the information is what it tells, and nothing is lost
\* (fx_iso_parse_volume_descriptors).
LEMMA DescribedTells ==
  ASSUME NEW i, DOMAIN NoInfo \subseteq DOMAIN i, i.name \in Nat, NEW s, IsRecord(s.root)
  PROVE  LET j == Described(i, s)
         IN  /\ DOMAIN NoInfo \subseteq DOMAIN j /\ j.name \in Nat
             /\ s.id = "primary" => Told(j, s.root)
             /\ \A q : IsRecord(q) /\ Told(i, q) => Told(j, q)
             /\ \A t \in j.traits :
                  t \in i.traits \/ (s.id = "primary" /\ Telling(s.root) /\ t \in s.root.traits)
             /\ j.iso9660 => i.iso9660 \/ s.id \in {"primary", "enhanced"}
<1>1. {"name", "traits", "iso9660", "root", "joliet", "extended", "enhanced",
       "el_torito", "catalog"} \subseteq DOMAIN i
  BY DEF NoInfo
<1> DEFINE k == [i EXCEPT !.iso9660 = TRUE,
                          !.root = [extent |-> s.root.extent, size |-> s.root.size]]
<1>2. DOMAIN k = DOMAIN i /\ k.name = i.name /\ k.traits = i.traits
  BY <1>1
<1>3. CASE s.id = "primary" /\ s.root.length >= MinRecord
  <2>1. Described(i, s) = Scanned(k, s.root)
    BY <1>3 DEF Described
  <2> HIDE DEF k
  <2>2. \A q : Told(i, q) => Told(k, q)
    BY <1>2 DEF Told
  <2>3. LET j == Scanned(k, s.root)
        IN  /\ DOMAIN NoInfo \subseteq DOMAIN j /\ j.name \in Nat /\ Told(j, s.root)
            /\ \A q : IsRecord(q) /\ Told(k, q) => Told(j, q)
            /\ \A t \in j.traits : t \in k.traits \/ (Telling(s.root) /\ t \in s.root.traits)
    BY <1>2, ScannedTells
  <2> QED BY <1>2, <1>3, <2>1, <2>2, <2>3
<1>4. CASE ~(s.id = "primary" /\ s.root.length >= MinRecord)
  <2>1. /\ DOMAIN Described(i, s) = DOMAIN i /\ Described(i, s).name = i.name
        /\ Described(i, s).traits = i.traits
    BY <1>1, <1>4 DEF Described
  <2>2. Described(i, s).iso9660 => i.iso9660 \/ s.id \in {"primary", "enhanced"}
    BY <1>1, <1>4 DEF Described
  <2>3. \A q : Told(i, q) => Told(Described(i, s), q)
    BY <2>1 DEF Told
  <2>4. s.id = "primary" => ~Telling(s.root)
    BY <1>4 DEF Telling
  <2> QED BY <2>1, <2>2, <2>3, <2>4 DEF Told
<1> QED BY <1>3, <1>4

\* What the file says stays, and what is queued stays queued.
LEMMA DirectoriesKept ==
  ASSUME isoFile' = isoFile
  PROVE  /\ Primary' = Primary /\ \A n : PrimaryOf(n)' = PrimaryOf(n)
         /\ \A d : Shown(d)' = Shown(d)
         /\ \A d, k : Sector(d, k)' = Sector(d, k)
         /\ \A d, k, n : ShownIn(d, k, n)' = ShownIn(d, k, n)
<1>1. \A lba : At(lba)' = At(lba) /\ Readable(lba)' = Readable(lba)
  BY FileKept
<1>2. Primary' = Primary
  BY <1>1 DEF Primary
<1>3. \A n : PrimaryOf(n)' = PrimaryOf(n)
  BY <1>1 DEF PrimaryOf
<1>4. \A d, k : Sector(d, k)' = Sector(d, k)
  BY <1>1 DEF Sector
<1>5. \A d, k, n : ShownIn(d, k, n)' = ShownIn(d, k, n)
  BY <1>4 DEF ShownIn
<1>6. \A d : Shown(d)' = Shown(d)
  BY <1>5 DEF Shown
<1> QED BY <1>2, <1>3, <1>4, <1>5, <1>6

\* A directory that was queued, or not for a limit, remains so as the queue grows.
LEMMA KeptStays ==
  ASSUME QueueInv, items' = items \/ \E x \in Queued : items' = Append(items, x),
         Len(items') <= MaxDirs
  PROVE  \A d, r : Kept(d, r) => Kept(d, r)'
<1>1. items \in Seq(Queued) /\ Len(items) \in Nat /\ MaxDirs \in Nat
  BY IsoAssumption DEF QueueInv
<1>2. CASE items' = items
  BY <1>2 DEF Kept, Seen, IsSubdirectory
<1>3. CASE \E x \in Queued : items' = Append(items, x)
  <2>1. /\ DOMAIN items = 1 .. Len(items) /\ DOMAIN items' = 1 .. Len(items) + 1
        /\ Len(items') = Len(items) + 1
        /\ \A i \in 1 .. Len(items) : items'[i] = items[i]
    BY <1>1, <1>3, AppendFacts
  <2>2. \A r : Seen(r) => Seen(r)'
    <3>1. 1 .. Len(items) \subseteq 1 .. Len(items) + 1
      BY <1>1
    <3> QED BY <2>1, <3>1 DEF Seen
  <2>3. Len(items) # MaxDirs
    <3>1. Len(items) + 1 <= MaxDirs /\ Len(items) \in Nat /\ MaxDirs \in Nat
      BY <1>1, <2>1
    <3> DEFINE n == Len(items)
    <3> HIDE DEF n
    <3> QED BY <3>1 DEF n
  <2> QED BY <2>2, <2>3 DEF Kept, IsSubdirectory
<1> QED BY <1>2, <1>3

\* The records of a directory's sectors have their types.
LEMMA SectorRecords ==
  ASSUME isoFile \in Images, NEW d, NEW k
  PROVE  /\ \A p \in DOMAIN Sector(d, k) : IsRecord(Sector(d, k)[p])
         /\ \A n : \A r \in ShownIn(d, k, n) : IsRecord(r)
<1>1. \A p \in DOMAIN Sector(d, k) : IsRecord(Sector(d, k)[p])
  BY SectorType DEF Sector
<1> QED BY <1>1 DEF ShownIn, Chain, Whole

\* So have those that were met.
LEMMA RecordTypes ==
  ASSUME isoFile \in Images
  PROVE  /\ \A r \in Primary : IsRecord(r)
         /\ \A n : \A r \in PrimaryOf(n) : IsRecord(r)
         /\ \A d : \A r \in Shown(d) : IsRecord(r)
         /\ \A i : \A r \in PassedOf(i) : IsRecord(r)
<1>1. \A r \in Primary : IsRecord(r)
  BY SectorType DEF Primary
<1>2. \A n : \A r \in PrimaryOf(n) : IsRecord(r)
  BY SectorType DEF PrimaryOf
<1>3. \A d : \A r \in Shown(d) : IsRecord(r)
  BY SectorRecords DEF Shown
<1>4. ASSUME NEW i, NEW r \in PassedOf(i) PROVE IsRecord(r)
  <2>1. r \in Shown(items[i]) \/ \E k, n : r \in ShownIn(Item, k, n)
    <3>1. CASE i = item_index /\ isoPhase \in {"directory", "records"}
      <4>1. r \in Current
        BY <3>1 DEF PassedOf
      <4> DEFINE A == UNION {ShownIn(Item, k, SectorSize) :
                               k \in 0 .. (offset \div SectorSize) - 1}
                 B == ShownIn(Item, offset \div SectorSize, pos)
      <4>2. Current = A \cup (IF isoPhase = "records" THEN B ELSE {})
        BY DEF Current
      <4>3. r \in A => \E k, n : r \in ShownIn(Item, k, n)
        OBVIOUS
      <4>4. r \in B => \E k, n : r \in ShownIn(Item, k, n)
        OBVIOUS
      <4> HIDE DEF A, B
      <4>5. r \in A \/ r \in B
        BY <4>1, <4>2
      <4> QED BY <4>3, <4>4, <4>5
    <3>2. CASE ~(i = item_index /\ isoPhase \in {"directory", "records"})
      BY <3>2 DEF PassedOf
    <3> QED BY <3>1, <3>2
  <2> QED BY <1>3, <2>1, SectorRecords
<1> QED BY <1>1, <1>2, <1>3, <1>4

\* The scan passes on without anything new.
LEMMA NotedStays ==
  ASSUME DirectoriesNoted, isoFile' = isoFile, items' = items,
         item_index \in Nat, item_index' \in {item_index, item_index + 1},
         info'.traits = info.traits, info'.name = info.name,
         \A i \in 1 .. item_index' : \A r \in PassedOf(i)' :
           i \in 1 .. item_index /\ r \in PassedOf(i)
  PROVE  DirectoriesNoted'
<1>1. \A r : Told(info, r) => Told(info, r)'
  BY DEF Told, Telling
<1>2. \A d, r : Kept(d, r) => Kept(d, r)'
  BY DEF Kept, Seen, IsSubdirectory
<1>3. Primary' = Primary /\ \A d : Shown(d)' = Shown(d)
  BY DirectoriesKept
<1>4. \A r \in Primary' : Told(info, r)'
  BY <1>1, <1>3 DEF DirectoriesNoted
<1>5. ASSUME NEW i \in 1 .. item_index', NEW r \in PassedOf(i)'
      PROVE  Told(info, r)' /\ Kept(items[i], r)'
  <2>1. i \in 1 .. item_index /\ r \in PassedOf(i)
    BY <1>5
  <2>2. Told(info, r) /\ Kept(items[i], r)
    BY <2>1 DEF DirectoriesNoted
  <2> QED BY <1>1, <1>2, <2>2
<1>6. ASSUME NEW t \in info'.traits
      PROVE  \E r \in Primary' \cup UNION {Shown(items[i])' : i \in 1 .. item_index'} :
               Telling(r) /\ t \in r.traits
  <2>1. PICK r \in Primary \cup UNION {Shown(items[i]) : i \in 1 .. item_index} :
          Telling(r) /\ t \in r.traits
    BY <1>6 DEF DirectoriesNoted
  <2>2. CASE r \in Primary
    BY <1>3, <2>1, <2>2
  <2>3. CASE r \notin Primary
    <3>1. PICK i \in 1 .. item_index : r \in Shown(items[i])
      BY <2>1, <2>3
    <3>2. i \in 1 .. item_index' /\ r \in Shown(items[i])'
      BY <1>3, <3>1
    <3> QED BY <2>1, <3>2
  <2> QED BY <2>2, <2>3
<1> QED BY <1>4, <1>5, <1>6 DEF DirectoriesNoted, Telling

\* Behind the scan nothing changes what it found.
LEMMA DirectoriesStay ==
  ASSUME DirInv, QueueInv, isoPhase \in AfterScan, isoPhase' \in AfterScan \cup {"failed"},
         UNCHANGED <<isoFile, items, item_index>>, DOMAIN NoInfo \subseteq DOMAIN info',
         info'.traits = info.traits, info'.name = info.name
  PROVE  DirInv'
<1>1. isoPhase' \notin {"open", "descriptors"} \cup Scanning
      /\ isoPhase \notin {"directory", "records"}
  BY DEF AfterScan, Scanning
<1>2. ASSUME items # <<>> PROVE DirectoriesNoted'
  <2>1. \A i : PassedOf(i)' = PassedOf(i)
    <3>1. \A i : PassedOf(i) = Shown(items[i]) /\ PassedOf(i)' = Shown(items[i])'
      BY <1>1 DEF PassedOf, Scanning
    <3> QED BY <3>1, DirectoriesKept
  <2>2. DirectoriesNoted /\ item_index \in Nat
    BY <1>2 DEF DirInv, QueueInv
  <2> QED BY <2>1, <2>2, NotedStays
<1> QED BY <1>1, <1>2 DEF DirInv, Scanning

\* A parser that fails leaves nothing to be complete.
LEMMA DirectoriesFail ==
  ASSUME DirInv, isoPhase' = "failed", UNCHANGED <<isoFile, info>>
  PROVE  DirInv'
BY DEF DirInv, Scanning, AfterScan

\* The roots of all primary descriptors are read.
LEMMA DescriptorsEnded ==
  ASSUME DescriptorsNoted, info.iso9660,
         DescriptorsEnd(At(FirstDescriptor + index))
  PROVE  Primary = PrimaryOf(index)
<1>1. index \in 0 .. MaxDescriptors /\ MaxDescriptors \in Nat /\ index > 0
  BY IsoAssumption DEF DescriptorsNoted
<1>2. \/ index = MaxDescriptors \/ ~Readable(FirstDescriptor + index)
      \/ At(FirstDescriptor + index).id = "end"
  BY <1>1 DEF DescriptorsEnd
<1>3. \A j \in 0 .. index - 1 : /\ Readable(FirstDescriptor + j)
                                /\ At(FirstDescriptor + j).id # "end"
  BY DEF DescriptorsNoted
<1>4. ASSUME NEW i \in 0 .. index - 1, At(FirstDescriptor + i).id = "primary"
      PROVE  At(FirstDescriptor + i).root \in Primary
  <2>1. i \in 0 .. MaxDescriptors - 1 /\ 0 .. i \subseteq 0 .. index - 1
    BY <1>1
  <2> QED BY <1>3, <1>4, <2>1 DEF Primary
<1>5. ASSUME NEW i \in 0 .. MaxDescriptors - 1, At(FirstDescriptor + i).id = "primary",
             \A k \in 0 .. i : /\ Readable(FirstDescriptor + k)
                               /\ At(FirstDescriptor + k).id # "end"
      PROVE  i \in 0 .. index - 1
  <2>1. CASE i >= index
    <3>1. index \in 0 .. i /\ index # MaxDescriptors
      BY <1>1, <2>1
    <3> QED BY <1>2, <1>5, <3>1
  <2> QED BY <1>1, <2>1
<1> QED BY <1>4, <1>5 DEF Primary, PrimaryOf

\* A descriptor that is read is noted, and the last one leads to the scan.
LEMMA ReadDescriptorNotes ==
  ASSUME DirInv, QueueInv, ReadDescriptor
  PROVE  DirInv'
<1> DEFINE s == At(FirstDescriptor + index)
<1>1. /\ isoPhase = "descriptors" /\ isoFile' = isoFile /\ isoFile \in Images
      /\ DOMAIN NoInfo \subseteq DOMAIN info /\ info.name \in Nat /\ DescriptorsNoted
      /\ items = <<>> /\ item_index = 0
  BY DEF ReadDescriptor, StartDirectories, DirInv, QueueInv, NoQueueYet
<1>2. CASE DescriptorsEnd(s) /\ StartDirectories
  <2>1. CASE ~info.iso9660
    BY <1>1, <1>2, <2>1 DEF StartDirectories, DirInv, Scanning, AfterScan
  <2>2. CASE info.iso9660
    <3>1. isoPhase' = "items" /\ info' = info /\ item_index' = 0
      BY <1>1, <1>2, <2>2 DEF StartDirectories
    <3>2. Primary' = PrimaryOf(index)
      BY <1>1, <1>2, <2>2, DescriptorsEnded, DirectoriesKept
    <3>3. \A r : Told(info, r) => Told(info, r)'
      BY <3>1 DEF Told, Telling
    <3>4. \A r \in Primary' : Told(info, r)'
      BY <1>1, <3>2, <3>3 DEF DescriptorsNoted
    <3>5. \A t \in info'.traits : \E r \in Primary' : Telling(r) /\ t \in r.traits
      BY <1>1, <3>1, <3>2 DEF DescriptorsNoted
    <3>6. 1 .. item_index' = {}
      BY <3>1
    <3>7. DirectoriesNoted'
      BY <3>4, <3>5, <3>6 DEF DirectoriesNoted, Telling
    <3> QED BY <1>1, <3>1, <3>7 DEF DirInv, AfterScan
  <2> QED BY <2>1, <2>2
<1>3. CASE /\ ~DescriptorsEnd(s)
           /\ info' = Described(info, s) /\ index' = index + 1
           /\ UNCHANGED <<isoFile, isoPhase, items, item_index, offset, pos, inside>>
  <2>1. IsRecord(s.root)
    BY <1>1, SectorType
  <2>2. /\ DOMAIN NoInfo \subseteq DOMAIN info' /\ info'.name \in Nat
        /\ s.id = "primary" => Told(info', s.root)
        /\ \A q : IsRecord(q) /\ Told(info, q) => Told(info', q)
        /\ \A t \in info'.traits : t \in info.traits
             \/ (s.id = "primary" /\ Telling(s.root) /\ t \in s.root.traits)
    BY <1>1, <1>3, <2>1, DescribedTells
  <2>3. index \in 0 .. MaxDescriptors /\ index # MaxDescriptors /\ MaxDescriptors \in Nat
        /\ Readable(FirstDescriptor + index) /\ s.id # "end"
    BY <1>1, <1>3, IsoAssumption DEF DescriptorsNoted, DescriptorsEnd
  <2>4. index' \in 0 .. MaxDescriptors /\ index' > 0
        /\ \A j : j \in 0 .. index' - 1 <=> j \in 0 .. index - 1 \/ j = index
    BY <1>3, <2>3
  <2> HIDE DEF s
  <2>5. PrimaryOf(index') = PrimaryOf(index)
          \cup (IF s.id = "primary" THEN {s.root} ELSE {})
    BY <2>4 DEF PrimaryOf, s
  <2>6. PrimaryOf(index)' = PrimaryOf(index')
    BY <1>1, DirectoriesKept
  <2>7. \A r \in PrimaryOf(index') : Told(info', r)
    BY <1>1, <2>2, <2>5, RecordTypes DEF DescriptorsNoted
  <2>8. \A t \in info'.traits : \E r \in PrimaryOf(index') : Telling(r) /\ t \in r.traits
    BY <1>1, <2>2, <2>5 DEF DescriptorsNoted
  <2>9. \A j \in 0 .. index' - 1 : /\ Readable(FirstDescriptor + j)'
                                   /\ At(FirstDescriptor + j)'.id # "end"
    BY <1>1, <2>3, <2>4, FileKept DEF DescriptorsNoted, s
  <2>10. DescriptorsNoted'
    BY <2>4, <2>6, <2>7, <2>8, <2>9 DEF DescriptorsNoted, Told, Telling
  <2> QED BY <1>1, <1>3, <2>2, <2>10 DEF DirInv, Scanning, AfterScan
<1> QED BY <1>2, <1>3 DEF ReadDescriptor

\* The directory in work.
LEMMA InWork ==
  ASSUME QueueInv, isoPhase \in {"directory", "records"}
  PROVE  /\ item_index \in 1 .. Len(items) /\ Len(items) \in Nat /\ items # <<>>
         /\ Item = items[item_index] /\ Item.size \in Nat \ {0} /\ Item.extent \in Nat
         /\ Item.depth \in Nat /\ Item.depth <= MaxDepth /\ Len(items) <= MaxDirs
<1>1. item_index \in 1 .. Len(items) /\ items \in Seq(Queued)
  BY DEF QueueInv, OneLevelBelow
<1>2. item_index \in DOMAIN items /\ Item \in Queued /\ Len(items) \in Nat
  BY <1>1 DEF Item
<1>3. Item.size # 0 /\ Item.depth <= MaxDepth /\ Len(items) <= MaxDirs
  BY <1>2 DEF QueueInv, QueueSound, Item
<1>4. /\ Item.size \in Nat /\ Item.extent \in Nat /\ Item.depth \in Nat
  BY <1>2, IsoAssumption DEF Queued, Dwords
<1>5. items # <<>>
  BY <1>1
<1>6. Item = items[item_index]
  BY DEF Item
<1> QED BY <1>1, <1>2, <1>3, <1>4, <1>5, <1>6

\* The record that is read, and the sector it is read from.
LEMMA RecordInWork ==
  ASSUME DirInv, QueueInv, isoPhase = "records"
  PROVE  LET k == offset \div SectorSize
             records == Sector(Item, k)
             bytes == Bytes(Item, k)
         IN  /\ k \in Nat /\ k \in 0 .. (Item.size - 1) \div SectorSize
             /\ bytes \in Int /\ bytes <= SectorSize
             /\ AtStart(records, bytes, pos)
             /\ \A p \in DOMAIN records : records[p].length \in Nat
             /\ RecordsEnd(Record) <=> ~Whole(records, bytes, pos)
             /\ ~RecordsEnd(Record) => Record = records[pos] /\ IsRecord(Record)
<1> DEFINE k == offset \div SectorSize
           records == Sector(Item, k)
           bytes == Bytes(Item, k)
<1>1. /\ offset \in Nat /\ offset % SectorSize = 0 /\ offset < Item.size
      /\ isoFile \in Images /\ SectorSize \in Nat \ {0}
  BY IsoAssumption DEF DirInv, Dwords
<1>2. AtStart(records, bytes, pos)
  BY DEF DirInv
<1>3. Item.size \in Nat \ {0}
  BY InWork
<1>4. k \in Nat /\ offset = k * SectorSize
  BY <1>1, WholeSectors
<1>5. records = At((Item.extent + offset \div SectorSize) % (IsoMaxDword + 1)).records
  BY DEF Sector
<1>6. SectorBytes = bytes
  BY <1>4 DEF SectorBytes, Bytes
<1> HIDE DEF k
<1>7. k \in 0 .. (Item.size - 1) \div SectorSize
  BY <1>1, <1>3, <1>4, SectorInside
<1>8. bytes \in Int /\ bytes <= SectorSize
  <2>1. k * SectorSize \in Int
    BY <1>1, <1>4
  <2> QED BY <1>1, <1>3, <2>1 DEF Bytes
<1>9. \A p \in DOMAIN records : IsRecord(records[p])
  BY <1>1, SectorRecords
<1>10. Record = IF pos \in DOMAIN records THEN records[pos] ELSE NoRecord
  BY <1>5 DEF Record
<1> HIDE DEF records, bytes
<1>11. pos \in Nat
  BY <1>1, <1>2 DEF AtStart
<1>12. CASE pos \in DOMAIN records
  <2>1. Record = records[pos] /\ IsRecord(Record) /\ Record.length \in Nat
    BY <1>9, <1>10, <1>12 DEF IsRecord
  <2>2. RecordsEnd(Record) <=> ~Whole(records, bytes, pos)
    BY <1>6, <1>8, <1>11, <1>12, <2>1 DEF RecordsEnd, Whole
  <2> QED BY <1>2, <1>4, <1>7, <1>8, <1>9, <2>1, <2>2 DEF k, records, bytes, IsRecord
<1>13. CASE pos \notin DOMAIN records
  <2>1. Record.length = 0
    BY <1>10, <1>13 DEF NoRecord
  <2>2. RecordsEnd(Record) /\ ~Whole(records, bytes, pos)
    BY <1>13, <2>1 DEF RecordsEnd, Whole
  <2> QED BY <1>2, <1>4, <1>7, <1>8, <1>9, <2>2 DEF k, records, bytes, IsRecord
<1> QED BY <1>12, <1>13

\* The next directory of the queue has shown nothing yet.
LEMMA TakeItemNotes ==
  ASSUME DirInv, QueueInv, TakeItem
  PROVE  DirInv'
<1>1. /\ isoPhase = "items" /\ UNCHANGED <<isoFile, info, items>>
      /\ Len(items) \in Nat /\ item_index \in Nat /\ item_index <= Len(items)
  BY QueueTypes DEF TakeItem, QueueInv, QueueSound
<1>2. \A d : Shown(d)' = Shown(d)
  BY <1>1, DirectoriesKept
<1>3. \A i : PassedOf(i) = Shown(items[i])
  BY <1>1 DEF PassedOf
<1>4. items # <<>> => DirectoriesNoted
  BY <1>1 DEF DirInv, Scanning
<1>5. CASE item_index < Len(items)
  <2>1. item_index' = item_index + 1 /\ offset' = 0 /\ isoPhase' = "directory"
    BY <1>5 DEF TakeItem
  <2>2. Current' = {}
    <3>1. 0 \div SectorSize = 0 /\ 0 .. 0 - 1 = {}
      BY IsoAssumption
    <3>2. 0 .. (offset' \div SectorSize) - 1 = {}
      BY <2>1, <3>1
    <3> QED BY <2>1, <3>2 DEF Current
  <2>3. ASSUME NEW i \in 1 .. item_index', NEW r \in PassedOf(i)'
        PROVE  i \in 1 .. item_index /\ r \in PassedOf(i)
    <3>1. i # item_index'
      BY <2>1, <2>2, <2>3 DEF PassedOf
    <3>2. PassedOf(i)' = Shown(items[i])'
      BY <3>1 DEF PassedOf
    <3>3. r \in PassedOf(i)
      BY <1>1, <1>2, <1>3, <2>3, <3>2
    <3> QED BY <1>1, <2>1, <3>1, <3>3
  <2>4. items # <<>> => DirectoriesNoted'
    BY <1>1, <1>4, <2>1, <2>3, NotedStays
  <2>5. offset' \in Dwords /\ offset' % SectorSize = 0
    BY <2>1, IsoAssumption DEF Dwords
  <2> QED BY <1>1, <2>1, <2>4, <2>5 DEF DirInv, AfterScan
<1>6. CASE ~(item_index < Len(items))
  <2>1. item_index' = item_index /\ isoPhase' = "vrs" /\ item_index = Len(items)
    BY <1>1, <1>6 DEF TakeItem
  <2>2. \A i : PassedOf(i)' = Shown(items[i])'
    BY <2>1 DEF PassedOf
  <2>3. \A i : PassedOf(i)' = PassedOf(i)
    BY <1>1, <1>2, <1>3, <2>2
  <2>4. items # <<>> => DirectoriesNoted'
    BY <1>1, <1>4, <2>1, <2>3, NotedStays
  <2> QED BY <1>1, <2>1, <2>4 DEF DirInv, Scanning
<1> QED BY <1>5, <1>6

\* What the sectors before the offset show is what the directory shows when
\* the offset is behind its size.
LEMMA ShownWhenOver ==
  ASSUME DirInv, QueueInv, isoPhase = "directory", offset >= Item.size
  PROVE  Shown(Item) \subseteq Current
<1>1. /\ offset \in Nat /\ offset % SectorSize = 0 /\ SectorSize \in Nat \ {0}
      /\ Item.size \in Nat \ {0}
  BY IsoAssumption, InWork DEF DirInv, Dwords
<1> DEFINE m == offset \div SectorSize
<1>2. m \in Nat /\ offset = m * SectorSize
  BY <1>1, WholeSectors
<1>3. ASSUME NEW j \in 0 .. (Item.size - 1) \div SectorSize
      PROVE  j \in 0 .. m - 1
  <2> HIDE DEF m
  <2>1. j \in Nat
    BY <1>1
  <2>2. j * SectorSize < Item.size
    BY <1>1, <1>3, <2>1, SectorInside
  <2>3. j * SectorSize < m * SectorSize
    <3>1. j * SectorSize \in Nat /\ m * SectorSize \in Nat
      BY <1>1, <1>2, <2>1
    <3> QED BY <1>1, <1>2, <2>2, <3>1
  <2>4. j < m
    BY <1>1, <1>2, <2>1, <2>3
  <2> QED BY <1>2, <2>1, <2>4
<1>4. Current = UNION {ShownIn(Item, j, SectorSize) : j \in 0 .. m - 1}
  BY DEF Current
<1> HIDE DEF m
<1> QED BY <1>3, <1>4 DEF Shown

\* A sector that is entered has none of its records passed; behind the last one the next
\* directory's turn comes, or the end.
LEMMA ReadDirectorySectorNotes ==
  ASSUME DirInv, QueueInv, ReadDirectorySector
  PROVE  DirInv'
<1>1. /\ isoPhase = "directory" /\ UNCHANGED <<isoFile, info, items, item_index, offset>>
      /\ item_index \in Nat /\ items # <<>> /\ Item' = Item /\ Item = items[item_index]
  BY InWork DEF ReadDirectorySector, IsoFails, QueueInv, Item
<1>2. DirectoriesNoted
  BY <1>1 DEF DirInv, Scanning
<1>3. /\ \A d : Shown(d)' = Shown(d)
      /\ \A d, k, n : ShownIn(d, k, n)' = ShownIn(d, k, n)
      /\ \A d, k : Sector(d, k)' = Sector(d, k)
  BY <1>1, DirectoriesKept
<1>4. CASE offset >= Item.size /\ isoPhase' = "items"
  <2>1. ASSUME NEW i \in 1 .. item_index', NEW r \in PassedOf(i)'
        PROVE  i \in 1 .. item_index /\ r \in PassedOf(i)
    <3>1. r \in Shown(items[i])
      BY <1>1, <1>3, <1>4, <2>1 DEF PassedOf
    <3>2. i = item_index => r \in Current
      BY <1>1, <1>4, <3>1, ShownWhenOver
    <3> QED BY <1>1, <3>1, <3>2 DEF PassedOf
  <2>2. DirectoriesNoted'
    BY <1>1, <1>2, <2>1, NotedStays
  <2> QED BY <1>1, <1>4, <2>2 DEF DirInv, AfterScan
<1>5. CASE IsoFails
  BY <1>5, DirectoriesFail DEF IsoFails
<1>6. CASE offset < Item.size /\ isoPhase' = "records" /\ pos' = 0
  <2> DEFINE k == offset \div SectorSize
  <2>1. /\ AtStart(Sector(Item, k), Bytes(Item, k), 0)
        /\ ShownIn(Item, k, 0) = {}
    BY ChainStarts DEF ShownIn
  <2>2. Current' \subseteq Current
    <3>1. Current' = (UNION {ShownIn(Item, j, SectorSize) : j \in 0 .. k - 1})
                     \cup ShownIn(Item, k, 0)
      BY <1>1, <1>3, <1>6 DEF Current
    <3>2. Current = UNION {ShownIn(Item, j, SectorSize) : j \in 0 .. k - 1}
      BY <1>1 DEF Current
    <3> QED BY <2>1, <3>1, <3>2
  <2>3. ASSUME NEW i \in 1 .. item_index', NEW r \in PassedOf(i)'
        PROVE  i \in 1 .. item_index /\ r \in PassedOf(i)
    <3>1. CASE i = item_index
      BY <1>1, <1>6, <2>2, <2>3, <3>1 DEF PassedOf
    <3>2. CASE i # item_index
      BY <1>1, <1>3, <2>3, <3>2 DEF PassedOf
    <3> QED BY <1>1, <3>1, <3>2
  <2>4. DirectoriesNoted'
    BY <1>1, <1>2, <2>3, NotedStays
  <2>5. AtStart(Sector(Item, k)', Bytes(Item, k)', pos')
    <3>1. Sector(Item, k)' = Sector(Item, k) /\ Bytes(Item, k)' = Bytes(Item, k)
      BY <1>1, <1>3 DEF Bytes
    <3> QED BY <1>6, <2>1, <3>1
  <2>6. /\ isoFile' \in Images /\ DOMAIN NoInfo \subseteq DOMAIN info' /\ info'.name \in Nat
        /\ offset' \in Dwords /\ offset' % SectorSize = 0 /\ offset' < Item'.size
    BY <1>1, <1>6 DEF DirInv
  <2>7. isoPhase' \notin {"open", "descriptors"} \cup AfterScan
    BY <1>6 DEF AfterScan
  <2> QED BY <2>4, <2>5, <2>6, <2>7 DEF DirInv
<1> QED BY <1>4, <1>5, <1>6 DEF ReadDirectorySector

\* Behind the last record of a sector nothing else is shown, and the scan goes
\* on with the next sector or, when the offset comes round, with the first.
LEMMA SectorEndsNotes ==
  ASSUME DirInv, QueueInv, isoPhase = "records", RecordsEnd(Record), SectorEnds
  PROVE  DirInv'
<1> DEFINE k == offset \div SectorSize
           n == offset' \div SectorSize
           Through(m) == UNION {ShownIn(Item, j, SectorSize) : j \in 0 .. m - 1}
<1>1. /\ isoPhase' = "directory" /\ UNCHANGED <<isoFile, info, items, item_index>>
      /\ item_index \in Nat /\ items # <<>> /\ Item' = Item
      /\ offset' = (offset + SectorSize) % (IsoMaxDword + 1)
  BY InWork DEF SectorEnds, QueueInv, Item
<1>2. DirectoriesNoted
  BY <1>1 DEF DirInv, Scanning
<1>3. /\ \A d : Shown(d)' = Shown(d)
      /\ \A d, j, m : ShownIn(d, j, m)' = ShownIn(d, j, m)
  BY <1>1, DirectoriesKept
<1>4. /\ offset' \in Dwords /\ offset' % SectorSize = 0
      /\ n = 0 \/ n = k + 1
  <2>1. /\ SectorSize \in Nat \ {0} /\ IsoMaxDword \in Nat
        /\ (IsoMaxDword + 1) % SectorSize = 0
        /\ offset \in 0 .. IsoMaxDword /\ offset % SectorSize = 0
    BY IsoAssumption DEF DirInv, Dwords
  <2> QED BY <1>1, <2>1, NextSector DEF Dwords
<1>5. k \in Nat /\ ShownIn(Item, k, SectorSize) = ShownIn(Item, k, pos)
  BY RecordInWork, ChainEnds DEF ShownIn
<1>6. Current' = Through(n)
  BY <1>1, <1>3 DEF Current
<1>7. Current = Through(k) \cup ShownIn(Item, k, pos)
  BY DEF Current
<1>8. Current' \subseteq Current
  <2>1. n - 1 \in Int /\ \A j \in 0 .. n - 1 : j \in 0 .. k - 1 \/ j = k
    BY <1>4, <1>5
  <2> HIDE DEF k, n
  <2> QED BY <1>5, <1>6, <1>7, <2>1
<1>9. ASSUME NEW i \in 1 .. item_index', NEW r \in PassedOf(i)'
      PROVE  i \in 1 .. item_index /\ r \in PassedOf(i)
  <2>1. CASE i = item_index
    BY <1>1, <1>8, <1>9, <2>1 DEF PassedOf
  <2>2. CASE i # item_index
    BY <1>1, <1>3, <1>9, <2>2 DEF PassedOf
  <2> QED BY <1>1, <2>1, <2>2
<1>10. DirectoriesNoted'
  BY <1>1, <1>2, <1>9, NotedStays
<1> QED BY <1>1, <1>4, <1>10 DEF DirInv, AfterScan

\* A subdirectory that is not queued is queued already, too deep or too many.
LEMMA RecordKept ==
  ASSUME QueueInv, isoPhase = "records", NEW r, NEW d, d = Item,
         items' = IF Queues(r)
                  THEN Append(items, [extent |-> r.extent, size |-> r.size,
                                      depth |-> d.depth + 1])
                  ELSE items
  PROVE  Kept(d, r)'
<1>1. /\ items \in Seq(Queued) /\ Len(items) \in Nat /\ Len(items) <= MaxDirs
      /\ d.depth \in Nat /\ d.depth <= MaxDepth /\ MaxDirs \in Nat /\ MaxDepth \in Nat
  BY InWork, IsoAssumption DEF QueueInv
<1>2. CASE Queues(r)
  <2> DEFINE x == [extent |-> r.extent, size |-> r.size, depth |-> d.depth + 1]
             l == Len(items) + 1
  <2>1. items' = Append(items, x) /\ x.extent = r.extent /\ x.size = r.size
    BY <1>2
  <2> HIDE DEF x
  <2>2. l \in DOMAIN items' /\ items'[l] = x
    BY <1>1, <2>1
  <2>3. Seen(r)'
    BY <2>1, <2>2 DEF Seen
  <2> QED BY <2>3 DEF Kept
<1>3. CASE ~Queues(r)
  <2>1. items' = items
    BY <1>3
  <2>2. IsSubdirectory(r) =>
          Seen(r) \/ ~(d.depth < MaxDepth) \/ ~(Len(items) < MaxDirs)
    BY <1>3 DEF Queues
  <2>3. IsSubdirectory(r) => Seen(r) \/ d.depth = MaxDepth \/ Len(items) = MaxDirs
    BY <1>1, <2>2
  <2> QED BY <2>1, <2>3 DEF Kept, Seen, IsSubdirectory
<1> QED BY <1>2, <1>3

\* A record that is scanned is in the information, and what it leads to in the
\* queue.
LEMMA RecordNotes ==
  ASSUME DirInv, QueueInv, QueueInv', isoPhase = "records", ~RecordsEnd(Record),
         info' = Scanned(info, Record), pos' = pos + Record.length,
         items' = IF Queues(Record)
                  THEN Append(items, [extent |-> Record.extent, size |-> Record.size,
                                      depth |-> Item.depth + 1])
                  ELSE items,
         UNCHANGED <<isoFile, isoPhase, index, item_index, offset, inside>>
  PROVE  DirInv'
<1>1. PICK r, d, k : r = Record /\ d = Item /\ k = offset \div SectorSize
  OBVIOUS
<1> DEFINE records == Sector(d, k)
           bytes == Bytes(d, k)
<1>2. /\ k \in Nat /\ k \in 0 .. (d.size - 1) \div SectorSize
      /\ bytes \in Int /\ bytes <= SectorSize /\ AtStart(records, bytes, pos)
      /\ \A p \in DOMAIN records : records[p].length \in Nat
      /\ Whole(records, bytes, pos) /\ r = records[pos] /\ IsRecord(r)
  BY <1>1, RecordInWork
<1>3. /\ item_index \in 1 .. Len(items) /\ Len(items) \in Nat /\ items # <<>>
      /\ d = items[item_index] /\ items \in Seq(Queued) /\ d.depth \in Nat
  BY <1>1, InWork DEF QueueInv
<1>4. items' = items \/ \E x \in Queued : items' = Append(items, x)
  <2>1. r.extent \in Dwords /\ r.size \in Dwords
    BY <1>2 DEF IsRecord, IsExtent
  <2>2. d.depth + 1 \in Nat
    BY <1>3
  <2>3. [extent |-> r.extent, size |-> r.size, depth |-> d.depth + 1] \in Queued
    BY <2>1, <2>2 DEF Queued
  <2>4. \/ items' = items
        \/ items' = Append(items, [extent |-> r.extent, size |-> r.size,
                                   depth |-> d.depth + 1])
    BY <1>1
  <2> QED BY <2>3, <2>4
<1>5. /\ \A i \in 1 .. Len(items) : items'[i] = items[i]
      /\ items' # <<>> /\ Len(items') <= MaxDirs
  <2>1. Len(items') <= MaxDirs
    BY DEF QueueInv, QueueSound
  <2>2. CASE items' = items
    BY <1>3, <2>1, <2>2
  <2>3. CASE items' # items
    BY <1>3, <1>4, <2>1, <2>3, AppendFacts
  <2> QED BY <2>2, <2>3
<1>6. Item' = d
  BY <1>3, <1>5 DEF Item
<1>7. DirectoriesNoted
  BY <1>3 DEF DirInv, Scanning
<1>8. /\ Primary' = Primary /\ \A e : Shown(e)' = Shown(e)
      /\ \A e, j, n : ShownIn(e, j, n)' = ShownIn(e, j, n)
      /\ \A e, j : Sector(e, j)' = Sector(e, j)
  BY DirectoriesKept
<1>9. isoFile \in Images /\ DOMAIN NoInfo \subseteq DOMAIN info /\ info.name \in Nat
  BY DEF DirInv
<1>10. /\ DOMAIN NoInfo \subseteq DOMAIN info' /\ info'.name \in Nat /\ Told(info', r)
       /\ \A q : IsRecord(q) /\ Told(info, q) => Told(info', q)
       /\ \A t \in info'.traits : t \in info.traits \/ (Telling(r) /\ t \in r.traits)
  BY <1>1, <1>2, <1>9, ScannedTells
<1>11. AtStart(records, bytes, pos') /\ ShownIn(d, k, pos') = ShownIn(d, k, pos) \cup {r}
  <2>1. pos' = pos + records[pos].length
    BY <1>1, <1>2
  <2>2. \A n : ShownIn(d, k, n) = Chain(records, bytes, n)
    BY DEF ShownIn
  <2> HIDE DEF records, bytes
  <2>3. /\ AtStart(records, bytes, pos')
        /\ Chain(records, bytes, pos') = Chain(records, bytes, pos) \cup {records[pos]}
    BY <1>2, <2>1, ChainGrows
  <2> QED BY <1>2, <2>2, <2>3
<1>12. Current' = Current \cup {r}
  <2> DEFINE Before == UNION {ShownIn(d, j, SectorSize) : j \in 0 .. k - 1}
  <2>1. Current = Before \cup ShownIn(d, k, pos)
    BY <1>1 DEF Current
  <2>2. Current' = Before \cup ShownIn(d, k, pos')
    BY <1>1, <1>6, <1>8 DEF Current
  <2> QED BY <1>11, <2>1, <2>2
<1>13. \A e, q : Kept(e, q) => Kept(e, q)'
  BY <1>4, <1>5, KeptStays
<1>14. Kept(d, r)'
  BY <1>1, RecordKept
<1>15. \A q \in Primary' : Told(info, q)'
  BY <1>8, <1>9, <1>10, <1>7, RecordTypes DEF DirectoriesNoted, Told, Telling
<1>16. ASSUME NEW i \in 1 .. item_index', NEW q \in PassedOf(i)'
       PROVE  Told(info, q)' /\ Kept(items[i], q)'
  <2>1. i \in 1 .. item_index /\ items'[i] = items[i]
    BY <1>3, <1>5
  <2>2. CASE q \in PassedOf(i)
    <3>1. Told(info, q) /\ Kept(items[i], q)
      BY <1>7, <2>1, <2>2 DEF DirectoriesNoted
    <3>2. Told(info', q)
      BY <1>9, <1>10, <2>2, <3>1, RecordTypes
    <3>3. PICK e : e = items[i]
      OBVIOUS
    <3>4. Kept(e, q)'
      BY <1>13, <3>1, <3>3
    <3> QED BY <2>1, <3>2, <3>3, <3>4 DEF Told, Telling
  <2>3. CASE q \notin PassedOf(i)
    <3>1. i = item_index /\ q = r
      BY <1>8, <1>12, <1>16, <2>1, <2>3 DEF PassedOf
    <3> QED BY <1>3, <1>10, <1>14, <2>1, <3>1 DEF Told, Telling
  <2> QED BY <2>2, <2>3
<1>17. ASSUME NEW t \in info'.traits
       PROVE  \E q \in Primary' \cup UNION {Shown(items[i])' : i \in 1 .. item_index'} :
                Telling(q) /\ t \in q.traits
  <2>1. \A i \in 1 .. item_index' : Shown(items[i])' = Shown(items[i])
    BY <1>3, <1>5, <1>8
  <2>2. UNION {Shown(items[i])' : i \in 1 .. item_index'}
          = UNION {Shown(items[i]) : i \in 1 .. item_index}
    BY <2>1
  <2>3. CASE t \in info.traits
    BY <1>7, <1>8, <2>2, <2>3 DEF DirectoriesNoted
  <2>4. CASE Telling(r) /\ t \in r.traits
    <3>1. r \in ShownIn(d, k, SectorSize)
      <4>1. pos \in 0 .. SectorSize - 1 /\ Starts(records, bytes)[pos]
        BY <1>2, IsoAssumption DEF AtStart, Whole
      <4> QED BY <1>2, <4>1 DEF ShownIn, Chain
    <3>2. r \in Shown(d)
      BY <1>2, <3>1 DEF Shown
    <3>3. r \in UNION {Shown(items[i]) : i \in 1 .. item_index}
      BY <1>3, <3>2
    <3> QED BY <2>2, <2>4, <3>3
  <2> QED BY <1>10, <1>17, <2>3, <2>4
<1>18. DirectoriesNoted'
  BY <1>15, <1>16, <1>17 DEF DirectoriesNoted, Telling
<1>19. AtStart(Sector(Item, offset \div SectorSize)', Bytes(Item, offset \div SectorSize)',
               pos')
  <2>1. Sector(Item, offset \div SectorSize)' = Sector(d, k)
        /\ Bytes(Item, offset \div SectorSize)' = Bytes(d, k)
    BY <1>1, <1>6, <1>8
  <2> QED BY <1>11, <2>1
<1>20. offset' \in Dwords /\ offset' % SectorSize = 0 /\ offset' < Item'.size
  BY <1>1, <1>6 DEF DirInv
<1>21. isoPhase' \notin {"open", "descriptors"} \cup AfterScan
  BY DEF AfterScan
<1> QED BY <1>9, <1>10, <1>18, <1>19, <1>20, <1>21 DEF DirInv

\* A record that is passed is noted, and queued when it is a directory not seen before
\* and the limits allow (fx_iso_scan_directories).
LEMMA ScanRecordNotes ==
  ASSUME DirInv, QueueInv, ScanRecord
  PROVE  DirInv'
<1>1. isoPhase = "records"
  BY DEF ScanRecord
<1>2. CASE RecordsEnd(Record) /\ SectorEnds
  BY <1>1, <1>2, SectorEndsNotes
<1>3. CASE ~(RecordsEnd(Record) /\ SectorEnds)
  <2>1. QueueInv'
    BY QueueStep DEF IsoNext
  <2> QED BY <1>1, <1>3, <2>1, RecordNotes DEF ScanRecord
<1> QED BY <1>2, <1>3

\* UDF and the boot catalogue write other fields.
LEMMA LaterReadersNote ==
  ASSUME DirInv, QueueInv,
         \/ ReadVrs \/ TryAnchor \/ ReadSequence \/ ReadCatalog \/ ReadEntry
         \/ ReadSection \/ FinishIso
  PROVE  DirInv'
<1>1. DOMAIN NoInfo \subseteq DOMAIN info
  BY DEF DirInv
<1>2. /\ isoPhase \in AfterScan /\ isoPhase' \in AfterScan \cup {"failed"}
      /\ UNCHANGED <<isoFile, items, item_index>>
  <2>1. CASE ReadVrs \/ TryAnchor \/ ReadSequence
    BY <2>1 DEF ReadVrs, TryAnchor, ReadSequence, UdfEnds, AfterScan
  <2>2. CASE ReadCatalog \/ ReadEntry
    BY <2>2 DEF ReadCatalog, ReadEntry, CatalogEnds, AfterScan
  <2>3. CASE ReadSection \/ FinishIso
    BY <2>3 DEF ReadSection, SectionEnds, CatalogEnds, FinishIso, AfterScan
  <2> QED BY <2>1, <2>2, <2>3
<1>3. \/ info' = info \/ info' = [info EXCEPT !.udf = TRUE]
      \/ \E v : info' = [info EXCEPT !.version = v]
      \/ \E h : info' = [info EXCEPT !.hybrid = h]
      \/ \E p, q : info' = [info EXCEPT !.platform = p, !.platforms = q]
      \/ \E p, q, n : info' = WithImage([info EXCEPT !.platform = p, !.platforms = q], p, n)
      \/ \E p, n : info' = WithImage(info, p, n)
  <2>1. CASE ReadVrs
    BY <2>1 DEF ReadVrs
  <2>2. CASE TryAnchor
    BY <2>2 DEF TryAnchor, UdfEnds
  <2>3. CASE ReadSequence
    BY <2>3 DEF ReadSequence, UdfEnds
  <2>4. CASE ReadCatalog
    <3> DEFINE p == Entry(1).platform
               q == info.platforms \cup {p}
    <3>1. \/ info' = info
          \/ info' = WithImage([info EXCEPT !.platform = p, !.platforms = q], p, 2)
      BY <2>4 DEF ReadCatalog, CatalogEnds
    <3> HIDE DEF p, q
    <3> QED BY <3>1
  <2>5. CASE ReadEntry
    BY <2>5 DEF ReadEntry, CatalogEnds
  <2>6. CASE ReadSection
    <3>1. info' = info \/ info' = WithImage(info, info.platform, index)
      BY <2>6 DEF ReadSection, SectionEnds, CatalogEnds
    <3> QED BY <3>1
  <2>7. CASE FinishIso
    BY <2>7 DEF FinishIso
  <2> QED BY <2>1, <2>2, <2>3, <2>4, <2>5, <2>6, <2>7
<1>4. /\ DOMAIN NoInfo \subseteq DOMAIN info'
      /\ info'.traits = info.traits /\ info'.name = info.name
  <2>1. ASSUME NEW p, NEW q
        PROVE  LET i == [info EXCEPT !.platform = p, !.platforms = q]
               IN  /\ DOMAIN NoInfo \subseteq DOMAIN i
                   /\ i.traits = info.traits /\ i.name = info.name
    BY <1>1 DEF NoInfo
  <2>2. CASE \E p, q, n :
               info' = WithImage([info EXCEPT !.platform = p, !.platforms = q], p, n)
    <3>1. PICK p, q, n :
            info' = WithImage([info EXCEPT !.platform = p, !.platforms = q], p, n)
      BY <2>2
    <3> DEFINE i == [info EXCEPT !.platform = p, !.platforms = q]
    <3>2. DOMAIN NoInfo \subseteq DOMAIN i /\ i.traits = info.traits /\ i.name = info.name
      BY <2>1
    <3>3. info' = WithImage(i, p, n)
      BY <3>1
    <3> HIDE DEF i
    <3> QED BY <3>2, <3>3, OthersKeep
  <2>3. CASE \E p, n : info' = WithImage(info, p, n)
    BY <1>1, <2>3, OthersKeep
  <2>4. CASE \E p, q : info' = [info EXCEPT !.platform = p, !.platforms = q]
    BY <2>1, <2>4
  <2>5. CASE \/ info' = info \/ info' = [info EXCEPT !.udf = TRUE]
             \/ \E v : info' = [info EXCEPT !.version = v]
             \/ \E h : info' = [info EXCEPT !.hybrid = h]
    BY <1>1, <2>5 DEF NoInfo
  <2> QED BY <1>3, <2>2, <2>3, <2>4, <2>5
<1> QED BY <1>2, <1>4, DirectoriesStay

\* At the start nothing is noted.
LEMMA DirStart == IsoInit => DirInv
BY IsoAssumption DEF IsoInit, DirInv, NoInfo, Scanning, AfterScan

\* Every step of the parser keeps what was noted.
LEMMA DirStep == QueueInv /\ DirInv /\ [IsoNext]_isoVars => DirInv'
<1> SUFFICES ASSUME QueueInv, DirInv, [IsoNext]_isoVars PROVE DirInv'
  OBVIOUS
<1>1. CASE OpenImage
  <2>1. CASE IsoFails
    BY <2>1, DirectoriesFail DEF IsoFails
  <2>2. CASE ~IsoFails
    <3>1. /\ isoPhase = "open" /\ isoPhase' = "descriptors"
          /\ UNCHANGED <<isoFile, index, info, items, item_index, offset, pos, inside>>
      BY <1>1, <2>2 DEF OpenImage
    <3>2. index' = 0 /\ info' = NoInfo
      BY <3>1 DEF DirInv
    <3>3. 0 \in 0 .. MaxDescriptors /\ 0 .. 0 - 1 = {}
      BY IsoAssumption
    <3>4. 0 .. index' - 1 = {}
      BY <3>2, <3>3
    <3>5. PrimaryOf(index)' = {}
      BY <3>4 DEF PrimaryOf
    <3>6. info'.traits = {} /\ info'.iso9660 = FALSE
      BY <3>2 DEF NoInfo
    <3>7. DescriptorsNoted'
      BY <3>2, <3>3, <3>4, <3>5, <3>6 DEF DescriptorsNoted
    <3> QED BY <3>1, <3>7 DEF DirInv, Scanning, AfterScan
  <2> QED BY <2>1, <2>2
<1>2. CASE ReadDescriptor
  BY <1>2, ReadDescriptorNotes
<1>3. CASE TakeItem
  BY <1>3, TakeItemNotes
<1>4. CASE ReadDirectorySector
  BY <1>4, ReadDirectorySectorNotes
<1>5. CASE ScanRecord
  BY <1>5, ScanRecordNotes
<1>6. CASE ReadVrs \/ TryAnchor \/ ReadSequence \/ ReadCatalog \/ ReadEntry
           \/ ReadSection \/ FinishIso
  BY <1>6, LaterReadersNote
<1>7. CASE UNCHANGED isoVars
  <2>1. UNCHANGED <<isoFile, isoPhase, index, info, items, item_index, offset, pos, inside>>
    BY <1>7 DEF isoVars
  <2>2. Item' = Item
    BY <2>1 DEF Item
  <2>3. Current' = Current
    BY <2>1, <2>2, DirectoriesKept DEF Current
  <2>4. \A i : PassedOf(i)' = PassedOf(i)
    BY <2>1, <2>3, DirectoriesKept DEF PassedOf
  <2>5. ASSUME DirectoriesNoted PROVE DirectoriesNoted'
    <3>1. item_index \in Nat
      BY DEF QueueInv
    <3> QED BY <2>1, <2>4, <2>5, <3>1, NotedStays
  <2>6. ASSUME DescriptorsNoted PROVE DescriptorsNoted'
    BY <2>1, <2>6, DirectoriesKept, FileKept DEF DescriptorsNoted
  <2>7. \A d, k : Sector(d, k)' = Sector(d, k)
    BY <2>1, DirectoriesKept
  <2>8. isoPhase = "records" =>
          LET k == offset \div SectorSize
          IN  AtStart(Sector(Item, k)', Bytes(Item, k)', pos')
    BY <2>1, <2>2, <2>7 DEF DirInv
  <2> QED BY <2>1, <2>2, <2>5, <2>6, <2>8 DEF DirInv
<1> QED BY <1>1, <1>2, <1>3, <1>4, <1>5, <1>6, <1>7 DEF IsoNext

\* At the end of the scan, what was noted is complete.
LEMMA DirGives == QueueInv /\ DirInv => DirectoriesComplete
<1> SUFFICES ASSUME QueueInv, DirInv, items # <<>>,
                    isoPhase \in {"vrs", "anchors", "catalog", "hybrid", "done"}
             PROVE  LET records == Primary \cup UNION {Shown(items[i]) : i \in DOMAIN items}
                    IN  /\ item_index = Len(items)
                        /\ \A i \in DOMAIN items : \A r \in Shown(items[i]) :
                             Kept(items[i], r)
                        /\ \A r \in records : Told(info, r)
                        /\ info.traits
                             \subseteq UNION {r.traits : r \in {s \in records : Telling(s)}}
  BY DEF DirectoriesComplete
<1>1. DirectoriesNoted /\ item_index = Len(items)
  BY DEF DirInv, AfterScan
<1>2. DOMAIN items = 1 .. item_index
  BY <1>1, QueueTypes
<1>3. \A i : PassedOf(i) = Shown(items[i])
  BY DEF PassedOf
<1>4. \A i \in DOMAIN items : \A r \in Shown(items[i]) : Told(info, r) /\ Kept(items[i], r)
  BY <1>1, <1>2, <1>3 DEF DirectoriesNoted
<1> DEFINE records == Primary \cup UNION {Shown(items[i]) : i \in DOMAIN items}
<1>5. \A r \in records : Told(info, r)
  BY <1>1, <1>4 DEF DirectoriesNoted
<1>6. \A t \in info.traits : \E r \in records : Telling(r) /\ t \in r.traits
  BY <1>1, <1>2 DEF DirectoriesNoted
<1> HIDE DEF records
<1>7. info.traits \subseteq UNION {r.traits : r \in {s \in records : Telling(s)}}
  BY <1>6
<1> QED BY <1>1, <1>4, <1>5, <1>7 DEF records

\* fx_iso_scan_directories (iso.c:484-565): for any image and any limits, a
\* subdirectory that a directory of the queue shows is queued too unless it lies
\* too deep or the queue is full, and the features and the longest name shown
\* are those of the records passed, none missed and none added.
THEOREM DirectoriesAreComplete == IsoSpec => []DirectoriesComplete
<1>1. QueueInv /\ DirInv /\ [IsoNext]_isoVars => (QueueInv /\ DirInv)'
  BY QueueStep, DirStep
<1>2. IsoInit => QueueInv /\ DirInv
  BY QueueInit, DirStart
<1> QED BY <1>1, <1>2, DirGives, PTL DEF IsoSpec

-----------------------------------------------------------------------------
(* The page that starts them (Viewers).  A viewer that has not begun is in  *)
(* one of its initial states, and one that works leaves the others alone.   *)

ViewersInv == /\ ChainInv /\ RowsInv
              /\ IcoTypeOK /\ IcoInv
              /\ EfiInv
              /\ QueueInv /\ UdfInv /\ BootInv /\ DirInv

\* Idle or chosen, every viewer starts as its own specification says.
LEMMA ViewersStart == ViewersInit => Init /\ EfiInit /\ IcoInit /\ IsoInit
<1>1. AnyDll \in Files /\ AnyEfi \in EfiFiles /\ AnyIco \in IcoFiles /\ AnyIso \in Images
  BY ViewersAssumption DEF AnyDll, AnyEfi, AnyIco, AnyIso
<1>2. DllIdle => Init
  BY <1>1 DEF DllIdle, Init
<1>3. EfiIdle => EfiInit
  BY <1>1 DEF EfiIdle, EfiInit
<1>4. IcoIdle => IcoInit
  BY <1>1 DEF IcoIdle, IcoInit
<1>5. IsoIdle => IsoInit
  BY <1>1 DEF IsoIdle, IsoInit
<1> QED
  BY <1>2, <1>3, <1>4, <1>5 DEF ViewersInit

\* A step of the page is one of each viewer, or leaves it as it is.
LEMMA ViewersMove ==
  [ViewersNext]_viewerVars => /\ [Next]_exportVars
                              /\ [EfiNext]_efiVars
                              /\ [IcoNext]_icoVars
                              /\ [IsoNext]_isoVars
<1>1. FindHandler => UNCHANGED <<exportVars, efiVars, icoVars, isoVars>>
  BY DEF FindHandler
<1>2. LoadDll => Next /\ UNCHANGED <<efiVars, icoVars, isoVars>>
  BY DEF LoadDll
<1>3. LoadEfi \/ Replaced => EfiNext /\ UNCHANGED <<exportVars, icoVars, isoVars>>
  BY DEF LoadEfi, Replaced, EfiNext
<1>4. LoadIco => IcoNext /\ UNCHANGED <<exportVars, efiVars, isoVars>>
  BY DEF LoadIco
<1>5. LoadIso => IsoNext /\ UNCHANGED <<exportVars, efiVars, icoVars>>
  BY DEF LoadIso
<1>6. UNCHANGED viewerVars => UNCHANGED <<exportVars, efiVars, icoVars, isoVars>>
  BY DEF viewerVars
<1> QED
  BY <1>1, <1>2, <1>3, <1>4, <1>5, <1>6 DEF ViewersNext, ViewerStep

\* Whichever viewer the extension chooses, in the page as alone: the .dll
\* lists and rows are exact, the previews of an .ico are its own, an .efi is
\* read inside the file that is mapped and its text shown whole, and the
\* directories of an .iso are
\* queued once, in bounds and completely, its UDF version and its boot images
\* are the volume's (pagectrl.c:160, extensions.c:31).
THEOREM EveryViewerIsSound ==
  ViewersSpec =>
    [](/\ ChainsSound /\ RowsExact /\ IconsSound /\ EfiSound
       /\ QueueSound /\ DirectoriesComplete /\ UdfExact /\ BootExact)
<1>1. ViewersInit => ViewersInv
  <2> SUFFICES ASSUME ViewersInit PROVE ViewersInv
    OBVIOUS
  <2>1. Init /\ EfiInit /\ IcoInit /\ IsoInit
    BY ViewersStart
  <2> QED
    BY <2>1, ChainStart, RowsStart, IcoStart, EfiStart, QueueInit,
       UdfStart, BootStart, DirStart DEF ViewersInv
<1>2. ViewersInv /\ [ViewersNext]_viewerVars => ViewersInv'
  <2> SUFFICES ASSUME ViewersInv, [ViewersNext]_viewerVars PROVE ViewersInv'
    OBVIOUS
  <2>1. /\ [Next]_exportVars /\ [EfiNext]_efiVars
        /\ [IcoNext]_icoVars /\ [IsoNext]_isoVars
    BY ViewersMove
  <2>2. ChainInv' /\ RowsInv'
    BY <2>1, ChainStep, RowsStep DEF ViewersInv
  <2>3. IcoTypeOK' /\ IcoInv'
    BY <2>1, IcoStep DEF ViewersInv
  <2>4. EfiInv'
    BY <2>1, EfiStepSound DEF ViewersInv
  <2>5. QueueInv'
    BY <2>1, QueueStep DEF ViewersInv
  <2>6. UdfInv' /\ BootInv' /\ DirInv'
    BY <2>1, UdfStep, BootStep, DirStep DEF ViewersInv
  <2> QED
    BY <2>2, <2>3, <2>4, <2>5, <2>6 DEF ViewersInv
<1>3. ViewersInv => /\ ChainsSound /\ RowsExact /\ IconsSound /\ EfiSound
                    /\ QueueSound /\ DirectoriesComplete /\ UdfExact /\ BootExact
  <2> SUFFICES ASSUME ViewersInv
               PROVE  /\ ChainsSound /\ RowsExact /\ IconsSound /\ EfiSound
                      /\ QueueSound /\ DirectoriesComplete /\ UdfExact /\ BootExact
    OBVIOUS
  <2>1. ChainsSound /\ RowsExact
    BY RowsGive DEF ViewersInv, ChainInv
  <2>2. IconsSound /\ EfiSound /\ QueueSound
    BY RowsDraw DEF ViewersInv, EfiInv, QueueInv
  <2>3. UdfExact /\ BootExact /\ DirectoriesComplete
    BY UdfGives, BootGives, DirGives DEF ViewersInv
  <2> QED
    BY <2>1, <2>2, <2>3
<1> QED
  BY <1>1, <1>2, <1>3, PTL DEF ViewersSpec

=============================================================================
