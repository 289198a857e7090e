---------------------------- MODULE MCPeImports ----------------------------
(***************************************************************************)
(* PeImports on an address space of 20.  In a plain file an RVA is the     *)
(* offset: 3 to 5 has the names, of which the last is not terminated; the  *)
(* regular descriptors start at 6, two bytes each, the delay-load ones, of *)
(* three bytes, at 12, in parts that end within, at and behind one of      *)
(* them; 16 to 19 has the thunks, and a chain that has no end there goes   *)
(* on at 0.  In a crossed file the parts lie elsewhere, share bytes, and   *)
(* others before them in the section table hide some of their addresses.   *)
(* Chains and tables reach their limits.                                   *)
(***************************************************************************)
EXTENDS PeImports

MCDescriptorSize == [p \in {"imports", "delay"} |-> IF p = "imports" THEN 2 ELSE 3]
MCThunkSize == [b \in {32, 64} |-> IF b = 32 THEN 1 ELSE 2]

Zero == [name |-> 0, table |-> 0, fallback |-> 0, rest |-> FALSE, rvas |-> FALSE]
First == [Zero EXCEPT !.name = 3, !.table = 16, !.fallback = 18, !.rvas = TRUE]
Second == [Zero EXCEPT !.name = 4, !.fallback = 18, !.rest = TRUE, !.rvas = TRUE]
Nameless == [First EXCEPT !.name = 0]
Unnamed == [First EXCEPT !.name = 5]
Chainless == [Second EXCEPT !.fallback = 0]
Stamp == [Zero EXCEPT !.rest = TRUE]
Vas == [First EXCEPT !.rvas = FALSE]
Astray == [First EXCEPT !.table = 15]
Descriptors == {Zero, First, Second, Nameless, Unnamed, Chainless, Stamp, Vas, Astray}

Offsets == 0 .. 25
Table(start, size, d, e) ==
  [o \in Offsets |-> IF o = start THEN d ELSE IF o = start + size THEN e ELSE Second]

Values == {[kind |-> "end", at |-> 0], [kind |-> "ordinal", at |-> 0],
           [kind |-> "name", at |-> 3]}
Broken == [kind |-> "name", at |-> 4]
ThunksAt(cells) == {[o \in Offsets |-> IF o \in cells THEN c[o] ELSE Broken] :
                      c \in [cells -> Values]}
Thunks(bits) ==
  ThunksAt(IF bits = 32 THEN {0, 16, 17, 18, 19} ELSE {0, 16, 18}) \cup
  {[o \in Offsets |-> IF o = 18 THEN Broken ELSE v] : v \in Values}

\* The first part that covers an address decides.
Part(start, length, offset) == [start |-> start, length |-> length, offset |-> offset]
Covers(p, a) == p.start <= a /\ a < p.start + p.length
Translated(parts) ==
  [a \in 0 .. 19 |->
     LET covering == {i \in DOMAIN parts : Covers(parts[i], a)}
     IN  IF covering = {} THEN [offset |-> 0, available |-> 0]
         ELSE LET p == parts[CHOOSE i \in covering : \A j \in covering : i <= j]
              IN  [offset |-> p.offset + a - p.start,
                   available |-> p.start + p.length - a]]

Make(bits, directory, nuls, answer, imports, delay, thunk) ==
  [bits |-> bits, directory |-> directory, nuls |-> nuls, answer |-> answer,
   descriptor |-> [p \in {"imports", "delay"} |->
                     IF p = "imports" THEN imports ELSE delay],
   thunk |-> thunk]

Plain(n, m) == <<Part(0, 2, 0), Part(3, 3, 3), Part(6, n, 6), Part(12, m, 12),
                 Part(16, 4, 16)>>
PlainAnswers == [n \in 1 .. 6, m \in 2 .. 4 |-> Translated(Plain(n, m))]
PlainFile(bits, directory, n, m, imports, delay, thunk) ==
  Make(bits, directory, {4}, PlainAnswers[n, m], imports, delay, thunk)

\* A section hides the second descriptor of either table and another the third
\* thunk, which is the second one's bytes; the thunks begin among the names.
Crossed(n, m) == <<Part(8, 2, 20), Part(15, 1, 20), Part(18, 2, 6), Part(0, 2, 0),
                   Part(3, 3, 1), Part(6, n, 22), Part(12, m, 15), Part(16, 4, 5)>>
CrossedAnswers == [n \in 3 .. 4, m \in 4 .. 6 |-> Translated(Crossed(n, m))]
CrossedFile(bits, directory, n, m, imports, delay, thunk) ==
  Make(bits, directory, {2}, CrossedAnswers[n, m], imports, delay, thunk)

At(i, d) == [p \in {"imports", "delay"} |-> IF p = "imports" THEN i ELSE d]

\* Every pair of descriptors in the one table or in the other.
TableFiles ==
  {PlainFile(b, At(6, 12), n, 3, Table(6, 2, d, e), Table(12, 3, First, Zero), t) :
     b \in {32}, n \in {1, 2, 3, 4, 6}, d \in Descriptors, e \in Descriptors,
     t \in {u \in Thunks(32) : u[16] # u[18] /\ u[17].kind = "end"
                               /\ u[19].kind = "end" /\ u[0].kind = "end"}}
  \cup
  {PlainFile(b, At(0, 12), 2, n, Table(6, 2, First, Zero), Table(12, 3, d, Zero), t) :
     b \in {32}, n \in {2, 3, 4}, d \in Descriptors,
     t \in {u \in Thunks(32) : u[16] # u[18] /\ u[19].kind = "end"}}

\* Every chain, from two descriptors, and directories that are missing.
ChainFiles ==
  UNION {{PlainFile(b, At(i, d), 4, 3, Table(6, 2, First, Second),
                    Table(12, 3, Second, Zero), t) :
            i \in {6, 2, 0, -1}, d \in {12, -1}, t \in Thunks(b)} : b \in {32, 64}}

\* The same where an address is not the offset.
CrossedFiles ==
  {CrossedFile(32, At(6, 12), n, 4, Table(22, 2, First, e), Table(15, 3, Second, Zero), t) :
     n \in {3, 4}, e \in {Zero, Second, Astray}, t \in ThunksAt({0, 5, 6, 7})}
  \cup
  {CrossedFile(64, At(6, 12), 4, m, Table(22, 2, d, Second), Table(15, 3, First, Second), t) :
     m \in {4, 6}, d \in {First, Unnamed}, t \in ThunksAt({0, 5, 6, 7})}

MCFiles == TableFiles \cup ChainFiles \cup CrossedFiles
=============================================================================
