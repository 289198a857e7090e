------------------------------ MODULE MCPeImage ------------------------------
(***************************************************************************)
(* PeImage with every structure one or two bytes long, so that a file of   *)
(* at most nine bytes has every structure end before, at and behind its    *)
(* end, and RVAs of three bits.                                            *)
(***************************************************************************)
EXTENDS PeImage

MCCountEnd == [b \in {32, 64} |-> IF b = 32 THEN 2 ELSE 3]
MCDirStart == MCCountEnd
MCDwords == 0 .. 7

\* Headers that vary, with no section or one.
HeaderFiles ==
  [size : 0 .. 6, dos : BOOLEAN, lfanew : {-1, 0, 2}, nt : BOOLEAN,
   optSize : {0, 1, 2, 4}, magic : {0, 32, 64}, headers : {3}, dirs : {0, 2},
   sections : {<<>>, <<[va |-> 4, vsize |-> 1, raw |-> 1, ptr |-> 2]>>}]

\* Sections that vary: they may overlap, lie in the headers, reach past the
\* file, have no bytes, or more bytes than addresses.
Sections == [va : {1, 4}, vsize : {0, 3}, raw : {0, 2, 4}, ptr : {3, 8}]
SectionFiles ==
  [size : {9}, dos : {TRUE}, lfanew : {1}, nt : {TRUE}, optSize : {2},
   magic : {32}, headers : {0, 2}, dirs : {0},
   sections : {<<s, t>> : s, t \in Sections}]

MCFiles == HeaderFiles \cup SectionFiles
=============================================================================
