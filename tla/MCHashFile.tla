----------------------------- MODULE MCHashFile -----------------------------
(* Every choice of algorithms over files of up to six bytes, in up to four  *)
(* buffers, of bytes with no, all, the lowest and the highest bit set.      *)
EXTENDS HashFile

MCSelections == SUBSET Algorithms
MCBuffers == {<<{}, {7}>>, <<0 .. 7>>, <<{0}, {0, 4, 5}, {}>>}
=============================================================================
