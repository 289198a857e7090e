----------------------------- MODULE MCPageHash -----------------------------
(***************************************************************************)
(* PageHash on small instances.  Two runs let an old worker meet a new     *)
(* one; a queue of two messages is often full, a queue of three holds all  *)
(* that matters of one run.  Three reads of a file of one are 300 percent, *)
(* which a DWORD of eight bits makes 44; two are 200, which is clamped.    *)
(***************************************************************************)
EXTENDS PageHash
=============================================================================
