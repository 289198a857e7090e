----------------------------- MODULE RefCounted -----------------------------
(***************************************************************************)
(* What reference counting promises, whatever counts: an object is created *)
(* with one holder, gets new holders only while it has one, and is freed   *)
(* in the very step in which the last holder leaves, once.                 *)
(***************************************************************************)
CONSTANT Parties

VARIABLES object, holders

rcVars == <<object, holders>>

RCInit == object = "none" /\ holders = {}

Create == /\ object = "none"
          /\ object' = "live"
          /\ \E p \in Parties : holders' = {p}

Join == /\ object = "live" /\ holders # {}
        /\ \E p \in Parties \ holders : holders' = holders \cup {p}
        /\ UNCHANGED object

Leave == /\ object = "live"
         /\ \E p \in holders : holders' = holders \ {p}
         /\ object' = IF holders' = {} THEN "freed" ELSE "live"

RCNext == Create \/ Join \/ Leave

RCSpec == RCInit /\ [][RCNext]_rcVars
=============================================================================
