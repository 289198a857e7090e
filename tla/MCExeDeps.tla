----------------------------- MODULE MCExeDeps -----------------------------
(***************************************************************************)
(* Four names for a table of two, so that each pass meets a full table: an *)
(* API set and one that may be in the map or not; two places to search,    *)
(* and an assembly directory.  The maps have none to three of three sets,  *)
(* in the order of their hashes; one is of an old version.                 *)
(***************************************************************************)
EXTENDS ExeDeps, TLC
LOCAL INSTANCE SequencesExt

CONSTANTS a, b, api, ext

MCNames == {a, b, api, ext}
MCApiSets == {api, ext}
MCSpelling == api :> <<1, 3, 2>> @@ ext :> <<2, 1, 3, 1, 3, 1>>

MCEntries == {[name |-> <<1>>, values |-> <<a, b>>],
              [name |-> <<2, 1, 3, 1>>, values |-> <<NoName>>],
              [name |-> <<2, 2>>, values |-> <<>>],
              [name |-> <<2>>, values |-> <<a>>]}
MCMap(version, entries) ==
  LET ByHash(x, y) == HashOf(5, x.name) < HashOf(5, y.name)
      sorted == SetToSortSeq(entries, ByHash)
      n == Len(sorted)
  IN  [version |-> version, factor |-> 5, entries |-> Reverse(sorted),
       hashes |-> [i \in 1 .. n |-> [hash |-> HashOf(5, sorted[i].name),
                                     index |-> n + 1 - i]]]
MCMaps == {MCMap(6, s) : s \in SUBSET MCEntries} \cup {MCMap(5, MCEntries)}
MCDisks == SUBSET {<<0, a>>, <<1, a>>, <<2, a>>, <<2, b>>, <<1, api>>}
=============================================================================
