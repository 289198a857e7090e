----------------------------- MODULE ApiSetMap -----------------------------
(***************************************************************************)
(* The look-up of an API set in the process's map (FileXRay/extensions/    *)
(* exe.c, fx_exe_resolve_api_set): a hash of the name up to its last       *)
(* hyphen, a binary search of the table of hashes, and the entry the table *)
(* leads to.  The map itself is Windows'.                                  *)
(*                                                                         *)
(* A name is the sequence of its letters, in lower case, without ".dll".   *)
(* A variant before the definition it varies is a fault no specification   *)
(* uses; README.md says which property rejects it.                         *)
(***************************************************************************)
EXTENDS Integers, Sequences

CONSTANTS
  Hyphen,      \* the letter
  HashModulus, \* 2^32
  NoName       \* an empty host, and no host

\* wcsrchr
Stem(name) ==
  LET hyphens == {i \in DOMAIN name : name[i] = Hyphen}
  IN  IF hyphens = {} THEN name
      ELSE SubSeq(name, 1, (CHOOSE i \in hyphens : \A j \in hyphens : j <= i) - 1)

HashOf(factor, name) ==
  LET hash[i \in 0 .. Len(name)] ==
        IF i = 0 THEN 0 ELSE (hash[i - 1] * factor + name[i]) % HashModulus
  IN  hash[Len(name)]

\* The index in the table where the hash is, or none: 0, as indices of entries
\* start at 1 here.  What is searched is behind the first r[1], up to r[2].
Ranges(hashes) == (0 .. Len(hashes)) \X (0 .. Len(hashes))
Middle(r) == r[1] + (r[2] - r[1]) \div 2

SearchBeforeMiddle(hashes, hash) ==
  LET search[r \in Ranges(hashes)] ==
        LET mid == Middle(r)
            found == hashes[mid + 1]
        IN  IF r[1] >= r[2] THEN 0
            ELSE IF found.hash = hash THEN found.index
            ELSE IF found.hash < hash THEN search[<<mid + 1, r[2]>>]
            ELSE IF mid = 0 THEN 0 ELSE search[<<r[1], mid - 1>>]
  IN  search[<<0, Len(hashes)>>]
Search(hashes, hash) ==
  LET search[r \in Ranges(hashes)] ==
        LET mid == Middle(r)
            found == hashes[mid + 1]
        IN  IF r[1] >= r[2] THEN 0
            ELSE IF found.hash = hash THEN found.index
            ELSE IF found.hash < hash THEN search[<<mid + 1, r[2]>>]
            ELSE search[<<r[1], mid>>]
  IN  search[<<0, Len(hashes)>>]

\* The name of an entry is the part that is hashed.
Matches(entry, name) ==
  Len(entry.name) <= Len(name) /\ SubSeq(name, 1, Len(entry.name)) = entry.name

\* The last value is the default host.
Default(entry) == entry.values[Len(entry.values)]

ResolveApiSet(map, name) ==
  LET index == Search(map.hashes, HashOf(map.factor, Stem(name)))
      entry == map.entries[index]
  IN  IF /\ map.version = 6 /\ index \in DOMAIN map.entries
         /\ Matches(entry, name) /\ Len(entry.values) > 0
      THEN Default(entry) ELSE NoName

\* What Windows promises of a map: the hashes are in order, each leads to the
\* entry it is the hash of, and no entry is left out.
WellFormed(map) ==
  /\ \A i, j \in DOMAIN map.hashes : i < j => map.hashes[i].hash < map.hashes[j].hash
  /\ \A i \in DOMAIN map.hashes :
       /\ map.hashes[i].index \in DOMAIN map.entries
       /\ map.hashes[i].hash = HashOf(map.factor, map.entries[map.hashes[i].index].name)
  /\ \A e \in DOMAIN map.entries : \E i \in DOMAIN map.hashes : map.hashes[i].index = e

\* In such a map the host is found of every set that is in it, wherever it
\* stands, and what is found is the host of an entry the name continues.
FoundIn(map, name, host) ==
  /\ \A e \in DOMAIN map.entries :
       LET entry == map.entries[e]
       IN  entry.name = Stem(name) /\ entry.values # <<>> => host = Default(entry)
  /\ host # NoName => \E e \in DOMAIN map.entries :
       /\ Matches(map.entries[e], name) /\ map.entries[e].values # <<>>
       /\ host = Default(map.entries[e])
=============================================================================
