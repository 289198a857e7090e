----------------------------- MODULE Extensions -----------------------------
(***************************************************************************)
(* The registry of viewers (FileXRay/extensions/extensions.c): which one   *)
(* shows a file, by its extension.  An extension is an element of Names;   *)
(* Fold is what it becomes when case does not count.                       *)
(***************************************************************************)
EXTENDS Integers, Sequences

CONSTANTS Names,  \* the extensions a path can have
          Fold    \* _wcsicmp compares what this maps to

Handlers == <<".dll", ".efi", ".exe", ".ico", ".iso">>
NoHandler == "no handler"

ASSUME NamesAssumption == Names \subseteq DOMAIN Fold

\* fx_extension_find: the first entry that matches.
Find(name) ==
  LET matches == {i \in DOMAIN Handlers : Handlers[i] = Fold[name]}
  IN  IF matches = {} THEN NoHandler
      ELSE Handlers[CHOOSE i \in matches : \A j \in matches : i <= j]
=============================================================================
