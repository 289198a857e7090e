----------------------------- MODULE DllExports -----------------------------
(***************************************************************************)
(* The Exports page of a .dll file (FileXRay/extensions/dll.c).  A DLL has *)
(* a table of functions, some of them empty, and a table of names, each    *)
(* with the index of the function it names.  fx_dll_populate inverts the   *)
(* second one with two arrays: heads has each function's first name, next  *)
(* each name's successor.  Then it inserts one row per name, and one per   *)
(* function that has none, by function and then by name.                   *)
(*                                                                         *)
(* Indices start at 0, as in the code.  An RVA matters only as zero or     *)
(* not.  A variant before the definition it varies is a fault no           *)
(* specification uses; README.md says which property rejects it.           *)
(***************************************************************************)
EXTENDS Integers, Sequences, FiniteSets

CONSTANTS
  MaxEntries,  \* FX_DLL_MAX_EXPORT_ENTRIES
  MaxDword,
  Files        \* the export tables that may be read

NoName == -1   \* FX_DLL_NO_NAME
Unset == -2    \* what HeapAlloc returns

Indices(n) == 0 .. (n - 1)

ASSUME ExportsAssumption ==
  /\ MaxEntries \in Nat /\ MaxDword \in Nat
  /\ \A f \in Files :
       /\ f.functions \in Nat /\ f.names \in Nat /\ f.base \in Nat
       /\ f.empty \subseteq Indices(f.functions)
       /\ f.ordinal \in [Indices(f.names) -> Nat]

VARIABLES
  file,      \* the export directory: NumberOfFunctions, NumberOfNames, Base,
             \* the functions whose RVA is 0, AddressOfNameOrdinals
  phase,
  todo,      \* name_index of the loop that links the names
  heads, next,
  rowCount,
  at,        \* function_index of the loop that inserts rows
  cursor,    \* name_index in there, Unset before the first name is taken
  rows       \* <<function, name>> in the list view

exportVars == <<file, phase, todo, heads, next, rowCount, at, cursor, rows>>

Init == /\ file \in Files /\ phase = "open" /\ todo = 0
        /\ heads = <<>> /\ next = <<>> /\ rowCount = 0
        /\ at = 0 /\ cursor = Unset /\ rows = <<>>

\* Every failure ends in fx_dll_destroy, which takes the list away.
Fails == /\ phase' = "failed" /\ rows' = <<>>
         /\ UNCHANGED <<file, todo, heads, next, rowCount, at, cursor>>

TooLarge == \/ file.functions > MaxEntries \/ file.names > MaxEntries
            \/ file.names > 0 /\ file.functions = 0

ReadDirectory ==
  /\ phase = "open"
  /\ \/ TooLarge /\ Fails
     \/ /\ ~TooLarge /\ file.functions = 0 /\ phase' = "shown"
        /\ UNCHANGED <<file, todo, heads, next, rowCount, at, cursor, rows>>
     \/ /\ ~TooLarge /\ file.functions > 0 /\ phase' = "link"
        /\ todo' = file.names
        /\ heads' = [f \in Indices(file.functions) |-> NoName]
        /\ next' = [n \in Indices(file.names) |-> Unset]
        /\ UNCHANGED <<file, rowCount, at, cursor, rows>>

LinkBackwards ==
  /\ phase = "link" /\ todo > 0
  /\ LET current == file.names - todo
         function == file.ordinal[current]
     IN  \/ function >= file.functions /\ Fails
         \/ /\ function < file.functions
            /\ next' = [next EXCEPT ![current] = heads[function]]
            /\ heads' = [heads EXCEPT ![function] = current]
            /\ todo' = todo - 1
            /\ UNCHANGED <<file, phase, rowCount, at, cursor, rows>>

\* The names are linked from the last one to the first.
LinkName ==
  /\ phase = "link" /\ todo > 0
  /\ LET current == todo - 1
         function == file.ordinal[current]
     IN  \/ function >= file.functions /\ Fails
         \/ /\ function < file.functions
            /\ next' = [next EXCEPT ![current] = heads[function]]
            /\ heads' = [heads EXCEPT ![function] = current]
            /\ todo' = current
            /\ UNCHANGED <<file, phase, rowCount, at, cursor, rows>>

\* A name of an empty function is an error; so are too many rows.
Unnamed == {f \in Indices(file.functions) \ file.empty : heads[f] = NoName}

CountRows ==
  /\ phase = "link" /\ todo = 0
  /\ LET count == file.names + Cardinality(Unnamed)
     IN  IF (\E f \in file.empty : heads[f] # NoName) \/ count > MaxEntries
         THEN Fails
         ELSE /\ phase' = "fill" /\ rowCount' = count
              /\ UNCHANGED <<file, todo, heads, next, at, cursor, rows>>

Filling == phase = "fill" /\ at < file.functions
OrdinalFits == file.base + at <= MaxDword
Inserting == Filling /\ at \notin file.empty /\ OrdinalFits

\* The directory or a table does not lie in the file, memory runs out; later
\* a name is not in the file or not terminated, the list view refuses a row.
Breaks == (phase = "open" \/ Inserting) /\ Fails

\* An ordinal is a DWORD.
OrdinalFails == Filling /\ at \notin file.empty /\ ~OrdinalFits /\ Fails

SkipEmpty == /\ Filling /\ at \in file.empty
             /\ at' = at + 1
             /\ UNCHANGED <<file, phase, todo, heads, next, rowCount, cursor, rows>>

InsertUnnamed ==
  /\ Inserting /\ heads[at] = NoName
  /\ rows' = Append(rows, <<at, NoName>>) /\ at' = at + 1
  /\ UNCHANGED <<file, phase, todo, heads, next, rowCount, cursor>>

InsertFirstName ==
  /\ Inserting /\ heads[at] # NoName
  /\ rows' = Append(rows, <<at, heads[at]>>) /\ at' = at + 1
  /\ UNCHANGED <<file, phase, todo, heads, next, rowCount, cursor>>

\* One name of the function, and on to its next one or to the next function.
InsertName ==
  /\ Inserting /\ heads[at] # NoName
  /\ LET name == IF cursor = Unset THEN heads[at] ELSE cursor
         last == next[name] = NoName
     IN  /\ rows' = Append(rows, <<at, name>>)
         /\ cursor' = IF last THEN Unset ELSE next[name]
         /\ at' = IF last THEN at + 1 ELSE at
  /\ UNCHANGED <<file, phase, todo, heads, next, rowCount>>

Finish == /\ phase = "fill" /\ at = file.functions /\ phase' = "shown"
          /\ UNCHANGED <<file, todo, heads, next, rowCount, at, cursor, rows>>

Next == \/ Breaks \/ ReadDirectory \/ LinkName \/ CountRows
        \/ OrdinalFails \/ SkipEmpty \/ InsertUnnamed \/ InsertName \/ Finish

ExportsSpec == Init /\ [][Next]_exportVars

-----------------------------------------------------------------------------
\* n is the first name at or after k that names function f, or there is none.
FirstFrom(k, f, n) ==
  \/ n = NoName /\ \A m \in k .. (file.names - 1) : file.ordinal[m] # f
  \/ /\ n \in k .. (file.names - 1) /\ file.ordinal[n] = f
     /\ \A m \in k .. (n - 1) : file.ordinal[m] # f

\* The two arrays are lists: from the names linked so far, heads leads to a
\* function's first one and next to each one's successor, in the order of the
\* name table, so that no list has a cycle, a gap or another's names.
ChainsSound ==
  phase \in {"link", "fill"} =>
    /\ \A f \in Indices(file.functions) : FirstFrom(todo, f, heads[f])
    /\ \A n \in todo .. (file.names - 1) :
         FirstFrom(n + 1, file.ordinal[n], next[n])

\* What the page should show, and in which order.
Expected ==
  {<<file.ordinal[n], n>> : n \in Indices(file.names)} \cup
  {<<f, NoName>> : f \in {g \in Indices(file.functions) \ file.empty :
                            \A n \in Indices(file.names) : file.ordinal[n] # g}}
Precedes(r, s) == r[1] < s[1] \/ (r[1] = s[1] /\ r[2] < s[2])

\* A page that is shown has every export once, in order; the number of rows
\* is the one that was tested against the limit, and never exceeds it.
RowsExact ==
  /\ Len(rows) <= rowCount /\ rowCount <= MaxEntries
  /\ \A i, j \in 1 .. Len(rows) : i < j => Precedes(rows[i], rows[j])
  /\ phase = "shown" =>
       /\ {rows[i] : i \in 1 .. Len(rows)} = Expected
       /\ Len(rows) = rowCount

\* Why: the rows so far are what lies before the place the loop has reached,
\* and what remains is counted already.
Passed(r) == \/ r[1] < at
             \/ r[1] = at /\ cursor # Unset /\ r[2] < cursor
FillInv ==
  /\ todo = 0 /\ at \in 0 .. file.functions
  /\ \A f \in file.empty : heads[f] = NoName
  /\ cursor # Unset => cursor \in Indices(file.names) /\ file.ordinal[cursor] = at
  /\ {rows[i] : i \in 1 .. Len(rows)} = {r \in Expected : Passed(r)}
  /\ rowCount = file.names + Cardinality(Unnamed) /\ rowCount <= MaxEntries
RowsInv ==
  /\ phase \in {"link", "fill"} =>
       \A n \in todo .. (file.names - 1) : file.ordinal[n] < file.functions
  /\ phase \in {"open", "link"} =>
       rows = <<>> /\ rowCount = 0 /\ at = 0 /\ cursor = Unset
  /\ IF phase = "fill" THEN FillInv ELSE RowsExact
  /\ rowCount \in Nat /\ rows \in Seq(Int \X Int)
  /\ \A i, j \in 1 .. Len(rows) : i < j => Precedes(rows[i], rows[j])
=============================================================================
