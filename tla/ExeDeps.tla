------------------------------ MODULE ExeDeps ------------------------------
(***************************************************************************)
(* The Dependencies page of an .exe file (FileXRay/extensions/exe.c): a    *)
(* table of DLLs of fixed capacity that four passes fill one after the     *)
(* other - regular imports, delay-load imports, the export forwarders of   *)
(* the DLLs found so far, the assemblies of a manifest next to the file -  *)
(* and that is then shown as a tree.  The passes do not know each other:   *)
(* each looks a name up, adds it when it is new and there is room, and     *)
(* searches the disk for it.                                               *)
(*                                                                         *)
(* A path is a place and a name.  The places that are searched for every   *)
(* DLL are 1 .. Places in search order: the directory of the file, the     *)
(* system directory, the Windows directory, those of PATH.  Place 0 is the *)
(* assembly's own directory.                                               *)
(* A variant before the definition it varies is a fault no specification   *)
(* uses; README.md says which property rejects it.                         *)
(***************************************************************************)
EXTENDS ApiSetMap

CONSTANTS
  Names,       \* DLL names, compared without case
  ApiSets,     \* those that start with "api-" or "ext-"
  Spelling,    \* their letters
  Maps,        \* the maps of API sets a system may have
  Capacity,    \* FX_EXE_MAX_DLL_NODES
  Places,      \* the number of directories that are searched
  Disks,       \* what may be on the disk
  MaxCalls     \* bound: imported functions

ASSUME DepsAssumption ==
  /\ NoName \notin Names /\ ApiSets \subseteq Names
  /\ \A n \in ApiSets : Spelling[n] \in Seq(Nat)
  /\ \A map \in Maps :
       /\ map.hashes \in Seq([hash : Nat, index : Nat])
       /\ \A e \in DOMAIN map.entries :
            map.entries[e].values \in Seq(Names \cup {NoName})
  /\ Capacity \in Nat /\ Places \in Nat \ {0} /\ MaxCalls \in Nat
  /\ Disks \subseteq SUBSET ((0 .. Places) \X Names)

Types == {"normal", "delay", "forwarded"}
Statuses == {"ok", "not_found", "api_set_resolved"}
NoPath == <<0, NoName>>
Paths == ((0 .. Places) \X Names) \cup {NoPath}
Node == [name : Names, host : Names \cup {NoName}, path : Paths,
         type : Types, status : Statuses, count : Nat, isApiSet : BOOLEAN]

Phases == {"imports", "delay", "forwards", "sxs", "shown", "failed", "closed"}

VARIABLES
  disk,     \* <<place, name>> of the DLL files there are
  apiSetMap, \* of the process
  phase,    \* the pass that runs
  nodes,    \* view->nodes[0 .. node_count - 1]
  index,    \* the node whose forwarders are read
  before,   \* count_before
  tree,     \* the rows of the tree view
  called    \* history: the functions imported so far, by kind and name

machine == <<disk, apiSetMap>>
depsVars == <<machine, phase, nodes, index, before, tree, called>>

Init == /\ disk \in Disks /\ apiSetMap \in Maps
        /\ phase = "imports" /\ nodes = <<>> /\ index = 1 /\ before = 0
        /\ tree = <<>>
        /\ called = [kind \in {"normal", "delay"} |-> [n \in Names |-> 0]]

Listed(table, n) == \E i \in 1 .. Len(table) : table[i].name = n
IndexOf(table, n) == CHOOSE i \in 1 .. Len(table) : table[i].name = n
HasRoom == Len(nodes) < Capacity

\* fx_exe_resolve_path: the first place that has the file, or, in the buffer
\* the caller passed, the last one that was tried.
Found(n) == \E p \in 1 .. Places : <<p, n>> \in disk
Resolve(n) ==
  IF Found(n)
  THEN <<CHOOSE p \in 1 .. Places :
           <<p, n>> \in disk /\ \A q \in 1 .. (p - 1) : <<q, n>> \notin disk, n>>
  ELSE <<Places, n>>
StatusOf(n) == IF Found(n) THEN "ok" ELSE "not_found"

Entry(n, host, type, status, path) ==
  [name |-> n, host |-> host, type |-> type, status |-> status, path |-> path,
   count |-> 0, isApiSet |-> FALSE]

Host(n) == ResolveApiSet(apiSetMap, Spelling[n])

\* A DLL that the file imports; an API set is searched by its host's name.
ImportedHopefully(n, type) ==
  IF n \in ApiSets /\ Host(n) # NoName
  THEN [Entry(n, Host(n), type, "api_set_resolved", Resolve(Host(n)))
          EXCEPT !.isApiSet = TRUE]
  ELSE [Entry(n, NoName, type, StatusOf(n), Resolve(n))
          EXCEPT !.isApiSet = n \in ApiSets]

Imported(n, type) ==
  IF n \notin ApiSets THEN Entry(n, NoName, type, StatusOf(n), Resolve(n))
  ELSE [(IF Host(n) = NoName THEN Entry(n, NoName, type, "not_found", NoPath)
         ELSE Entry(n, Host(n), type,
                    IF Found(Host(n)) THEN "api_set_resolved" ELSE "not_found",
                    Resolve(Host(n))))
          EXCEPT !.isApiSet = TRUE]

FindOrAdd(n, type) ==
  IF Listed(nodes, n) \/ ~HasRoom THEN nodes
  ELSE Append(nodes, Imported(n, type))

\* fx_exe_import_callback, for one imported function.
Pass == IF phase = "imports" THEN "normal" ELSE "delay"

CountsFirstOnly(n) ==
  /\ phase \in {"imports", "delay"} /\ called[Pass][n] < MaxCalls
  /\ called' = [called EXCEPT ![Pass][n] = @ + 1]
  /\ nodes' = IF Listed(nodes, n) \/ ~HasRoom THEN nodes
              ELSE Append(nodes, [Imported(n, Pass) EXCEPT !.count = 1])
  /\ UNCHANGED <<machine, phase, index, before, tree>>

RetypesFound(n) ==
  /\ phase \in {"imports", "delay"} /\ called[Pass][n] < MaxCalls
  /\ called' = [called EXCEPT ![Pass][n] = @ + 1]
  /\ LET table == FindOrAdd(n, Pass)
     IN  nodes' = IF Listed(table, n)
                  THEN [table EXCEPT ![IndexOf(table, n)] =
                          [@ EXCEPT !.count = @ + 1, !.type = Pass]]
                  ELSE table
  /\ UNCHANGED <<machine, phase, index, before, tree>>

ImportCallback(n) ==
  /\ phase \in {"imports", "delay"} /\ called[Pass][n] < MaxCalls
  /\ called' = [called EXCEPT ![Pass][n] = @ + 1]
  /\ LET table == FindOrAdd(n, Pass)
     IN  nodes' = IF Listed(table, n)
                  THEN [table EXCEPT ![IndexOf(table, n)].count = @ + 1]
                  ELSE table
  /\ UNCHANGED <<machine, phase, index, before, tree>>

\* An enumeration ends; after the second one the forwarders are looked at,
\* of the nodes there are now.
ImportsEnd == /\ phase = "imports" /\ phase' = "delay"
              /\ UNCHANGED <<machine, nodes, index, before, tree, called>>
DelayEnds == /\ phase = "delay" /\ phase' = "forwards"
             /\ before' = Len(nodes) /\ index' = 1
             /\ UNCHANGED <<machine, nodes, tree, called>>

\* The file cannot be opened or an enumeration fails: fx_exe_create destroys
\* the view.
LoadFails == /\ phase \in {"imports", "delay"} /\ phase' = "failed"
             /\ nodes' = <<>>
             /\ UNCHANGED <<machine, index, before, tree, called>>

\* fx_exe_check_forwarded_exports for nodes[index], one forwarder at a time.
\* A target is never taken for an API set.
Explored == /\ phase = "forwards" /\ index <= before
            /\ nodes[index].path # NoPath /\ nodes[index].status # "not_found"

ForwardUnseen(n) ==
  /\ Explored /\ HasRoom
  /\ nodes' = Append(nodes, Entry(n, NoName, "forwarded", StatusOf(n), Resolve(n)))
  /\ UNCHANGED <<machine, phase, index, before, tree, called>>

ForwardedExport(n) ==
  /\ Explored /\ ~Listed(nodes, n) /\ HasRoom
  /\ nodes' = Append(nodes, Entry(n, NoName, "forwarded", StatusOf(n), Resolve(n)))
  /\ UNCHANGED <<machine, phase, index, before, tree, called>>

NextDll == /\ phase = "forwards"
           /\ IF index <= before THEN index' = index + 1 /\ phase' = phase
              ELSE index' = index /\ phase' = "sxs"
           /\ UNCHANGED <<machine, nodes, before, tree, called>>

\* fx_exe_check_sxs_manifest, one assemblyIdentity at a time: the assembly's
\* own directory is tried first.
AssemblyEntry(n) ==
  IF <<0, n>> \in disk THEN Entry(n, NoName, "normal", "ok", <<0, n>>)
  ELSE Entry(n, NoName, "normal", StatusOf(n), Resolve(n))

Assembly(n) ==
  /\ phase = "sxs" /\ ~Listed(nodes, n) /\ HasRoom
  /\ nodes' = Append(nodes, AssemblyEntry(n))
  /\ UNCHANGED <<machine, phase, index, before, tree, called>>

\* fx_exe_populate_tree: one row per node, with the number of functions, an
\* API set's host and a path where there are any.  The status is not shown.
Row(node) ==
  [name |-> node.name, delayLoad |-> node.type = "delay",
   forwarded |-> node.type = "forwarded",
   host |-> IF node.status = "api_set_resolved" THEN node.host ELSE NoName,
   functions |-> node.count, path |-> node.path]

PopulateTree == /\ phase = "sxs" /\ phase' = "shown"
                /\ tree' = [i \in 1 .. Len(nodes) |-> Row(nodes[i])]
                /\ UNCHANGED <<machine, nodes, index, before, called>>

\* fx_exe_destroy.
Destroy == /\ phase = "shown" /\ phase' = "closed"
           /\ nodes' = <<>> /\ tree' = <<>>
           /\ UNCHANGED <<machine, index, before, called>>

Next == \/ \E n \in Names : ImportCallback(n) \/ ForwardedExport(n) \/ Assembly(n)
        \/ ImportsEnd \/ DelayEnds \/ LoadFails \/ NextDll \/ PopulateTree
        \/ Destroy

DepsSpec == Init /\ [][Next]_depsVars

-----------------------------------------------------------------------------
\* Whichever pass adds to the table, it never outgrows its allocation, and no
\* DLL is listed twice: one that is imported, forwarded to and named in the
\* manifest has one row.
TableSound ==
  /\ Len(nodes) <= Capacity
  /\ \A i, j \in 1 .. Len(nodes) : nodes[i].name = nodes[j].name => i = j

Calls(n) == called["normal"][n] + called["delay"][n]
Loaded == phase \in {"imports", "delay", "forwards", "sxs", "shown"}

\* A row counts the functions imported from its DLL by both enumerations,
\* and an imported DLL has no row only when the table is full.
CountsExact ==
  /\ \A i \in 1 .. Len(nodes) : nodes[i].count = Calls(nodes[i].name)
  /\ Loaded => \A n \in Names : Calls(n) > 0 /\ ~Listed(nodes, n) => ~HasRoom

\* A delay-loaded DLL is not also imported regularly, a forwarded one is not
\* imported at all, and an imported API set is known as one; and a DLL counts
\* as found, and its forwarders are read, exactly when its path is that of a
\* file.
RowHonest(node) ==
  /\ node.type = "delay" => called["normal"][node.name] = 0
  /\ node.type = "forwarded" => Calls(node.name) = 0
  /\ Calls(node.name) > 0 => node.isApiSet = (node.name \in ApiSets)
  /\ (node.status # "not_found") = (node.path \in disk)
RowsHonest == \A i \in 1 .. Len(nodes) : RowHonest(nodes[i])

\* An API set has the host that the system's map has for it.
HostsRight ==
  apiSetMap.version = 6 /\ WellFormed(apiSetMap) =>
    \A i \in 1 .. Len(nodes) :
      nodes[i].isApiSet => FoundIn(apiSetMap, Spelling[nodes[i].name], nodes[i].host)

\* What a row says is right whatever was enumerated in between.
RowsTruthful == RowsHonest /\ HostsRight

\* exe.c:779: what a row shows as the path is a resolved one.
ShownPathsResolved ==
  \A i \in 1 .. Len(tree) : tree[i].path # NoPath => tree[i].path \in disk
=============================================================================
