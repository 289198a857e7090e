-------------------------- MODULE ExeDeps_proofs --------------------------
(***************************************************************************)
(* The table of ExeDeps stays within its allocation and lists no name      *)
(* twice, and what its rows count and say is right, for any capacity and   *)
(* any sets of names, whatever is imported, forwarded to or named in a     *)
(* manifest.                                                               *)
(***************************************************************************)
EXTENDS ExeDeps, WellFoundedInduction, TLAPS

\* What the two theorems need of the table: its type, its bound, its names.
Table(t) == /\ t \in Seq(Node)
            /\ Len(t) <= Capacity
            /\ \A i, j \in 1 .. Len(t) : t[i].name = t[j].name => i = j
TableInv == Table(nodes) /\ apiSetMap \in Maps

\* A name that is not listed may be appended while there is room.
LEMMA AppendKeepsTable ==
  ASSUME NEW t, Table(t), NEW e \in Node, ~Listed(t, e.name),
         Len(t) < Capacity
  PROVE  Table(Append(t, e))
<1> DEFINE u == Append(t, e)
<1>1. /\ t \in Seq(Node) /\ u \in Seq(Node) /\ Len(u) = Len(t) + 1
      /\ Len(t) \in Nat
      /\ \A i \in 1 .. Len(t) : u[i] = t[i]
      /\ u[Len(t) + 1] = e
  BY DEF Table
<1>2. ASSUME NEW i \in 1 .. Len(u), NEW j \in 1 .. Len(u), u[i].name = u[j].name
      PROVE  i = j
  <2>1. CASE i \in 1 .. Len(t) /\ j \in 1 .. Len(t)
    BY <1>1, <1>2, <2>1 DEF Table
  <2>2. CASE i = Len(t) + 1 /\ j \in 1 .. Len(t)
    BY <1>1, <1>2, <2>2 DEF Listed
  <2>3. CASE i \in 1 .. Len(t) /\ j = Len(t) + 1
    BY <1>1, <1>2, <2>3 DEF Listed
  <2> QED
    BY <1>1, <2>1, <2>2, <2>3
<1>3. Len(u) <= Capacity
  BY <1>1, DepsAssumption
<1> QED
  BY <1>1, <1>2, <1>3 DEF Table

\* Counting a call changes neither the names nor the length.
LEMMA CountKeepsTable ==
  ASSUME NEW t, Table(t), NEW n \in Names, Listed(t, n)
  PROVE  Table([t EXCEPT ![IndexOf(t, n)].count = @ + 1])
<1> DEFINE k == IndexOf(t, n)
           u == [t EXCEPT ![k].count = @ + 1]
<1>1. t \in Seq(Node) /\ k \in 1 .. Len(t)
  BY DEF Table, Listed, IndexOf
<1> HIDE DEF k
<1>2. \A i \in 1 .. Len(t) : t[i] \in Node
  BY <1>1
<1>3. [t[k] EXCEPT !.count = @ + 1] \in Node
  BY <1>1, <1>2 DEF Node
<1>4. u \in Seq(Node) /\ Len(u) = Len(t)
  BY <1>1, <1>3
<1>5. \A i \in 1 .. Len(t) : u[i].name = t[i].name
  BY <1>1, <1>2 DEF Node
<1>6. Table(u)
  BY <1>4, <1>5 DEF Table
<1> QED
  BY <1>6 DEF k

\* A set of naturals that is not empty has a least element.
LEMMA LeastNatural ==
  ASSUME NEW T, T \subseteq Nat, T # {}
  PROVE  \E i \in T : \A j \in T : ~(j < i)
<1>1. PICK i \in T : \A j \in T : ~(<<j, i>> \in OpToRel(<, Nat))
  BY WFMin, NatLessThanWellFounded
<1>2. \A j \in T : j < i => <<j, i>> \in OpToRel(<, Nat)
  BY DEF OpToRel
<1> QED
  BY <1>1, <1>2

\* Every pass adds well-typed nodes, named after the DLL.
LEMMA ResolveType ==
  ASSUME NEW n \in Names PROVE Resolve(n) \in Paths
<1>1. Places \in 1 .. Places
  BY DepsAssumption
<1>2. (0 .. Places) \X Names \subseteq Paths /\ 1 .. Places \subseteq 0 .. Places
  BY DepsAssumption DEF Paths
<1>3. CASE ~Found(n)
  BY <1>1, <1>2, <1>3 DEF Resolve
<1>4. CASE Found(n)
  <2> DEFINE T == {p \in 1 .. Places : <<p, n>> \in disk}
  <2>1. PICK p \in T : \A q \in T : ~(q < p)
    <3>1. T \subseteq Nat /\ T # {}
      BY <1>4, DepsAssumption DEF Found
    <3> HIDE DEF T
    <3> QED BY <3>1, LeastNatural
  <2>2. p \in 1 .. Places /\ \A q \in 1 .. (p - 1) : <<q, n>> \notin disk
    BY <2>1, DepsAssumption
  <2> QED
    BY <1>2, <1>4, <2>1, <2>2 DEF Resolve
<1> QED
  BY <1>3, <1>4

\* A row that is made of a name, a host, a type, a status and a path is a node.
LEMMA EntryType ==
  ASSUME NEW n \in Names, NEW host \in Names \cup {NoName}, NEW type \in Types,
         NEW status \in Statuses, NEW path \in Paths
  PROVE  Entry(n, host, type, status, path) \in Node
  BY DEF Entry, Node

\* What the look-up returns is a value of the map, or no host, whatever the
\* search does.
LEMMA HostType ==
  ASSUME apiSetMap \in Maps, NEW n \in ApiSets
  PROVE  Host(n) \in Names \cup {NoName}
<1> DEFINE place == Search(apiSetMap.hashes,
                           HashOf(apiSetMap.factor, Stem(Spelling[n])))
           values == apiSetMap.entries[place].values
<1>1. Host(n) = IF /\ apiSetMap.version = 6 /\ place \in DOMAIN apiSetMap.entries
                   /\ Matches(apiSetMap.entries[place], Spelling[n])
                   /\ Len(values) > 0
                THEN values[Len(values)] ELSE NoName
  BY DEF Host, ResolveApiSet, Default
<1> HIDE DEF place
<1>2. CASE place \in DOMAIN apiSetMap.entries /\ Len(values) > 0
  <2>1. values \in Seq(Names \cup {NoName})
    BY <1>2, DepsAssumption
  <2>2. Len(values) \in 1 .. Len(values)
    BY <1>2, <2>1
  <2>3. values[Len(values)] \in Names \cup {NoName}
    BY <2>1, <2>2
  <2> QED
    BY <1>1, <2>3
<1>3. CASE ~(place \in DOMAIN apiSetMap.entries /\ Len(values) > 0)
  BY <1>1, <1>3
<1> QED
  BY <1>2, <1>3

\* The row that an import adds is a node of the imported name.
LEMMA ImportedType ==
  ASSUME apiSetMap \in Maps, NEW n \in Names, NEW type \in Types
  PROVE  Imported(n, type) \in Node /\ Imported(n, type).name = n
<1>1. NoPath \in Paths /\ StatusOf(n) \in Statuses
  BY DEF Paths, StatusOf, Statuses
<1>2. CASE n \notin ApiSets
  <2>1. Imported(n, type) = Entry(n, NoName, type, StatusOf(n), Resolve(n))
    BY <1>2 DEF Imported
  <2>2. Resolve(n) \in Paths
    BY ResolveType
  <2> QED
    BY <1>1, <2>1, <2>2, EntryType DEF Entry
<1>3. CASE n \in ApiSets
  <2>1. PICK host \in Names \cup {NoName}, status \in Statuses, path \in Paths :
          Imported(n, type)
            = [Entry(n, host, type, status, path) EXCEPT !.isApiSet = TRUE]
    <3>1. Host(n) \in Names \cup {NoName}
      BY <1>3, HostType
    <3>2. CASE Host(n) = NoName
      <4>1. "not_found" \in Statuses
        BY DEF Statuses
      <4>2. Imported(n, type) =
              [Entry(n, NoName, type, "not_found", NoPath) EXCEPT !.isApiSet = TRUE]
        BY <1>3, <3>2 DEF Imported
      <4> QED BY <1>1, <4>1, <4>2
    <3>3. CASE Host(n) # NoName
      <4> DEFINE st == IF Found(Host(n)) THEN "api_set_resolved" ELSE "not_found"
      <4>1. st \in Statuses
        BY DEF Statuses
      <4>2. Host(n) \in Names /\ Resolve(Host(n)) \in Paths
        BY <3>1, <3>3, ResolveType
      <4>3. Imported(n, type) =
              [Entry(n, Host(n), type, st, Resolve(Host(n))) EXCEPT !.isApiSet = TRUE]
        BY <1>3, <3>3 DEF Imported
      <4> HIDE DEF st
      <4> QED BY <4>1, <4>2, <4>3
    <3> QED BY <3>2, <3>3
  <2>2. Entry(n, host, type, status, path) \in Node
    BY EntryType
  <2>3. /\ [Entry(n, host, type, status, path) EXCEPT !.isApiSet = TRUE] \in Node
        /\ Entry(n, host, type, status, path).name = n
    BY <2>2 DEF Entry, Node
  <2> QED
    BY <2>1, <2>3 DEF Entry
<1> QED
  BY <1>2, <1>3

\* find_or_add_node, the forwarder pass and the manifest pass (exe.c:619-673,
\* 363-479, 481-608) keep the table in order.
THEOREM TableInOrder == DepsSpec => []TableInv
<1>1. Init => TableInv
  BY DepsAssumption DEF Init, TableInv, Table
<1>2. TableInv /\ [Next]_depsVars => TableInv'
  <2> SUFFICES ASSUME TableInv, [Next]_depsVars PROVE TableInv'
    OBVIOUS
  <2> USE DEF machine
  <2>1. ASSUME NEW n \in Names, ImportCallback(n) PROVE TableInv'
    <3> DEFINE table == FindOrAdd(n, Pass)
    <3>1. Table(table)
      BY ImportedType, AppendKeepsTable
         DEF FindOrAdd, TableInv, HasRoom, Pass, Types
    <3> HIDE DEF table
    <3> QED
      BY <2>1, <3>1, CountKeepsTable DEF ImportCallback, TableInv, table
  <2>2. ASSUME NEW n \in Names, ForwardedExport(n) PROVE TableInv'
    <3> DEFINE e == Entry(n, NoName, "forwarded", StatusOf(n), Resolve(n))
    <3>1. e \in Node /\ e.name = n
      BY ResolveType, EntryType DEF Entry, StatusOf, Statuses, Types
    <3> QED
      BY <2>2, <3>1, AppendKeepsTable DEF ForwardedExport, TableInv, HasRoom
  <2>3. ASSUME NEW n \in Names, Assembly(n) PROVE TableInv'
    <3>1. <<0, n>> \in Paths
      BY DepsAssumption DEF Paths
    <3>2. AssemblyEntry(n) \in Node /\ AssemblyEntry(n).name = n
      BY <3>1, ResolveType, EntryType
         DEF AssemblyEntry, Entry, StatusOf, Statuses, Types
    <3> QED
      BY <2>3, <3>2, AppendKeepsTable DEF Assembly, TableInv, HasRoom
  <2>4. CASE LoadFails \/ Destroy
    <3>1. nodes' = <<>> /\ Capacity \in Nat /\ UNCHANGED apiSetMap
      BY <2>4, DepsAssumption DEF LoadFails, Destroy
    <3> QED
      BY <3>1 DEF TableInv, Table
  <2>5. CASE UNCHANGED <<nodes, apiSetMap>>
    BY <2>5 DEF TableInv
  <2> QED
    BY <2>1, <2>2, <2>3, <2>4, <2>5
       DEF Next, ImportsEnd, DelayEnds, NextDll, PopulateTree, depsVars
<1> QED
  BY <1>1, <1>2, PTL DEF DepsSpec

\* view->nodes has node_capacity entries: no pass writes behind them or lists
\* a DLL twice, in whatever order they meet it.
THEOREM TableIsSound == DepsSpec => []TableSound
<1>1. TableInv => TableSound
  BY DEF TableInv, Table, TableSound
<1> QED
  BY <1>1, TableInOrder, PTL

\* The histories of calls are numbers, and only the callback adds to them.
CalledType == called \in [{"normal", "delay"} -> [Names -> Nat]]
CountInv == CalledType /\ CountsExact
CallsAfter(n) == called'["normal"][n] + called'["delay"][n]

\* A DLL that has no row while there is room was never imported: its row
\* starts at 0, whichever pass adds it.
LEMMA AppendKeepsCounts ==
  ASSUME TableInv, CountInv, Loaded, NEW e \in Node, ~Listed(nodes, e.name), HasRoom,
         e.count = 0
  PROVE  LET u == Append(nodes, e)
         IN  /\ Len(u) = Len(nodes) + 1
             /\ \A i \in 1 .. Len(u) : u[i] \in Node /\ u[i].count = Calls(u[i].name)
             /\ \A n \in Names : Listed(nodes, n) => Listed(u, n)
             /\ Listed(u, e.name)
<1> DEFINE u == Append(nodes, e)
<1>1. nodes \in Seq(Node) /\ Len(nodes) \in Nat
  BY DEF TableInv, Table
<1>2. /\ Len(u) = Len(nodes) + 1 /\ u[Len(nodes) + 1] = e
      /\ \A i \in 1 .. Len(nodes) : u[i] = nodes[i] /\ nodes[i] \in Node
  BY <1>1
<1>3. e.name \in Names /\ Calls(e.name) \in Nat
  BY DEF Node, CountInv, CalledType, Calls
<1>4. Calls(e.name) = 0
  BY <1>3 DEF CountInv, CountsExact
<1> HIDE DEF u
<1>5. ASSUME NEW i \in 1 .. Len(u)
      PROVE  u[i] \in Node /\ u[i].count = Calls(u[i].name)
  <2>1. CASE i \in 1 .. Len(nodes)
    BY <1>2, <2>1 DEF CountInv, CountsExact
  <2>2. CASE i = Len(nodes) + 1
    BY <1>2, <1>4, <2>2
  <2> QED
    BY <1>1, <1>2, <2>1, <2>2
<1>6. \A n \in Names : Listed(nodes, n) => Listed(u, n)
  BY <1>1, <1>2 DEF Listed
<1>7. Listed(u, e.name)
  BY <1>1, <1>2 DEF Listed
<1> QED
  BY <1>2, <1>5, <1>6, <1>7 DEF u

\* A pass that does not call adds rows of 0 and takes none away.
LEMMA AddedKeepsCounts ==
  ASSUME TableInv, CountInv, Loaded, NEW e \in Node, ~Listed(nodes, e.name), HasRoom,
         e.count = 0, nodes' = Append(nodes, e), called' = called
  PROVE  CountInv'
<1>1. /\ Len(nodes') = Len(nodes) + 1 /\ Len(nodes) \in Nat
      /\ \A i \in 1 .. Len(nodes') : nodes'[i].count = Calls(nodes'[i].name)
      /\ \A n \in Names : Listed(nodes, n) => Listed(nodes', n)
  BY AppendKeepsCounts DEF TableInv, Table
<1>2. \A n \in Names : CallsAfter(n) = Calls(n)
  BY DEF Calls, CallsAfter
<1>3. \A n \in Names : Calls(n) > 0 => Listed(nodes', n)
  BY <1>1 DEF CountInv, CountsExact
<1>4. \A i \in 1 .. Len(nodes') : nodes'[i].count = CallsAfter(nodes'[i].name)
  BY <1>1 DEF Calls, CallsAfter
<1>5. \A n \in Names : Listed(nodes', n) => Listed(nodes, n)'
  BY DEF Listed
<1> QED
  BY <1>2, <1>3, <1>4, <1>5 DEF CountInv, CalledType, CountsExact, Calls, CallsAfter

\* The callback adds the row if it must and can, and counts the call in it.
LEMMA CallbackKeepsCounts ==
  ASSUME TableInv, CountInv, NEW n \in Names, ImportCallback(n)
  PROVE  CountInv'
<1> DEFINE table == FindOrAdd(n, Pass)
           k == IndexOf(table, n)
<1>1. Loaded /\ nodes \in Seq(Node) /\ Len(nodes) \in Nat /\ Pass \in Types
  BY DEF ImportCallback, Loaded, TableInv, Table, Pass, Types
<1>2. /\ Table(table) /\ Len(table) >= Len(nodes) /\ Len(table) \in Nat
      /\ \A i \in 1 .. Len(table) : table[i] \in Node /\ table[i].count = Calls(table[i].name)
      /\ \A m \in Names : Listed(nodes, m) => Listed(table, m)
      /\ ~Listed(table, n) => table = nodes /\ ~HasRoom
  <2>1. CASE Listed(nodes, n) \/ ~HasRoom
    <3>1. table = nodes
      BY <2>1 DEF FindOrAdd
    <3>2. \A i \in 1 .. Len(nodes) : nodes[i] \in Node
      BY <1>1
    <3> QED
      BY <1>1, <2>1, <3>1, <3>2 DEF TableInv, CountInv, CountsExact
  <2>2. CASE ~(Listed(nodes, n) \/ ~HasRoom)
    <3> DEFINE e == Imported(n, Pass)
    <3>1. e \in Node /\ e.name = n
      BY <1>1, ImportedType DEF TableInv
    <3>2. e.count = 0
      BY DEF Imported, Entry
    <3>3. table = Append(nodes, e)
      BY <2>2 DEF FindOrAdd
    <3> HIDE DEF e
    <3>4. Table(table)
      BY <2>2, <3>1, <3>3, AppendKeepsTable DEF TableInv, HasRoom
    <3>5. /\ Len(table) = Len(nodes) + 1
          /\ \A i \in 1 .. Len(table) :
               table[i] \in Node /\ table[i].count = Calls(table[i].name)
          /\ \A m \in Names : Listed(nodes, m) => Listed(table, m)
          /\ Listed(table, n)
      BY <1>1, <2>2, <3>1, <3>2, <3>3, AppendKeepsCounts
    <3> QED
      BY <1>1, <3>4, <3>5
  <2> QED BY <2>1, <2>2
<1>3. /\ called' \in [{"normal", "delay"} -> [Names -> Nat]]
      /\ CallsAfter(n) = Calls(n) + 1
      /\ \A m \in Names \ {n} : CallsAfter(m) = Calls(m)
  <2>1. /\ Pass \in {"normal", "delay"}
        /\ called' = [called EXCEPT ![Pass][n] = @ + 1]
    BY DEF Pass, ImportCallback
  <2>2. CASE Pass = "normal"
    BY <2>1, <2>2 DEF CountInv, CalledType, Calls, CallsAfter
  <2>3. CASE Pass = "delay"
    BY <2>1, <2>3 DEF CountInv, CalledType, Calls, CallsAfter
  <2> QED BY <2>1, <2>2, <2>3
<1>4. nodes' = IF Listed(table, n) THEN [table EXCEPT ![k].count = @ + 1] ELSE table
  BY DEF ImportCallback
<1>5. UNCHANGED phase
  BY DEF ImportCallback
<1>6. \A m \in Names : Calls(m) \in Nat
  BY DEF CountInv, CalledType, Calls, CallsAfter
<1> HIDE DEF table
<1>7. CASE ~Listed(table, n)
  <2>1. nodes' = nodes /\ ~HasRoom /\ ~Listed(nodes, n)
    BY <1>2, <1>4, <1>7
  <2>2. ASSUME NEW i \in 1 .. Len(nodes) PROVE nodes[i].count = CallsAfter(nodes[i].name)
    <3>1. nodes[i] \in Node
      BY <1>1
    <3>2. nodes[i].name # n /\ nodes[i].name \in Names
      BY <2>1, <3>1 DEF Listed, Node
    <3> QED
      BY <1>3, <3>2 DEF CountInv, CountsExact
  <2>3. \A i \in 1 .. Len(nodes') : nodes'[i].count = CallsAfter(nodes'[i].name)
    BY <2>1, <2>2
  <2>4. ~HasRoom'
    BY <2>1 DEF HasRoom
  <2> QED
    BY <1>3, <2>3, <2>4 DEF CountInv, CalledType, CountsExact, Calls, CallsAfter
<1>8. CASE Listed(table, n)
  <2>1. table \in Seq(Node) /\ k \in 1 .. Len(table) /\ table[k].name = n
    BY <1>2, <1>8 DEF Table, Listed, IndexOf
  <2> HIDE DEF k
  <2>2. table[k] \in Node
    BY <1>2, <2>1
  <2> DEFINE f == [table[k] EXCEPT !.count = @ + 1]
  <2>3. f \in Node /\ f.name = n /\ f.count = table[k].count + 1
    BY <2>1, <2>2 DEF Node
  <2>4. nodes' = [table EXCEPT ![k] = f]
    BY <1>4, <1>8
  <2> HIDE DEF f
  <2>5. /\ Len(nodes') = Len(table) /\ nodes'[k] = f
        /\ \A i \in (1 .. Len(table)) \ {k} : nodes'[i] = table[i]
    BY <2>1, <2>3, <2>4
  <2>6. ASSUME NEW i \in 1 .. Len(nodes') PROVE nodes'[i].count = CallsAfter(nodes'[i].name)
    <3>1. CASE i = k
      <4>1. nodes'[i].count = Calls(n) + 1 /\ nodes'[i].name = n
        BY <1>2, <2>1, <2>3, <2>5, <3>1
      <4> QED BY <1>3, <4>1
    <3>2. CASE i # k
      <4>1. nodes'[i] = table[i] /\ i \in 1 .. Len(table)
        BY <2>5, <3>2
      <4>2. table[i].name # n
        BY <1>2, <2>1, <3>2, <4>1 DEF Table
      <4>3. table[i].name \in Names
        BY <1>2, <4>1 DEF Node
      <4> QED BY <1>2, <1>3, <4>1, <4>2, <4>3
    <3> QED BY <3>1, <3>2
  <2>7. \A m \in Names : Listed(table, m) => Listed(nodes, m)'
    <3>1. \A i \in 1 .. Len(table) : nodes'[i].name = table[i].name
      BY <2>1, <2>3, <2>5
    <3> QED BY <2>5, <3>1 DEF Listed
  <2>8. ASSUME NEW m \in Names, CallsAfter(m) > 0, ~Listed(nodes, m)' PROVE ~HasRoom'
    <3>1. m # n
      BY <1>8, <2>7, <2>8
    <3>2. ~Listed(nodes, m) /\ Calls(m) > 0
      BY <1>2, <1>3, <2>7, <2>8, <3>1
    <3>3. ~(Len(nodes) < Capacity)
      BY <1>1, <3>2 DEF CountInv, CountsExact, HasRoom
    <3> QED
      BY <1>1, <1>2, <2>5, <3>3, DepsAssumption DEF HasRoom
  <2> QED
    BY <1>3, <2>6, <2>8 DEF CountInv, CalledType, CountsExact, Calls, CallsAfter
<1> QED
  BY <1>7, <1>8

\* The histories are numbers and the counts are exact, whatever pass runs.
LEMMA CountsInvariant == DepsSpec => []CountInv
<1>1. Init => CountInv
  <2> SUFFICES ASSUME Init PROVE CountInv
    OBVIOUS
  <2>1. called \in [{"normal", "delay"} -> [Names -> Nat]]
        /\ \A n \in Names : Calls(n) = 0
    BY DEF Init, Calls
  <2> QED
    BY <2>1 DEF Init, CountInv, CalledType, CountsExact
<1>2. TableInv /\ CountInv /\ [Next]_depsVars => CountInv'
  <2> SUFFICES ASSUME TableInv, CountInv, [Next]_depsVars PROVE CountInv'
    OBVIOUS
  <2>1. ASSUME NEW n \in Names, ImportCallback(n) PROVE CountInv'
    BY <2>1, CallbackKeepsCounts
  <2>2. ASSUME NEW n \in Names, ForwardedExport(n) PROVE CountInv'
    <3> DEFINE e == Entry(n, NoName, "forwarded", StatusOf(n), Resolve(n))
    <3>1. e \in Node /\ e.name = n /\ e.count = 0
      BY ResolveType, EntryType DEF Entry, StatusOf, Statuses, Types
    <3>2. Loaded /\ ~Listed(nodes, n) /\ HasRoom /\ called' = called
          /\ nodes' = Append(nodes, e)
      BY <2>2 DEF ForwardedExport, Explored, Loaded
    <3> QED
      BY <3>1, <3>2, AddedKeepsCounts
  <2>3. ASSUME NEW n \in Names, Assembly(n) PROVE CountInv'
    <3>1. <<0, n>> \in Paths
      BY DepsAssumption DEF Paths
    <3>2. /\ AssemblyEntry(n) \in Node /\ AssemblyEntry(n).name = n
          /\ AssemblyEntry(n).count = 0
      BY <3>1, ResolveType, EntryType
         DEF AssemblyEntry, Entry, StatusOf, Statuses, Types
    <3>3. Loaded /\ ~Listed(nodes, n) /\ HasRoom /\ called' = called
          /\ nodes' = Append(nodes, AssemblyEntry(n))
      BY <2>3 DEF Assembly, Loaded
    <3> QED
      BY <3>2, <3>3, AddedKeepsCounts
  <2>4. CASE LoadFails \/ Destroy
    <3>1. nodes' = <<>> /\ phase' \in {"failed", "closed"} /\ called' = called
      BY <2>4 DEF LoadFails, Destroy
    <3>2. ~Loaded' /\ Len(nodes') = 0
      BY <3>1 DEF Loaded
    <3>3. \A i \in 1 .. Len(nodes') : nodes'[i].count = CallsAfter(nodes'[i].name)
      BY <3>2
    <3> QED
      BY <3>1, <3>2, <3>3 DEF CountInv, CalledType, CountsExact, Calls, CallsAfter
  <2>5. CASE UNCHANGED <<nodes, called>> /\ (Loaded' => Loaded)
    BY <2>5 DEF CountInv, CalledType, CountsExact, Calls, Listed, HasRoom
  <2>6. ImportsEnd \/ DelayEnds \/ NextDll \/ PopulateTree \/ UNCHANGED depsVars
          => UNCHANGED <<nodes, called>> /\ (Loaded' => Loaded)
    BY DEF ImportsEnd, DelayEnds, NextDll, PopulateTree, depsVars, Loaded
  <2> QED
    BY <2>1, <2>2, <2>3, <2>4, <2>5, <2>6 DEF Next
<1> QED
  BY <1>1, <1>2, TableInOrder, PTL DEF DepsSpec

\* fx_exe_import_callback (exe.c:675-702): the number of functions a row shows
\* is what both enumerations imported, and no imported DLL lost its row while
\* there was room, for any files and any capacity.
THEOREM CountsAreExact == DepsSpec => []CountsExact
<1>1. CountInv => CountsExact
  BY DEF CountInv
<1> QED
  BY <1>1, CountsInvariant, PTL

-----------------------------------------------------------------------------
(* The search of the API set map.  That the loop comes to an end, and so   *)
(* that the recursive function exists, and what it finds, are both shown   *)
(* by the least range that would be an exception.                          *)

\* An element of a sequence is one of what the sequence is made of.
LEMMA ElementType ==
  ASSUME NEW S, NEW s \in Seq(S), NEW k \in 1 .. Len(s)
  PROVE  s[k] \in S
  OBVIOUS

\* One turn of the loop in which s says how the others go.
Turn(hashes, hash, s, r) ==
  LET mid == Middle(r)
      found == hashes[mid + 1]
  IN  IF r[1] >= r[2] THEN 0
      ELSE IF found.hash = hash THEN found.index
      ELSE IF found.hash < hash THEN s[<<mid + 1, r[2]>>]
      ELSE s[<<r[1], mid>>]
IsSearch(hashes, hash, s) ==
  s = [r \in Ranges(hashes) |-> Turn(hashes, hash, s, r)]
Width(r) == r[2] - r[1]

\* What the binary search has left lies within the table of hashes.
LEMMA RangeType ==
  ASSUME NEW hashes, Len(hashes) \in Nat, NEW r \in Ranges(hashes)
  PROVE  /\ r[1] \in 0 .. Len(hashes) /\ r[2] \in 0 .. Len(hashes)
         /\ Width(r) \in Int
         /\ r = <<r[1], r[2]>>
  BY DEF Ranges, Width

\* Both halves of a range that is not empty are smaller ranges.
LEMMA HalvesAreSmaller ==
  ASSUME NEW hashes, Len(hashes) \in Nat, NEW r \in Ranges(hashes), ~(r[1] >= r[2])
  PROVE  /\ Middle(r) \in Nat /\ r[1] <= Middle(r) /\ Middle(r) < r[2]
         /\ <<Middle(r) + 1, r[2]>> \in Ranges(hashes)
         /\ <<r[1], Middle(r)>> \in Ranges(hashes)
         /\ Width(<<Middle(r) + 1, r[2]>>) < Width(r)
         /\ Width(<<r[1], Middle(r)>>) < Width(r)
         /\ Width(<<Middle(r) + 1, r[2]>>) >= 0
         /\ Width(<<r[1], Middle(r)>>) >= 0
<1>1. ASSUME NEW lo \in Nat, NEW hi \in Nat, lo < hi
      PROVE  /\ lo + (hi - lo) \div 2 \in Nat /\ lo <= lo + (hi - lo) \div 2
             /\ lo + (hi - lo) \div 2 < hi
  BY <1>1
<1>2. r[1] \in 0 .. Len(hashes) /\ r[2] \in 0 .. Len(hashes)
  BY RangeType
<1>3. Middle(r) \in Nat /\ r[1] <= Middle(r) /\ Middle(r) < r[2]
  BY <1>1, <1>2 DEF Middle
<1>4. Middle(r) + 1 \in 0 .. Len(hashes) /\ Middle(r) \in 0 .. Len(hashes)
  BY <1>2, <1>3
<1>5. /\ <<Middle(r) + 1, r[2]>> \in Ranges(hashes)
      /\ <<r[1], Middle(r)>> \in Ranges(hashes)
  BY <1>2, <1>4 DEF Ranges
<1>6. /\ r[2] - (Middle(r) + 1) < r[2] - r[1] /\ Middle(r) - r[1] < r[2] - r[1]
      /\ r[2] - (Middle(r) + 1) >= 0 /\ Middle(r) - r[1] >= 0
  BY <1>2, <1>3
<1> QED
  BY <1>3, <1>5, <1>6 DEF Width

\* A turn asks only about smaller ranges.
LEMMA TurnsAlike ==
  ASSUME NEW hashes, Len(hashes) \in Nat, NEW hash, NEW s, NEW t,
         NEW r \in Ranges(hashes),
         \A q \in Ranges(hashes) : Width(q) < Width(r) => s[q] = t[q]
  PROVE  Turn(hashes, hash, s, r) = Turn(hashes, hash, t, r)
<1>1. CASE r[1] >= r[2]
  BY <1>1 DEF Turn
<1>2. CASE ~(r[1] >= r[2])
  <2>1. /\ s[<<Middle(r) + 1, r[2]>>] = t[<<Middle(r) + 1, r[2]>>]
        /\ s[<<r[1], Middle(r)>>] = t[<<r[1], Middle(r)>>]
    BY <1>2, HalvesAreSmaller
  <2> QED BY <2>1 DEF Turn
<1> QED BY <1>1, <1>2

\* The function the loop computes: up to any width, by the least width of
\* which there would be none.
LEMMA SearchExists ==
  ASSUME NEW hashes, Len(hashes) \in Nat, NEW hash
  PROVE  \E s : IsSearch(hashes, hash, s)
<1> DEFINE D == Ranges(hashes)
           Upto(k, s) == /\ s = [r \in D |-> s[r]]
                         /\ \A r \in D : Width(r) <= k => s[r] = Turn(hashes, hash, s, r)
           T == {k \in Nat : ~\E s : Upto(k, s)}
<1>1. T = {}
  <2> SUFFICES ASSUME T # {} PROVE FALSE
    OBVIOUS
  <2>1. PICK k \in T : \A j \in T : ~(j < k)
    <3>1. T \subseteq Nat
      OBVIOUS
    <3> HIDE DEF T
    <3> QED BY <3>1, LeastNatural
  <2>2. k \in Nat /\ ~\E s : Upto(k, s)
    BY <2>1
  <2>3. CASE k = 0
    <3> DEFINE s == [r \in D |-> 0]
    <3>1. ASSUME NEW r \in D, Width(r) <= 0 PROVE Turn(hashes, hash, s, r) = 0
      <4>1. r[1] >= r[2]
        BY <3>1, RangeType DEF Width
      <4> QED BY <4>1 DEF Turn
    <3>2. s = [r \in D |-> s[r]] /\ \A r \in D : s[r] = 0
      OBVIOUS
    <3> HIDE DEF s, D
    <3>3. Upto(0, s)
      BY <3>1, <3>2
    <3> HIDE DEF Upto
    <3> QED BY <2>2, <2>3, <3>3
  <2>4. CASE k # 0
    <3>1. k - 1 \in Nat /\ k - 1 < k
      BY <2>2, <2>4
    <3>2. PICK g : Upto(k - 1, g)
      <4>1. k - 1 \notin T
        BY <2>1, <3>1
      <4> QED BY <3>1, <4>1
    <3> DEFINE s == [r \in D |-> Turn(hashes, hash, g, r)]
    <3>3. s = [r \in D |-> s[r]] /\ \A r \in D : s[r] = Turn(hashes, hash, g, r)
      OBVIOUS
    <3> HIDE DEF s, D
    <3>4. ASSUME NEW r \in D, Width(r) <= k PROVE s[r] = Turn(hashes, hash, s, r)
      <4>1. \A q \in D : Width(q) < Width(r) => g[q] = s[q]
        <5>1. ASSUME NEW q \in D, Width(q) < Width(r) PROVE g[q] = s[q]
          <6>1. Width(q) <= k - 1
            BY <2>2, <3>4, <5>1, RangeType DEF D
          <6> QED BY <3>2, <3>3, <6>1
        <5> QED BY <5>1
      <4>2. Turn(hashes, hash, g, r) = Turn(hashes, hash, s, r)
        BY <4>1, TurnsAlike DEF D
      <4> QED BY <3>3, <4>2
    <3>5. Upto(k, s)
      BY <3>3, <3>4
    <3> HIDE DEF Upto
    <3> QED BY <2>2, <3>5
  <2> QED BY <2>3, <2>4
<1>2. PICK s : Upto(Len(hashes), s)
  BY <1>1
<1>3. \A r \in D : Width(r) <= Len(hashes)
  BY RangeType DEF Width
<1>4. s = [r \in D |-> s[r]] /\ \A r \in D : s[r] = Turn(hashes, hash, s, r)
  BY <1>2, <1>3
<1>5. [r \in D |-> s[r]] = [r \in D |-> Turn(hashes, hash, s, r)]
  BY <1>4
<1> QED
  BY <1>4, <1>5 DEF IsSearch

\* exe.c:190-211: in a table whose hashes are in order the loop finds the one
\* that is looked for, wherever it stands.
LEMMA SearchFinds ==
  ASSUME NEW hashes \in Seq([hash : Nat, index : Nat]),
         \A i, j \in DOMAIN hashes : i < j => hashes[i].hash < hashes[j].hash,
         NEW place \in DOMAIN hashes
  PROVE  Search(hashes, hashes[place].hash) = hashes[place].index
<1> DEFINE hash == hashes[place].hash
           n == Len(hashes)
           D == Ranges(hashes)
<1>1. /\ n \in Nat /\ DOMAIN hashes = 1 .. n /\ place \in 1 .. n
      /\ \A i \in 1 .. n : hashes[i].hash \in Nat
  <2> DEFINE S == [hash : Nat, index : Nat]
  <2>1. \A i \in 1 .. n : hashes[i] \in S
    <3>1. hashes \in Seq(S)
      OBVIOUS
    <3> HIDE DEF S
    <3> QED BY <3>1, ElementType
  <2> QED BY <2>1
<1>2. \E s : IsSearch(hashes, hash, s)
  BY <1>1, SearchExists
<1> DEFINE s == CHOOSE t : IsSearch(hashes, hash, t)
<1>3. IsSearch(hashes, hash, s)
  BY <1>2
<1>4. Search(hashes, hash) = s[<<0, n>>]
  BY DEF Search, IsSearch, Turn
<1> HIDE DEF s, hash
<1>5. \A r \in D : s[r] = Turn(hashes, hash, s, r)
  BY <1>3 DEF IsSearch
<1> DEFINE Fails(r) == r[1] < place /\ place <= r[2] /\ s[r] # hashes[place].index
           T == {k \in Nat : \E r \in D : Width(r) = k /\ Fails(r)}
<1>6. T = {}
  <2> SUFFICES ASSUME T # {} PROVE FALSE
    OBVIOUS
  <2>1. PICK k \in T : \A j \in T : ~(j < k)
    <3>1. T \subseteq Nat
      OBVIOUS
    <3> HIDE DEF T
    <3> QED BY <3>1, LeastNatural
  <2>2. PICK r \in D : Width(r) = k /\ Fails(r)
    BY <2>1
  <2> DEFINE m == Middle(r)
             low == <<r[1], m>>
             high == <<m + 1, r[2]>>
  <2>3. r[1] \in 0 .. n /\ r[2] \in 0 .. n /\ ~(r[1] >= r[2]) /\ k \in Nat
    BY <1>1, <2>1, <2>2, RangeType
  <2>4. /\ m \in Nat /\ r[1] <= m /\ m < r[2]
        /\ low \in D /\ high \in D
        /\ Width(low) \in Nat /\ Width(low) < k
        /\ Width(high) \in Nat /\ Width(high) < k
    <3>1. Width(low) \in Int /\ Width(high) \in Int
      BY <1>1, <2>3, HalvesAreSmaller, RangeType
    <3>2. /\ m \in Nat /\ r[1] <= m /\ m < r[2]
          /\ low \in D /\ high \in D
          /\ Width(low) < Width(r) /\ Width(low) >= 0
          /\ Width(high) < Width(r) /\ Width(high) >= 0
      BY <1>1, <2>3, HalvesAreSmaller
    <3> HIDE DEF m, low, high
    <3> QED BY <2>2, <3>1, <3>2
  <2>5. ~Fails(low) /\ ~Fails(high)
    BY <2>1, <2>4
  <2>6. m + 1 \in 1 .. n
    <3>1. n \in Nat /\ m \in Nat /\ m < r[2] /\ r[2] \in 0 .. n
      BY <1>1, <2>3, <2>4
    <3> HIDE DEF m, n
    <3> QED BY <3>1
  <2>7. s[r] = IF hashes[m + 1].hash = hash THEN hashes[m + 1].index
               ELSE IF hashes[m + 1].hash < hash THEN s[high] ELSE s[low]
    BY <1>5, <2>2, <2>3 DEF Turn
  <2>8. low[1] = r[1] /\ low[2] = m /\ high[1] = m + 1 /\ high[2] = r[2]
    OBVIOUS
  <2> HIDE DEF m, low, high, T, D
  <2>9. /\ m + 1 < place => hashes[m + 1].hash < hash
        /\ place < m + 1 => hash < hashes[m + 1].hash
    BY <1>1, <2>6 DEF hash
  <2>10. hash \in Nat /\ hashes[m + 1].hash \in Nat
    BY <1>1, <2>6 DEF hash
  <2>11. CASE m + 1 = place
    BY <2>2, <2>7, <2>11 DEF hash
  <2>12. CASE m + 1 < place
    <3>1. s[r] = s[high]
      BY <2>7, <2>9, <2>10, <2>12
    <3> QED BY <2>2, <2>5, <2>8, <2>12, <3>1
  <2>13. CASE place < m + 1
    <3>1. s[r] = s[low]
      BY <2>7, <2>9, <2>10, <2>13
    <3>2. place <= m
      BY <1>1, <2>4, <2>13
    <3> QED BY <2>2, <2>5, <2>8, <3>1, <3>2
  <2> QED BY <1>1, <2>4, <2>11, <2>12, <2>13
<1>7. <<0, n>> \in D /\ Width(<<0, n>>) = n
  BY <1>1 DEF Ranges, Width
<1>8. ~Fails(<<0, n>>)
  BY <1>1, <1>6, <1>7
<1>9. s[<<0, n>>] = hashes[place].index
  BY <1>1, <1>8
<1> QED BY <1>4, <1>9 DEF hash

\* The greatest of some places of a sequence.
LEMMA GreatestPlace ==
  ASSUME NEW n \in Nat, NEW P, P \subseteq 1 .. n, P # {}
  PROVE  \E i \in P : \A j \in P : j <= i
<1> DEFINE T == {n - i : i \in P}
<1>1. T \subseteq Nat /\ T # {}
  <2>1. \A i \in P : n - i \in Nat
    OBVIOUS
  <2> QED BY <2>1
<1>2. PICK t \in T : \A u \in T : ~(u < t)
  <2> HIDE DEF T
  <2> QED BY <1>1, LeastNatural
<1>3. PICK i \in P : t = n - i
  BY <1>2
<1>4. \A j \in P : ~(n - j < n - i)
  BY <1>2, <1>3
<1> QED BY <1>3, <1>4

\* The part that is hashed begins the name, which the test of a prefix that
\* follows the search does not reject.
LEMMA StemBegins ==
  ASSUME NEW name \in Seq(Nat)
  PROVE  /\ Len(Stem(name)) <= Len(name)
         /\ SubSeq(name, 1, Len(Stem(name))) = Stem(name)
<1> DEFINE H == {i \in DOMAIN name : name[i] = Hyphen}
           last == CHOOSE i \in H : \A j \in H : j <= i
<1>1. CASE H = {}
  BY <1>1 DEF Stem
<1>2. CASE H # {}
  <2>1. Stem(name) = SubSeq(name, 1, last - 1)
    BY <1>2 DEF Stem
  <2>2. last \in 1 .. Len(name)
    <3>1. Len(name) \in Nat /\ H \subseteq 1 .. Len(name)
      OBVIOUS
    <3> HIDE DEF H
    <3> QED BY <1>2, <3>1, GreatestPlace
  <2> HIDE DEF last, H
  <2> QED BY <2>1, <2>2
<1> QED BY <1>1, <1>2

\* exe.c:153-231: in a map as Windows promises it, every set has its host.
LEMMA HostIsFound ==
  ASSUME NEW map \in Maps, map.version = 6, WellFormed(map), NEW n \in ApiSets
  PROVE  FoundIn(map, Spelling[n], ResolveApiSet(map, Spelling[n]))
<1> DEFINE name == Spelling[n]
           hash == HashOf(map.factor, Stem(name))
           place == Search(map.hashes, hash)
           host == ResolveApiSet(map, name)
<1>1. /\ name \in Seq(Nat) /\ map.hashes \in Seq([hash : Nat, index : Nat])
      /\ \A e \in DOMAIN map.entries :
           map.entries[e].values \in Seq(Names \cup {NoName})
  BY DepsAssumption
<1>2. host = IF /\ place \in DOMAIN map.entries
                /\ Matches(map.entries[place], name)
                /\ Len(map.entries[place].values) > 0
             THEN Default(map.entries[place]) ELSE NoName
  BY DEF ResolveApiSet
<1>3. ASSUME NEW e \in DOMAIN map.entries, map.entries[e].name = Stem(name),
             map.entries[e].values # <<>>
      PROVE  host = Default(map.entries[e])
  <2>1. PICK i \in DOMAIN map.hashes : map.hashes[i].index = e
    BY DEF WellFormed
  <2>2. map.hashes[i].hash = hash
    BY <1>3, <2>1 DEF WellFormed
  <2>3. Search(map.hashes, map.hashes[i].hash) = map.hashes[i].index
    BY <1>1, SearchFinds DEF WellFormed
  <2>4. place = e
    BY <2>1, <2>2, <2>3
  <2>5. Matches(map.entries[e], name)
    BY <1>1, <1>3, StemBegins DEF Matches
  <2>6. Len(map.entries[e].values) > 0
    BY <1>1, <1>3
  <2> HIDE DEF place, host, name
  <2> QED BY <1>2, <2>4, <2>5, <2>6
<1>4. ASSUME host # NoName
      PROVE  /\ place \in DOMAIN map.entries
             /\ Matches(map.entries[place], name)
             /\ map.entries[place].values # <<>>
             /\ host = Default(map.entries[place])
  <2> HIDE DEF place, host, name
  <2>1. /\ place \in DOMAIN map.entries
        /\ Matches(map.entries[place], name)
        /\ Len(map.entries[place].values) > 0
        /\ host = Default(map.entries[place])
    BY <1>2, <1>4
  <2>2. map.entries[place].values # <<>>
    BY <2>1
  <2> QED BY <2>1, <2>2
<1> HIDE DEF host, place, name
<1>5. FoundIn(map, name, host)
  BY <1>3, <1>4 DEF FoundIn
<1> QED BY <1>5 DEF host, name

-----------------------------------------------------------------------------
(* What the rows say.                                                     *)

\* What a row says, of the calls c so far, in phase ph, with the disk d.  It
\* takes more than RowHonest: the regular imports come first, so that a row of
\* another type tells that no call of theirs was of its DLL, and until both
\* enumerations are over every row is of an imported one.
Tells(node, c, ph, d) ==
  /\ node.type = "delay" => c["normal"][node.name] = 0 /\ ph # "imports"
  /\ node.type = "forwarded" =>
       /\ c["normal"][node.name] + c["delay"][node.name] = 0
       /\ ph \notin {"imports", "delay"}
  /\ \/ ph \in {"imports", "delay"}
     \/ c["normal"][node.name] + c["delay"][node.name] > 0
     => node.isApiSet = (node.name \in ApiSets)
  /\ (node.status # "not_found") = (node.path \in d)
Telling(table, c, ph, d) == \A i \in 1 .. Len(table) : Tells(table[i], c, ph, d)

HonestInv == /\ disk \in Disks
             /\ phase = "imports" => \A n \in Names : called["delay"][n] = 0
             /\ Telling(nodes, called, phase, disk)

\* One row more that is right.
LEMMA AppendTells ==
  ASSUME NEW t \in Seq(Node), NEW e \in Node, NEW c, NEW ph, NEW d,
         Telling(t, c, ph, d), Tells(e, c, ph, d)
  PROVE  Telling(Append(t, e), c, ph, d)
<1> DEFINE u == Append(t, e)
<1>1. /\ Len(u) = Len(t) + 1 /\ Len(t) \in Nat /\ u[Len(t) + 1] = e
      /\ \A i \in 1 .. Len(t) : u[i] = t[i]
  OBVIOUS
<1> HIDE DEF u
<1>2. ASSUME NEW i \in 1 .. Len(u) PROVE Tells(u[i], c, ph, d)
  <2>1. i \in 1 .. Len(t) \/ i = Len(t) + 1
    BY <1>1
  <2> QED BY <1>1, <2>1 DEF Telling
<1> QED BY <1>2 DEF Telling, u

\* A search of the disk that finds a DLL returns the path of its file, and
\* one that does not a path where there is none.
LEMMA ResolveTells ==
  ASSUME NEW n \in Names
  PROVE  Found(n) <=> Resolve(n) \in disk
<1>1. Places \in 1 .. Places
  BY DepsAssumption
<1>2. CASE ~Found(n)
  BY <1>1, <1>2 DEF Resolve, Found
<1>3. CASE Found(n)
  <2> DEFINE T == {p \in 1 .. Places : <<p, n>> \in disk}
  <2>1. PICK p \in T : \A q \in T : ~(q < p)
    <3>1. T \subseteq Nat /\ T # {}
      BY <1>3, DepsAssumption DEF Found
    <3> HIDE DEF T
    <3> QED BY <3>1, LeastNatural
  <2>2. /\ p \in 1 .. Places /\ <<p, n>> \in disk
        /\ \A q \in 1 .. (p - 1) : <<q, n>> \notin disk
    BY <2>1, DepsAssumption
  <2> QED
    BY <1>3, <2>2 DEF Resolve
<1> QED
  BY <1>2, <1>3

\* There is no file on a disk where nothing was tried.
LEMMA NoFileWithoutName == disk \in Disks => NoPath \notin disk
  BY DepsAssumption DEF NoPath

\* What FindOrAdd adds is right about the disk, and about the API sets.
LEMMA ImportedTells ==
  ASSUME TableInv, disk \in Disks, NEW n \in Names, NEW type \in Types
  PROVE  LET e == Imported(n, type)
         IN  /\ e.name = n /\ e.type = type
             /\ e.isApiSet = (n \in ApiSets)
             /\ (e.status # "not_found") = (e.path \in disk)
<1> DEFINE e == Imported(n, type)
<1>1. CASE n \notin ApiSets
  <2>1. e = Entry(n, NoName, type, StatusOf(n), Resolve(n))
    BY <1>1 DEF Imported
  <2>2. (StatusOf(n) # "not_found") = (Resolve(n) \in disk)
    BY ResolveTells DEF StatusOf
  <2> HIDE DEF e
  <2>3. /\ e.name = n /\ e.type = type /\ e.isApiSet = FALSE
        /\ e.status = StatusOf(n) /\ e.path = Resolve(n)
    BY <2>1 DEF Entry
  <2>4. e.isApiSet = (n \in ApiSets)
    <3>1. (n \in ApiSets) = FALSE
      BY <1>1
    <3> QED BY <2>3, <3>1, Zenon
  <2>5. (e.status # "not_found") = (e.path \in disk)
    BY <2>2, <2>3
  <2> QED BY <2>3, <2>4, <2>5 DEF e
<1>2. CASE n \in ApiSets /\ Host(n) = NoName
  <2>1. e = [Entry(n, NoName, type, "not_found", NoPath) EXCEPT !.isApiSet = TRUE]
    BY <1>2 DEF Imported
  <2> HIDE DEF e
  <2>2. /\ e.name = n /\ e.type = type /\ e.isApiSet = TRUE
        /\ e.status = "not_found" /\ e.path = NoPath
    BY <2>1 DEF Entry
  <2>3. e.isApiSet = (n \in ApiSets)
    BY <1>2, <2>2
  <2>4. (e.status # "not_found") = (e.path \in disk)
    BY <2>2, NoFileWithoutName
  <2> QED BY <2>2, <2>3, <2>4 DEF e
<1>3. CASE n \in ApiSets /\ Host(n) # NoName
  <2> DEFINE st == IF Found(Host(n)) THEN "api_set_resolved" ELSE "not_found"
  <2>1. e = [Entry(n, Host(n), type, st, Resolve(Host(n))) EXCEPT !.isApiSet = TRUE]
    BY <1>3 DEF Imported
  <2>2. Host(n) \in Names
    BY <1>3, HostType DEF TableInv
  <2>3. (st # "not_found") = (Resolve(Host(n)) \in disk)
    BY <2>2, ResolveTells
  <2> HIDE DEF e, st
  <2> QED BY <1>3, <2>1, <2>3 DEF Entry, e
<1> QED
  BY <1>1, <1>2, <1>3

\* The callback: what a new row says of earlier calls, none, is right.
LEMMA CallbackTells ==
  ASSUME TableInv, CountInv, HonestInv, NEW n \in Names, ImportCallback(n)
  PROVE  HonestInv'
<1> DEFINE table == FindOrAdd(n, Pass)
           k == IndexOf(table, n)
<1>1. /\ phase \in {"imports", "delay"} /\ Pass \in {"normal", "delay"}
      /\ Pass = "normal" <=> phase = "imports"
      /\ Pass \in Types /\ nodes \in Seq(Node)
      /\ UNCHANGED <<phase, disk>>
  BY DEF ImportCallback, machine, TableInv, Table, Pass, Types
<1>2. Telling(table, called, phase, disk) /\ Table(table)
  <2>1. CASE Listed(nodes, n) \/ ~HasRoom
    BY <2>1 DEF FindOrAdd, TableInv, HonestInv
  <2>2. CASE ~(Listed(nodes, n) \/ ~HasRoom)
    <3> DEFINE e == Imported(n, Pass)
    <3>1. e \in Node
      BY <1>1, ImportedType DEF TableInv
    <3>2. /\ e.name = n /\ e.type = Pass /\ e.isApiSet = (n \in ApiSets)
          /\ (e.status # "not_found") = (e.path \in disk)
      BY <1>1, ImportedTells DEF HonestInv
    <3>3. called["normal"][n] = 0
      <4>1. Calls(n) = 0 /\ called["normal"][n] \in Nat /\ called["delay"][n] \in Nat
        BY <1>1, <2>2 DEF CountInv, CalledType, CountsExact, Loaded, Calls
      <4> QED BY <4>1 DEF Calls
    <3> HIDE DEF e
    <3>4. Tells(e, called, phase, disk)
      BY <1>1, <3>2, <3>3 DEF Tells
    <3>5. table = Append(nodes, e)
      BY <2>2 DEF FindOrAdd, e
    <3>6. Telling(table, called, phase, disk)
      BY <1>1, <3>1, <3>4, <3>5, AppendTells DEF HonestInv
    <3>7. Table(table)
      BY <2>2, <3>1, <3>2, <3>5, AppendKeepsTable DEF TableInv, HasRoom
    <3> QED BY <3>6, <3>7
  <2> QED BY <2>1, <2>2
<1>3. /\ Len(nodes') = Len(table) /\ Len(table) \in Nat
      /\ \A i \in 1 .. Len(table) :
           /\ table[i] \in Node
           /\ nodes'[i].name = table[i].name /\ nodes'[i].type = table[i].type
           /\ nodes'[i].status = table[i].status /\ nodes'[i].path = table[i].path
           /\ nodes'[i].isApiSet = table[i].isApiSet
  <2> HIDE DEF table
  <2>1. table \in Seq(Node) /\ \A i \in 1 .. Len(table) : table[i] \in Node
    BY <1>2 DEF Table
  <2>2. nodes' = IF Listed(table, n) THEN [table EXCEPT ![k].count = @ + 1] ELSE table
    BY DEF ImportCallback, table
  <2>3. CASE Listed(table, n)
    <3>1. k \in 1 .. Len(table)
      BY <2>3 DEF Listed, IndexOf
    <3> HIDE DEF k
    <3>2. nodes' = [table EXCEPT ![k].count = @ + 1]
      BY <2>2, <2>3
    <3> QED BY <2>1, <3>1, <3>2 DEF Node
  <2> QED BY <2>1, <2>2, <2>3
<1>4. /\ \A m \in Names : called["normal"][m] = 0 /\ Pass # "normal"
                            => called'["normal"][m] = 0
      /\ Pass = "normal" => called'["delay"] = called["delay"]
  BY <1>1 DEF ImportCallback, CountInv, CalledType
<1> HIDE DEF table
<1>5. ASSUME NEW i \in 1 .. Len(table)
      PROVE  Tells(nodes'[i], called', phase, disk)
  <2>1. Tells(table[i], called, phase, disk) /\ table[i].name \in Names
    BY <1>2, <1>3 DEF Telling, Node
  <2>2. table[i].type # "forwarded" /\ (table[i].type = "delay" => Pass # "normal")
    BY <1>1, <2>1 DEF Tells
  <2>3. /\ nodes'[i].name = table[i].name /\ nodes'[i].type = table[i].type
        /\ nodes'[i].status = table[i].status /\ nodes'[i].path = table[i].path
        /\ nodes'[i].isApiSet = table[i].isApiSet
    BY <1>3
  <2> QED
    BY <1>1, <1>4, <2>1, <2>2, <2>3 DEF Tells
<1>6. Telling(nodes', called', phase, disk)
  BY <1>3, <1>5 DEF Telling
<1> QED
  BY <1>1, <1>4, <1>6 DEF HonestInv

\* A later phase in which the calls are the same says no more of a row.
LEMMA LaterTells ==
  ASSUME HonestInv, UNCHANGED <<disk, called, nodes>>, phase' # "imports",
         phase' = "delay" => phase \in {"imports", "delay"}
  PROVE  HonestInv'
<1>1. ASSUME NEW i \in 1 .. Len(nodes) PROVE Tells(nodes[i], called, phase', disk)
  BY <1>1 DEF HonestInv, Telling, Tells
<1> QED
  BY <1>1 DEF HonestInv, Telling

\* The forwarders and the manifest add rows of DLLs that were not imported.
LEMMA AddedTells ==
  ASSUME TableInv, CountInv, HonestInv, NEW n \in Names,
         phase \in {"forwards", "sxs"}, ~Listed(nodes, n), HasRoom,
         NEW e \in Node, e.name = n, e.type # "delay",
         (e.status # "not_found") = (e.path \in disk),
         nodes' = Append(nodes, e), UNCHANGED <<disk, called, phase>>
  PROVE  HonestInv'
<1>1. called["normal"][n] + called["delay"][n] = 0
  BY DEF CountInv, CalledType, CountsExact, Loaded, Calls
<1>2. Tells(e, called, phase, disk)
  BY <1>1 DEF Tells
<1>3. Telling(nodes', called, phase, disk)
  BY <1>2, AppendTells DEF HonestInv, TableInv, Table
<1> QED
  BY <1>3 DEF HonestInv

\* For any files, disks and maps: what a row says of how its DLL is loaded and
\* of whether it was found is right (exe.c:619-702, 363-608).
THEOREM RowsAreHonest == DepsSpec => []RowsHonest
<1>1. Init => HonestInv
  BY DEF Init, HonestInv, Telling
<1>2. TableInv /\ CountInv /\ HonestInv /\ [Next]_depsVars => HonestInv'
  <2> SUFFICES ASSUME TableInv, CountInv, HonestInv, [Next]_depsVars PROVE HonestInv'
    OBVIOUS
  <2>1. ASSUME NEW n \in Names, ImportCallback(n) PROVE HonestInv'
    BY <2>1, CallbackTells
  <2>2. ASSUME NEW n \in Names, ForwardedExport(n) PROVE HonestInv'
    <3> DEFINE e == Entry(n, NoName, "forwarded", StatusOf(n), Resolve(n))
    <3>1. e \in Node /\ e.name = n /\ e.type # "delay"
      BY ResolveType, EntryType DEF Entry, StatusOf, Statuses, Types
    <3>2. (e.status # "not_found") = (e.path \in disk)
      BY ResolveTells DEF Entry, StatusOf
    <3>3. /\ phase = "forwards" /\ ~Listed(nodes, n) /\ HasRoom
          /\ UNCHANGED <<disk, called, phase>> /\ nodes' = Append(nodes, e)
      BY <2>2 DEF ForwardedExport, Explored, machine
    <3> HIDE DEF e
    <3> QED
      BY <3>1, <3>2, <3>3, AddedTells
  <2>3. ASSUME NEW n \in Names, Assembly(n) PROVE HonestInv'
    <3> DEFINE e == AssemblyEntry(n)
    <3>1. <<0, n>> \in Paths
      BY DepsAssumption DEF Paths
    <3>2. e \in Node /\ e.name = n /\ e.type # "delay"
      BY <3>1, ResolveType, EntryType
         DEF AssemblyEntry, Entry, StatusOf, Statuses, Types
    <3>3. (e.status # "not_found") = (e.path \in disk)
      BY ResolveTells DEF AssemblyEntry, Entry, StatusOf
    <3>4. /\ phase = "sxs" /\ ~Listed(nodes, n) /\ HasRoom
          /\ UNCHANGED <<disk, called, phase>> /\ nodes' = Append(nodes, e)
      BY <2>3 DEF Assembly, machine
    <3> HIDE DEF e
    <3> QED
      BY <3>2, <3>3, <3>4, AddedTells
  <2>4. CASE LoadFails \/ Destroy
    <3>1. nodes' = <<>> /\ phase' # "imports" /\ disk' = disk
      BY <2>4 DEF LoadFails, Destroy, machine
    <3> QED
      BY <3>1 DEF HonestInv, Telling
  <2>5. CASE ImportsEnd \/ DelayEnds \/ NextDll \/ PopulateTree
    BY <2>5, LaterTells DEF ImportsEnd, DelayEnds, NextDll, PopulateTree, machine
  <2>6. CASE UNCHANGED depsVars
    BY <2>6 DEF depsVars, machine, HonestInv, Telling, Tells
  <2> QED
    BY <2>1, <2>2, <2>3, <2>4, <2>5, <2>6 DEF Next
<1>3. HonestInv => RowsHonest
  BY DEF HonestInv, Telling, Tells, RowsHonest, RowHonest, Calls
<1> QED
  BY <1>1, <1>2, <1>3, TableInOrder, CountsInvariant, PTL DEF DepsSpec

\* An API set is only imported, and its row keeps the host of the look-up.
Hosted(node, map) ==
  node.isApiSet => /\ node.name \in ApiSets
                   /\ node.host = ResolveApiSet(map, Spelling[node.name])
HostInv == \A i \in 1 .. Len(nodes) : Hosted(nodes[i], apiSetMap)

\* Appending a row whose host is the map's keeps that of all rows.
LEMMA AppendHosted ==
  ASSUME NEW t \in Seq(Node), NEW e \in Node, NEW map, Hosted(e, map),
         \A i \in 1 .. Len(t) : Hosted(t[i], map)
  PROVE  \A i \in 1 .. Len(Append(t, e)) : Hosted(Append(t, e)[i], map)
<1> DEFINE u == Append(t, e)
<1>1. /\ Len(u) = Len(t) + 1 /\ Len(t) \in Nat /\ u[Len(t) + 1] = e
      /\ \A i \in 1 .. Len(t) : u[i] = t[i]
  OBVIOUS
<1> HIDE DEF u
<1>2. ASSUME NEW i \in 1 .. Len(u) PROVE Hosted(u[i], map)
  <2>1. i \in 1 .. Len(t) \/ i = Len(t) + 1
    BY <1>1
  <2> QED BY <1>1, <2>1
<1> QED BY <1>2 DEF u

\* What FindOrAdd adds has the host of the look-up, or no host where there is
\* none.
LEMMA ImportedHosted ==
  ASSUME NEW n \in Names, NEW type \in Types
  PROVE  Hosted(Imported(n, type), apiSetMap)
<1> DEFINE e == Imported(n, type)
<1>1. CASE n \notin ApiSets
  <2>1. e = Entry(n, NoName, type, StatusOf(n), Resolve(n))
    BY <1>1 DEF Imported
  <2> HIDE DEF e
  <2>2. e.isApiSet = FALSE
    BY <2>1 DEF Entry
  <2> QED BY <2>2 DEF Hosted, e
<1>2. CASE n \in ApiSets
  <2>1. PICK host, status, path :
          /\ host = Host(n)
          /\ e = [Entry(n, host, type, status, path) EXCEPT !.isApiSet = TRUE]
    BY <1>2 DEF Imported
  <2> HIDE DEF e
  <2>2. e.name = n /\ e.host = host
    BY <2>1 DEF Entry
  <2>3. host = ResolveApiSet(apiSetMap, Spelling[n])
    BY <2>1 DEF Host
  <2> QED BY <1>2, <2>2, <2>3 DEF Hosted, e
<1> QED BY <1>1, <1>2

\* The callback adds such a row, and counting leaves its host alone.
LEMMA CallbackHosted ==
  ASSUME TableInv, HostInv, NEW n \in Names, ImportCallback(n)
  PROVE  HostInv'
<1> DEFINE table == FindOrAdd(n, Pass)
           k == IndexOf(table, n)
<1>1. nodes \in Seq(Node) /\ Pass \in Types /\ apiSetMap' = apiSetMap
  BY DEF ImportCallback, machine, TableInv, Table, Pass, Types
<1>2. table \in Seq(Node) /\ \A i \in 1 .. Len(table) : Hosted(table[i], apiSetMap)
  <2>1. CASE Listed(nodes, n) \/ ~HasRoom
    BY <1>1, <2>1 DEF FindOrAdd, HostInv
  <2>2. CASE ~(Listed(nodes, n) \/ ~HasRoom)
    <3> DEFINE e == Imported(n, Pass)
    <3>1. e \in Node /\ Hosted(e, apiSetMap)
      BY <1>1, ImportedType, ImportedHosted DEF TableInv
    <3>2. table = Append(nodes, e)
      BY <2>2 DEF FindOrAdd
    <3> HIDE DEF e, table
    <3> QED BY <1>1, <3>1, <3>2, AppendHosted DEF HostInv
  <2> QED BY <2>1, <2>2
<1>3. nodes' = IF Listed(table, n) THEN [table EXCEPT ![k].count = @ + 1] ELSE table
  BY DEF ImportCallback
<1> HIDE DEF table
<1>4. CASE Listed(table, n)
  <2>1. k \in 1 .. Len(table)
    BY <1>4 DEF Listed, IndexOf
  <2> HIDE DEF k
  <2>2. \A i \in 1 .. Len(table) : table[i] \in Node
    BY <1>2
  <2>3. nodes' = [table EXCEPT ![k].count = @ + 1]
    BY <1>3, <1>4
  <2>4. /\ Len(nodes') = Len(table)
        /\ \A i \in 1 .. Len(table) :
             /\ nodes'[i].name = table[i].name /\ nodes'[i].host = table[i].host
             /\ nodes'[i].isApiSet = table[i].isApiSet
    BY <1>2, <2>1, <2>2, <2>3 DEF Node
  <2> QED BY <1>1, <1>2, <2>4 DEF HostInv, Hosted
<1>5. CASE ~Listed(table, n)
  BY <1>1, <1>2, <1>3, <1>5 DEF HostInv
<1> QED BY <1>4, <1>5

\* For any map as Windows promises it: an API set is shown with the host the
\* map has for it (exe.c:153-231, 619-673).
THEOREM HostsAreRight == DepsSpec => []HostsRight
<1>1. Init => HostInv
  BY DEF Init, HostInv
<1>2. TableInv /\ HostInv /\ [Next]_depsVars => HostInv'
  <2> SUFFICES ASSUME TableInv, HostInv, [Next]_depsVars PROVE HostInv'
    OBVIOUS
  <2>1. ASSUME NEW n \in Names, ImportCallback(n) PROVE HostInv'
    BY <2>1, CallbackHosted
  <2>2. ASSUME NEW e \in Node, e.isApiSet = FALSE, nodes' = Append(nodes, e),
               apiSetMap' = apiSetMap
        PROVE  HostInv'
    BY <2>2, AppendHosted DEF HostInv, TableInv, Table, Hosted
  <2>3. ASSUME NEW n \in Names, ForwardedExport(n) PROVE HostInv'
    <3> DEFINE e == Entry(n, NoName, "forwarded", StatusOf(n), Resolve(n))
    <3>1. e \in Node /\ e.isApiSet = FALSE
      BY ResolveType, EntryType DEF Entry, StatusOf, Statuses, Types
    <3> QED
      BY <2>2, <2>3, <3>1 DEF ForwardedExport, machine
  <2>4. ASSUME NEW n \in Names, Assembly(n) PROVE HostInv'
    <3>1. <<0, n>> \in Paths
      BY DepsAssumption DEF Paths
    <3>2. AssemblyEntry(n) \in Node /\ AssemblyEntry(n).isApiSet = FALSE
      BY <3>1, ResolveType, EntryType
         DEF AssemblyEntry, Entry, StatusOf, Statuses, Types
    <3> QED
      BY <2>2, <2>4, <3>2 DEF Assembly, machine
  <2>5. CASE LoadFails \/ Destroy
    BY <2>5 DEF LoadFails, Destroy, HostInv
  <2>6. CASE UNCHANGED <<nodes, apiSetMap>>
    BY <2>6 DEF HostInv
  <2> QED
    BY <2>1, <2>3, <2>4, <2>5, <2>6
       DEF Next, ImportsEnd, DelayEnds, NextDll, PopulateTree, depsVars, machine
<1>3. TableInv /\ HostInv => HostsRight
  <2> SUFFICES ASSUME TableInv, HostInv, apiSetMap.version = 6, WellFormed(apiSetMap),
                      NEW i \in 1 .. Len(nodes), nodes[i].isApiSet
               PROVE  FoundIn(apiSetMap, Spelling[nodes[i].name], nodes[i].host)
    BY DEF HostsRight
  <2> QED
    BY HostIsFound DEF TableInv, HostInv, Hosted
<1> QED
  BY <1>1, <1>2, <1>3, TableInOrder, PTL DEF DepsSpec

\* Whatever is enumerated in between, and whatever else fails: what the page
\* says of a DLL is right.
THEOREM RowsAreTruthful == DepsSpec => []RowsTruthful
<1>1. RowsHonest /\ HostsRight => RowsTruthful
  BY DEF RowsTruthful
<1> QED
  BY <1>1, RowsAreHonest, HostsAreRight, PTL
=============================================================================
