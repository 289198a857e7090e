-------------------------- MODULE PageView_proofs --------------------------
(***************************************************************************)
(* A page and its viewer, for any heights, resolutions and images: nothing *)
(* is left of a viewer that was taken apart, no window has a font that is  *)
(* gone, and both scroll bars agree with what they move.                   *)
(***************************************************************************)
EXTENDS PageView, TLAPS

-----------------------------------------------------------------------------
(* Viewers.                                                                *)

HandlerSet == {".dll", ".efi", ".exe", ".ico", ".iso"}

\* The search of extensions.c finds an entry of the table or none.
LEMMA FindType ==
  ASSUME NEW name
  PROVE  Find(name) \in HandlerSet \cup {NoHandler}
<1> DEFINE matches == {i \in DOMAIN Handlers : Handlers[i] = Fold[name]}
           first == CHOOSE i \in matches : \A j \in matches : i <= j
<1>1. /\ DOMAIN Handlers = 1 .. 5 /\ Handlers[1] = ".dll" /\ Handlers[2] = ".efi"
      /\ Handlers[3] = ".exe" /\ Handlers[4] = ".ico" /\ Handlers[5] = ".iso"
  BY DEF Handlers
<1>2. CASE matches = {}
  BY <1>2 DEF Find
<1>3. CASE matches # {}
  <2>1. \A i, j \in 1 .. 5 : Handlers[i] = Handlers[j] => i = j
    BY <1>1
  <2>2. PICK i \in matches : TRUE
    BY <1>3
  <2>3. \A j \in matches : i <= j
    BY <1>1, <2>1, <2>2
  <2>4. first \in matches
    BY <2>2, <2>3
  <2>5. Find(name) = Handlers[first] /\ first \in 1 .. 5
    BY <1>1, <1>3, <2>4 DEF Find
  <2> HIDE DEF first
  <2> QED BY <1>1, <2>5 DEF HandlerSet
<1> QED BY <1>2, <1>3

\* What the destroy callbacks look for.
LEMMA OrderElements ==
  /\ Elements(DllOrder) = {"exports", "view"}
  /\ Elements(EfiOrder) = {"sbat_value", "sbat_label", "base_value", "base_label", "sbat", "view"}
  /\ Elements(ExeOrder) = {"tree", "nodes", "view"}
  /\ Elements(IcoOrder) = {"list", "images", "entries", "view"}
  /\ Elements(IsoOrder) = {"panel", "view"}
<1>1. Elements(DllOrder) = {"exports", "view"}
  <2>1. /\ DOMAIN DllOrder = 1 .. 2
        /\ DllOrder[1] = "exports"
        /\ DllOrder[2] = "view"
    BY DEF DllOrder
  <2>2. \A i : i \in 1 .. 2 <=> i = 1 \/ i = 2
    OBVIOUS
  <2> QED BY <2>1, <2>2 DEF Elements
<1>2. Elements(EfiOrder) = {"sbat_value", "sbat_label", "base_value", "base_label", "sbat", "view"}
  <2>1. /\ DOMAIN EfiOrder = 1 .. 6
        /\ EfiOrder[1] = "sbat_value"
        /\ EfiOrder[2] = "sbat_label"
        /\ EfiOrder[3] = "base_value"
        /\ EfiOrder[4] = "base_label"
        /\ EfiOrder[5] = "sbat"
        /\ EfiOrder[6] = "view"
    BY DEF EfiOrder
  <2>2. \A i : i \in 1 .. 6 <=> i = 1 \/ i = 2 \/ i = 3 \/ i = 4 \/ i = 5 \/ i = 6
    OBVIOUS
  <2> QED BY <2>1, <2>2 DEF Elements
<1>3. Elements(ExeOrder) = {"tree", "nodes", "view"}
  <2>1. /\ DOMAIN ExeOrder = 1 .. 3
        /\ ExeOrder[1] = "tree"
        /\ ExeOrder[2] = "nodes"
        /\ ExeOrder[3] = "view"
    BY DEF ExeOrder
  <2>2. \A i : i \in 1 .. 3 <=> i = 1 \/ i = 2 \/ i = 3
    OBVIOUS
  <2> QED BY <2>1, <2>2 DEF Elements
<1>4. Elements(IcoOrder) = {"list", "images", "entries", "view"}
  <2>1. /\ DOMAIN IcoOrder = 1 .. 4
        /\ IcoOrder[1] = "list"
        /\ IcoOrder[2] = "images"
        /\ IcoOrder[3] = "entries"
        /\ IcoOrder[4] = "view"
    BY DEF IcoOrder
  <2>2. \A i : i \in 1 .. 4 <=> i = 1 \/ i = 2 \/ i = 3 \/ i = 4
    OBVIOUS
  <2> QED BY <2>1, <2>2 DEF Elements
<1>5. Elements(IsoOrder) = {"panel", "view"}
  <2>1. /\ DOMAIN IsoOrder = 1 .. 2
        /\ IsoOrder[1] = "panel"
        /\ IsoOrder[2] = "view"
    BY DEF IsoOrder
  <2>2. \A i : i \in 1 .. 2 <=> i = 1 \/ i = 2
    OBVIOUS
  <2> QED BY <2>1, <2>2 DEF Elements
<1> QED BY <1>1, <1>2, <1>3, <1>4, <1>5


\* What is acquired before it.
Before(p, n) == {p[i] : i \in 1 .. (n - 1)}

\* What a create function acquires its destroy function releases, the controls of the
\* panel excepted, and what is pointed to is acquired before what points.
LEMMA PlanFacts ==
  ASSUME NEW h \in HandlerSet, NEW p \in Plans(h), NEW n \in DOMAIN p
  PROVE  /\ p[n] \in Elements(Order(h)) \cup {PanelControls}
         /\ p[n] = PanelControls => "panel" \in Before(p, n)
         /\ p[n] = "images" => "list" \in Before(p, n)
         /\ p[n] = "panel" => "view" \in Before(p, n)
<1>1. CASE h = ".dll"
  <2>1. p = <<"view", "exports">>
    BY <1>1 DEF Plans, DllPlans
  <2>2. p[n] \in {"view", "exports"}
    BY <2>1
  <2>3. Elements(Order(h)) = {"exports", "view"}
    BY <1>1, OrderElements DEF Order
  <2> QED BY <2>2, <2>3 DEF PanelControls
<1>2. CASE h = ".efi"
  <2>1. p \in EfiPlans
    BY <1>2 DEF Plans
  <2>2. p[n] \in {"view", "sbat", "base_label", "base_value", "sbat_label", "sbat_value"}
    <3>1. CASE p = <<"view", "base_label", "base_value">>
      BY <3>1
    <3>2. CASE p = <<"view", "sbat", "base_label", "base_value",
                     "sbat_label", "sbat_value">>
      BY <3>2
    <3> QED BY <2>1, <3>1, <3>2 DEF EfiPlans
  <2>3. Elements(Order(h)) = {"sbat_value", "sbat_label", "base_value", "base_label",
                              "sbat", "view"}
    BY <1>2, OrderElements DEF Order
  <2> QED BY <2>2, <2>3 DEF PanelControls
<1>3. CASE h = ".exe"
  <2>1. p = <<"view", "tree", "nodes">>
    BY <1>3 DEF Plans, ExePlans
  <2>2. p[n] \in {"view", "tree", "nodes"}
    BY <2>1
  <2>3. Elements(Order(h)) = {"tree", "nodes", "view"}
    BY <1>3, OrderElements DEF Order
  <2> QED BY <2>2, <2>3 DEF PanelControls
<1>4. CASE h = ".ico"
  <2>1. p = <<"view", "list", "entries", "images">>
    BY <1>4 DEF Plans, IcoPlans
  <2>2. /\ n \in 1 .. 4 /\ p[2] = "list"
        /\ p[n] \in {"view", "list", "entries", "images"}
        /\ p[n] = "images" => n = 4
    BY <2>1
  <2>3. Elements(Order(h)) = {"list", "images", "entries", "view"}
    BY <1>4, OrderElements DEF Order
  <2>4. n = 4 => 2 \in 1 .. (n - 1)
    OBVIOUS
  <2>5. p[n] = "images" => "list" \in Before(p, n)
    BY <2>2, <2>4 DEF Before
  <2> QED BY <2>2, <2>3, <2>5 DEF PanelControls
<1>5. CASE h = ".iso"
  <2>1. p = <<"view", "panel", PanelControls>>
    BY <1>5 DEF Plans, IsoPlans
  <2>2. /\ n \in 1 .. 3 /\ p[1] = "view" /\ p[2] = "panel"
        /\ p[n] \in {"view", "panel", PanelControls}
        /\ p[n] = "panel" => n = 2
        /\ p[n] = PanelControls => n = 3
    <3>1. DOMAIN p = 1 .. 3
      BY <2>1
    <3>2. p[1] = "view" /\ p[2] = "panel" /\ p[3] = PanelControls
      BY <2>1
    <3>3. n \in 1 .. 3
      BY <3>1
    <3>4. \A i : i \in 1 .. 3 => i = 1 \/ i = 2 \/ i = 3
      OBVIOUS
    <3> QED BY <3>2, <3>3, <3>4 DEF PanelControls
  <2>3. Elements(Order(h)) = {"panel", "view"}
    BY <1>5, OrderElements DEF Order
  <2>4. (n = 2 => 1 \in 1 .. (n - 1)) /\ (n = 3 => 2 \in 1 .. (n - 1))
    OBVIOUS
  <2>5. /\ p[n] = "panel" => "view" \in Before(p, n)
        /\ p[n] = PanelControls => "panel" \in Before(p, n)
    BY <2>2, <2>4 DEF Before
  <2> QED BY <2>2, <2>3, <2>5 DEF PanelControls
<1> QED BY <1>1, <1>2, <1>3, <1>4, <1>5 DEF HandlerSet

\* A viewer with a pointer is destroyed in an order that ends the pointer first.
LEMMA PointerOrder ==
  ASSUME NEW h \in HandlerSet
  PROVE  /\ "images" \in Elements(Order(h)) =>
              Order(h)[1] = "list" /\ Order(h)[2] = "images" /\ 1 \in DOMAIN Order(h)
              /\ "panel" \notin Elements(Order(h))
         /\ "panel" \in Elements(Order(h)) =>
              /\ Order(h)[1] = "panel" /\ Order(h)[2] = "view" /\ 1 \in DOMAIN Order(h)
         /\ PanelControls \notin Elements(Order(h))
         /\ DOMAIN Order(h) \subseteq Nat \ {0}
<1>0. DOMAIN Order(h) \subseteq Nat \ {0}
  <2>1. CASE h = ".dll"
    BY <2>1 DEF Order, DllOrder
  <2>2. CASE h = ".efi"
    BY <2>2 DEF Order, EfiOrder
  <2>3. CASE h = ".exe"
    BY <2>3 DEF Order, ExeOrder
  <2>4. CASE h = ".ico"
    BY <2>4 DEF Order, IcoOrder
  <2>5. CASE h = ".iso"
    BY <2>5 DEF Order, IsoOrder
  <2> QED BY <2>1, <2>2, <2>3, <2>4, <2>5 DEF HandlerSet
<1>1. CASE h \in {".dll", ".efi", ".exe"}
  BY <1>0, <1>1, OrderElements DEF Order, PanelControls
<1>2. CASE h = ".ico"
  <2>1. /\ 1 \in DOMAIN IcoOrder /\ IcoOrder[1] = "list" /\ IcoOrder[2] = "images"
    BY DEF IcoOrder
  <2> QED BY <1>0, <1>2, <2>1, OrderElements DEF Order, PanelControls
<1>3. CASE h = ".iso"
  <2>1. 1 \in DOMAIN IsoOrder /\ IsoOrder[1] = "panel" /\ IsoOrder[2] = "view"
    BY DEF IsoOrder
  <2> QED BY <1>0, <1>3, <2>1, OrderElements DEF Order, PanelControls
<1> QED BY <1>1, <1>2, <1>3 DEF HandlerSet

-----------------------------------------------------------------------------
(* What a viewer holds.                                                    *)

viewerVars == <<window, extension, handler, held, uses>>

\* At the start nothing is held.
LEMMA HeldInitially == ViewInit => HeldInv
  BY DEF ViewInit, HeldInv

\* One more thing that is acquired is one the destroy function looks for.
LEMMA AcquireKeepsHeld ==
  ASSUME HeldInv, NEW r, Acquire(r)
  PROVE  HeldInv'
<1> DEFINE h == Find(extension)
<1>1. window = "creating" /\ UNCHANGED <<window, extension, handler>>
  BY DEF Acquire
<1>2. h \in HandlerSet
  BY <1>1, FindType DEF HeldInv
<1>3. held' = held \cup {r} /\ uses' = uses \cup Pointers(r)
  BY DEF Acquire
<1>4. PICK p \in Plans(h) : \E n \in DOMAIN p : p[n] = r /\ held = Before(p, n)
  BY DEF Acquire, Before
<1>5. PICK n \in DOMAIN p : p[n] = r /\ held = Before(p, n)
  BY <1>4
<1>6. /\ r \in Elements(Order(h)) \cup {PanelControls}
      /\ r = PanelControls => "panel" \in held
      /\ r = "images" => "list" \in held
      /\ r = "panel" => "view" \in held
  BY <1>2, <1>5, PlanFacts
<1>7. \A u \in Pointers(r) : /\ u \in {<<"list", "images">>, <<"panel", "view">>}
                             /\ u[1] \in held' /\ u[2] \in held'
  <2>1. CASE r = "images"
    <3>1. Pointers(r) = {<<"list", "images">>}
      BY <2>1 DEF Pointers
    <3> QED BY <1>3, <1>6, <2>1, <3>1
  <2>2. CASE r = "panel"
    <3>1. Pointers(r) = {<<"panel", "view">>}
      BY <2>2 DEF Pointers
    <3> QED BY <1>3, <1>6, <2>2, <3>1
  <2>3. CASE r # "images" /\ r # "panel"
    BY <2>3 DEF Pointers
  <2> QED BY <2>1, <2>2, <2>3
<1>8. /\ uses' \subseteq {<<"list", "images">>, <<"panel", "view">>}
      /\ \A u \in uses' : u[1] \in held' /\ u[2] \in held'
  BY <1>3, <1>7 DEF HeldInv
<1>9. PanelControls \in held' => "panel" \in held'
  BY <1>3, <1>6 DEF HeldInv
<1>10. held' \subseteq Elements(Order(h)) \cup {PanelControls}
  BY <1>1, <1>3, <1>6 DEF HeldInv
<1>11. Find(extension)' = h /\ Elements(Order(h))' = Elements(Order(h))
  BY <1>1
<1> HIDE DEF h
<1> QED BY <1>1, <1>8, <1>9, <1>10, <1>11 DEF HeldInv, h

\* The first of what is left is released: a pointer before what it points to.
LEMMA ReleaseKeepsHeld ==
  ASSUME HeldInv, NEW r, Release(r)
  PROVE  HeldInv'
<1> DEFINE h == Find(extension)
           order == Order(h)
           there == {n \in DOMAIN order : order[n] \in held}
           least == CHOOSE n \in there : \A m \in there : n <= m
           gone == {r} \cup (IF r = "panel" THEN {PanelControls} ELSE {})
<1>1. window \in {"undoing", "closing"} /\ UNCHANGED <<window, extension, handler>>
  BY DEF Release
<1>2. h \in HandlerSet /\ held \subseteq Elements(order) \cup {PanelControls}
  BY <1>1, FindType DEF HeldInv
<1>3. /\ r = order[least] /\ held' = held \ gone
      /\ uses' = {u \in uses : u[1] \notin gone}
  BY DEF Release
<1>4. 1 \in there => least = 1
  <2>1. \A n \in there : n \in Nat \ {0}
    BY <1>2, PointerOrder
  <2> HIDE DEF there
  <2>2. ASSUME 1 \in there PROVE least = 1
    <3>1. \A m \in there : 1 <= m
      BY <2>1
    <3>2. least \in there /\ \A m \in there : least <= m
      BY <2>2, <3>1
    <3>3. least \in Nat /\ least <= 1 /\ 1 <= least
      BY <2>1, <2>2, <3>1, <3>2
    <3> HIDE DEF least
    <3> QED BY <3>3
  <2> QED BY <2>2
<1>5. ASSUME NEW u \in uses' PROVE u[1] \in held' /\ u[2] \in held'
  <2>1. u \in uses /\ u[1] \notin gone /\ u[1] \in held /\ u[2] \in held
    BY <1>3 DEF HeldInv
  <2>2. u[2] \notin gone
    <3>1. CASE u = <<"list", "images">>
      <4>1. "images" \in Elements(order) /\ u[1] = "list" /\ u[2] = "images"
        BY <1>2, <2>1, <3>1 DEF PanelControls
      <4>2. order[1] = "list" /\ 1 \in DOMAIN order /\ "panel" \notin Elements(order)
        BY <1>2, <4>1, PointerOrder
      <4>3. r = "list"
        BY <1>3, <1>4, <2>1, <4>1, <4>2
      <4> QED BY <2>1, <4>1, <4>3
    <3>2. CASE u = <<"panel", "view">>
      <4>1. "panel" \in Elements(order) /\ u[1] = "panel" /\ u[2] = "view"
        BY <1>2, <2>1, <3>2 DEF PanelControls
      <4>2. order[1] = "panel" /\ 1 \in DOMAIN order
        BY <1>2, <4>1, PointerOrder
      <4>3. r = "panel"
        BY <1>3, <1>4, <2>1, <4>1, <4>2
      <4> QED BY <2>1, <4>1, <4>3
    <3> QED BY <2>1, <3>1, <3>2 DEF HeldInv
  <2> QED BY <1>3, <2>1, <2>2
<1>6. PanelControls \in held' => "panel" \in held'
  BY <1>3 DEF HeldInv, PanelControls
<1>7. held' \subseteq held /\ uses' \subseteq uses
  BY <1>3
<1>8. Find(extension)' = h /\ Elements(Order(h))' = Elements(order)
  BY <1>1
<1>9. held' \subseteq Elements(Order(h)) \cup {PanelControls}
  BY <1>2, <1>7
<1> HIDE DEF h, order, gone
<1>10. /\ Find(extension)' # NoHandler
       /\ (held \subseteq Elements(Order(Find(extension))) \cup {PanelControls})'
  BY <1>1, <1>8, <1>9 DEF h, HeldInv
<1> QED BY <1>1, <1>5, <1>6, <1>7, <1>10 DEF HeldInv

\* Nothing that the destroy callback looks for is left, then nothing is.
LEMMA ReleasedKeepsHeld ==
  ASSUME HeldInv, Released
  PROVE  HeldInv' /\ held' = {}
<1> DEFINE order == Order(Find(extension))
<1>1. /\ window \in {"undoing", "closing"} /\ UNCHANGED <<extension, held, uses>>
      /\ \A n \in DOMAIN order : order[n] \notin held
      /\ window' \in {"live", "closed"} /\ handler' = NoHandler
  BY DEF Released
<1>2. Find(extension) \in HandlerSet /\ held \subseteq Elements(order) \cup {PanelControls}
  BY <1>1, FindType DEF HeldInv
<1>3. held \cap Elements(order) = {}
  BY <1>1 DEF Elements
<1>4. held \subseteq {PanelControls} /\ "panel" # PanelControls
  BY <1>2, <1>3 DEF PanelControls
<1>5. held = {}
  BY <1>4 DEF HeldInv
<1>6. uses = {}
  BY <1>5 DEF HeldInv
<1> QED BY <1>1, <1>5, <1>6 DEF HeldInv

\* A viewer is created, and the page is shown, in one step each.
LEMMA OthersKeepHeld ==
  ASSUME HeldInv, ViewNext \/ UNCHANGED viewVars,
         \A r : ~Acquire(r) /\ ~Release(r), ~Released
  PROVE  HeldInv'
<1>1. CASE \E d \in Dpis : InitDialog(d)
  <2>1. /\ window = "none" /\ UNCHANGED <<extension, handler, held, uses>>
        /\ window' = IF Find(extension) = NoHandler THEN "live" ELSE "creating"
    BY <1>1 DEF InitDialog
  <2>2. held = {} /\ handler = NoHandler
    BY <2>1 DEF HeldInv
  <2> QED BY <2>1, <2>2 DEF HeldInv
<1>2. CASE Created
  <2>1. /\ window = "creating" /\ window' = "live" /\ handler' = Find(extension)
        /\ held \in {Elements(p) : p \in Plans(Find(extension))}
        /\ UNCHANGED <<extension, held, uses>>
    BY <1>2 DEF Created, Elements
  <2> QED BY <2>1 DEF HeldInv
<1>3. CASE CreateFails
  BY <1>3 DEF CreateFails, HeldInv
<1>4. CASE Destroy
  <2>1. window = "live" /\ window' = IF handler = NoHandler THEN "closed" ELSE "closing"
    BY <1>4 DEF Destroy, Live
  <2>2. UNCHANGED <<extension, handler, held, uses>>
    BY <1>4 DEF Destroy
  <2>3. CASE handler = NoHandler
    BY <2>1, <2>2, <2>3 DEF HeldInv
  <2>4. CASE handler # NoHandler
    <3>1. handler = Find(extension) /\ handler \in HandlerSet
      BY <2>1, <2>4, FindType DEF HeldInv
    <3>2. PICK p \in Plans(handler) : held = Elements(p)
      BY <2>1, <2>4 DEF HeldInv
    <3>3. held \subseteq Elements(Order(handler)) \cup {PanelControls}
      BY <3>1, <3>2, PlanFacts DEF Elements
    <3> QED BY <2>1, <2>2, <2>4, <3>1, <3>3 DEF HeldInv
  <2> QED BY <2>3, <2>4
<1>5. CASE FreeState
  BY <1>5 DEF FreeState, HeldInv
<1>6. CASE UNCHANGED viewerVars
  BY <1>6 DEF viewerVars, HeldInv
<1>7. CASE \/ \E d \in Dpis : DpiChanged(d)
           \/ Show \/ Scroll \/ Wheel \/ ScrollPanel
           \/ \E height \in Heights : Resize(height)
           \/ UNCHANGED viewVars
  BY <1>6, <1>7 DEF DpiChanged, Show, Scroll, Wheel, ScrollTo, ScrollPanel, Resize,
                    viewVars, viewerVars
<1> QED BY <1>1, <1>2, <1>3, <1>4, <1>5, <1>7 DEF ViewNext

\* HeldInv holds from the start on.
LEMMA HeldInvariant == ViewSpec => []HeldInv
<1>1. ASSUME HeldInv, [ViewNext]_viewVars PROVE HeldInv'
  <2>1. CASE \E r : Acquire(r)
    BY <1>1, <2>1, AcquireKeepsHeld
  <2>2. CASE \E r : Release(r)
    BY <1>1, <2>2, ReleaseKeepsHeld
  <2>3. CASE Released
    BY <1>1, <2>3, ReleasedKeepsHeld
  <2>4. CASE (\A r : ~Acquire(r) /\ ~Release(r)) /\ ~Released
    BY <1>1, <2>4, OthersKeepHeld
  <2> QED BY <2>1, <2>2, <2>3, <2>4
<1> QED BY <1>1, HeldInitially, PTL DEF ViewSpec

\* For every name of a file and wherever its create callback fails: what a viewer
\* acquired is released when it is taken apart, a window never points to what is
\* gone, and a viewer that is shown holds a whole plan (create and destroy of
\* FileXRay/extensions/*.c, called from pagectrl.c).
THEOREM ViewersAreWhole == ViewSpec => []ViewerWhole
<1>1. HeldInv => ViewerWhole
  BY DEF HeldInv, ViewerWhole, Elements
<1> QED BY <1>1, HeldInvariant, PTL

-----------------------------------------------------------------------------
(* Fonts.                                                                  *)

ViewerParts == Windows \cup {"view", "sbat", "nodes", "entries", "images"}

\* A viewer's windows are neither the dialog nor its controls.
LEMMA PartNames ==
  ViewerParts \cap {"dialog", "controls"} = {} /\ PanelControls \in Windows
BY DEF ViewerParts, Windows, PanelControls

\* Of two fonts one is not in use.
LEMMA FreshFont ==
  ASSUME FontInv
  PROVE  Fresh \in 1 .. 2 /\ Fresh \notin fonts
<1>1. \E f \in 1 .. 2 : f \notin fonts
  <2>1. fonts \subseteq {font}
    BY DEF FontInv
  <2>2. 1 \in 1 .. 2 /\ 2 \in 1 .. 2 /\ 1 # 2
    OBVIOUS
  <2> QED BY <2>1, <2>2
<1> QED BY <1>1 DEF Fresh

\* The new font is selected into every window before the old one is deleted.
LEMMA SetDpiKeepsFonts ==
  ASSUME FontInv, NEW d, SetDpi(d), held' = held, window' # "freed" => window # "freed"
  PROVE  FontInv'
<1>1. CASE UNCHANGED fontVars
  BY <1>1 DEF fontVars, FontInv
<1>2. CASE font' = Fresh /\ fonts' = {Fresh} /\ fontOf' = Everywhere(Fresh)
  <2>1. Fresh \in 1 .. 2
    BY FreshFont
  <2> DEFINE new == Fresh
  <2>2. new \in 0 .. 2 /\ new # 0
    BY <2>1
  <2>3. DOMAIN fontOf' = DOMAIN fontOf /\ \A w \in DOMAIN fontOf' : fontOf'[w] = new
    BY <1>2 DEF Everywhere
  <2>4. font' = new /\ fonts' = {new}
    BY <1>2
  <2> HIDE DEF new
  <2> QED BY <2>2, <2>3, <2>4 DEF FontInv
<1> QED BY <1>1, <1>2 DEF SetDpi, fontVars

\* A window that is created gets the font in use.
LEMMA AcquireKeepsFonts ==
  ASSUME FontInv, NEW r \in ViewerParts, Acquire(r)
  PROVE  FontInv'
<1>1. /\ window = "creating" /\ window' = window /\ held' = held \cup {r}
      /\ UNCHANGED <<font, fonts>>
  BY DEF Acquire
<1>2. DOMAIN fontOf = {"dialog", "controls"} \cup (held \cap Windows)
  BY <1>1 DEF FontInv
<1>3. CASE r \in Windows
  <2>1. fontOf' = [w \in DOMAIN fontOf \cup {r} |->
                     IF w = r THEN fontOf["dialog"] ELSE fontOf[w]]
    BY <1>3 DEF Acquire
  <2>2. \A w \in DOMAIN fontOf' : fontOf'[w] = 0 \/ fontOf'[w] \in fonts
    BY <1>2, <2>1 DEF FontInv
  <2>3. DOMAIN fontOf' = {"dialog", "controls"} \cup (held' \cap Windows)
    BY <1>1, <1>2, <1>3, <2>1
  <2> QED BY <1>1, <2>2, <2>3 DEF FontInv
<1>4. CASE r \notin Windows
  <2>1. fontOf' = fontOf /\ held' \cap Windows = held \cap Windows
    BY <1>1, <1>4 DEF Acquire
  <2> QED BY <1>1, <2>1 DEF FontInv
<1> QED BY <1>3, <1>4

\* A window that goes leaves the fonts of the others.
LEMMA ReleaseKeepsFonts ==
  ASSUME FontInv, NEW r \in ViewerParts, Release(r)
  PROVE  FontInv'
<1> DEFINE gone == {r} \cup (IF r = "panel" THEN {PanelControls} ELSE {})
<1>1. /\ window \in {"undoing", "closing"} /\ window' = window
      /\ held' = held \ gone /\ fontOf' = [w \in DOMAIN fontOf \ gone |-> fontOf[w]]
      /\ UNCHANGED <<font, fonts>>
  BY DEF Release
<1>2. "dialog" \notin gone /\ "controls" \notin gone
  BY PartNames DEF ViewerParts
<1> HIDE DEF gone
<1>3. DOMAIN fontOf = {"dialog", "controls"} \cup (held \cap Windows)
  BY <1>1 DEF FontInv
<1>4. DOMAIN fontOf' = {"dialog", "controls"} \cup (held' \cap Windows)
  BY <1>1, <1>2, <1>3
<1>5. \A w \in DOMAIN fontOf' : fontOf'[w] = 0 \/ fontOf'[w] \in fonts
  BY <1>1 DEF FontInv
<1> QED BY <1>1, <1>4, <1>5 DEF FontInv

\* FontInv holds from the start on.
LEMMA FontInvariant == ViewSpec => []FontInv
<1>1. ViewInit => FontInv
  BY DEF ViewInit, FontInv
<1>2. ASSUME HeldInv, FontInv, [ViewNext]_viewVars PROVE FontInv'
  <2>1. ASSUME NEW d \in Dpis, InitDialog(d) PROVE FontInv'
    <3>1. SetDpi(d) /\ held' = held /\ window = "none"
      BY <2>1 DEF InitDialog
    <3> QED BY <1>2, <3>1, SetDpiKeepsFonts
  <2>2. ASSUME NEW d \in Dpis, DpiChanged(d) PROVE FontInv'
    <3>1. SetDpi(d) /\ held' = held /\ window = "live"
      BY <2>2 DEF DpiChanged, Live
    <3> QED BY <1>2, <3>1, SetDpiKeepsFonts
  <2>3. ASSUME NEW r \in ViewerParts, Acquire(r) \/ Release(r) PROVE FontInv'
    BY <1>2, <2>3, AcquireKeepsFonts, ReleaseKeepsFonts
  <2>4. CASE FreeState
    <3>1. /\ window' = "freed" /\ font' = 0 /\ fonts' = fonts \ {font} /\ fontOf' = <<>>
      BY <2>4 DEF FreeState
    <3>2. fonts' = {} /\ DOMAIN fontOf' = {}
      BY <1>2, <3>1 DEF FontInv
    <3> QED BY <3>1, <3>2 DEF FontInv
  <2>5. CASE Created \/ CreateFails \/ Destroy \/ Released
    <3>1. held' = held /\ window # "freed" /\ UNCHANGED fontVars
      BY <2>5 DEF Created, CreateFails, Destroy, Released, Live
    <3> QED BY <1>2, <3>1 DEF FontInv, fontVars
  <2>6. CASE \/ Show \/ Scroll \/ Wheel \/ ScrollPanel
             \/ (\E height \in Heights : Resize(height)) \/ UNCHANGED viewVars
    <3>1. UNCHANGED <<window, held, fontVars>>
      BY <2>6 DEF Show, Scroll, Wheel, ScrollTo, ScrollPanel, Resize, viewVars, fontVars
    <3> QED BY <1>2, <3>1 DEF FontInv, fontVars
  <2> QED BY <1>2, <2>1, <2>2, <2>3, <2>4, <2>5, <2>6 DEF ViewNext, ViewerParts
<1> QED BY <1>1, <1>2, HeldInvariant, PTL DEF ViewSpec

\* For every sequence of resolutions, with fonts that cannot be made among them:
\* no window has a font that is deleted, and the page keeps one font at most
\* (fx_apply_dialog_dpi, fx_page_state_release).
THEOREM FontsAreAlive == ViewSpec => []FontsAlive
<1>1. FontInv => FontsAlive
  BY DEF FontInv, FontsAlive, Live
<1> QED BY <1>1, FontInvariant, PTL

-----------------------------------------------------------------------------
(* Layout.                                                                 *)

\* Larger is the maximum of two.
LEMMA LargerIs ==
  ASSUME NEW a \in Int, NEW b \in Int
  PROVE  Larger(a, b) \in Int /\ a <= Larger(a, b) /\ b <= Larger(a, b)
         /\ (Larger(a, b) = a \/ Larger(a, b) = b)
BY DEF Larger

\* Products of naturals are natural, of positive ones positive.
LEMMA Product ==
  /\ \A a, b \in Nat : a * b \in Nat
  /\ \A a, b \in Nat \ {0} : a * b \in Nat \ {0}
  /\ \A a, b \in Int : a * b \in Int
OBVIOUS

\* The page is higher than nothing, whatever it shows.
LEMMA MinHeightIsPositive ==
  ASSUME NEW h, NEW d \in Nat \ {0}
  PROVE  MinHeight(h, d) \in Nat \ {0}
<1> DEFINE units == IF h = NoHandler THEN TemplateHeight
                    ELSE Larger(TemplateHeight, ExtensionY + MinGroup + BottomMargin)
<1>1. units \in Nat \ {0}
  BY ViewAssumption DEF Larger
<1>2. MinHeight(h, d) = d * units
  BY DEF MinHeight
<1> HIDE DEF units
<1> QED BY <1>1, <1>2, Product

\* The panel has a height at any resolution.
LEMMA PanelHeightIsNatural ==
  ASSUME NEW content \in Nat, NEW d \in Nat \ {0}
  PROVE  PanelHeight(content, d) \in Nat
<1> DEFINE inset == GroupInset * d
           above == d * (ExtensionY + BottomMargin)
<1>1. ExtensionY + BottomMargin \in Nat
  BY ViewAssumption
<1>2. inset \in Nat /\ above \in Nat
  BY <1>1, ViewAssumption, Product
<1>3. PanelHeight(content, d) = Larger(Larger(inset, content - above) - inset, 0)
  BY DEF PanelHeight
<1> HIDE DEF inset, above
<1> QED BY <1>2, <1>3 DEF Larger

\* A position that is clamped shows a full window, or everything.
LEMMA ClampIs ==
  ASSUME NEW y \in Int, NEW content \in Nat, NEW height \in Nat
  PROVE  /\ Clamp(y, content, height) \in Nat
         /\ Clamp(y, content, height) + height <= Larger(content, height)
BY DEF Clamp, Larger

\* fx_layout_dialog, from any position.
LEMMA LaidOutIsConsistent ==
  ASSUME NEW y \in Int, NEW h, NEW d \in Nat \ {0}, NEW height \in Nat
  PROVE  LET s == LaidOut(y, h, d, height)
         IN  s \in Surface /\ Consistent(s, height) /\ s.content >= MinHeight(h, d)
<1> DEFINE min == MinHeight(h, d)
           pg == Larger(height, 1)
           content == Larger(pg, min)
           scroll_y == Clamp(y, content, pg)
           s == LaidOut(y, h, d, height)
<1>1. min \in Nat \ {0}
  BY MinHeightIsPositive
<1>2. s = [y |-> scroll_y, content |-> content, bar |-> Bar(content, pg, scroll_y),
           visible |-> height < min, drawn |-> scroll_y]
  BY DEF LaidOut
<1> HIDE DEF min
<1>3. pg \in Nat /\ height <= pg /\ 1 <= pg /\ (pg = height \/ pg = 1)
  BY DEF Larger
<1> HIDE DEF pg
<1>4. content \in Nat /\ pg <= content /\ min <= content /\ (content = pg \/ content = min)
  BY <1>1, <1>3 DEF Larger
<1> HIDE DEF content
<1>5. scroll_y \in Nat /\ scroll_y + pg <= Larger(content, pg)
  BY <1>3, <1>4, ClampIs
<1> HIDE DEF scroll_y, s
<1>6. (height < min) = (content > height)
  <2>1. height < min <=> content > height
    BY <1>1, <1>3, <1>4
  <2>2. (height < min) \in BOOLEAN /\ (content > height) \in BOOLEAN
    OBVIOUS
  <2> QED BY <2>1
<1>7. Bar(content, pg, scroll_y) \in [max : Int, page : Int, pos : Int]
  BY <1>3, <1>4, <1>5 DEF Bar
<1>8. s \in Surface
  BY <1>2, <1>4, <1>5, <1>7 DEF Surface
<1>9. s.drawn = s.y /\ s.bar.pos = s.y /\ s.y = scroll_y /\ s.content = content
      /\ s.visible = (height < min)
  BY <1>2 DEF Bar
<1>10. Consistent(s, height)
  BY <1>5, <1>6, <1>9 DEF Consistent, pg
<1> QED BY <1>4, <1>8, <1>9, <1>10 DEF s, min

\* What the panel of the .iso viewer looks like when it is laid out.
PanelConsistent(s, height, content) ==
  LET pg == Larger(height, 1)
  IN  /\ s.content = content /\ s.drawn = s.y /\ s.bar.pos = s.y
      /\ s.y >= 0 /\ s.y + pg <= Larger(s.content, pg)
      /\ s.visible = (s.content > pg)

\* fx_iso_layout_controls, from any position.
LEMMA PanelLaidOutIsConsistent ==
  ASSUME NEW y \in Int, NEW height \in Nat, NEW content \in Nat
  PROVE  LET s == PanelLaidOut(y, height, content)
         IN  s \in Surface /\ PanelConsistent(s, height, content)
<1> DEFINE pg == Larger(height, 1)
           scroll_pos == Clamp(y, content, pg)
           s == PanelLaidOut(y, height, content)
           bar == [max |-> Larger(content - 1, 0), page |-> pg, pos |-> scroll_pos]
<1>1. s = [y |-> scroll_pos, content |-> content, bar |-> bar,
           visible |-> content > pg, drawn |-> DrawnTwice(y, scroll_pos)]
  BY DEF PanelLaidOut
<1>2. pg \in Nat
  BY DEF Larger
<1> HIDE DEF pg
<1>3. scroll_pos \in Nat /\ scroll_pos + pg <= Larger(content, pg)
  BY <1>2, ClampIs
<1> HIDE DEF scroll_pos, s
<1>4. DrawnTwice(y, scroll_pos) = scroll_pos
  BY DEF DrawnTwice
<1>5. bar \in [max : Int, page : Int, pos : Int]
  BY <1>2, <1>3 DEF Larger
<1>6. bar.pos = scroll_pos
  OBVIOUS
<1> HIDE DEF bar
<1>7. s \in Surface
  BY <1>1, <1>3, <1>4, <1>5 DEF Surface
<1>8. /\ s.drawn = s.y /\ s.bar.pos = s.y /\ s.y = scroll_pos /\ s.content = content
      /\ s.visible = (content > pg)
  BY <1>1, <1>4, <1>6
<1>9. PanelConsistent(s, height, content)
  BY <1>3, <1>8 DEF PanelConsistent, pg
<1> QED BY <1>7, <1>9 DEF s

\* Both, as a step does it.
LEMMA LayoutIsConsistent ==
  ASSUME NEW y \in Int, NEW h, NEW d \in Nat \ {0}, NEW height \in Nat,
         rows \in Nat, panel \in Surface, Layout(y, h, d, height)
  PROVE  /\ page' \in Surface /\ panel' \in Surface
         /\ Consistent(page', height) /\ page'.content >= MinHeight(h, d)
         /\ h = ".iso" =>
              PanelConsistent(panel', PanelHeight(page'.content, d), rows * d)
<1>1. page' = LaidOut(y, h, d, height)
  BY DEF Layout
<1>2. page' \in Surface /\ Consistent(page', height) /\ page'.content >= MinHeight(h, d)
  BY <1>1, LaidOutIsConsistent
<1>3. CASE h = ".iso"
  <2>1. panel' = PanelLaidOut(panel.y, PanelHeight(page'.content, d), rows * d)
    BY <1>3 DEF Layout, PanelContent
  <2>2. page'.content \in Nat /\ panel.y \in Int
    BY <1>2 DEF Surface
  <2>3. PanelHeight(page'.content, d) \in Nat /\ rows * d \in Nat
    BY <2>2, PanelHeightIsNatural, Product
  <2> QED BY <1>2, <2>1, <2>2, <2>3, PanelLaidOutIsConsistent
<1>4. CASE h # ".iso"
  BY <1>2, <1>4 DEF Layout
<1> QED BY <1>3, <1>4

\* The invariant, after a step that lays out the page.
LEMMA LayoutKeepsConsistent ==
  ASSUME LayoutInv, NEW y \in Int, dpi' \in Nat \ {0}, client' \in Nat,
         Layout(y, handler', dpi', client'), rows' = rows,
         ready' \in BOOLEAN, window' \in {"none", "creating", "undoing"} => ~ready'
  PROVE  LayoutInv'
<1> DEFINE h == handler'
           d == dpi'
           height == client'
<1>1. d \in Nat \ {0} /\ height \in Nat /\ rows \in Nat /\ panel \in Surface
      /\ Layout(y, h, d, height)
  BY DEF LayoutInv
<1> HIDE DEF h, d, height
<1>2. /\ page' \in Surface /\ panel' \in Surface
      /\ Consistent(page', height) /\ page'.content >= MinHeight(h, d)
      /\ h = ".iso" => PanelConsistent(panel', PanelHeight(page'.content, d), rows * d)
  BY <1>1, LayoutIsConsistent
<1>3. ScrollConsistent'
  BY <1>2 DEF ScrollConsistent, PanelConsistent, Consistent, MinHeight, PanelHeight,
              h, d, height
<1> QED BY <1>2, <1>3 DEF LayoutInv

\* The invariant, after a step that lays out nothing.
LEMMA UnlaidKeepsConsistent ==
  ASSUME LayoutInv, UNCHANGED <<page, panel, rows>>, client' \in Nat,
         window' = "none" \/ dpi' \in Nat \ {0},
         ready' \in BOOLEAN, window' \in {"none", "creating", "undoing"} => ~ready',
         ~Live' \/ ~ready'
  PROVE  LayoutInv'
BY DEF LayoutInv, ScrollConsistent

\* LayoutInv holds from the start on.
LEMMA LayoutInvariant == ViewSpec => []LayoutInv
<1>1. ViewInit => LayoutInv
  <2>1. ASSUME ViewInit PROVE LayoutInv
    <3>1. /\ client \in Nat /\ rows \in Nat /\ window = "none" /\ ready = FALSE
          /\ page = Unlaid /\ panel = Unlaid
      BY <2>1, ViewAssumption DEF ViewInit
    <3>2. Unlaid \in Surface
      BY DEF Unlaid, NoBar, Surface
    <3> QED BY <3>1, <3>2 DEF LayoutInv, ScrollConsistent, Live
  <2> QED BY <2>1
<1>2. ASSUME LayoutInv, [ViewNext]_viewVars PROVE LayoutInv'
  <2>1. ASSUME NEW d \in Dpis, InitDialog(d) PROVE LayoutInv'
    <3>1. /\ window = "none" /\ window' \in {"live", "creating"}
          /\ dpi' = d /\ UNCHANGED <<ready, client, rows>>
          /\ ready \/ UNCHANGED <<page, panel>>
      BY <2>1 DEF InitDialog, SetDpi
    <3>2. d \in Nat \ {0} /\ ready = FALSE /\ client \in Nat
      BY <1>2, <3>1, ViewAssumption DEF LayoutInv
    <3> QED BY <1>2, <3>1, <3>2, UnlaidKeepsConsistent
  <2>2. ASSUME NEW d \in Dpis, DpiChanged(d) PROVE LayoutInv'
    <3>1. /\ window = "live" /\ dpi' = d
          /\ UNCHANGED <<window, handler, ready, client, rows>>
          /\ IF ready THEN Layout(page.y, handler, d, client) ELSE UNCHANGED <<page, panel>>
      BY <2>2 DEF DpiChanged, SetDpi, Live
    <3>2. d \in Nat \ {0} /\ client \in Nat /\ page.y \in Int /\ ready \in BOOLEAN
      BY <1>2, ViewAssumption DEF LayoutInv, Surface
    <3>3. CASE ready
      BY <1>2, <3>1, <3>2, <3>3, LayoutKeepsConsistent
    <3>4. CASE ~ready
      BY <1>2, <3>1, <3>2, <3>4, UnlaidKeepsConsistent
    <3> QED BY <3>3, <3>4
  <2>3. CASE Created
    <3>1. /\ window = "creating" /\ window' = "live" /\ UNCHANGED <<ready, dpi, client, rows>>
          /\ ready \/ UNCHANGED <<page, panel>>
      BY <2>3 DEF Created
    <3>2. ready = FALSE /\ client \in Nat /\ dpi \in Nat \ {0}
      BY <1>2, <3>1 DEF LayoutInv
    <3> QED BY <1>2, <3>1, <3>2, UnlaidKeepsConsistent
  <2>4. CASE CreateFails \/ Destroy \/ Released \/ FreeState
             \/ \E r : Acquire(r) \/ Release(r)
    <3>1. /\ UNCHANGED layoutVars /\ window # "none" /\ window' # "none"
          /\ \/ window \in {"creating", "undoing"}
             \/ window' \in {"closing", "closed", "freed"}
      BY <2>4 DEF CreateFails, Destroy, Released, FreeState, Acquire, Release, Live
    <3>2. /\ client \in Nat /\ ready \in BOOLEAN /\ dpi \in Nat \ {0}
          /\ window \in {"creating", "undoing"} => ~ready
      BY <1>2, <3>1 DEF LayoutInv
    <3> QED BY <1>2, <3>1, <3>2, UnlaidKeepsConsistent DEF layoutVars, Live
  <2>5. CASE Show
    <3>1. /\ window = "live" /\ ready' = TRUE /\ Layout(page.y, handler, dpi, client)
          /\ UNCHANGED <<window, handler, dpi, client, rows>>
      BY <2>5 DEF Show, Live
    <3>2. dpi \in Nat \ {0} /\ client \in Nat /\ page.y \in Int
      BY <1>2, <3>1 DEF LayoutInv, Surface
    <3> QED BY <1>2, <3>1, <3>2, LayoutKeepsConsistent
  <2>6. ASSUME NEW height \in Heights, Resize(height) PROVE LayoutInv'
    <3>1. /\ window = "live" /\ client' = height
          /\ UNCHANGED <<window, handler, ready, dpi, rows>>
          /\ IF ready THEN Layout(page.y, handler, dpi, height) ELSE UNCHANGED <<page, panel>>
      BY <2>6 DEF Resize, Live
    <3>2. height \in Nat /\ dpi \in Nat \ {0} /\ page.y \in Int /\ ready \in BOOLEAN
      BY <1>2, <3>1, ViewAssumption DEF LayoutInv, Surface
    <3>3. CASE ready
      BY <1>2, <3>1, <3>2, <3>3, LayoutKeepsConsistent
    <3>4. CASE ~ready
      BY <1>2, <3>1, <3>2, <3>4, UnlaidKeepsConsistent
    <3> QED BY <3>3, <3>4
  <2>7. ASSUME Live, NEW y \in Int, ScrollTo(y) PROVE LayoutInv'
    <3> DEFINE scroll_y == Clamp(y, page.content, Larger(client, 1))
    <3>1. /\ window = "live" /\ Layout(scroll_y, handler, dpi, client)
          /\ UNCHANGED <<window, handler, ready, dpi, client, rows>>
      BY <2>7 DEF ScrollTo, Live
    <3>2. dpi \in Nat \ {0} /\ client \in Nat /\ page.content \in Nat /\ ready \in BOOLEAN
      BY <1>2, <3>1 DEF LayoutInv, Surface
    <3>3. Larger(client, 1) \in Nat
      BY <3>2 DEF Larger
    <3>4. scroll_y \in Int
      <4>1. scroll_y \in Nat
        BY <3>2, <3>3, ClampIs
      <4> HIDE DEF scroll_y
      <4> QED BY <4>1
    <3> HIDE DEF scroll_y
    <3> QED BY <1>2, <3>1, <3>2, <3>4, LayoutKeepsConsistent
  <2>8. CASE Scroll
    <3>1. PICK track \in 0 .. page.bar.max : \E y \in Requested(page, track) : ScrollTo(y)
      BY <2>8 DEF Scroll
    <3>2. PICK y \in Requested(page, track) : ScrollTo(y)
      BY <3>1
    <3>3. Live
      BY <2>8 DEF Scroll
    <3>4. /\ Line * dpi \in Int /\ page.y \in Int /\ page.content \in Int
          /\ page.bar.page \in Int
      BY <1>2, <3>3, ViewAssumption DEF LayoutInv, Surface, Live
    <3>5. Requested(page, track) \subseteq Int
      BY <3>4 DEF Requested
    <3> QED BY <2>7, <3>2, <3>3, <3>5
  <2>9. CASE Wheel
    <3>1. PICK n \in {-3, 3} : ScrollTo(page.y + n * Line * dpi)
      BY <2>9 DEF Wheel
    <3>2. Live
      BY <2>9 DEF Wheel
    <3>3. n * Line * dpi \in Int /\ page.y \in Int
      <4>1. n \in Int /\ Line \in Int /\ dpi \in Int /\ page.y \in Int
        BY <1>2, <3>2, ViewAssumption DEF LayoutInv, Surface, Live
      <4>2. n * Line \in Int
        BY <4>1, Product
      <4> QED BY <4>1, <4>2, Product
    <3> QED BY <2>7, <3>1, <3>2, <3>3
  <2>10. CASE ScrollPanel
    <3> DEFINE height == PanelHeight(page.content, dpi)
    <3>1. /\ window = "live" /\ handler = ".iso"
          /\ UNCHANGED <<window, handler, ready, dpi, client, page, rows>>
      BY <2>10 DEF ScrollPanel, Live
    <3>2. PICK track \in 0 .. panel.bar.max :
            \E y \in Requested(panel, track) \cup {panel.y + n * Line * dpi : n \in {-3, 3}} :
              panel' = PanelLaidOut(Clamp(y, panel.content, Larger(height, 1)), height,
                                    PanelContent(dpi))
      BY <2>10 DEF ScrollPanel
    <3>3. PICK y \in Requested(panel, track) \cup {panel.y + n * Line * dpi : n \in {-3, 3}} :
            panel' = PanelLaidOut(Clamp(y, panel.content, Larger(height, 1)), height,
                                  rows * dpi)
      BY <3>2 DEF PanelContent
    <3>4. /\ dpi \in Nat \ {0} /\ panel.y \in Int /\ panel.content \in Nat
          /\ panel.bar.page \in Int /\ page.content \in Nat /\ rows \in Nat
      BY <1>2, <3>1 DEF LayoutInv, Surface
    <3>5. Line * dpi \in Int
      BY <3>4, ViewAssumption
    <3>6. Requested(panel, track) \subseteq Int
      BY <3>4, <3>5 DEF Requested
    <3>7. \A n \in {-3, 3} : n * Line * dpi \in Int
      <4>1. \A n \in {-3, 3} : n * Line \in Int
        BY ViewAssumption
      <4> QED BY <3>4, <4>1, Product
    <3>8. y \in Int
      BY <3>3, <3>4, <3>6, <3>7
    <3>9. height \in Nat /\ rows * dpi \in Nat
      BY <3>4, PanelHeightIsNatural, Product
    <3> HIDE DEF height
    <3>10. Larger(height, 1) \in Nat
      BY <3>9 DEF Larger
    <3> DEFINE position == Clamp(y, panel.content, Larger(height, 1))
    <3>11. position \in Nat
      BY <3>4, <3>8, <3>10, ClampIs
    <3>12. panel' \in Surface /\ PanelConsistent(panel', height, rows * dpi)
      <4>1. panel' = PanelLaidOut(position, height, rows * dpi)
        BY <3>3
      <4> HIDE DEF position
      <4>2. position \in Int
        BY <3>11
      <4> QED BY <3>9, <4>1, <4>2, PanelLaidOutIsConsistent
    <3>13. ASSUME ready PROVE ScrollConsistent'
      BY <1>2, <3>1, <3>12, <3>13
         DEF LayoutInv, ScrollConsistent, PanelConsistent, Consistent, MinHeight,
             PanelHeight, Live, height
    <3>14. ~ready => ScrollConsistent'
      BY <3>1 DEF ScrollConsistent
    <3> QED BY <1>2, <3>1, <3>12, <3>13, <3>14 DEF LayoutInv
  <2>11. CASE UNCHANGED viewVars
    BY <1>2, <2>11 DEF viewVars, LayoutInv, ScrollConsistent, Live, Consistent,
                       MinHeight, PanelHeight
  <2> QED BY <1>2, <2>1, <2>2, <2>3, <2>4, <2>5, <2>6, <2>8, <2>9, <2>10, <2>11
          DEF ViewNext
<1> QED BY <1>1, <1>2, PTL DEF ViewSpec

\* For every size of the window, resolution and image, and every position that is
\* asked for: what is drawn is where the scroll bars say, no position leaves part
\* of a window empty, and there is a bar if and only if the content needs one
\* (fx_layout_dialog, fx_update_dialog_vscroll, fx_iso_layout_controls).
THEOREM ScrollingIsConsistent == ViewSpec => []ScrollConsistent
<1>1. LayoutInv => ScrollConsistent
  BY DEF LayoutInv
<1> QED BY <1>1, LayoutInvariant, PTL
=============================================================================
