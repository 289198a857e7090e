------------------------------ MODULE PageView ------------------------------
(***************************************************************************)
(* The window of a page (FileXRay/pagectrl.c): the viewer that is created  *)
(* in it and what that viewer holds (FileXRay/extensions/*.c, create and   *)
(* destroy), its fonts, and its layout with two scroll bars, the dialog's  *)
(* own and that of the panel of the .iso viewer.                           *)
(*                                                                         *)
(* A message is one step, but for those in which a viewer is created or    *)
(* destroyed: what they acquire and release is a step each.  Layout sends  *)
(* WM_SIZE to itself, which layout_in_progress makes a stutter.  Heights   *)
(* are in dialog units times the DPI.  Widths are left out.                *)
(* A variant before the definition it varies is a fault no specification   *)
(* uses; README.md says which property rejects it.                         *)
(***************************************************************************)
EXTENDS Extensions, FiniteSets

CONSTANTS
  TemplateHeight,  \* FX_PAGE_TEMPLATE_HEIGHT_DLU
  ExtensionY,      \* FX_EXTENSION_Y_DLU
  MinGroup,        \* FX_EXTENSION_MIN_GROUP_HEIGHT_DLU
  BottomMargin,    \* FX_PAGE_BOTTOM_MARGIN_DLU
  GroupInset,      \* the group box around the viewer
  Line,            \* what a click on the scroll bar moves
  Heights,         \* bound: the heights the window takes
  Dpis,            \* bound: the resolutions it is shown at
  PanelRows        \* the heights of what an image has to show

ASSUME ViewAssumption ==
  /\ TemplateHeight \in Nat \ {0} /\ ExtensionY \in Nat /\ MinGroup \in Nat
  /\ BottomMargin \in Nat /\ GroupInset \in Nat /\ Line \in Nat \ {0}
  /\ Heights \subseteq Nat /\ Dpis \subseteq Nat \ {0} /\ PanelRows \subseteq Nat

VARIABLES
  window,    \* the dialog: what it is doing
  extension, \* of the file
  handler,   \* extension_handler
  held,      \* what the viewer holds
  uses,      \* which window of the viewer has a pointer to what
  ready,     \* layout_ready
  dpi, client,
  page,      \* scroll_y, content_height, the scroll bar, and where things are
  rows,      \* what the .iso viewer shows
  panel,     \* the same of its panel
  font,      \* state->font, 0 for none
  fonts,     \* GDI: the fonts that exist
  fontOf     \* GDI: the font of each window, 0 for the template's

viewVars == <<window, extension, handler, held, uses, ready, dpi, client, page,
              rows, panel, font, fonts, fontOf>>
layoutVars == <<ready, dpi, client, page, rows, panel>>
fontVars == <<font, fonts, fontOf>>

Larger(a, b) == IF a > b THEN a ELSE b
NoBar == [max |-> 0, page |-> 0, pos |-> 0]
Unlaid == [y |-> 0, content |-> 0, bar |-> NoBar, visible |-> FALSE, drawn |-> 0]

ViewInit ==
  /\ window = "none" /\ extension \in Names
  /\ handler = NoHandler /\ held = {} /\ uses = {}
  /\ ready = FALSE /\ dpi = 0 /\ client \in Heights /\ page = Unlaid
  /\ rows \in PanelRows /\ panel = Unlaid
  /\ font = 0 /\ fonts = {} /\ fontOf = [w \in {"dialog", "controls"} |-> 0]

-----------------------------------------------------------------------------
(* Layout.                                                                 *)

\* fx_dialog_min_content_height
MinHeight(h, d) ==
  d * (IF h = NoHandler THEN TemplateHeight
       ELSE Larger(TemplateHeight, ExtensionY + MinGroup + BottomMargin))

\* fx_clamp_scroll_pos
ClampUnsized(position, content, height) == Larger(position, 0)
Clamp(position, content, height) ==
  LET max_scroll == Larger(content - height, 0)
  IN  IF position > max_scroll THEN max_scroll ELSE Larger(position, 0)

Bar(content, height, position) ==
  [max |-> content - 1, page |-> height, pos |-> position]

\* fx_update_dialog_vscroll, and the moves of fx_layout_dialog, from scroll
\* position y.  A vertical scroll bar takes no height.
LaidOut(y, h, d, height) ==
  LET min == MinHeight(h, d)
      content == Larger(Larger(height, 1), min)
      scroll_y == Clamp(y, content, Larger(height, 1))
  IN  [y |-> scroll_y, content |-> content,
       bar |-> Bar(content, Larger(height, 1), scroll_y),
       visible |-> height < min, drawn |-> scroll_y]

\* The bounds the viewer gets, less the frame of the group box.
PanelHeight(content, d) ==
  Larger(Larger(GroupInset * d, content - d * (ExtensionY + BottomMargin))
         - GroupInset * d, 0)

\* fx_iso_layout_controls: the controls are moved, and once more if the
\* scroll bar changes the position.
DrawnFirst(old, new) == old
DrawnTwice(old, new) == IF old # new THEN new ELSE old
PanelLaidOut(y, height, content) ==
  LET pg == Larger(height, 1)
      scroll_pos == Clamp(y, content, pg)
  IN  [y |-> scroll_pos, content |-> content,
       bar |-> [max |-> Larger(content - 1, 0), page |-> pg, pos |-> scroll_pos],
       visible |-> content > pg, drawn |-> DrawnTwice(y, scroll_pos)]

\* The labels, values and boxes of the panel, one under the other.
PanelContent(d) == rows * d

\* fx_layout_dialog, the viewer's layout callback included.
Layout(y, h, d, height) ==
  /\ page' = LaidOut(y, h, d, height)
  /\ panel' = IF h = ".iso"
              THEN PanelLaidOut(panel.y, PanelHeight(page'.content, d), PanelContent(d))
              ELSE panel

-----------------------------------------------------------------------------
(* Fonts.                                                                  *)

Fresh == CHOOSE f \in 1 .. 2 : f \notin fonts
DialogOnly(f) == [fontOf EXCEPT !["dialog"] = f]
Everywhere(f) == [w \in DOMAIN fontOf |-> f]

\* fx_apply_dialog_dpi: without a new font the old one stays.
SetDpi(d) ==
  /\ dpi' = d
  /\ \/ /\ font' = Fresh /\ fonts' = {Fresh} /\ fontOf' = Everywhere(Fresh)
     \/ UNCHANGED fontVars
  /\ IF ready THEN Layout(page.y, handler, d, client) ELSE UNCHANGED <<page, panel>>

-----------------------------------------------------------------------------
(* The viewer's life.                                                      *)

\* The controls of the panel, all or as many as could be made, are its children.
PanelControls == "panel controls"

\* What the create callbacks acquire, in order.  The section of an .efi file
\* is shown if there is one.
DllPlans == {<<"view", "exports">>}
EfiPlans == {<<"view", "base_label", "base_value">>,
             <<"view", "sbat", "base_label", "base_value",
               "sbat_label", "sbat_value">>}
ExePlans == {<<"view", "tree", "nodes">>}
IcoPlans == {<<"view", "list", "entries", "images">>}
IsoPlans == {<<"view", "panel", PanelControls>>}
Plans(h) == CASE h = ".dll" -> DllPlans [] h = ".efi" -> EfiPlans
              [] h = ".exe" -> ExePlans [] h = ".ico" -> IcoPlans
              [] h = ".iso" -> IsoPlans
Windows == {"exports", "base_label", "base_value", "sbat_label", "sbat_value",
            "tree", "list", "panel", PanelControls}
\* Whoever acquires the second makes the first point to it.
Pointers(r) == CASE r = "images" -> {<<"list", "images">>}
                 [] r = "panel" -> {<<"panel", "view">>}
                 [] OTHER -> {}

\* What the destroy callbacks release, in order, if it is there.
DllOrder == <<"exports", "view">>
EfiOrderForgetful == <<"sbat_value", "sbat_label", "base_value", "base_label", "view">>
EfiOrder == <<"sbat_value", "sbat_label", "base_value", "base_label", "sbat", "view">>
ExeOrder == <<"tree", "nodes", "view">>
IcoOrderDangling == <<"images", "list", "entries", "view">>
IcoOrder == <<"list", "images", "entries", "view">>
IsoOrder == <<"panel", "view">>
Order(h) == CASE h = ".dll" -> DllOrder [] h = ".efi" -> EfiOrder
              [] h = ".exe" -> ExeOrder [] h = ".ico" -> IcoOrder
              [] h = ".iso" -> IsoOrder

Live == window = "live"

\* WM_INITDIALOG, up to the viewer's create callback if there is one.
InitDialog(d) ==
  /\ window = "none" /\ SetDpi(d)
  /\ window' = IF Find(extension) = NoHandler THEN "live" ELSE "creating"
  /\ UNCHANGED <<extension, handler, held, uses, ready, client, rows>>

\* The next thing some plan of this viewer asks for.  A new window takes the
\* font of the dialog.
Acquire(r) ==
  /\ window = "creating"
  /\ \E p \in Plans(Find(extension)) : \E n \in DOMAIN p :
       p[n] = r /\ held = {p[i] : i \in 1 .. (n - 1)}
  /\ held' = held \cup {r} /\ uses' = uses \cup Pointers(r)
  /\ fontOf' = IF r \in Windows
               THEN [w \in DOMAIN fontOf \cup {r} |->
                       IF w = r THEN fontOf["dialog"] ELSE fontOf[w]]
               ELSE fontOf
  /\ UNCHANGED <<window, extension, handler, layoutVars, font, fonts>>

\* The callback returns S_OK, with the view.
Created ==
  /\ window = "creating"
  /\ held \in {{p[i] : i \in DOMAIN p} : p \in Plans(Find(extension))}
  /\ window' = "live" /\ handler' = Find(extension)
  /\ IF ready THEN Layout(page.y, handler', dpi, client) ELSE UNCHANGED <<page, panel>>
  /\ UNCHANGED <<extension, held, uses, ready, dpi, client, rows, fontVars>>

\* Any failure on the way, of the file or of an allocation.
CreateFails ==
  /\ window = "creating" /\ window' = "undoing"
  /\ UNCHANGED <<extension, handler, held, uses, layoutVars, fontVars>>

\* WM_DESTROY.  The windows of the dialog are still there.
Destroy ==
  /\ Live
  /\ window' = IF handler = NoHandler THEN "closed" ELSE "closing"
  /\ UNCHANGED <<extension, handler, held, uses, layoutVars, fontVars>>

\* A step of the destroy callback.  The controls of a panel go with it.
Release(r) ==
  LET order == Order(Find(extension))
      there == {n \in DOMAIN order : order[n] \in held}
      gone == {r} \cup (IF r = "panel" THEN {PanelControls} ELSE {})
  IN  /\ window \in {"undoing", "closing"} /\ there # {}
      /\ r = order[CHOOSE n \in there : \A m \in there : n <= m]
      /\ held' = held \ gone
      /\ uses' = {u \in uses : u[1] \notin gone}
      /\ fontOf' = [w \in DOMAIN fontOf \ gone |-> fontOf[w]]
      /\ UNCHANGED <<window, extension, handler, layoutVars, font, fonts>>

Released ==
  LET order == Order(Find(extension))
  IN  /\ window \in {"undoing", "closing"} /\ \A n \in DOMAIN order : order[n] \notin held
      /\ window' = IF window = "undoing" THEN "live" ELSE "closed"
      /\ handler' = NoHandler
      /\ UNCHANGED <<extension, held, uses, layoutVars, fontVars>>

\* fx_page_state_release, when the last holder is gone.
FreeState ==
  /\ window = "closed" /\ window' = "freed"
  /\ font' = 0 /\ fonts' = fonts \ {font} /\ fontOf' = <<>>
  /\ UNCHANGED <<extension, handler, held, uses, layoutVars>>

-----------------------------------------------------------------------------
(* Messages.                                                               *)

Show ==
  /\ Live /\ ~ready /\ ready' = TRUE
  /\ Layout(page.y, handler, dpi, client)
  /\ UNCHANGED <<window, extension, handler, held, uses, dpi, client, rows, fontVars>>

Resize(height) ==
  /\ Live /\ client' = height
  /\ IF ready THEN Layout(page.y, handler, dpi, height) ELSE UNCHANGED <<page, panel>>
  /\ UNCHANGED <<window, extension, handler, held, uses, ready, dpi, rows, fontVars>>

DpiChanged(d) ==
  /\ Live /\ SetDpi(d)
  /\ UNCHANGED <<window, extension, handler, held, uses, ready, client, rows>>

\* The position a scroll bar asks for.
Requested(s, track) ==
  {s.y - Line * dpi, s.y + Line * dpi, s.y - s.bar.page, s.y + s.bar.page, track, 0,
   s.content, s.y}

\* fx_scroll_dialog_to
ScrollTo(y) ==
  LET scroll_y == Clamp(y, page.content, Larger(client, 1))
  IN  /\ scroll_y # page.y
      /\ Layout(scroll_y, handler, dpi, client)
      /\ UNCHANGED <<window, extension, handler, held, uses, ready, dpi, client,
                     rows, fontVars>>

Scroll == Live /\ \E track \in 0 .. page.bar.max :
                    \E y \in Requested(page, track) : ScrollTo(y)
Wheel == Live /\ page.visible /\ \E n \in {-3, 3} : ScrollTo(page.y + n * Line * dpi)

\* fx_iso_scroll_to, from a message to the panel.
ScrollPanel ==
  /\ Live /\ handler = ".iso"
  /\ \E track \in 0 .. panel.bar.max :
       \E y \in Requested(panel, track) \cup {panel.y + n * Line * dpi : n \in {-3, 3}} :
         LET height == PanelHeight(page.content, dpi)
             scroll_pos == Clamp(y, panel.content, Larger(height, 1))
         IN  /\ scroll_pos # panel.y
             /\ panel' = PanelLaidOut(scroll_pos, height, PanelContent(dpi))
  /\ UNCHANGED <<window, extension, handler, held, uses, ready, dpi, client, page,
                 rows, fontVars>>

ViewNext ==
  \/ \E d \in Dpis : InitDialog(d) \/ DpiChanged(d)
  \/ \E r \in Windows \cup {"view", "sbat", "nodes", "entries", "images"} :
       Acquire(r) \/ Release(r)
  \/ Created \/ CreateFails \/ Destroy \/ Released \/ FreeState
  \/ Show \/ Scroll \/ Wheel \/ ScrollPanel
  \/ \E height \in Heights : Resize(height)

ViewSpec == ViewInit /\ [][ViewNext]_viewVars

-----------------------------------------------------------------------------
\* A viewer that could not be created, and one whose page is closed, leaves
\* nothing behind, whatever it held when it failed; while it is taken apart no
\* window of it points to what is gone; and one that is shown is whole.
ViewerWhole ==
  /\ \A u \in uses : u[1] \in held /\ u[2] \in held
  /\ window \in {"none", "closed", "freed"} => held = {}
  /\ window = "live" =>
       IF handler = NoHandler THEN held = {}
       ELSE held \in {{p[i] : i \in DOMAIN p} : p \in Plans(handler)}

\* No window shows a font that is deleted, at whatever resolution it was
\* created and whichever fonts could be made, and at most one is kept.
FontsAlive ==
  /\ \A w \in DOMAIN fontOf : fontOf[w] = 0 \/ fontOf[w] \in fonts
  /\ fonts = {f \in {font} : f # 0}
  /\ Live => DOMAIN fontOf = {"dialog", "controls"} \cup (held \cap Windows)

\* Between messages the things on the page are where its scroll bar says, the
\* position is one from which the content fills the window, and there is a bar
\* when the content needs one; the same holds for the panel.
Consistent(s, height) ==
  /\ s.drawn = s.y /\ s.bar.pos = s.y
  /\ s.y >= 0 /\ s.y + Larger(height, 1) <= Larger(s.content, Larger(height, 1))
  /\ s.visible = (s.content > height)
ScrollConsistent ==
  Live /\ ready =>
    /\ Consistent(page, client)
    /\ page.content >= MinHeight(handler, dpi)
    /\ handler = ".iso" =>
         /\ panel.content = rows * dpi
         /\ panel.drawn = panel.y /\ panel.bar.pos = panel.y
         /\ LET height == Larger(PanelHeight(page.content, dpi), 1)
            IN  /\ panel.y >= 0 /\ panel.y + height <= Larger(panel.content, height)
                /\ panel.visible = (panel.content > height)

-----------------------------------------------------------------------------
(* Inductive invariants.                                                   *)

Elements(order) == {order[n] : n \in DOMAIN order}

\* What a viewer that is made or taken apart holds is what its destroy callback
\* looks for, and what points to something came before it in that order.
HeldInv ==
  /\ window \in {"none", "creating", "undoing", "live", "closing", "closed", "freed"}
  /\ uses \subseteq {<<"list", "images">>, <<"panel", "view">>}
  /\ \A u \in uses : u[1] \in held /\ u[2] \in held
  /\ PanelControls \in held => "panel" \in held
  /\ window \in {"none", "closed", "freed"} => held = {}
  /\ window \in {"none", "creating", "undoing"} => handler = NoHandler
  /\ window \in {"creating", "undoing", "closing"} =>
       /\ Find(extension) # NoHandler
       /\ held \subseteq Elements(Order(Find(extension))) \cup {PanelControls}
  /\ window = "closing" => handler = Find(extension)
  /\ window = "live" =>
       IF handler = NoHandler THEN held = {}
       ELSE /\ handler = Find(extension)
            /\ held \in {Elements(p) : p \in Plans(handler)}

\* The fonts, as long as there is a page.
FontInv ==
  /\ \A w \in DOMAIN fontOf : fontOf[w] = 0 \/ fontOf[w] \in fonts
  /\ font \in 0 .. 2 /\ fonts = {f \in {font} : f # 0}
  /\ window # "freed" => DOMAIN fontOf = {"dialog", "controls"} \cup (held \cap Windows)

\* Until the page was shown nothing is laid out; then everything is, always.
Surface == [y : Nat, content : Nat, bar : [max : Int, page : Int, pos : Int],
            visible : BOOLEAN, drawn : Nat]
LayoutInv ==
  /\ client \in Nat /\ rows \in Nat /\ page \in Surface /\ panel \in Surface
  /\ window = "none" \/ dpi \in Nat \ {0}
  /\ window \in {"none", "creating", "undoing"} => ~ready
  /\ ready \in BOOLEAN /\ ScrollConsistent
=============================================================================
