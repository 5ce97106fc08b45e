-------------------------------- MODULE Dropdown --------------------------------
(***************************************************************************)
(* The drop-down menus of Bootstrap.  A click goes up from what was clicked: to a    *)
(* toggle that was given a plugin object, then to the root, where each object has    *)
(* put a listener that closes its own menu, then to the document, where toggles       *)
(* without an object are heard and everything else closes all menus.                *)
(***************************************************************************)
EXTENDS Integers, FiniteSets

CONSTANTS
  Toggles,
  MenuOf,     \* of a toggle the menu it opens: that of another, by its data-target, or its own
  Items       \* of each menu

VARIABLES
  touch,      \* the browser has touch events: an open menu is given a backdrop
  disabled,   \* toggles
  made,       \* toggles with a plugin object
  open,       \* menus
  backdrops,  \* the toggles that a backdrop stands before
  focus       \* what has the focus: nothing, a toggle, or an item of a menu

vars == <<touch, disabled, made, open, backdrops, focus>>
Page == [open |-> open, backdrops |-> backdrops, focus |-> focus]
Become(h) == open' = h.open /\ backdrops' = h.backdrops /\ focus' = h.focus
Menus == Toggles
Nothing == <<"nothing", 0>>

Init ==
  /\ touch \in BOOLEAN /\ disabled \in SUBSET Toggles /\ made = {}
  /\ open = {} /\ backdrops = {} /\ focus = Nothing

-----------------------------------------------------------------------------
ClearMenus(h) == [h EXCEPT !.open = @ \ {MenuOf[t] : t \in Toggles}, !.backdrops = {}]
(* toggle.  Beside it, one that leaves other menus as they are. *)
Opened(h, t) == [h EXCEPT !.open = @ \cup {MenuOf[t]}, !.backdrops = IF touch THEN @ \cup {t} ELSE @]
ToggleOne(h, t) ==
  IF MenuOf[t] \in h.open THEN ClearMenus(h) ELSE [Opened(h, t) EXCEPT !.focus = <<"toggle", t>>]
Toggle(h, t) ==
  [IF MenuOf[t] \in h.open THEN ClearMenus(h) ELSE Opened(ClearMenus(h), t)
   EXCEPT !.focus = <<"toggle", t>>]

(* The listeners at the root; each closes the menu its toggle stands in *)
Root(h) == [h EXCEPT !.open = @ \ made]
(* What follows at the document.  A toggle that is disabled lets the click go on. *)
Click(h, t) ==
  CASE t \in made /\ t \notin disabled -> Toggle(h, t)
    [] t \notin made /\ t \notin disabled -> Toggle(Root(h), t)
    [] OTHER -> ClearMenus(Root(h))

-----------------------------------------------------------------------------
Clicks(t) == Become(Click(Page, t)) /\ UNCHANGED <<touch, disabled, made>>
(* Somewhere else, the backdrop included, which closes the menus twice *)
ClicksElsewhere == Become(ClearMenus(Root(Page))) /\ UNCHANGED <<touch, disabled, made>>
(* A form in an open menu keeps clicks from the document, after the root has heard them *)
ClicksForm ==
  /\ open # {} /\ Become(Root(Page)) /\ UNCHANGED <<touch, disabled, made>>

(* dropdown(), alone or with 'toggle' *)
Make(t, toggles) ==
  /\ made' = made \cup {t} /\ UNCHANGED <<touch, disabled>>
  /\ Become(IF toggles /\ t \notin disabled THEN Toggle(Page, t) ELSE Page)

(* keydown, on a toggle or on an item of its menu.  Escape goes to the toggle that stands   *)
(* in the menu; click() of a menu closes it.                                         *)
Index == IF focus[1] = "toggle" THEN -1 ELSE focus[2]
Moved(i, key) ==
  CASE key = "up" /\ i > 0 -> i - 1
    [] key = "down" /\ i < Items - 1 -> i + 1
    [] i = -1 -> 0
    [] OTHER -> i
Keys(t, key) ==
  /\ focus = <<"toggle", t>> \/ (focus[1] = "item" /\ MenuOf[t] \in open /\ MenuOf[t] = t)
  /\ UNCHANGED <<touch, disabled, made>>
  /\ LET on == IF focus[1] = "toggle" THEN t \notin disabled ELSE TRUE
         h == IF key = "escape" THEN [Page EXCEPT !.focus = <<"toggle", MenuOf[t]>>] ELSE Page
         clicked == IF focus[1] = "toggle" THEN Click(h, t) ELSE ClearMenus(Root(h))
     IN Become(IF ~on THEN Page
               ELSE IF MenuOf[t] \notin open \/ key = "escape" THEN clicked
               ELSE IF Items = 0 THEN Page
               ELSE [Page EXCEPT !.focus = <<"item", Moved(Index, key)>>])

Next ==
  \/ ClicksElsewhere \/ ClicksForm
  \/ \E t \in Toggles :
       \/ Clicks(t) \/ \E toggles \in BOOLEAN : Make(t, toggles)
       \/ \E key \in {"up", "down", "escape"} : Keys(t, key)

Spec == Init /\ [][Next]_vars

-----------------------------------------------------------------------------
(* However toggles with and without objects, keys, and listeners at the root and the      *)
(* document follow each other, two menus are never open at once, and on a touch screen     *)
(* one that is open has a backdrop to close it; without objects a backdrop goes with it.    *)
OneMenu ==
  /\ Cardinality(open) <= 1 /\ Cardinality(backdrops) <= 1
  /\ touch /\ open # {} => backdrops # {}
  /\ made = {} /\ open = {} => backdrops = {}
=============================================================================
