------------------------------- MODULE Typeahead -------------------------------
(***************************************************************************)
(* The typeahead of Bootstrap, with a source that answers later: the menu lists  *)
(* what there is in an answer for the text that is in the field when it comes.   *)
(* How items are matched with a text, and highlighted, is left out.             *)
(***************************************************************************)
EXTENDS Integers, Sequences, FiniteSets, FiniteSetsExt, Functions

CONSTANTS
  Items,      \* numbers, in the order of the sorter
  Texts,      \* what may be typed, and Blank
  Blank,
  Matches,    \* the items that match each text; all of them match Blank
  MaxAsked    \* bound: questions the source has not answered

VARIABLES
  text, query,       \* of the field, and of the last lookup
  asked,             \* the texts of questions not answered yet, with the time of each
  clock,             \* bound by MaxAsked: how many questions there were
  menu, active,      \* the items listed, and which of them is active, 0 for none
  shown, focused, mousedover

vars == <<text, query, asked, clock, menu, active, shown, focused, mousedover>>

Init ==
  /\ text = Blank /\ query = Blank /\ asked = {} /\ clock = 0 /\ menu = {} /\ active = 0
  /\ shown = FALSE /\ focused = FALSE /\ mousedover = FALSE

-----------------------------------------------------------------------------
(* keyup of any other key looks up: nothing is asked about a blank *)
Type(t) ==
  /\ focused /\ clock < MaxAsked /\ text' = t /\ query' = t
  /\ \/ t = Blank /\ shown' = FALSE /\ UNCHANGED <<asked, clock>>
     \/ t # Blank /\ asked' = asked \cup {<<t, clock>>} /\ clock' = clock + 1 /\ UNCHANGED shown
  /\ UNCHANGED <<menu, active, focused, mousedover>>

(* process and render, and beside the matcher one that keeps to the question.  *)
MatchedAsked(q, items) == items \cap Matches[q[1]]
Matched(q, items) == items \cap Matches[query]
Answer(q, items) ==
  LET found == Matched(q, items) IN
  /\ q \in asked /\ asked' = asked \ {q} /\ shown' = (found # {})
  /\ IF found = {} THEN UNCHANGED <<menu, active>> ELSE menu' = found /\ active' = Min(found)
  /\ UNCHANGED <<text, query, clock, focused, mousedover>>

(* The arrows, round and round; from none the first or the last *)
NextItem ==
  LET later == {i \in menu : i > active}
  IN IF active = 0 \/ later = {} THEN Min(menu) ELSE Min(later)
PrevItem ==
  LET former == {i \in menu : i < active} IN IF former = {} THEN Max(menu) ELSE Max(former)
Down == shown /\ active' = NextItem /\ UNCHANGED <<text, query, asked, clock, menu, shown, focused, mousedover>>
Up == shown /\ active' = PrevItem /\ UNCHANGED <<text, query, asked, clock, menu, shown, focused, mousedover>>

(* The text of an item is longer than any that is typed here *)
Chosen == [item |-> active]
Select ==
  /\ shown' = FALSE /\ text' = Chosen
  /\ UNCHANGED <<query, asked, clock, menu, active, mousedover>>
Enter == shown /\ focused /\ Select /\ UNCHANGED focused
Click == shown /\ mousedover /\ Select /\ focused' = TRUE
Escape == shown /\ focused /\ shown' = FALSE
          /\ UNCHANGED <<text, query, asked, clock, menu, active, focused, mousedover>>

Focus == ~focused /\ focused' = TRUE /\ UNCHANGED <<text, query, asked, clock, menu, active, shown, mousedover>>
Blur ==
  /\ focused /\ focused' = FALSE /\ shown' = (shown /\ mousedover)
  /\ UNCHANGED <<text, query, asked, clock, menu, active, mousedover>>
MouseEnter(i) ==
  /\ shown /\ i \in menu /\ mousedover' = TRUE /\ active' = i
  /\ UNCHANGED <<text, query, asked, clock, menu, shown, focused>>
MouseLeave ==
  /\ mousedover /\ mousedover' = FALSE /\ shown' = (shown /\ focused)
  /\ UNCHANGED <<text, query, asked, clock, menu, active, focused>>

Next ==
  \/ (\E t \in Texts : Type(t)) \/ (\E q \in asked, items \in SUBSET Items : Answer(q, items))
  \/ Down \/ Up \/ Enter \/ Click \/ Escape \/ Focus \/ Blur \/ MouseLeave
  \/ (\E i \in Items : MouseEnter(i))

Spec == Init /\ [][Next]_vars

-----------------------------------------------------------------------------
(* In whatever order the source answers: a menu that is shown has one item active, and    *)
(* once every question is answered it lists only what matches the last text looked up.   *)
(* Until then it may still show what matched one before, and it may show after the field  *)
(* has been left or emptied.                                                        *)
MenuMatches == shown =>
  /\ active \in menu
  /\ asked = {} => menu \subseteq Matches[query]
=============================================================================
