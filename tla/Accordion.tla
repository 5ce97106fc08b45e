------------------------------- MODULE Accordion -------------------------------
(***************************************************************************)
(* The groups of an accordion of Bootstrap that open and collapse: each is shown  *)
(* by a plugin object of its own, made when it is first needed, which is busy      *)
(* until its transition has ended.  A group without the class collapse and a browser *)
(* without transitions, where it ends at once, are left out.                      *)
(***************************************************************************)
EXTENDS Integers, Sequences, FiniteSets, SequencesExt, Functions

CONSTANTS
  Groups,
  MaxObjects   \* bound: plugin objects made

VARIABLES
  open,         \* the groups with the class in
  object,       \* the plugin object that each group has, 0 for none
  objects,      \* how many have been made
  busy,         \* the objects that are transitioning
  moving, ends, \* of each group a transition, and the objects that wait for its end
  prevented     \* history: a listener has prevented a hide

vars == <<open, object, objects, busy, moving, ends, prevented>>
Heap == [open |-> open, object |-> object, objects |-> objects, busy |-> busy,
         moving |-> moving, ends |-> ends, prevented |-> prevented]
Become(h) ==
  /\ open' = h.open /\ object' = h.object /\ objects' = h.objects /\ busy' = h.busy
  /\ moving' = h.moving /\ ends' = h.ends /\ prevented' = h.prevented

(* The page may come with a group open, and no object made yet *)
Init ==
  /\ open \in {{}} \cup {{g} : g \in Groups} /\ object = [g \in Groups |-> 0] /\ objects = 0
  /\ busy = {} /\ moving = {} /\ ends = [g \in Groups |-> <<>>] /\ prevented = FALSE

-----------------------------------------------------------------------------
Moved(h, g, o, opens) ==
  [h EXCEPT !.open = IF opens THEN @ \cup {g} ELSE @ \ {g}, !.busy = @ \cup {o},
            !.moving = @ \cup {g}, !.ends[g] = Append(@, o)]
Hide(h, g, o, prevent) ==
  IF o \in h.busy \/ g \notin h.open THEN h
  ELSE IF "hide" \in prevent THEN [h EXCEPT !.prevented = TRUE] ELSE Moved(h, g, o, FALSE)
New(h, g) == [h EXCEPT !.objects = @ + 1, !.object[g] = h.objects + 1]

(* collapse('hide') of the group that is open: an object made for it toggles it,      *)
(* which hides it, and is forgotten again                                          *)
HideOther(h, a, prevent) ==
  IF h.object[a] # 0 THEN Hide(h, a, h.object[a], prevent)
  ELSE LET k == New(h, a)
       IN [Hide(k, a, k.object[a], prevent) EXCEPT !.object[a] = 0]

(* Whether the group that is open is on its way.  Beside it, one that does not look. *)
NotBusy(h, a) == FALSE
Busy(h, a) == h.object[a] # 0 /\ h.object[a] \in h.busy
Shown(h, g, o, prevent) == IF "show" \in prevent THEN h ELSE Moved(h, g, o, TRUE)
Show(h, g, o, prevent) ==
  IF o \in h.busy \/ g \in h.open THEN h
  ELSE IF h.open = {} THEN Shown(h, g, o, prevent)
  ELSE LET a == CHOOSE a \in h.open : TRUE
       IN IF Busy(h, a) THEN h ELSE Shown(HideOther(h, a, prevent), g, o, prevent)

-----------------------------------------------------------------------------
Made(h, g) == IF h.object[g] = 0 THEN New(h, g) ELSE h
Click(g, prevent) ==
  /\ objects + 2 <= MaxObjects
  /\ LET h == Made(Heap, g)
         o == h.object[g]
     IN Become(IF g \in open THEN Hide(h, g, o, prevent) ELSE Show(h, g, o, prevent))
TransitionEnds(g) ==
  /\ g \in moving
  /\ Become([Heap EXCEPT !.moving = @ \ {g}, !.busy = @ \ ToSet(ends[g]), !.ends[g] = <<>>])

Next == \E g \in Groups : TransitionEnds(g) \/ \E prevent \in SUBSET {"show", "hide"} : Click(g, prevent)

Spec == Init /\ [][Next]_vars

-----------------------------------------------------------------------------
(* Unless a listener prevents that a group is hidden, no two of them are open at once,     *)
(* however quickly they are clicked, and an object that is busy will be told.            *)
OneOpen ==
  /\ ~prevented => Cardinality(open) <= 1
  /\ \A o \in busy : \E g \in moving : Contains(ends[g], o)
=============================================================================
