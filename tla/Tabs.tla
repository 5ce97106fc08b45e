---------------------------------- MODULE Tabs ----------------------------------
(***************************************************************************)
(* The tabs of Bootstrap.  The tab itself is marked at once; its pane takes the     *)
(* place of the one shown when that one has faded out, if it fades.  Until then     *)
(* the old pane counts as the one shown, whatever is clicked meanwhile.            *)
(***************************************************************************)
EXTENDS Integers, Sequences, FiniteSets, SequencesExt

CONSTANTS
  Tabs,
  MaxWaiting   \* bound: clicks during one fade

VARIABLES
  fade,     \* the panes have the class
  tab,      \* the tab marked active
  active,   \* the panes that are
  in,       \* those that have faded in, or are about to
  waiting,  \* the panes that follow when the active ones have faded out, as they were asked for
  hurried   \* history: more than one pane follows, or followed

vars == <<fade, tab, active, in, waiting, hurried>>
Panes == [active |-> active, in |-> in]

(* One pane is active in the page as it comes *)
Init ==
  /\ fade \in BOOLEAN /\ tab \in Tabs /\ active = {tab} /\ in = {tab}
  /\ waiting = <<>> /\ hurried = FALSE

-----------------------------------------------------------------------------
(* next() of activate: the panes that were active when it was asked for are so no more.  *)
(* Beside it, one that leaves them.                                              *)
NextKeeping(p, gone, pane) == [active |-> p.active \cup {pane}, in |-> p.in \cup {pane}]
NextPane(p, gone, pane) ==
  [active |-> (p.active \ gone) \cup {pane},
   in |-> IF fade THEN p.in \cup {pane} ELSE p.in]

(* show; a listener may prevent it, which changes nothing.  A pane that fades loses the  *)
(* class in, which sets it going; one that does not is followed at once.             *)
Show(t) ==
  /\ t # tab /\ tab' = t /\ UNCHANGED fade
  /\ Len(waiting) < MaxWaiting
  /\ hurried' = (waiting # <<>>)
  /\ IF fade
     THEN waiting' = Append(waiting, t) /\ in' = in \ active /\ UNCHANGED active
     ELSE LET p == NextPane(Panes, active, t)
          IN active' = p.active /\ in' = p.in \ active /\ UNCHANGED waiting

(* All that are active began to fade together, and their ends come together.  Everyone     *)
(* waits for each of them.                                                       *)
FadedOut ==
  /\ waiting # <<>> /\ waiting' = <<>> /\ UNCHANGED <<fade, tab, hurried>>
  /\ LET Ended(p, pane) == NextPane(p, active, pane)
         OneEnds(p, ended) == FoldLeft(Ended, p, waiting)
         p == FoldLeft(OneEnds, Panes, SetToSeq(active))
     IN active' = p.active /\ in' = p.in

Next == FadedOut \/ \E t \in Tabs : Show(t)

Spec == Init /\ [][Next]_vars

-----------------------------------------------------------------------------
(* When nothing fades the pane of the tab that is marked is shown, and visible, whatever     *)
(* was clicked while others faded; and no other, if nothing was clicked meanwhile.          *)
PaneOfTab == waiting = <<>> =>
  /\ tab \in active /\ (fade => active \subseteq in)
  /\ ~hurried => active = {tab}
=============================================================================
