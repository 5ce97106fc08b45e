-------------------------------- MODULE Carousel --------------------------------
(***************************************************************************)
(* The carousel of Bootstrap: it slides to the next item at intervals, and to    *)
(* any on demand, later if it is sliding; to pause it ends a transition at once.  *)
(* The indicators are left out, and browsers without transitions and carousels      *)
(* without the class slide, where the next item is there at once.                *)
(***************************************************************************)
EXTENDS Integers, Sequences, FiniteSets, SequencesExt

CONSTANTS
  Items,       \* number of items
  MaxWaiting   \* bound: calls of to that wait, and events slid to come

VARIABLES
  active,     \* the items with that class
  moving,     \* the transition: from where to where, none if the two are one
  sliding, paused,
  interval,   \* the timer is set
  slids,      \* timeouts that will trigger slid
  waiting,    \* the positions of calls of to that wait for slid
  prevented   \* history: a listener has prevented a slide

vars == <<active, moving, sliding, paused, interval, slids, waiting, prevented>>

Move(from, to) == [from |-> from, to |-> to]
Still == Move(0, 0)
Heap == [active |-> active, moving |-> moving, sliding |-> sliding, paused |-> paused,
         interval |-> interval, slids |-> slids, waiting |-> waiting, prevented |-> prevented]
Become(h) ==
  /\ active' = h.active /\ moving' = h.moving /\ sliding' = h.sliding /\ paused' = h.paused
  /\ interval' = h.interval /\ slids' = h.slids /\ waiting' = h.waiting
  /\ prevented' = h.prevented

Init ==
  /\ active = {1} /\ moving = Still /\ sliding = FALSE /\ paused = FALSE
  /\ interval \in BOOLEAN /\ slids = 0 /\ waiting = <<>> /\ prevented = FALSE

-----------------------------------------------------------------------------
(* The end of the transition, and beside it one that forgets that it slid *)
EndedSliding(h) ==
  [h EXCEPT !.active = (@ \ {h.moving.from}) \cup {h.moving.to}, !.moving = Still, !.slids = @ + 1]
Ended(h) ==
  [h EXCEPT !.active = (@ \ {h.moving.from}) \cup {h.moving.to}, !.moving = Still,
            !.sliding = FALSE, !.slids = @ + 1]

(* By an event of the mouse they leave paused as it is *)
CycleBy(h) == [h EXCEPT !.interval = ~h.paused]
Cycle(h) == CycleBy([h EXCEPT !.paused = FALSE])
PauseBy(h) == [IF h.moving = Still THEN h ELSE Ended(h) EXCEPT !.interval = FALSE]
Pause(h) == PauseBy([h EXCEPT !.paused = TRUE])

ActiveIndex(h) == CHOOSE i \in h.active : \A j \in h.active : i <= j
Slide(h, to, prevent) ==
  LET k == IF h.interval THEN Pause([h EXCEPT !.sliding = TRUE]) ELSE [h EXCEPT !.sliding = TRUE]
      g == [k EXCEPT !.moving = Move(ActiveIndex(h), to)]
  IN IF to \in h.active \/ prevent THEN [k EXCEPT !.prevented = TRUE]
     ELSE IF h.interval THEN Cycle(g) ELSE g
After(i) == (i % Items) + 1
Before(i) == ((i + Items - 2) % Items) + 1
SlideNext(h, prevent) == IF h.sliding THEN h ELSE Slide(h, After(ActiveIndex(h)), prevent)
SlidePrev(h, prevent) == IF h.sliding THEN h ELSE Slide(h, Before(ActiveIndex(h)), prevent)
To(h, pos) ==
  CASE h.sliding -> [h EXCEPT !.waiting = Append(@, pos)]
    [] ~h.sliding /\ ActiveIndex(h) = pos -> Cycle(Pause(h))
    [] OTHER -> Slide(h, pos, FALSE)

-----------------------------------------------------------------------------
TransitionEnds == moving # Still /\ Become(Ended(Heap))
Tick == interval /\ \E prevent \in BOOLEAN : Become(SlideNext(Heap, prevent))
GoNext == \E prevent \in BOOLEAN : Become(SlideNext(Heap, prevent))
GoPrev == \E prevent \in BOOLEAN : Become(SlidePrev(Heap, prevent))
GoTo(pos) == Become(To(Heap, pos))
Indicator(pos) == Become(Cycle(To(Pause(Heap), pos)))
MouseEnters == Become(PauseBy(Heap))
MouseLeaves == Become(CycleBy(Heap))
PagePauses == Become(Pause(Heap))
PageCycles == Become(Cycle(Heap))
SlidFires ==
  /\ slids > 0
  /\ Become(FoldLeft(To, [Heap EXCEPT !.slids = @ - 1, !.waiting = <<>>], waiting))

Next ==
  /\ Len(waiting) <= MaxWaiting /\ slids <= MaxWaiting
  /\ \/ TransitionEnds \/ Tick \/ GoNext \/ GoPrev \/ MouseEnters \/ MouseLeaves
     \/ PagePauses \/ PageCycles \/ SlidFires
     \/ \E pos \in 1 .. Items : GoTo(pos) \/ Indicator(pos)

Spec == Init /\ [][Next]_vars

-----------------------------------------------------------------------------
(* Unless a listener has prevented a slide: one item is active; the carousel believes    *)
(* itself sliding just while it is; and no call of to waits for an event that will not   *)
(* come, though transitions are cut short and calls come in handlers of slid itself.    *)
CarouselGoesOn == ~prevented =>
  /\ Cardinality(active) = 1 /\ (moving # Still => moving.from \in active)
  /\ sliding <=> moving # Still
  /\ waiting # <<>> => sliding \/ slids > 0
=============================================================================
