--------------------------------- MODULE Modal ---------------------------------
(***************************************************************************)
(* The modal dialog of Bootstrap: it is shown when its backdrop has faded in,  *)
(* and hidden when it has faded out itself, or half a second later, whichever   *)
(* comes first; then the backdrop fades out.  Focus and the keys are left out,   *)
(* and browsers without transitions and dialogs without a backdrop.              *)
(***************************************************************************)
EXTENDS Integers, Sequences, FiniteSets, SequencesExt, Functions

CONSTANT MaxShows   \* bound: calls of show

VARIABLES
  fade,       \* the dialog has the class: it and its backdrops fade
  isShown,
  element,    \* the dialog: displayed, its class, a transition, who waits for its end
  timers,     \* hideWithTransition: the timeouts that have not been cleared
  backdrop,   \* this.$backdrop, 0 for none
  backdrops,  \* all there were, those no longer in the page included
  shows,
  hurried     \* history: it was shown while it was being hidden

vars == <<fade, isShown, element, timers, backdrop, backdrops, shows, hurried>>

Wait(what, timer) == [what |-> what, timer |-> timer]
Heap == [isShown |-> isShown, element |-> element, timers |-> timers, backdrop |-> backdrop,
         backdrops |-> backdrops]
Become(h) ==
  /\ isShown' = h.isShown /\ element' = h.element /\ timers' = h.timers
  /\ backdrop' = h.backdrop /\ backdrops' = h.backdrops /\ UNCHANGED fade

Init ==
  /\ fade \in BOOLEAN /\ isShown = FALSE
  /\ element = [displayed |-> FALSE, in |-> FALSE, moving |-> FALSE, ends |-> <<>>]
  /\ timers = {} /\ backdrop = 0 /\ backdrops = <<>> /\ shows = 0 /\ hurried = FALSE

-----------------------------------------------------------------------------
(* What waits for the end of a backdrop's transition: to show the dialog, which      *)
(* fades if it did not have the class yet, or to remove the backdrop there then is. *)
Displayed(h) ==
  [h EXCEPT !.element = [displayed |-> TRUE, in |-> TRUE, moving |-> fade /\ (~@.in \/ @.moving),
                         ends |-> IF fade THEN Append(@.ends, Wait("shown", 0)) ELSE @.ends]]
RemoveBackdrop(h) ==
  IF h.backdrop = 0 THEN h
  ELSE [h EXCEPT !.backdrops[h.backdrop] = [here |-> FALSE, moving |-> FALSE, ends |-> <<>>],
                 !.backdrop = 0]
Called(h, what) == IF what = "show" THEN Displayed(h) ELSE RemoveBackdrop(h)

Backdrop(h, what) ==
  LET next == Len(h.backdrops) + 1
      new == [here |-> TRUE, moving |-> fade, ends |-> IF fade THEN <<what>> ELSE <<>>]
      shown == [h EXCEPT !.backdrops = Append(@, new), !.backdrop = next]
      waiting == [h EXCEPT !.backdrops[h.backdrop].moving = TRUE,
                           !.backdrops[h.backdrop].ends = Append(@, what)] IN
  CASE h.isShown -> IF fade THEN shown ELSE Called(shown, what)
    [] ~h.isShown /\ h.backdrop # 0 -> IF fade THEN waiting ELSE Called(h, what)
    [] OTHER -> Called(h, what)

HideModal(h) ==
  Backdrop([h EXCEPT !.element.displayed = FALSE, !.element.moving = FALSE], "remove")

(* hideWithTransition.  Beside it, one that trusts in the transition. *)
HideUntimed(h) == [h EXCEPT !.element.ends = Append(@, Wait("hide", 0))]
HideWithTransition(h) ==
  [h EXCEPT !.timers = @ \cup {shows}, !.element.ends = Append(@, Wait("hide", shows))]

EndOf(h, w) == IF w.what = "hide" THEN HideModal([h EXCEPT !.timers = @ \ {w.timer}]) ELSE h
ElementEnds(h) == FoldLeft(EndOf, [h EXCEPT !.element.ends = <<>>], h.element.ends)

-----------------------------------------------------------------------------
Show ==
  /\ ~isShown /\ shows < MaxShows /\ shows' = shows + 1
  /\ hurried' = (hurried \/ timers # {} \/ backdrop # 0)
  /\ Become(Backdrop([Heap EXCEPT !.isShown = TRUE], "show"))
Hide ==
  /\ isShown /\ UNCHANGED <<shows, hurried>>
  /\ LET h == [Heap EXCEPT !.isShown = FALSE, !.element.in = FALSE,
                           !.element.moving = fade /\ element.displayed /\ (element.in \/ @)]
     IN Become(IF fade THEN HideWithTransition(h) ELSE HideModal(h))

(* A transition of the dialog ends, or one of something in it, which tells the dialog  *)
(* too; or it is cut short and nothing is told.                                   *)
TransitionEnds ==
  /\ element.moving /\ UNCHANGED <<shows, hurried>>
  /\ Become(ElementEnds([Heap EXCEPT !.element.moving = FALSE]))
ChildTransitionEnds ==
  /\ element.displayed /\ element.ends # <<>> /\ UNCHANGED <<shows, hurried>>
  /\ Become(ElementEnds(Heap))
TransitionLost ==
  /\ element.moving /\ UNCHANGED <<shows, hurried>>
  /\ Become([Heap EXCEPT !.element.moving = FALSE])

(* Half a second is longer than a backdrop takes to fade *)
TimerFires(t) ==
  /\ t \in timers /\ \A b \in DOMAIN backdrops : ~backdrops[b].moving
  /\ Become(HideModal([Heap EXCEPT !.timers = @ \ {t}, !.element.ends = <<>>]))
  /\ UNCHANGED <<shows, hurried>>
BackdropEnds(b) ==
  /\ backdrops[b].moving /\ UNCHANGED <<shows, hurried>>
  /\ Become(FoldLeft(Called, [Heap EXCEPT !.backdrops[b].moving = FALSE, !.backdrops[b].ends = <<>>],
                     backdrops[b].ends))

Next ==
  \/ Show \/ Hide \/ TransitionEnds \/ ChildTransitionEnds \/ TransitionLost
  \/ (\E t \in timers : TimerFires(t)) \/ (\E b \in DOMAIN backdrops : BackdropEnds(b))

Spec == Init /\ [][Next]_vars

-----------------------------------------------------------------------------
(* When all is still the page shows what the dialog believes: it is displayed, with a   *)
(* backdrop of its own and no other, if it is shown, and else neither is there, though  *)
(* it was hidden before it had been displayed; unless it was shown again too soon.    *)
Still == ~element.moving /\ timers = {} /\ \A b \in DOMAIN backdrops : ~backdrops[b].moving
DialogAsShown == Still /\ ~hurried =>
  /\ element.displayed = isShown
  /\ {b \in DOMAIN backdrops : backdrops[b].here} = IF isShown THEN {backdrop} ELSE {}
=============================================================================
