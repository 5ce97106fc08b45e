-------------------------------- MODULE Tooltip --------------------------------
(***************************************************************************)
(* The tooltip and the popover of Bootstrap: the pointer or the focus that comes  *)
(* and goes shows and hides a tip, at once or after a delay; a tip that fades out  *)
(* is taken from the page when its transition ends, or half a second later.        *)
(* Delegation, the trigger click and where the tip is placed are left out.        *)
(***************************************************************************)
EXTENDS Integers, Sequences, FiniteSets, SequencesExt

CONSTANT MaxEvents   \* bound: times the pointer or the focus comes or goes

VARIABLES
  options,     \* animation, and whether there is a delay to show and to hide
  enabled,
  timer,       \* this.timeout: none, or what it does if hoverState still says so
  hoverState,
  tip,         \* in the page, its classes in and fade, a transition, who waits for its end
  timers,      \* removeWithAnimation: the timeouts that have not been cleared
  events, gone,     \* how many, and whether the last was a leave
  destroyed,
  hindered     \* history: a listener prevented the last hide

vars == <<options, enabled, timer, hoverState, tip, timers, events, gone, destroyed,
          hindered>>
tips == <<tip, timers>>

Init ==
  /\ options \in [animation : BOOLEAN, show : BOOLEAN, hide : BOOLEAN]
  /\ enabled = TRUE /\ timer = "none" /\ hoverState = "none" /\ timers = {}
  /\ tip = [here |-> FALSE, in |-> FALSE, fade |-> FALSE, moving |-> FALSE, ends |-> <<>>]
  /\ events = 0 /\ gone = TRUE /\ destroyed = FALSE /\ hindered = FALSE

-----------------------------------------------------------------------------
(* A listener of the page may prevent that it is shown, or that it is hidden *)
Detached == [tip EXCEPT !.here = FALSE, !.moving = FALSE]
Show ==
  \/ /\ enabled
     /\ tip' = [tip EXCEPT !.here = TRUE, !.in = TRUE, !.fade = options.animation,
                           !.moving = options.animation]
     /\ UNCHANGED timers
  \/ UNCHANGED tips
Taken ==
  IF tip.fade
  THEN /\ tip' = [tip EXCEPT !.in = FALSE, !.moving = tip.here /\ (tip.in \/ @), !.ends = Append(@, events)]
       /\ timers' = timers \cup {events}
  ELSE tip' = [Detached EXCEPT !.in = FALSE] /\ UNCHANGED timers
Hide ==
  \/ Taken /\ hindered' = FALSE
  \/ UNCHANGED tips /\ hindered' = TRUE

(* mouseenter and focus: without a delay the timer of leave is left to run *)
Enter ==
  /\ ~destroyed /\ events < MaxEvents /\ events' = events + 1 /\ gone' = FALSE
  /\ \/ ~options.show /\ Show /\ UNCHANGED <<timer, hoverState>>
     \/ options.show /\ timer' = "in" /\ hoverState' = "in" /\ UNCHANGED tips
  /\ UNCHANGED <<options, enabled, destroyed, hindered>>

(* mouseleave and blur.  Beside its two halves, one that lets the timer of enter run. *)
LeaveUncleared == ~options.hide /\ Hide /\ UNCHANGED <<timer, hoverState>>
LeaveAtOnce == ~options.hide /\ timer' = "none" /\ Hide /\ UNCHANGED hoverState
LeaveLater == options.hide /\ timer' = "out" /\ hoverState' = "out" /\ UNCHANGED <<tips, hindered>>
Leave ==
  /\ ~destroyed /\ events < MaxEvents /\ events' = events + 1 /\ gone' = TRUE
  /\ LeaveAtOnce \/ LeaveLater
  /\ UNCHANGED <<options, enabled, destroyed>>

TimerFires ==
  /\ timer # "none" /\ timer' = "none"
  /\ \/ hoverState # timer /\ UNCHANGED <<tips, hindered>>
     \/ hoverState = timer /\ timer = "in" /\ Show /\ UNCHANGED hindered
     \/ hoverState = timer /\ timer = "out" /\ Hide
  /\ UNCHANGED <<options, enabled, hoverState, events, gone, destroyed>>

(* Who waits for the end of the transition clears his own timeout and no other *)
TransitionEnds ==
  /\ tip.moving /\ timers' = timers \ ToSet(tip.ends)
  /\ tip' = [tip EXCEPT !.moving = FALSE, !.ends = <<>>, !.here = @ /\ tip.ends = <<>>]
  /\ UNCHANGED <<options, enabled, timer, hoverState, events, gone, destroyed, hindered>>
RemovalDue(t) ==
  /\ t \in timers /\ timers' = timers \ {t} /\ tip' = [Detached EXCEPT !.ends = <<>>]
  /\ UNCHANGED <<options, enabled, timer, hoverState, events, gone, destroyed, hindered>>

Toggle ==
  /\ enabled' = ~enabled
  /\ UNCHANGED <<options, timer, hoverState, tips, events, gone, destroyed, hindered>>

(* hide() that was prevented returns nothing, and destroy throws on it *)
Destroy ==
  /\ ~destroyed /\ Hide /\ destroyed' = ~hindered'
  /\ UNCHANGED <<options, enabled, timer, hoverState, events, gone>>

Next ==
  \/ Enter \/ Leave \/ TimerFires \/ TransitionEnds \/ (\E t \in timers : RemovalDue(t))
  \/ Toggle \/ Destroy

Spec == Init /\ [][Next]_vars

-----------------------------------------------------------------------------
(* Once the pointer and the focus have gone and no timer is set any more, the tip is not   *)
(* in the page: whatever the delays, however quickly they came and went, and though the   *)
(* tip was disabled or its showing prevented.  A tip whose last hide a listener prevented  *)
(* stays, and so does one destroyed while its timer ran.                              *)
NoTipLeft == gone /\ timer = "none" /\ timers = {} /\ ~destroyed /\ ~hindered => ~tip.here
=============================================================================
