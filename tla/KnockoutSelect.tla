----------------------------- MODULE KnockoutSelect -----------------------------
(***************************************************************************)
(* A drop-down of Knockout with the options and the value binding: an array gives    *)
(* its options, an observable its value.  One computed updates both, whichever has    *)
(* changed; what the value binding writes it writes once more, with a timer.       *)
(***************************************************************************)
EXTENDS Integers, Sequences, FiniteSets, SequencesExt

CONSTANTS
  Values,      \* what may be in the array, each at most once
  Undefined,   \* the value of the caption, and of a drop-down with nothing in it
  MaxItems,
  MaxTimers    \* bound: timers pending

VARIABLES
  caption,     \* there is one
  items,       \* the array
  model,       \* the observable
  shown,       \* the value of the option that is selected
  timers,      \* the values that are written again, in the order of the timers
  overtaken,   \* history: since the last update a timer has written another value than the model's
  lost         \* history: a model value was not kept when options for it came

vars == <<caption, items, model, shown, timers, overtaken, lost>>
Heap == [items |-> items, model |-> model, shown |-> shown, timers |-> timers, lost |-> lost]
Become(h) ==
  /\ items' = h.items /\ model' = h.model /\ shown' = h.shown /\ timers' = h.timers
  /\ lost' = h.lost /\ UNCHANGED caption

Arrays == {s \in SeqOf(Values, MaxItems) : IsInjective(s)}
Options(array) == IF caption THEN <<Undefined>> \o array ELSE array

-----------------------------------------------------------------------------
(* What is selected when the options have been replaced: what was, if it is still there;  *)
(* else what the browser takes, the first that has stayed or else the first of all.     *)
(* The caption is a new option every time, and selected again if it was.              *)
Kept(h, old) ==
  LET stayed == SelectSeq(Options(old), LAMBDA v : Contains(h.items, v))
      now == Options(h.items)
  IN IF Contains(now, h.shown) /\ Options(old) # <<>> THEN h.shown
     ELSE IF stayed # <<>> THEN Head(stayed)
     ELSE IF now # <<>> THEN Head(now) ELSE Undefined

(* writeValue of a select: what is not among the options leaves it, but undefined takes     *)
(* the first                                                                         *)
WriteValue(h, v) ==
  LET now == Options(h.items) IN
  IF now = <<>> THEN h
  ELSE IF Contains(now, v) THEN [h EXCEPT !.shown = v]
  ELSE IF v = Undefined THEN [h EXCEPT !.shown = Head(now)] ELSE h

(* The change event writes the model, whose update goes unheard inside an update.          *)
(* Beside it, one that leaves the model.                                            *)
Tolerated(h) == h
Change(h) == [h EXCEPT !.model = h.shown]

(* Filled for the first time, the drop-down takes the model's value if it can.  It does     *)
(* so too when there is still nothing in it, which writes undefined to the model.      *)
OptionsUpdate(h, old) ==
  LET k == [h EXCEPT !.shown = Kept(h, old)]
      w == IF k.model # k.shown THEN WriteValue(k, k.model) ELSE k
      c == IF w.model # w.shown THEN Change(w) ELSE w
  IN IF Options(old) # <<>> THEN k
     ELSE [c EXCEPT !.lost = @ \/ (Contains(Options(h.items), h.model) /\ c.model # h.model)]
ValueUpdate(h) ==
  LET w == IF h.model = h.shown THEN h
           ELSE [WriteValue(h, h.model) EXCEPT !.timers = Append(@, h.model)]
  IN IF Options(h.items) # <<>> /\ w.model # w.shown THEN Change(w) ELSE w
Update(h, old) == Become(ValueUpdate(OptionsUpdate(h, old))) /\ overtaken' = FALSE

Init ==
  /\ caption \in BOOLEAN /\ items \in Arrays
  /\ overtaken = FALSE
  /\ \E v \in Values \cup {Undefined} :
       LET h == ValueUpdate(OptionsUpdate(
                  [items |-> items, model |-> v, shown |-> Undefined, timers |-> <<>>, lost |-> FALSE], <<>>))
       IN model = h.model /\ shown = h.shown /\ timers = h.timers /\ lost = h.lost

-----------------------------------------------------------------------------
Room == Len(timers) < MaxTimers
SetItems(array) == Room /\ array # items /\ Update([Heap EXCEPT !.items = array], items)
SetModel(v) == Room /\ v # model /\ Update([Heap EXCEPT !.model = v], items)
Pick(v) ==
  /\ Room /\ Contains(Options(items), v) /\ v # shown
  /\ IF v # model THEN Update([Heap EXCEPT !.shown = v, !.model = v], items)
     ELSE Become([Heap EXCEPT !.shown = v]) /\ overtaken' = FALSE
TimerFires ==
  /\ timers # <<>>
  /\ Become([WriteValue(Heap, Head(timers)) EXCEPT !.timers = Tail(timers)])
  /\ overtaken' = (Head(timers) # model)

Next ==
  \/ TimerFires
  \/ (\E array \in Arrays : SetItems(array))
  \/ (\E v \in Values \cup {Undefined} : SetModel(v) \/ Pick(v))

Spec == Init /\ [][Next]_vars

-----------------------------------------------------------------------------
(* The model's value is one of the options if there is any, and the one that is shown,     *)
(* however array, model and user change, unless a timer has written a value that had        *)
(* been replaced meanwhile.  A value that options come for again is kept.               *)
SelectAgrees ==
  /\ items # <<>> => Contains(Options(items), model) /\ Contains(Options(items), shown)
  /\ items # <<>> /\ ~overtaken => shown = model
  /\ ~lost
=============================================================================
