------------------------------ MODULE KnockoutFocus ------------------------------
(***************************************************************************)
(* Knockout's binding hasfocus: each field of a form is bound to an observable that is   *)
(* true while the field has the focus, and that moves the focus when it is written.      *)
(* All happens within one event: a browser tells the handlers before focus() returns.     *)
(* The view model may send the focus on from one field to another.  The window is         *)
(* the one in use, so that focus() and blur() are told.                              *)
(***************************************************************************)
EXTENDS Integers, Sequences, FiniteSets, SequencesExt

CONSTANT Count   \* of the fields of the form

Fields == 1 .. Count
Body == 0          \* what is active when no field is

VARIABLES
  redirect,          \* of a field the one the focus is sent on to, further on, or itself
  early,             \* that was subscribed before the bindings were applied
  blind,             \* fields that cannot have the focus: disabled, or not displayed
  active,            \* document.activeElement
  value,             \* of the observables
  updating,          \* fields with hasfocusUpdating
  last,              \* hasfocusLastValue, as a set: it is not there at first
  evaluating         \* fields whose binding is being evaluated

vars == <<redirect, early, blind, active, value, updating, last, evaluating>>
Heap == [active |-> active, value |-> value, updating |-> updating, last |-> last,
         evaluating |-> evaluating]
Become(h) ==
  /\ active' = h.active /\ value' = h.value /\ updating' = h.updating /\ last' = h.last
  /\ evaluating' = h.evaluating /\ UNCHANGED <<redirect, early, blind>>

-----------------------------------------------------------------------------
RECURSIVE Write(_, _, _), Update(_, _), Handle(_, _)

(* What focus() and blur() do: the field that had the focus is told first, and may have     *)
(* given it to another.                                                            *)
Blur(h, e) == IF h.active # e THEN h ELSE Handle([h EXCEPT !.active = Body], e)
Focus(h, e) ==
  IF e \in blind \/ h.active = e THEN h
  ELSE LET b == IF h.active = Body THEN h ELSE Blur(h, h.active)
       IN IF b.active = Body THEN Handle([b EXCEPT !.active = e], e) ELSE b

(* handleElementFocusChange, which asks the document rather than the event.  Beside it,    *)
(* one that does not remember what it wrote.                                         *)
HandleForgetting(h, e) ==
  LET w == Write([h EXCEPT !.updating = @ \cup {e}], e, h.active = e)
  IN [w EXCEPT !.updating = @ \ {e}]
Handle(h, e) ==
  LET isFocused == h.active = e
      w == Write([h EXCEPT !.updating = @ \cup {e}], e, isFocused)
  IN [w EXCEPT !.last[e] = {isFocused}, !.updating = @ \ {e}]

(* update, in the computed of the bindings, which is not evaluated within its evaluation *)
Update(h, e) ==
  IF e \in h.evaluating \/ e \in h.updating \/ h.last[e] = {h.value[e]} THEN h
  ELSE LET on == [h EXCEPT !.evaluating = @ \cup {e}]
           moved == IF h.value[e] THEN Focus(on, e) ELSE Blur(on, e)
       IN [Handle(moved, e) EXCEPT !.evaluating = @ \ {e}]

(* The observable tells its subscribers, in the order they came, if it changes; the        *)
(* binding is one of them when it has been applied.                                  *)
Told(h, e, v) == IF v /\ redirect[e] # e THEN Write(h, redirect[e], TRUE) ELSE h
Write(h, e, v) ==
  LET w == [h EXCEPT !.value[e] = v]
  IN IF h.value[e] = v THEN h
     ELSE IF h.last[e] = {} THEN Told(w, e, v)
     ELSE IF early THEN Update(Told(w, e, v), e) ELSE Told(Update(w, e), e, v)

(* applyBindings, field by field, with whatever the view model begins with *)
Init ==
  /\ redirect \in {r \in [Fields -> Fields] : \A e \in Fields : r[e] >= e}
  /\ early \in BOOLEAN /\ blind \in SUBSET Fields
  /\ \E v \in [Fields -> BOOLEAN] :
       LET h == FoldLeft(Update, [active |-> Body, value |-> v, updating |-> {},
                                  last |-> [e \in Fields |-> {}], evaluating |-> {}],
                         SetToSeq(Fields))
       IN /\ active = h.active /\ value = h.value /\ updating = h.updating /\ last = h.last
          /\ evaluating = h.evaluating

-----------------------------------------------------------------------------
UserFocuses(e) == e \notin blind /\ active # e /\ Become(Focus(Heap, e))
UserLeaves == active # Body /\ Become(Blur(Heap, active))
(* The tab is changed: the field is told that it lost the focus, and is active still *)
TabChanges == active # Body /\ Become(Handle(Heap, active))
ModelWrites(e, v) == v # value[e] /\ Become(Write(Heap, e, v))

Next ==
  \/ UserLeaves \/ TabChanges
  \/ \E e \in Fields : UserFocuses(e) \/ ModelWrites(e, ~value[e])

Spec == Init /\ [][Next]_vars

-----------------------------------------------------------------------------
(* However the focus goes from field to field, by the user, the model, or the view model      *)
(* while it is on its way, the field that has it is true, and a field that does not is        *)
(* false unless the view model sent the focus on from it, after which the handler that told   *)
(* it stores the value that it had; else the value kept is the latest.  No flag stays behind.  *)
FocusKept ==
  /\ active # Body => value[active]
  /\ \A e \in Fields : value[e] => active = e \/ redirect[e] # e
  /\ \A e \in Fields : last[e] = {value[e]} \/ redirect[e] # e
  /\ updating = {} /\ evaluating = {}
=============================================================================
