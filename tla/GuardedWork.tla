------------------------------ MODULE GuardedWork ------------------------------
(***************************************************************************)
(* Work that is entered through guard.n of when, so that only so much of it goes on  *)
(* at once, and whose callers wait for it with timeout.                          *)
(***************************************************************************)
EXTENDS Integers, Sequences, FiniteSets, SequencesExt

CONSTANTS
  Callers,   \* each calls the guarded function once
  Allowed    \* how many may be in it

VARIABLES
  at,        \* of each caller: where its work is
  count, waiting,   \* of guard.n
  settled,   \* of each caller: what its work came to, none before that
  timer,     \* the callers whose timer is set
  outcome    \* of each caller: what its promise was settled with, none before that

vars == <<at, count, waiting, settled, timer, outcome>>

Init ==
  /\ at = [c \in Callers |-> "idle"] /\ count = 0 /\ waiting = <<>> /\ timer = {}
  /\ settled = [c \in Callers |-> "none"] /\ outcome = [c \in Callers |-> "none"]

-----------------------------------------------------------------------------
(* enter: a promise of the exit, or a place among those who wait, who are counted too *)
Enter(c) ==
  /\ at[c] = "idle" /\ timer' = timer \cup {c} /\ count' = count + 1
  /\ IF count < Allowed THEN at' = [at EXCEPT ![c] = "entered"] /\ UNCHANGED waiting
     ELSE at' = [at EXCEPT ![c] = "waiting"] /\ waiting' = Append(waiting, c)
  /\ UNCHANGED <<settled, outcome>>

(* In a later turn the function is called; if it throws, nothing leaves *)
Begin(c) ==
  /\ at[c] = "entered" /\ at' = [at EXCEPT ![c] = "working"]
  /\ UNCHANGED <<count, waiting, settled, timer, outcome>>
Throw(c) ==
  /\ at[c] = "entered" /\ at' = [at EXCEPT ![c] = "thrown"] /\ settled' = [settled EXCEPT ![c] = "rejected"]
  /\ UNCHANGED <<count, waiting, timer, outcome>>

(* exit takes the caller from the count and hands its place to the first who waits.   *)
(* Beside the count, one that forgets those who wait.                              *)
CountWaiting(n) == n - 1 - Len(waiting)
Counted(n) == IF n > 0 THEN n - 1 ELSE 0
Finish(c, how) ==
  /\ at[c] = "working" /\ settled' = [settled EXCEPT ![c] = how]
  /\ count' = Counted(count)
  /\ IF waiting = <<>> THEN at' = [at EXCEPT ![c] = "left"] /\ UNCHANGED waiting
     ELSE at' = [at EXCEPT ![c] = "left", ![Head(waiting)] = "entered"] /\ waiting' = Tail(waiting)
  /\ UNCHANGED <<timer, outcome>>

(* The caller: the timer and the work race to settle its promise *)
Answer(c) ==
  /\ settled[c] # "none" /\ timer' = timer \ {c}
  /\ outcome' = [outcome EXCEPT ![c] = IF @ = "none" THEN settled[c] ELSE @]
  /\ <<timer', outcome'>> # <<timer, outcome>>
  /\ UNCHANGED <<at, count, waiting, settled>>
OnTimeout(c) ==
  /\ c \in timer /\ timer' = timer \ {c}
  /\ outcome' = [outcome EXCEPT ![c] = IF @ = "none" THEN "timedOut" ELSE @]
  /\ UNCHANGED <<at, count, waiting, settled>>

Next ==
  \E c \in Callers :
    \/ Enter(c) \/ Begin(c) \/ Throw(c) \/ Answer(c) \/ OnTimeout(c)
    \/ (\E how \in {"fulfilled", "rejected"} : Finish(c, how))

Spec == Init /\ [][Next]_vars

-----------------------------------------------------------------------------
(* No more are inside than are allowed, also when callers have given up on them; nobody     *)
(* waits while there is a place, but for a place that a function which threw has kept; and   *)
(* a timer is left only for a caller that has not been told.                            *)
At(places) == {c \in Callers : at[c] \in places}
GuardKept ==
  LET inside == Cardinality(At({"entered", "working", "thrown"})) IN
  /\ inside <= Allowed /\ count = inside + Len(waiting)
  /\ waiting # <<>> => inside = Allowed
  /\ ToSet(waiting) = At({"waiting"})
  /\ \A c \in Callers :
       /\ (c \in timer) = (at[c] # "idle" /\ outcome[c] = "none")
       /\ outcome[c] \in {"none", "timedOut", settled[c]}
=============================================================================
