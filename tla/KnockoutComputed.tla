--------------------------- MODULE KnockoutComputed ---------------------------
(***************************************************************************)
(* Knockout's observables, computeds and the bindings made of them, by which *)
(* a page follows its model.  All of it is synchronous: a write notifies the *)
(* subscribers, each of which may evaluate and notify in turn, so that the   *)
(* state holds the notifications under way.  Only throttled evaluations wait *)
(* for a timer.  Functions that throw and deferred evaluation are left out.  *)
(***************************************************************************)
EXTENDS Integers, Sequences, SequencesExt

CONSTANTS
  Observables, Values,
  Computeds,          \* those the model has, all evaluated at the start
  Throttled, Bound,   \* those of them throttled, and those that bind a node
  Reads(_, _),        \* what a computed reads, given the latest values
  Result(_, _),       \* what it makes of that
  Handlers,           \* subscriptions of the page's own
  Watched(_),         \* what each is subscribed to
  Target(_), Value(_) \* and the write it makes, or the binding whose node it removes

VARIABLES
  latest,      \* _latestValue, of observables and computeds
  subs,        \* _subscriptions.change, in order
  deps,        \* _subscriptionsToDependencies
  frames,      \* the notifications under way, outermost first
  timers,      \* the throttled computeds with an evaluation to come
  detached,    \* the bindings whose node was removed behind Knockout's back
  disposed,    \* history: the computeds disposed of
  missed       \* history: those told of a change while being evaluated

vars == <<latest, subs, deps, frames, timers, detached, disposed, missed>>
Things == Observables \cup Computeds

Init ==
  /\ latest \in [Things -> Values] /\ \A c \in Computeds : latest[c] = Result(c, latest)
  /\ deps = [c \in Computeds |-> Reads(c, latest)]
  /\ subs = [x \in Things |-> SetToSeq({h \in Handlers : Watched(h) = x})
                                \o SetToSeq({c \in Computeds : x \in deps[c]})]
  /\ frames = <<>> /\ timers = {} /\ detached = {} /\ disposed = {} /\ missed = {}

Idle == frames = <<>>
Evaluating(c) == \E i \in DOMAIN frames : frames[i].of = c
Without(s, x) == SelectSeq(s, LAMBDA y : y # x)

(* notifySubscribers goes through a copy of the list; a subscription that is  *)
(* disposed of meanwhile is passed over, so that it leaves the copies as well. *)
(* Beside it, a loop that calls it all the same.                            *)
Notification(x) == [of |-> x, rest |-> subs[x]]
StillCalled(xs, s, fs) == fs
PassedOver(xs, s, fs) == [i \in DOMAIN fs |->
  IF fs[i].of \in xs THEN [fs[i] EXCEPT !.rest = Without(@, s)] ELSE fs[i]]
Unsubscribed(xs, s) == [x \in Things |-> IF x \in xs THEN Without(subs[x], s) ELSE subs[x]]

(* observable(value), the notifications fs waiting: an equal value is ignored *)
Write(o, v, fs) ==
  /\ IF latest[o] = v THEN frames' = fs /\ UNCHANGED latest
     ELSE latest' = [latest EXCEPT ![o] = v] /\ frames' = Append(fs, Notification(o))
  /\ UNCHANGED <<subs, deps, disposed, missed>>

Dispose(c, fs) ==
  /\ deps' = [deps EXCEPT ![c] = {}] /\ subs' = Unsubscribed(deps[c], c)
  /\ frames' = PassedOver(deps[c], c, fs) /\ disposed' = disposed \cup {c}
  /\ UNCHANGED <<latest, missed>>

(* evaluateImmediate, when nothing forbids it: what is no longer read is given  *)
(* up, and what is read for the first time subscribed to.  Beside it, one that  *)
(* keeps all it ever read.                                                  *)
ReadKeepingAll(c) == deps[c] \cup Reads(c, latest)
ReadNow(c) == Reads(c, latest)
Evaluate(c, fs) ==
  LET new == ReadNow(c) \ deps[c]
      given == deps[c] \ ReadNow(c) IN
  /\ deps' = [deps EXCEPT ![c] = ReadNow(c)]
  /\ subs' = [x \in Things |-> IF x \in new THEN Append(subs[x], c)
                               ELSE IF x \in given THEN Without(subs[x], c) ELSE subs[x]]
  /\ latest' = [latest EXCEPT ![c] = Result(c, latest)]
  /\ frames' = Append(PassedOver(given, c, fs), Notification(c))
  /\ missed' = missed \ {c} /\ UNCHANGED disposed

(* Not within its own evaluation, which lasts until its subscribers have been    *)
(* told; and a binding whose node has gone disposes of itself.                *)
EvaluateImmediate(c, fs) ==
  \/ /\ Evaluating(c) /\ missed' = missed \cup {c} /\ frames' = fs
     /\ UNCHANGED <<latest, subs, deps, disposed>>
  \/ ~Evaluating(c) /\ c \in detached /\ Dispose(c, fs)
  \/ ~Evaluating(c) /\ c \notin detached /\ Evaluate(c, fs)

EvaluatePossiblyAsync(c, fs) ==
  \/ /\ c \in Throttled /\ timers' = timers \cup {c} /\ frames' = fs
     /\ UNCHANGED <<latest, subs, deps, disposed, missed>>
  \/ c \notin Throttled /\ EvaluateImmediate(c, fs) /\ UNCHANGED timers

-----------------------------------------------------------------------------
(* One callback of the innermost notification, or its end *)
Notify ==
  LET top == Last(frames) IN
  /\ ~Idle /\ UNCHANGED detached
  /\ \/ /\ top.rest = <<>> /\ frames' = Front(frames)
        /\ UNCHANGED <<latest, subs, deps, timers, disposed, missed>>
     \/ /\ top.rest # <<>>
        /\ LET s == Head(top.rest)
               fs == [frames EXCEPT ![Len(frames)].rest = Tail(@)] IN
           \/ /\ s \in Handlers /\ UNCHANGED timers
              /\ \/ Target(s) \in Observables /\ Write(Target(s), Value(s), fs)
                 \/ Target(s) \in Bound /\ Dispose(Target(s), fs)
           \/ s \in Computeds /\ EvaluatePossiblyAsync(s, fs)

(* setTimeout's callback: nothing withdraws it when the computed is disposed of *)
TimerFires(c) ==
  /\ Idle /\ c \in timers /\ timers' = timers \ {c}
  /\ EvaluateImmediate(c, frames) /\ UNCHANGED detached

PageWrites(o, v) ==
  Idle /\ latest[o] # v /\ Write(o, v, frames) /\ UNCHANGED <<timers, detached>>

(* dispose(), by the page or, for a binding, because Knockout removes its node *)
PageDisposes(c) ==
  Idle /\ c \notin disposed /\ Dispose(c, frames) /\ UNCHANGED <<timers, detached>>

(* The page takes a node away without Knockout *)
PageDetaches(c) ==
  /\ Idle /\ c \in Bound \ detached /\ detached' = detached \cup {c}
  /\ UNCHANGED <<latest, subs, deps, frames, timers, disposed, missed>>

Next ==
  \/ Notify
  \/ \E c \in Computeds : TimerFires(c) \/ PageDisposes(c) \/ PageDetaches(c)
  \/ \E o \in Observables, v \in Values : PageWrites(o, v)

Spec == Init /\ [][Next]_vars

-----------------------------------------------------------------------------
(* Subscriptions and dependencies are two sides of one relation, and a list      *)
(* names no subscriber twice.                                                *)
SubscriptionsMatch == \A x \in Things :
  /\ IsInjective(subs[x])
  /\ {c \in Computeds : x \in deps[c]} = ToSet(subs[x]) \cap Computeds

(* Once a write has been dealt with, every computed still in use has the value    *)
(* its function gives now, and depends on just what that function reads; but for   *)
(* those a timer will evaluate, those whose node has gone, and those that missed a *)
(* change because a subscriber of theirs made it, which evaluateImmediate's         *)
(* comment calls the price of no endless loops.  One disposed of stays so, unless   *)
(* it was throttled: its timer brings it back.                                *)
ComputedsCurrent ==
  /\ SubscriptionsMatch
  /\ Idle => \A c \in Computeds \ (timers \cup detached \cup missed \cup disposed) :
       latest[c] = Result(c, latest) /\ deps[c] = Reads(c, latest)
  /\ \A c \in disposed \ Throttled : deps[c] = {}
=============================================================================
