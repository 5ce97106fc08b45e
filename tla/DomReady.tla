-------------------------------- MODULE DomReady --------------------------------
(***************************************************************************)
(* domReady of curl: what is given to it is called once the document can be        *)
(* changed, which three events and a timer look for.                            *)
(***************************************************************************)
EXTENDS Integers, Sequences, FiniteSets, SequencesExt

CONSTANT MaxCallbacks   \* bound: callbacks given

VARIABLES
  readyState, body,   \* of the document
  completed, listening, timer,
  callbacks,          \* those that wait
  given, called,      \* history: how many were given, and which were called, in order
  threw               \* history: one of those that waited has thrown

vars == <<readyState, body, completed, listening, timer, callbacks, given, called, threw>>

States == <<"loading", "interactive", "complete">>
Manipulable(s, b) == s # "loading" /\ b

(* The script may come when the document is ready already *)
Init ==
  /\ readyState \in ToSet(States) /\ body \in BOOLEAN /\ (readyState # "loading" => body)
  /\ completed = Manipulable(readyState, body)
  /\ listening = ~completed /\ timer = ~completed
  /\ callbacks = <<>> /\ given = 0 /\ called = <<>> /\ threw = FALSE

-----------------------------------------------------------------------------
(* Those that wait are called, until one throws; one may give another, which is called     *)
(* there and then                                                                   *)
Called(waiting, thrower, giver) ==
  LET last == IF thrower = 0 THEN Len(waiting) ELSE thrower
      run == SubSeq(waiting, 1, last)
  IN IF giver \in 1 .. last /\ given < MaxCallbacks
     THEN SubSeq(run, 1, giver) \o <<given + 1>> \o SubSeq(run, giver + 1, last)
     ELSE run
Ready ==
  /\ completed' = TRUE /\ listening' = FALSE /\ timer' = FALSE
  /\ \E thrower, giver \in 0 .. Len(callbacks) :
       LET now == Called(callbacks, thrower, giver) IN
       /\ called' = called \o now
       /\ callbacks' = IF thrower = 0 THEN <<>> ELSE SubSeq(callbacks, thrower + 1, Len(callbacks))
       /\ threw' = (thrower # 0)
       /\ given' = IF given + 1 \in ToSet(now) THEN given + 1 ELSE given
CheckDOMReady(s, b) ==
  IF ~completed /\ Manipulable(s, b) THEN Ready
  ELSE UNCHANGED <<completed, listening, timer, callbacks, given, called, threw>>

(* The document comes on; the events may fail to come, or come before there is a body *)
DocumentMoves ==
  /\ readyState # "complete"
  /\ readyState' = IF readyState = "loading" THEN "interactive" ELSE "complete"
  /\ UNCHANGED <<body, completed, listening, timer, callbacks, given, called, threw>>
BodyComes ==
  /\ ~body /\ body' = TRUE
  /\ UNCHANGED <<readyState, completed, listening, timer, callbacks, given, called, threw>>
Event == listening /\ CheckDOMReady(readyState, body) /\ UNCHANGED <<readyState, body>>
(* The timer is set again until the check has succeeded *)
Poller == timer /\ CheckDOMReady(readyState, body) /\ UNCHANGED <<readyState, body>>

(* Beside it, one that lets every callback wait *)
WaitAlways == FALSE
AtOnce == completed
DomReady ==
  /\ given < MaxCallbacks /\ given' = given + 1
  /\ IF AtOnce THEN called' = Append(called, given + 1) /\ UNCHANGED callbacks
     ELSE callbacks' = Append(callbacks, given + 1) /\ UNCHANGED called
  /\ UNCHANGED <<readyState, body, completed, listening, timer, threw>>

Next == DocumentMoves \/ BodyComes \/ Event \/ Poller \/ DomReady

Spec == Init /\ [][Next]_vars

-----------------------------------------------------------------------------
(* Nothing is called before the document is ready, or twice; after it everything is, in     *)
(* what order it was given but for what was given meanwhile, unless one of those that         *)
(* waited threw; and before it the timer looks, whatever events have been missed.           *)
CalledOnce ==
  /\ IsInjective(called) /\ (called # <<>> => Manipulable(readyState, body))
  /\ completed /\ ~threw => ToSet(called) = 1 .. given
  /\ ToSet(called) \cup ToSet(callbacks) = 1 .. given
  /\ ~completed => timer
=============================================================================
