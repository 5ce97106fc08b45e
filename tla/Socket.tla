------------------------------- MODULE Socket -------------------------------
(***************************************************************************)
(* What a page relies on when it hands a SockJS object to Stomp.over: the    *)
(* socket opens at most once, delivers only while it is open, and announces *)
(* its end, whatever the transport did, with one close event, the last.     *)
(***************************************************************************)
VARIABLES
  readyState,  \* SockJS.CONNECTING, OPEN or CLOSED
  last         \* the last event dispatched to the page

vars == <<readyState, last>>

Init == readyState = "CONNECTING" /\ last = "none"

Open ==
  /\ readyState = "CONNECTING" /\ last = "none"
  /\ readyState' = "OPEN" /\ last' = "open"

Deliver ==
  /\ readyState = "OPEN"
  /\ last' \in {"message", "heartbeat"}
  /\ UNCHANGED readyState

Close ==
  /\ readyState \in {"CONNECTING", "OPEN"}
  /\ readyState' = "CLOSED"
  /\ UNCHANGED last

Announce ==
  /\ readyState = "CLOSED" /\ last # "close"
  /\ last' = "close"
  /\ UNCHANGED readyState

Next == Open \/ Deliver \/ Close \/ Announce

SafeSpec == Init /\ [][Next]_vars
Spec == SafeSpec /\ WF_vars(Announce)
=============================================================================
