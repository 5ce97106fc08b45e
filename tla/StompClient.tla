----------------------------- MODULE StompClient -----------------------------
(***************************************************************************)
(* The STOMP client of a page, over a socket that keeps the promises of     *)
(* Socket.  The client answers callbacks only: what happens to it is that   *)
(* the socket opens, ends or delivers, that one of its two intervals ticks, *)
(* and that the page leaves.                                                *)
(***************************************************************************)
EXTENDS Naturals

VARIABLES
  socket,  \* its state, whether its close event is due, and whether heard
  client,  \* connected, pinger, ponger, and the ticks since the last activity
  session  \* the server's side: "none", "asked" (CONNECT) or "up"

stomp == <<socket, client, session>>

Socket0 == [readyState |-> "CONNECTING", closeDue |-> FALSE, onclose |-> TRUE]
Client0 == [connected |-> FALSE, pinger |-> FALSE, ponger |-> FALSE, quiet |-> 0,
            subscribed |-> FALSE]
Sockets == [readyState : {"CONNECTING", "OPEN", "CLOSED"},
            closeDue : BOOLEAN, onclose : BOOLEAN]
Clients == [connected : BOOLEAN, pinger : BOOLEAN, ponger : BOOLEAN, quiet : 0 .. 2,
            subscribed : BOOLEAN]

Ended(x) ==
  IF x.readyState = "CLOSED" THEN x
  ELSE [x EXCEPT !.readyState = "CLOSED", !.closeDue = TRUE]

(* _cleanUp, without the close of the socket; beside it, one that forgets    *)
(* an interval.                                                             *)
CleanedByHalf(c) == [c EXCEPT !.connected = FALSE, !.pinger = FALSE]
CleanedUp(c) == [c EXCEPT !.connected = FALSE, !.pinger = FALSE, !.ponger = FALSE]

(* _setupHeartbeat: in and out are what the server offers, FALSE for 0; a    *)
(* CONNECTED frame of version 1.0 sets nothing up.                          *)
Connected(in, out) ==
  [connected |-> TRUE, pinger |-> in, ponger |-> out, quiet |-> 0, subscribed |-> TRUE]

StompInit == socket = Socket0 /\ client = Client0 /\ session = "none"

(* onopen: CONNECT is sent *)
SocketOpens ==
  /\ socket.readyState = "CONNECTING"
  /\ socket' = [socket EXCEPT !.readyState = "OPEN"]
  /\ session' = "asked"
  /\ UNCHANGED client

(* The network, the server or the transports give up *)
SocketEnds ==
  /\ socket.readyState # "CLOSED"
  /\ socket' = Ended(socket)
  /\ session' = "none"
  /\ UNCHANGED client

(* onclose only tells errorCallback: the client goes on as it was *)
SocketClosed ==
  /\ socket.closeDue
  /\ socket' = [socket EXCEPT !.closeDue = FALSE]
  /\ UNCHANGED <<client, session>>

(* A CONNECTED frame, with the heart-beats of the server *)
ServerConnects ==
  /\ session = "asked" /\ session' = "up"
  /\ \E in, out \in BOOLEAN : client' = Connected(in, out)
  /\ UNCHANGED socket

(* onmessage, whatever arrived *)
Heard(c) == [c EXCEPT !.quiet = 0]
Hears ==
  /\ session = "up"
  /\ client' = Heard(client)
  /\ UNCHANGED <<socket, session>>

(* The ponger's interval.  At the third tick after a sign of the server more  *)
(* than twice the interval has passed.  Beside it, one that lets time pass. *)
TickedInVain(c) == IF c.quiet < 2 THEN [c EXCEPT !.quiet = @ + 1] ELSE Heard(c)
Ticked(c) == IF c.quiet < 2 THEN [c EXCEPT !.quiet = @ + 1] ELSE CleanedUp(c)
PongerTicks ==
  /\ client.ponger
  /\ client' = Ticked(client)
  /\ IF client'.connected THEN UNCHANGED <<socket, session>>
     ELSE socket' = Ended(socket) /\ session' = "none"

(* disconnect, unless send throws as it does on a socket that is connecting *)
Disconnects ==
  /\ socket.readyState # "CONNECTING"
  /\ socket' = [Ended(socket) EXCEPT !.onclose = FALSE]
  /\ client' = CleanedUp(client)
  /\ session' = "none"

StompTypeOK ==
  /\ socket \in Sockets /\ client \in Clients /\ session \in {"none", "asked", "up"}
=============================================================================
