------------------------------- MODULE StompBridge -------------------------------
(***************************************************************************)
(* The STOMP bridge of msgs.js: a channel whose subscriptions are kept by a    *)
(* server, one for each destination however many handlers share it, and whose   *)
(* frames go through a channel out and come through a channel in.  The server   *)
(* may end the connection with an error; nothing connects again.             *)
(***************************************************************************)
EXTENDS Integers, Sequences, FiniteSets, SequencesExt, FiniteSetsExt, Functions

CONSTANTS
  Destinations, Handlers,
  MaxIds,      \* bound: ids of subscriptions and of receipts, and calls
  MaxSends     \* bound: messages delivered

VARIABLES
  ready,          \* CONNECTED has come, and no ERROR since
  subscriptions,  \* of each subscription id its destination, handlers and receipt
  destinations,   \* the subscription id of each destination, 0 for none
  receipts,       \* how many callbacks wait for each receipt
  counter,        \* the last id given out
  out, in,        \* the frames on their way
  server,         \* up or down, and what is subscribed there
  sends, acks,    \* history: the messages delivered, and how often each was acknowledged
  calls, notices, \* history: calls of subscribe and unsubscribe, and what they were told
  premature,      \* history: a subscription was asked for without a connection
  destroyed

local == <<ready, subscriptions, destinations, receipts, counter>>
history == <<sends, acks, calls, notices, premature, destroyed>>
vars == <<local, out, in, server, history>>

Frame(command, id, dest, receipt) ==
  [command |-> command, id |-> id, dest |-> dest, receipt |-> receipt]
NoDestination == "none"
Connect == Frame("CONNECT", 0, NoDestination, 0)

(* stompDispatcher connects when it is made *)
Init ==
  /\ ready = FALSE /\ subscriptions = <<>> /\ destinations = [d \in Destinations |-> 0]
  /\ receipts = <<>> /\ counter = 0 /\ out = <<Connect>> /\ in = <<>>
  /\ server = [up |-> TRUE, subs |-> {}] /\ sends = 0 /\ acks = [n \in 1 .. MaxSends |-> 0]
  /\ calls = 0 /\ notices = 0 /\ premature = FALSE /\ destroyed = FALSE

-----------------------------------------------------------------------------
(* sendCommand, which throws when the connection is not ready *)
SendCommand(frame) == out' = IF ready THEN Append(out, frame) ELSE out
Without(f, x) == [y \in DOMAIN f \ {x} |-> f[y]]
Put(f, x, v) == [y \in DOMAIN f \cup {x} |-> IF y = x THEN v ELSE f[y]]

(* A destination that has a subscription: the handler joins it, and is told when its  *)
(* receipt comes, or now if it has.  Beside it, one that forgets the second.        *)
JoinUntold(d, x) ==
  LET id == destinations[d]
      r == subscriptions[id].receipt IN
  /\ subscriptions' = [subscriptions EXCEPT ![id].handlers = @ \cup {x}]
  /\ receipts' = IF r \in DOMAIN receipts THEN [receipts EXCEPT ![r] = @ + 1] ELSE receipts
  /\ UNCHANGED notices
Join(d, x) ==
  LET id == destinations[d]
      r == subscriptions[id].receipt IN
  /\ subscriptions' = [subscriptions EXCEPT ![id].handlers = @ \cup {x}]
  /\ IF r \in DOMAIN receipts
     THEN receipts' = [receipts EXCEPT ![r] = @ + 1] /\ UNCHANGED notices
     ELSE notices' = notices + 1 /\ UNCHANGED receipts
SubscribeAgain(d, x) ==
  /\ ~destroyed /\ destinations[d] # 0 /\ calls < MaxIds
  /\ Join(d, x) /\ calls' = calls + 1
  /\ UNCHANGED <<ready, destinations, counter, out, in, server, sends, acks, premature, destroyed>>

(* One that has none: all is noted here before the frame is sent, or is not *)
SubscribeFirst(d, x) ==
  /\ ~destroyed /\ destinations[d] = 0 /\ counter + 2 <= MaxIds
  /\ counter' = counter + 2 /\ calls' = calls + 1
  /\ destinations' = [destinations EXCEPT ![d] = counter + 1]
  /\ subscriptions' = Put(subscriptions, counter + 1,
                          [dest |-> d, handlers |-> {x}, receipt |-> counter + 2])
  /\ receipts' = Put(receipts, counter + 2, 1)
  /\ SendCommand(Frame("SUBSCRIBE", counter + 1, d, counter + 2))
  /\ premature' = (premature \/ ~ready)
  /\ UNCHANGED <<ready, in, server, sends, acks, notices, destroyed>>

UnsubscribeSome(d, x) ==
  /\ ~destroyed /\ destinations[d] # 0 /\ calls < MaxIds
  /\ LET id == destinations[d] IN
     /\ subscriptions[id].handlers \ {x} # {}
     /\ subscriptions' = [subscriptions EXCEPT ![id].handlers = @ \ {x}]
  /\ calls' = calls + 1 /\ notices' = notices + 1
  /\ UNCHANGED <<ready, destinations, receipts, counter, out, in, server, sends, acks, premature, destroyed>>
UnsubscribeLast(d, x) ==
  /\ ~destroyed /\ destinations[d] # 0 /\ counter < MaxIds
  /\ LET id == destinations[d] IN
     /\ subscriptions[id].handlers \subseteq {x}
     /\ subscriptions' = Without(subscriptions, id)
     /\ SendCommand(Frame("UNSUBSCRIBE", id, d, counter + 1))
  /\ destinations' = [destinations EXCEPT ![d] = 0]
  /\ counter' = counter + 1 /\ receipts' = Put(receipts, counter + 1, 1)
  /\ calls' = calls + 1 /\ premature' = (premature \/ ~ready)
  /\ UNCHANGED <<ready, in, server, sends, acks, notices, destroyed>>

Dispatch(d) ==
  /\ ~destroyed /\ ready /\ sends < MaxSends /\ ~\E i \in DOMAIN out : out[i].command = "SEND"
  /\ out' = Append(out, Frame("SEND", 0, d, 0))
  /\ UNCHANGED <<local, in, server, history>>

(* Frames that come after it find nothing and fail *)
Destroy ==
  /\ ~destroyed /\ destroyed' = TRUE
  /\ subscriptions' = <<>> /\ destinations' = [d \in Destinations |-> 0] /\ receipts' = <<>>
  /\ SendCommand(Frame("DISCONNECT", 0, NoDestination, 0)) /\ ready' = FALSE
  /\ UNCHANGED <<counter, in, server, sends, acks, calls, notices, premature>>

-----------------------------------------------------------------------------
(* The frames that come in.  A message whose subscription has gone, or one of whose   *)
(* handlers throws, is not acknowledged but refused; either way it is answered.    *)
Arrives(command) == in # <<>> /\ Head(in).command = command /\ in' = Tail(in)
MessageFrame(handled) ==
  LET id == Head(in).id
      told == ~destroyed /\ id \in DOMAIN subscriptions /\ handled IN
  /\ Arrives("MESSAGE")
  /\ SendCommand(Frame(IF told THEN "ACK" ELSE "NACK", Head(in).receipt, NoDestination, 0))
  /\ UNCHANGED <<local, server, history>>
ReceiptFrame ==
  LET r == Head(in).receipt IN
  /\ Arrives("RECEIPT")
  /\ IF r \in DOMAIN receipts
     THEN notices' = notices + receipts[r] /\ receipts' = Without(receipts, r)
     ELSE UNCHANGED <<notices, receipts>>
  /\ UNCHANGED <<ready, subscriptions, destinations, counter, out, server, sends, acks, calls, premature, destroyed>>
ConnectedFrame ==
  /\ Arrives("CONNECTED") /\ ready' = TRUE
  /\ UNCHANGED <<subscriptions, destinations, receipts, counter, out, server, history>>
ErrorFrame ==
  /\ Arrives("ERROR") /\ ready' = FALSE
  /\ UNCHANGED <<subscriptions, destinations, receipts, counter, out, server, history>>

(* The server, which reads the frames in order *)
Reads(command) == server.up /\ out # <<>> /\ Head(out).command = command /\ out' = Tail(out)
Reply(frames) == in' = in \o frames
ServerConnects ==
  /\ Reads("CONNECT") /\ Reply(<<Frame("CONNECTED", 0, NoDestination, 0)>>)
  /\ UNCHANGED <<local, server, history>>
ServerSubscribes ==
  /\ Reads("SUBSCRIBE") /\ server' = [server EXCEPT !.subs = @ \cup {<<Head(out).id, Head(out).dest>>}]
  /\ Reply(<<Frame("RECEIPT", 0, NoDestination, Head(out).receipt)>>) /\ UNCHANGED <<local, history>>
ServerUnsubscribes ==
  /\ Reads("UNSUBSCRIBE") /\ server' = [server EXCEPT !.subs = {s \in @ : s[1] # Head(out).id}]
  /\ Reply(<<Frame("RECEIPT", 0, NoDestination, Head(out).receipt)>>) /\ UNCHANGED <<local, history>>
ServerDelivers ==
  LET to == SetToSeq({s \in server.subs : s[2] = Head(out).dest}) IN
  /\ Reads("SEND") /\ sends + Len(to) <= MaxSends /\ sends' = sends + Len(to)
  /\ Reply([i \in DOMAIN to |-> Frame("MESSAGE", to[i][1], to[i][2], sends + i)])
  /\ UNCHANGED <<local, server, acks, calls, notices, premature, destroyed>>
ServerAcknowledged ==
  /\ Reads("ACK") \/ Reads("NACK")
  /\ acks' = [acks EXCEPT ![Head(out).id] = @ + 1]
  /\ UNCHANGED <<local, in, server, sends, calls, notices, premature, destroyed>>
ServerEnds ==
  /\ server.up /\ server' = [up |-> FALSE, subs |-> {}]
  /\ Reply(IF out # <<>> /\ Head(out).command = "DISCONNECT" THEN <<>>
           ELSE <<Frame("ERROR", 0, NoDestination, 0)>>)
  /\ UNCHANGED <<local, out, history>>

Next ==
  \/ \E d \in Destinations :
       \/ \E x \in Handlers :
            SubscribeAgain(d, x) \/ SubscribeFirst(d, x) \/ UnsubscribeSome(d, x) \/ UnsubscribeLast(d, x)
       \/ Dispatch(d)
  \/ Destroy \/ (\E handled \in BOOLEAN : MessageFrame(handled)) \/ ReceiptFrame \/ ConnectedFrame \/ ErrorFrame
  \/ ServerConnects \/ ServerSubscribes \/ ServerUnsubscribes \/ ServerDelivers
  \/ ServerAcknowledged \/ ServerEnds

Spec == Init /\ [][Next]_vars

-----------------------------------------------------------------------------
(* While the connection lasts: once the server has read what is on its way it has     *)
(* just the subscriptions that some handler here shares, and each of them once; every  *)
(* message is answered once; and when all is still, everybody who subscribed or left   *)
(* has been told.  A subscription asked for without a connection is never made up for.  *)
Lasting == server.up /\ ~destroyed /\ ~premature
Coming == FoldLeft(LAMBDA subs, f : CASE f.command = "SUBSCRIBE" -> subs \cup {<<f.id, f.dest>>}
                                      [] f.command = "UNSUBSCRIBE" -> {s \in subs : s[1] # f.id}
                                      [] OTHER -> subs,
                   server.subs, out)
Answers(n) ==
  acks[n] + Cardinality({i \in DOMAIN out : out[i].command \in {"ACK", "NACK"} /\ out[i].id = n})
    + Cardinality({i \in DOMAIN in : in[i].command = "MESSAGE" /\ in[i].receipt = n})
BridgeInStep == Lasting =>
  /\ Coming = {<<id, subscriptions[id].dest>> : id \in DOMAIN subscriptions}
  /\ \A d \in Destinations : Cardinality({s \in Coming : s[2] = d}) <= 1
  /\ \A id \in DOMAIN subscriptions : subscriptions[id].handlers # {}
  /\ \A n \in 1 .. sends : Answers(n) = 1
  /\ out = <<>> /\ in = <<>> => notices = calls
=============================================================================
