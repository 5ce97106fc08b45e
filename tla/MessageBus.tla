------------------------------- MODULE MessageBus -------------------------------
(***************************************************************************)
(* The message bus of msgs.js: channels that hand each message to handlers     *)
(* then and there, handlers that pass on what they make of it, and the two     *)
(* channels of every bus for what nobody takes and for what fails, which those  *)
(* of a child bus forward to its parent's.  Names, refs, topics, the STOMP     *)
(* bridge and the adapters to sockets and streams are left out.               *)
(***************************************************************************)
EXTENDS Integers, Sequences, FiniteSets, SequencesExt, FiniteSetsExt, Functions

CONSTANTS
  Wirings,      \* buses: the dispatcher of each channel, what each handler does with
                \* which channels, who is subscribed at first, where the page posts
  Tapped,       \* the channels that may be tapped
  BatchSize,    \* opts.batch
  MaxPosts      \* bound: messages the page posts

VARIABLES
  wiring,    \* the bus
  subs,      \* the handlers subscribed to each channel, in order
  taps,      \* the handlers that tap each channel
  last,      \* the handler the load balancer of a unicast channel chose last
  queues,    \* the messages stored in each queue channel
  batch, timer,   \* of the batching aggregator
  buckets,   \* of the correlating one: what has come of each splitter's message
  busy,      \* the messages whose service has not answered yet
  broken,    \* the handlers that throw at present
  posts,     \* the messages posted so far, each with its own payload
  ends       \* history: how often each payload has come to an end

vars == <<wiring, subs, taps, last, queues, batch, timer, buckets, busy, broken, posts, ends>>

Handlers == DOMAIN wiring.handler
Own == {"dead", "invalid", "rootDead", "rootInvalid"}
Channels == DOMAIN wiring.dispatcher \cup Own
NoChannel == "none"

(* The channels of a bus are forwarded to its parent's *)
Does(kind, out, err, other) == [kind |-> kind, out |-> out, err |-> err, other |-> other]
ForwardDead == Does("pass", "rootDead", NoChannel, NoChannel)
ForwardInvalid == Does("pass", "rootInvalid", NoChannel, NoChannel)
Of(x) == CASE x = "deadUp" -> ForwardDead [] x = "invalidUp" -> ForwardInvalid [] OTHER -> wiring.handler[x]
Dispatches(c) == IF c \in Own THEN "broadcast" ELSE wiring.dispatcher[c]

(* A message: its payloads, whether the gateway that posted it waits for an answer,  *)
(* and the headers of the splitter: which message it comes of, its place, how many.  *)
Held(m, u) == Cardinality({i \in DOMAIN m.units : m.units[i] = u})
Message(units, asks) == [units |-> units, asks |-> asks, of |-> 0, at |-> 0, size |-> 0]

Init ==
  /\ wiring \in Wirings
  /\ subs = [c \in Channels |-> CASE c = "dead" -> <<"deadUp">>
                                  [] c = "invalid" -> <<"invalidUp">>
                                  [] c \in DOMAIN wiring.subs -> wiring.subs[c]
                                  [] OTHER -> <<>>]
  /\ taps = [c \in Channels |-> {}] /\ last = [c \in Channels |-> NoChannel]
  /\ queues = [c \in Channels |-> <<>>] /\ batch = <<>> /\ timer = FALSE
  /\ buckets = [n \in 1 .. MaxPosts |-> <<>>] /\ busy = {} /\ broken = {} /\ posts = 0
  /\ ends = [u \in 1 .. MaxPosts |-> 0]

Heap == [subs |-> subs, taps |-> taps, last |-> last, queues |-> queues, batch |-> batch,
         timer |-> timer, buckets |-> buckets, busy |-> busy, broken |-> broken,
         ends |-> ends, stack |-> <<>>]
Become(h) ==
  /\ last' = h.last /\ queues' = h.queues /\ batch' = h.batch /\ timer' = h.timer
  /\ buckets' = h.buckets /\ busy' = h.busy /\ ends' = h.ends
  /\ UNCHANGED <<wiring, subs, taps, broken>>

-----------------------------------------------------------------------------
(* The calls still to be made, the next first.  What is thrown is caught by the       *)
(* nearest frame that catches: a tap's and each of a broadcast's, after which the     *)
(* others are called all the same, or that of the channel.                         *)
Task(op, a, m) == [op |-> op, a |-> a, m |-> m, failed |-> FALSE]
Do(h, tasks) == [h EXCEPT !.stack = tasks \o @]
Catches == {"tapped", "told", "sent"}
NextOf(stack, ops) == Min({i \in DOMAIN stack : stack[i].op \in ops})
Failed(stack) ==
  LET i == NextOf(stack, {"sent"}) IN [stack EXCEPT ![i].failed = TRUE]
Throw(h) ==
  LET i == NextOf(h.stack, Catches) IN
  CASE h.stack[i].op = "tapped" -> [h EXCEPT !.stack = SubSeq(@, i + 1, Len(@))]
    [] h.stack[i].op = "told" -> [h EXCEPT !.stack = Failed(SubSeq(@, i + 1, Len(@)))]
    [] h.stack[i].op = "sent" -> [h EXCEPT !.stack = Failed(SubSeq(@, i, Len(@)))]
Ended(h, m) == [h EXCEPT !.ends = [u \in DOMAIN @ |-> @[u] + Held(m, u)]]

(* channel.send: the taps first, whatever comes of them *)
Telling(hs, m, catch) ==
  FlattenSeq([i \in DOMAIN hs |-> <<Task("handle", hs[i], m), Task(catch, hs[i], m)>>])
Send(h, c, m) ==
  Do(h, Telling(SetToSeq(h.taps[c]), m, "tapped") \o <<Task("dispatch", c, m), Task("sent", c, m)>>)

(* The dispatchers: broadcast to a copy of the list, unicast round robin, and the     *)
(* queue.  What nobody takes is a dead letter; of those nobody takes no more.         *)
DeadLetter(h, c, m) ==
  CASE c \in {"dead", "rootDead"} -> Ended(h, m)
    [] c = "rootInvalid" -> Do(h, <<Task("send", "rootDead", m)>>)
    [] OTHER -> Do(h, <<Task("send", "dead", m)>>)
RoundRobin(h, c) ==
  LET s == h.subs[c]
      at == IF Contains(s, h.last[c]) THEN CHOOSE i \in DOMAIN s : s[i] = h.last[c] ELSE 0
  IN s[(at % Len(s)) + 1]
Dispatch(h, c, m) ==
  CASE Dispatches(c) = "queue" -> [h EXCEPT !.queues[c] = Append(@, m)]
    [] Dispatches(c) # "queue" /\ h.subs[c] = <<>> -> DeadLetter(h, c, m)
    [] Dispatches(c) = "broadcast" /\ h.subs[c] # <<>> -> Do(h, Telling(h.subs[c], m, "told"))
    [] Dispatches(c) = "unicast" /\ h.subs[c] # <<>> ->
         LET x == RoundRobin(h, c)
         IN Do([h EXCEPT !.last[c] = x], <<Task("handle", x, m)>>)

(* What has failed goes to the channel for invalid messages, but not from there *)
Sent(h, c, m, failed) ==
  CASE ~failed -> h
    [] failed /\ c \in {"invalid", "rootInvalid"} -> Ended(h, m)
    [] failed /\ c = "rootDead" -> Do(h, <<Task("send", "rootInvalid", m)>>)
    [] OTHER -> Do(h, <<Task("send", "invalid", m)>>)

-----------------------------------------------------------------------------
(* _handler: the channels it passes what it made, and what it failed on, to; the      *)
(* gateway's reply and error channels are those of the message's headers.          *)
Answer == "answer"
OutputOf(x, m) == IF Of(x).out # NoChannel THEN Of(x).out ELSE IF m.asks THEN Answer ELSE NoChannel
ErrorOf(x, m) == IF Of(x).err # NoChannel THEN Of(x).err ELSE IF m.asks THEN Answer ELSE NoChannel
To(h, c, m) == IF c = Answer THEN Ended(h, m) ELSE Do(h, <<Task("send", c, m)>>)

(* What the kinds of handler do with a message *)
PassOn(h, x, m) == IF OutputOf(x, m) = NoChannel THEN Ended(h, m) ELSE To(h, OutputOf(x, m), m)
Accepts(m) == \A i \in DOMAIN m.units : m.units[i] % 2 = 1
Filter(h, x, m) ==
  IF Accepts(m) THEN PassOn(h, x, m)
  ELSE IF Of(x).other = NoChannel THEN Ended(h, m) ELSE Do(h, <<Task("send", Of(x).other, m)>>)
Router(h, x, m) == Do(h, <<Task("send", IF Accepts(m) THEN Of(x).out ELSE Of(x).other, m)>>)
Splitter(h, x, m) ==
  Do(h, [i \in DOMAIN m.units |->
           Task("send", Of(x).out,
                [m EXCEPT !.units = <<m.units[i]>>, !.of = m.units[1], !.at = i, !.size = Len(m.units)])])

(* Beside the batching aggregator, one that forgets a batch it has let go too late *)
Release(h, x, units) == Do(h, <<Task("send", Of(x).out, Message(units, FALSE))>>)
BatchingAgain(h, x, m) ==
  LET g == [h EXCEPT !.batch = @ \o m.units] IN
  IF Len(g.batch) >= BatchSize THEN [Release(g, x, g.batch) EXCEPT !.timer = FALSE]
  ELSE [g EXCEPT !.timer = TRUE]
Batching(h, x, m) ==
  LET g == [h EXCEPT !.batch = @ \o m.units] IN
  IF Len(g.batch) >= BatchSize THEN [Release(g, x, g.batch) EXCEPT !.batch = <<>>, !.timer = FALSE]
  ELSE [g EXCEPT !.timer = TRUE]
Correlating(h, x, m) ==
  LET g == [h EXCEPT !.buckets[m.of] = Append(@, m)]
      inOrder == SortSeq(g.buckets[m.of], LAMBDA a, b : a.at < b.at) IN
  CASE m.of = 0 -> Ended(h, m)
    [] m.of # 0 /\ Len(g.buckets[m.of]) < m.size -> g
    [] OTHER -> [Release(g, x, FlattenSeq([i \in DOMAIN inOrder |-> inOrder[i].units]))
                   EXCEPT !.buckets[m.of] = <<>>]
Service(h, x, m) == [h EXCEPT !.busy = @ \cup {[by |-> x, m |-> m]}]

Transform(h, x, m) ==
  CASE Of(x).kind = "pass" -> PassOn(h, x, m)
    [] Of(x).kind = "filter" -> Filter(h, x, m)
    [] Of(x).kind = "router" -> Router(h, x, m)
    [] Of(x).kind = "splitter" -> Splitter(h, x, m)
    [] Of(x).kind = "batching" -> Batching(h, x, m)
    [] Of(x).kind = "correlating" -> Correlating(h, x, m)
    [] Of(x).kind = "service" -> Service(h, x, m)
    [] Of(x).kind = "adapter" -> Ended(h, m)
    [] Of(x).kind = "logger" -> h
Handle(h, x, m) ==
  CASE x \notin h.broken -> Transform(h, x, m)
    [] x \in h.broken /\ ErrorOf(x, m) = NoChannel -> Throw(h)
    [] x \in h.broken /\ ErrorOf(x, m) # NoChannel ->
         IF Of(x).kind = "logger" /\ ErrorOf(x, m) = Answer THEN h ELSE To(h, ErrorOf(x, m), m)

Step(h) ==
  LET t == Head(h.stack)
      g == [h EXCEPT !.stack = Tail(@)] IN
  CASE t.op = "send" -> Send(g, t.a, t.m)
    [] t.op = "dispatch" -> Dispatch(g, t.a, t.m)
    [] t.op = "handle" -> Handle(g, t.a, t.m)
    [] t.op = "sent" -> Sent(g, t.a, t.m, t.failed)
    [] t.op \in {"told", "tapped"} -> g
RECURSIVE Returned(_)
Returned(h) == IF h.stack = <<>> THEN h ELSE Returned(Step(h))
Turn(h) == Become(Returned(h))

-----------------------------------------------------------------------------
(* The page posts a message of one payload or of two, or asks through the gateway *)
Units(n) == [i \in 1 .. n |-> posts + i]
Post(n, asks) ==
  /\ posts + n <= MaxPosts /\ posts' = posts + n
  /\ Turn(Send(Heap, wiring.entry, Message(Units(n), asks)))

Receive(c) ==
  /\ queues[c] # <<>> /\ UNCHANGED posts
  /\ Turn(Ended([Heap EXCEPT !.queues[c] = Tail(@)], Head(queues[c])))

(* The timer of the batching aggregator, set with the first of a batch *)
TimerFires(x) ==
  /\ timer /\ Of(x).kind = "batching" /\ UNCHANGED posts
  /\ Turn([Release(Heap, x, batch) EXCEPT !.batch = <<>>, !.timer = FALSE])

(* The service's promise.  Without a channel for the answer the call throws, which    *)
(* the promise takes.                                                            *)
ServiceAnswers(b, well) ==
  LET c == IF well THEN OutputOf(b.by, b.m) ELSE ErrorOf(b.by, b.m)
      g == [Heap EXCEPT !.busy = @ \ {b}] IN
  /\ UNCHANGED posts
  /\ Turn(IF c = NoChannel THEN Ended(g, b.m) ELSE To(g, c, b.m))

Rest == <<wiring, last, queues, batch, timer, buckets, busy, posts, ends>>
Subscribe(c, x) == /\ ~Contains(subs[c], x) /\ subs' = [subs EXCEPT ![c] = Append(@, x)]
                   /\ UNCHANGED <<taps, broken, Rest>>
Unsubscribe(c, x) == /\ Contains(subs[c], x) /\ subs' = [subs EXCEPT ![c] = SelectSeq(@, LAMBDA y : y # x)]
                     /\ UNCHANGED <<taps, broken, Rest>>
Tap(c, x) == taps' = [taps EXCEPT ![c] = @ \cup {x}] /\ UNCHANGED <<subs, broken, Rest>>
Untap(c, x) == taps' = [taps EXCEPT ![c] = @ \ {x}] /\ UNCHANGED <<subs, broken, Rest>>
Breaks(x) == broken' = broken \cup {x} /\ UNCHANGED <<subs, taps, Rest>>
Mends(x) == broken' = broken \ {x} /\ UNCHANGED <<subs, taps, Rest>>

Next ==
  \/ \E n \in 1 .. 2, asks \in BOOLEAN : Post(n, asks)
  \/ \E c \in DOMAIN wiring.dispatcher : Receive(c)
  \/ \E x \in Handlers :
       \/ TimerFires(x) \/ Breaks(x) \/ Mends(x)
       \/ \E c \in DOMAIN wiring.subs : Contains(wiring.subs[c], x) /\ (Subscribe(c, x) \/ Unsubscribe(c, x))
       \/ Of(x).kind = "logger" /\ \E c \in Tapped : Tap(c, x) \/ Untap(c, x)
  \/ \E b \in busy, well \in BOOLEAN : ServiceAnswers(b, well)

Spec == Init /\ [][Next]_vars

-----------------------------------------------------------------------------
(* What the page posts is in one place, whoever throws, leaves or taps: in a queue,   *)
(* with an aggregator or a service, or at an end.  The one trace that a tap leaves is  *)
(* the answer that the gateway is given when it throws, by the message's own headers.  *)
Sum(S, f(_)) == MapThenSumSet(f, S)
PlacesOf(u) ==
  ends[u]
  + Cardinality({i \in DOMAIN batch : batch[i] = u})
  + Sum(busy, LAMBDA b : Held(b.m, u))
  + Sum(Channels, LAMBDA c : Sum(DOMAIN queues[c], LAMBDA i : Held(queues[c][i], u)))
  + Sum(DOMAIN buckets, LAMBDA n : Sum(DOMAIN buckets[n], LAMBDA i : Held(buckets[n][i], u)))
EachInOnePlace == \A u \in 1 .. posts : PlacesOf(u) = 1
=============================================================================
