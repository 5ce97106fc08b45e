------------------------- MODULE SockJSClientProofs -------------------------
(***************************************************************************)
(* For every set of browsers and any number of messages: the fields of the  *)
(* socket have their types, only the current transport can call it back, a  *)
(* connecting socket always has something to move it on, every step is one  *)
(* of Socket or none, no transport is left untried before the socket gives  *)
(* up, and the server gets what was sent in order.                          *)
(***************************************************************************)
EXTENDS SockJSClient, SequenceTheorems, TLAPS

(* What holds of the object between two callbacks, NeverStuck apart, which    *)
(* does not hold in the middle of one.                                      *)
Typed(x) ==
  x \in SockJS
Announced(x) ==
  /\ x.readyState # "CLOSED" => x.pending = 0
  /\ x.readyState = "CONNECTING" => x.last = None
  /\ x.readyState = "OPEN" => x.last \in {"open", "message", "heartbeat"}
  /\ x.readyState = "CLOSED" =>
       (x.pending = 1 /\ x.last # "close") \/ (x.pending = 0 /\ x.last = "close")
OneSpeaks(x) == \A p \in Protocols : x.tr[p].attached <=> p = x.transport
Answered(x) == x.ir \notin {"delayed", "asked"}
Waits(x) ==
  x.waiting => /\ ~complete /\ x.transport = None /\ Answered(x)
               /\ x.protocols # <<>> /\ Head(x.protocols) \in NeedBody
Whole(x) == Typed(x) /\ Announced(x) /\ OneSpeaks(x) /\ Waits(x)

Moves(x) == x.readyState = "CONNECTING" => x.timer \/ (x.waiting /\ ~complete)

(* What a callback does to what the page sees: nothing, or it closes *)
Stays(x, y) == y.readyState = x.readyState /\ y.last = x.last
Closes(x, y) == x.readyState # "CLOSED" /\ y.readyState = "CLOSED" /\ y.last = x.last

IInv == TypeOK /\ Whole(s) /\ NeverStuck

-----------------------------------------------------------------------------
LEMMA NewTyped ==
  ASSUME NEW p \in Protocols
  PROVE  New(p) \in Transport /\ New(p).attached
  BY DEF New, Transport

LEMMA CleanedTyped ==
  ASSUME NEW p \in Protocols, NEW t \in Transport
  PROVE  Cleaned(p, t) \in Transport /\ ~Cleaned(p, t).attached
  BY DEF Cleaned, Transport

LEMMA IdleTyped == Idle \in Sender
  BY DEF Idle, Sender

LEMMA NoneIsNoProtocol == None \notin Protocols
  BY DEF None, Protocols, Ajax, Iframe, Script

(* Cleanup lets go of the transport and touches nothing else *)
LEMMA CleanupWhole ==
  ASSUME NEW x, Whole(x)
  PROVE  /\ Whole(Cleanup(x))
         /\ Cleanup(x).transport = None
         /\ Cleanup(x).readyState = x.readyState
         /\ Cleanup(x).last = x.last
         /\ Cleanup(x).pending = x.pending
         /\ Cleanup(x).protocols = x.protocols
         /\ Cleanup(x).ir = x.ir
<1>1. CASE x.transport = None
  BY <1>1 DEF Cleanup
<1>2. CASE x.transport # None
  <2> DEFINE p == x.transport
             y == Cleanup(x)
  <2>1. p \in Protocols /\ x.tr \in [Protocols -> Transport] /\ x \in SockJS
    BY <1>2 DEF Whole, Typed, SockJS
  <2>2. y = [x EXCEPT !.tr[p] = Cleaned(p, x.tr[p]),
                      !.snd = IF p \in Iframe THEN Idle ELSE x.snd, !.transport = None]
    BY <1>2 DEF Cleanup
  <2>3. Cleaned(p, x.tr[p]) \in Transport /\ ~Cleaned(p, x.tr[p]).attached
    BY <2>1, CleanedTyped
  <2>4. y.tr = [x.tr EXCEPT ![p] = Cleaned(p, x.tr[p])]
    BY <2>1, <2>2 DEF SockJS
  <2>5. y.tr \in [Protocols -> Transport]
    BY <2>1, <2>3, <2>4
  <2>6. y.snd \in Sender
    BY <2>1, <2>2, IdleTyped DEF SockJS
  <2>7. /\ y.transport = None /\ y.readyState = x.readyState /\ y.last = x.last
        /\ y.pending = x.pending /\ y.protocols = x.protocols /\ y.waiting = x.waiting
        /\ y.ir = x.ir
    BY <2>1, <2>2 DEF SockJS
  <2>8. y \in SockJS
    BY <2>1, <2>2, <2>4, <2>5, <2>6 DEF SockJS
  <2>9. OneSpeaks(y)
    <3> SUFFICES ASSUME NEW q \in Protocols
                 PROVE  ~y.tr[q].attached /\ q # None
      BY <2>7 DEF OneSpeaks
    <3>1. q # None
      BY NoneIsNoProtocol
    <3>2. CASE q = p
      BY <2>1, <2>3, <2>4, <3>1, <3>2
    <3>3. CASE q # p
      BY <2>1, <2>4, <3>1, <3>3 DEF Whole, OneSpeaks
    <3> QED BY <3>2, <3>3
  <2>10. Announced(y) /\ Waits(y)
    BY <2>7 DEF Whole, Announced, Waits, Answered
  <2> QED BY <2>7, <2>8, <2>9, <2>10 DEF Whole, Typed
<1> QED BY <1>1, <1>2

LEMMA DroppedWhole ==
  ASSUME NEW x, Whole(x)
  PROVE  /\ Whole(Dropped(x))
         /\ Dropped(x).transport = None
         /\ Dropped(x).readyState = x.readyState
         /\ Dropped(x).last = x.last
         /\ Dropped(x).pending = x.pending
         /\ Dropped(x).protocols = x.protocols
         /\ Answered(Dropped(x))
<1> DEFINE y == [x EXCEPT !.ir = IF @ \in {"null", "lost"} THEN @ ELSE "nuked"]
<1>1. Whole(y) /\ y.readyState = x.readyState /\ y.last = x.last /\ y.pending = x.pending
      /\ y.protocols = x.protocols /\ y.ir \notin {"delayed", "asked"}
  BY DEF Whole, Typed, SockJS, Announced, OneSpeaks, Waits, Answered
<1> QED BY <1>1, CleanupWhole DEF Dropped, Answered

LEMMA FinishedWhole ==
  ASSUME NEW x, Whole(x), x.readyState # "CLOSED", NEW code \in Codes
  PROVE  /\ Whole(Finished(x, code))
         /\ Finished(x, code).readyState = "CLOSED"
         /\ Finished(x, code).last = x.last
<1> DEFINE y == Finished(x, code)
<1>1. x \in SockJS /\ x.pending = 0 /\ x.last # "close"
  BY DEF Whole, Typed, Announced, SockJS, None
<1>2. y = [x EXCEPT !.readyState = "CLOSED", !.pending = 1, !.code = code]
  BY <1>1 DEF Finished, SockJS
<1>3. y \in SockJS
  <2>1. 1 \in 0 .. 1 /\ code \in Codes \cup {None}
    OBVIOUS
  <2> QED BY <1>1, <1>2, <2>1 DEF SockJS
<1>4. y.readyState = "CLOSED" /\ y.last = x.last /\ y.pending = 1
      /\ y.tr = x.tr /\ y.transport = x.transport /\ y.waiting = x.waiting
      /\ y.protocols = x.protocols /\ y.ir = x.ir
  BY <1>1, <1>2 DEF SockJS
<1> QED BY <1>1, <1>3, <1>4 DEF Whole, Typed, Announced, OneSpeaks, Waits, Answered

(* A transport that is opened where there is none *)
Opened(x, p, rest) ==
  [x EXCEPT !.protocol = p, !.protocols = rest, !.timer = TRUE,
            !.transport = p, !.tr[p] = New(p)]

LEMMA OpenedWhole ==
  ASSUME NEW x, Whole(x), x.transport = None, ~x.waiting, NEW p \in Protocols,
         NEW rest \in Seq(Protocols)
  PROVE  /\ Whole(Opened(x, p, rest)) /\ Opened(x, p, rest).timer
         /\ ~Opened(x, p, rest).waiting /\ Stays(x, Opened(x, p, rest))
<1> DEFINE y == Opened(x, p, rest)
<1>0. y = [x EXCEPT !.protocol = p, !.protocols = rest, !.timer = TRUE,
                    !.transport = p, !.tr[p] = New(p)]
  BY DEF Opened
<1>1. x \in SockJS /\ x.tr \in [Protocols -> Transport]
  BY DEF Whole, Typed, SockJS
<1>2. New(p) \in Transport /\ New(p).attached
  BY NewTyped
<1>3. y.tr = [x.tr EXCEPT ![p] = New(p)]
  BY <1>0, <1>1 DEF SockJS
<1>4. y.tr \in [Protocols -> Transport]
  BY <1>1, <1>2, <1>3
<1>5. /\ y.transport = p /\ y.readyState = x.readyState /\ y.last = x.last
      /\ y.pending = x.pending /\ y.waiting = x.waiting /\ y.timer
  BY <1>0, <1>1 DEF SockJS
<1>6. y \in SockJS
  BY <1>0, <1>1, <1>3, <1>4, ZenonT(60) DEF SockJS
<1>7. OneSpeaks(y)
  <2> SUFFICES ASSUME NEW q \in Protocols
               PROVE  y.tr[q].attached <=> q = p
    BY <1>5 DEF OneSpeaks
  <2>1. CASE q = p
    BY <1>1, <1>2, <1>3, <2>1
  <2>2. CASE q # p
    BY <1>1, <1>3, <2>2, NoneIsNoProtocol DEF Whole, OneSpeaks
  <2> QED BY <2>1, <2>2
<1>8. Announced(y) /\ Waits(y)
  BY <1>5 DEF Whole, Announced, Waits
<1> QED BY <1>5, <1>6, <1>7, <1>8 DEF Whole, Typed, Stays

(* _try_next_protocol: a transport is opened, or the load event waited for *)
LEMMA TryNextWhole ==
  ASSUME NEW x, Whole(x), x.transport = None, Answered(x)
  PROVE  /\ Whole(TryNext(x)) /\ Stays(x, TryNext(x))
         /\ NoneLeft(x) \/ Moves(TryNext(x))
<1> DEFINE y == TryNext(x)
           p == Head(x.protocols)
<1>1. x \in SockJS /\ x.protocols \in Seq(Protocols)
  BY DEF Whole, Typed, SockJS
<1>2. CASE NoneLeft(x)
  <2>1. y = [x EXCEPT !.protocol = None, !.timer = FALSE]
    BY <1>2 DEF TryNext
  <2>2. y \in SockJS
    BY <1>1, <2>1 DEF SockJS
  <2>3. /\ y.tr = x.tr /\ y.transport = None /\ y.protocols = x.protocols /\ y.ir = x.ir
        /\ y.pending = x.pending /\ y.waiting = x.waiting /\ Stays(x, y)
    BY <1>1, <2>1 DEF SockJS, Stays
  <2> QED BY <1>2, <2>2, <2>3 DEF Whole, Typed, Announced, OneSpeaks, Waits, Answered, Stays
<1>3. CASE ~NoneLeft(x) /\ p \in NeedBody /\ ~complete
  <2>1. y = [x EXCEPT !.protocol = "waiting-for-load", !.waiting = TRUE, !.timer = FALSE]
    BY <1>3 DEF TryNext
  <2>2. y \in SockJS
    BY <1>1, <2>1, ZenonT(60) DEF SockJS
  <2>3. /\ y.tr = x.tr /\ y.transport = None /\ y.protocols = x.protocols /\ y.ir = x.ir
        /\ y.pending = x.pending /\ y.waiting /\ Stays(x, y)
    BY <1>1, <2>1 DEF SockJS, Stays
  <2> QED BY <1>3, <2>2, <2>3 DEF Whole, Typed, Announced, OneSpeaks, Waits, Answered,
               Stays, Moves, NoneLeft
<1>4. CASE ~NoneLeft(x) /\ ~(p \in NeedBody /\ ~complete)
  <2>1. x.protocols # <<>> /\ ~x.waiting
    BY <1>4 DEF NoneLeft, Whole, Waits
  <2>2. p \in Protocols /\ Tail(x.protocols) \in Seq(Protocols)
    BY <1>1, <2>1
  <2>3. y = Opened(x, p, Tail(x.protocols))
    BY <1>4 DEF TryNext, Opened
  <2>4. Whole(y) /\ y.timer /\ Stays(x, y)
    BY <2>1, <2>2, <2>3, OpenedWhole
  <2> QED BY <2>4 DEF Moves
<1> QED BY <1>2, <1>3, <1>4

(* _didClose: the socket closes, or something will move it on *)
LEMMA DidCloseWhole ==
  ASSUME NEW x, Whole(x), NEW code \in Codes, NEW force \in BOOLEAN
  PROVE  LET y == DidClose(x, code, force)
         IN  Whole(y) /\ Moves(y) /\ (Stays(x, y) \/ Closes(x, y))
<1> DEFINE y == DidClose(x, code, force)
           d == Dropped(x)
<1>0. x \in SockJS
  BY DEF Whole, Typed
<1>1. CASE x.readyState = "CLOSED"
  <2>1. y = [x EXCEPT !.threw = TRUE]
    BY <1>1 DEF DidClose
  <2> QED BY <1>0, <1>1, <2>1, ZenonT(60) DEF Whole, Typed, SockJS, Announced, OneSpeaks, Waits,
               Answered, Stays, Moves
<1>2. CASE x.readyState # "CLOSED"
  <2>1. Whole(d) /\ d.transport = None /\ Stays(x, d) /\ Answered(d)
    BY DroppedWhole DEF Stays
  <2>2. CASE GivesUp(x, code, force)
    <3>1. y = Finished(d, code)
      BY <1>2, <2>2 DEF DidClose
    <3> QED BY <1>2, <2>1, <3>1, FinishedWhole DEF Stays, Closes, Moves
  <2>3. CASE ~GivesUp(x, code, force) /\ NoneLeft(d)
    <3>1. y = Finished(TryNext(d), "all failed")
      BY <1>2, <2>3 DEF DidClose
    <3>2. Whole(TryNext(d)) /\ Stays(d, TryNext(d))
      BY <2>1, TryNextWhole
    <3>3. "all failed" \in Codes
      BY DEF Codes
    <3> QED BY <1>2, <2>1, <3>1, <3>2, <3>3, FinishedWhole DEF Stays, Closes, Moves
  <2>4. CASE ~GivesUp(x, code, force) /\ ~NoneLeft(d)
    <3>1. y = TryNext(d)
      BY <1>2, <2>4 DEF DidClose
    <3> QED BY <2>1, <2>4, <3>1, TryNextWhole DEF Stays
  <2> QED BY <2>2, <2>3, <2>4
<1> QED BY <1>1, <1>2

(* _didMessage: an event, or a close *)
LEMMA DidMessageWhole ==
  ASSUME NEW x, Whole(x), NEW f \in Frames
  PROVE  LET y == DidMessage(x, f)
         IN  /\ Whole(y) /\ (Moves(y) \/ y = x)
             /\ \/ Stays(x, y) \/ Closes(x, y)
                \/ /\ x.readyState = "CONNECTING" /\ x.last = None
                   /\ y.readyState = "OPEN" /\ y.last = "open"
                \/ /\ x.readyState = "OPEN" /\ y.readyState = "OPEN"
                   /\ y.last \in {"message", "heartbeat"}
<1> DEFINE y == DidMessage(x, f)
<1>0. x \in SockJS
  BY DEF Whole, Typed
<1>1. "other" \in Codes /\ "user" \in Codes
  BY DEF Codes, UserCodes
<1>2. CASE f = "o" /\ x.readyState = "CONNECTING"
  <2>1. y = [x EXCEPT !.readyState = "OPEN", !.timer = FALSE, !.last = "open"]
    BY <1>2 DEF DidMessage, DispatchOpen
  <2>2. y \in SockJS
    BY <1>0, <2>1 DEF SockJS
  <2>3. /\ y.tr = x.tr /\ y.transport = x.transport /\ y.protocols = x.protocols
        /\ y.ir = x.ir /\ y.pending = x.pending /\ y.waiting = x.waiting
        /\ y.readyState = "OPEN" /\ y.last = "open"
    BY <1>0, <2>1 DEF SockJS
  <2> QED BY <1>2, <2>2, <2>3 DEF Whole, Typed, Announced, OneSpeaks, Waits, Answered, Moves
<1>3. CASE f \in {"a", "h"}
  <2>1. PICK e \in {"message", "heartbeat"} : y = Dispatch(x, e)
    BY <1>3 DEF DidMessage
  <2>2. CASE x.readyState # "OPEN"
    BY <2>1, <2>2 DEF Dispatch, Stays
  <2>3. CASE x.readyState = "OPEN"
    <3>1. y = [x EXCEPT !.last = e]
      BY <2>1, <2>3 DEF Dispatch
    <3>2. y \in SockJS
      BY <1>0, <2>1, <3>1 DEF SockJS
    <3>3. /\ y.tr = x.tr /\ y.transport = x.transport /\ y.protocols = x.protocols
          /\ y.ir = x.ir /\ y.pending = x.pending /\ y.waiting = x.waiting
          /\ y.readyState = "OPEN" /\ y.last = e
      BY <1>0, <2>3, <3>1 DEF SockJS
    <3> QED BY <2>1, <2>3, <3>2, <3>3 DEF Whole, Typed, Announced, OneSpeaks, Waits, Answered,
                 Moves
  <2> QED BY <2>2, <2>3
<1>4. CASE \E c \in {"other", "user"} : y = DidClose(x, c, FALSE)
  BY <1>1, <1>4, DidCloseWhole
<1>5. f = "o" /\ x.readyState # "CONNECTING" => y = DidClose(x, "other", FALSE)
  BY DEF DidMessage, DispatchOpen
<1>6. f \in {"c user", "c other"} => \E c \in {"other", "user"} : y = DidClose(x, c, FALSE)
  BY DEF DidMessage
<1> QED BY <1>2, <1>3, <1>4, <1>5, <1>6 DEF Frames

(* A change of a request that leaves it attached or not, and one of the sender, *)
(* do not concern the socket.                                               *)
Quiet(x, y) ==
  /\ Stays(x, y) /\ y.ir = x.ir /\ y.timer = x.timer /\ y.waiting = x.waiting
  /\ y.protocols = x.protocols

LEMMA RequestQuiet ==
  ASSUME NEW x, Whole(x), NEW p \in Protocols, NEW t \in Transport,
         t.attached = x.tr[p].attached
  PROVE  Whole([x EXCEPT !.tr[p] = t]) /\ Quiet(x, [x EXCEPT !.tr[p] = t])
<1> DEFINE y == [x EXCEPT !.tr[p] = t]
<1>1. x \in SockJS /\ x.tr \in [Protocols -> Transport]
  BY DEF Whole, Typed, SockJS
<1>2. y.tr = [x.tr EXCEPT ![p] = t]
  BY <1>1 DEF SockJS
<1>3. y.tr \in [Protocols -> Transport]
  BY <1>1, <1>2
<1>4. y \in SockJS
  BY <1>1, <1>2, <1>3 DEF SockJS
<1>5. Quiet(x, y) /\ y.pending = x.pending /\ y.transport = x.transport
  BY <1>1 DEF SockJS, Quiet, Stays
<1>6. OneSpeaks(y)
  BY <1>1, <1>2, <1>5 DEF Whole, OneSpeaks
<1>7. Announced(y) /\ Waits(y)
  BY <1>5 DEF Whole, Announced, Waits, Answered, Quiet, Stays
<1> QED BY <1>4, <1>5, <1>6, <1>7 DEF Whole, Typed

LEMMA SenderQuiet ==
  ASSUME NEW x, Whole(x), NEW d \in Sender
  PROVE  Whole([x EXCEPT !.snd = d]) /\ Quiet(x, [x EXCEPT !.snd = d])
<1> DEFINE y == [x EXCEPT !.snd = d]
<1>1. x \in SockJS
  BY DEF Whole, Typed
<1>2. y \in SockJS
  BY <1>1 DEF SockJS
<1>3. /\ Quiet(x, y) /\ y.pending = x.pending /\ y.transport = x.transport
      /\ y.tr = x.tr
  BY <1>1 DEF SockJS, Quiet, Stays
<1> QED BY <1>2, <1>3 DEF Whole, Typed, Announced, OneSpeaks, Waits, Answered, Quiet, Stays

LEMMA ScheduleTyped ==
  ASSUME NEW d \in Sender
  PROVE  Schedule(d) \in Sender
<1>1. <<>> \in Seq(1 .. MaxSends)
  OBVIOUS
<1>2. [d EXCEPT !.flight = d.buffer, !.buffer = <<>>, !.stop = "post"] \in Sender
  BY <1>1 DEF Sender
<1> QED BY <1>2 DEF Schedule

LEMMA DoSendTyped ==
  ASSUME NEW d \in Sender, NEW m \in 1 .. MaxSends, NEW p \in Protocols \cup {None}
  PROVE  DoSend(d, m, p) \in Sender
<1> DEFINE e == [d EXCEPT !.buffer = Append(d.buffer, m), !.via = p]
<1>1. Append(d.buffer, m) \in Seq(1 .. MaxSends)
  BY DEF Sender
<1>2. e \in Sender
  BY <1>1 DEF Sender
<1> QED BY <1>2, ScheduleTyped DEF DoSend

(* What detectProtocols finds are protocols *)
LEMMA DetectTyped ==
  ASSUME NEW pe, NEW i
  PROVE  DetectProtocols(pe, i) \in Seq(Protocols)
<1>1. \A p \in Protocols : <<p>> \in Seq(Protocols)
  OBVIOUS
<1>2. <<>> \in Seq(Protocols)
  OBVIOUS
<1>3. ASSUME NEW a \in Protocols, NEW b \in Protocols
      PROVE  FirstOf(a, b, pe) \in Seq(Protocols)
  BY <1>1, <1>2 DEF FirstOf
<1>4. ASSUME NEW xhr \in Protocols, NEW xdr \in Protocols,
             NEW a \in Protocols, NEW b \in Protocols
      PROVE  Best(xhr, xdr, a, b, pe, i) \in Seq(Protocols)
  BY <1>1, <1>3 DEF Best
<1>5. /\ "websocket" \in Protocols
      /\ "xhr-streaming" \in Protocols /\ "xdr-streaming" \in Protocols
      /\ "iframe-eventsource" \in Protocols /\ "iframe-htmlfile" \in Protocols
      /\ "xhr-polling" \in Protocols /\ "xdr-polling" \in Protocols
      /\ "iframe-xhr-polling" \in Protocols /\ "jsonp-polling" \in Protocols
  BY DEF Protocols, Ajax, Iframe, Script
<1> DEFINE w == IF i.websocket /\ "websocket" \in pe THEN <<"websocket">> ELSE <<>>
           st == Best("xhr-streaming", "xdr-streaming", "iframe-eventsource",
                      "iframe-htmlfile", pe, i)
           po == Best("xhr-polling", "xdr-polling", "iframe-xhr-polling", "jsonp-polling", pe, i)
<1>6. w \in Seq(Protocols)
  BY <1>1, <1>2, <1>5
<1>7. st \in Seq(Protocols) /\ po \in Seq(Protocols)
  BY <1>4, <1>5
<1>8. DetectProtocols(pe, i) = w \o st \o po
  BY DEF DetectProtocols
<1> HIDE DEF w, st, po
<1> QED BY <1>6, <1>7, <1>8

-----------------------------------------------------------------------------
(* What one callback shows the page: nothing, or one of the steps of Socket *)
Event(x, y) ==
  \/ Stays(x, y) \/ Closes(x, y)
  \/ /\ x.readyState = "CONNECTING" /\ x.last = None
     /\ y.readyState = "OPEN" /\ y.last = "open"
  \/ /\ x.readyState = "OPEN" /\ y.readyState = "OPEN"
     /\ y.last \in {"message", "heartbeat"}
  \/ /\ x.readyState = "CLOSED" /\ x.last # "close"
     /\ y.readyState = "CLOSED" /\ y.last = "close"

(* What each callback has to keep; the load event is the only one that       *)
(* changes complete.                                                        *)
Kept(y) == Whole(y) /\ Event(s, y) /\ (Moves(y) \/ (~Answered(y) \/ y.ir = "lost"))

LEMMA QuietKept ==
  ASSUME IInv, NEW y, Whole(y), Quiet(s, y)
  PROVE  Kept(y)
  BY DEF IInv, NeverStuck, Kept, Quiet, Stays, Event, Moves, Answered

(* _didClose, from a socket that differs from s in what the page cannot see *)
LEMMA CloseKept ==
  ASSUME NEW x, Whole(x), Stays(s, x), NEW code \in Codes, NEW force \in BOOLEAN
  PROVE  Kept(DidClose(x, code, force))
  BY DidCloseWhole DEF Kept, Event, Stays, Closes

(* The info receiver is done before any transport is opened *)
InfoIs(x, i, ps, w) == [x EXCEPT !.ir = i, !.protocols = ps, !.threw = w]
LEMMA InfoWhole ==
  ASSUME NEW x, Whole(x), ~Answered(x), NEW i \in {"asked", "null", "lost"},
         NEW ps \in Seq(Protocols), NEW w \in BOOLEAN
  PROVE  LET y == InfoIs(x, i, ps, w)
         IN  Whole(y) /\ Stays(x, y) /\ y.ir = i
<1> DEFINE y == InfoIs(x, i, ps, w)
<1> USE DEF InfoIs
<1>1. x \in SockJS /\ ~x.waiting
  BY DEF Whole, Typed, Waits
<1>2. y \in SockJS
  BY <1>1 DEF SockJS
<1>3. /\ y.tr = x.tr /\ y.transport = x.transport /\ y.pending = x.pending
      /\ y.waiting = x.waiting /\ Stays(x, y) /\ y.ir = i
  BY <1>1 DEF SockJS, Stays
<1> QED BY <1>1, <1>2, <1>3 DEF Whole, Typed, Announced, OneSpeaks, Waits, Stays

LEMMA SocketStep ==
  ASSUME IInv, Next, ~Load
  PROVE  Kept(s') /\ complete' = complete
<1> USE DEF Environment
<1>0. Whole(s) /\ s \in SockJS /\ Quiet(s, s) /\ s.tr \in [Protocols -> Transport]
      /\ s.snd \in Sender
  BY DEF IInv, Whole, Typed, Quiet, Stays, SockJS
<1>1. {"normal", "other", "undefined"} \subseteq Codes
  BY DEF Codes, UserCodes
<1>2. CASE AskInfo
  <2>1. s' = InfoIs(s, "asked", s.protocols, s.threw)
    BY <1>0, <1>2 DEF AskInfo, SockJS, InfoIs
  <2>2. ~Answered(s) /\ s.threw \in BOOLEAN /\ s.protocols \in Seq(Protocols)
    BY <1>0, <1>2 DEF AskInfo, Answered, SockJS
  <2>3. Whole(s') /\ Stays(s, s') /\ s'.ir = "asked"
    BY <1>0, <2>1, <2>2, InfoWhole
  <2> QED BY <1>2, <2>3 DEF AskInfo, Kept, Event, Answered
<1>3. CASE InfoAnswered
  <2> DEFINE x == [s EXCEPT !.ir = "null", !.protocols = DetectProtocols(probed, info)]
  <2>1. x = InfoIs(s, "null", DetectProtocols(probed, info), s.threw)
    BY <1>0 DEF SockJS, InfoIs
  <2>2. ~Answered(s) /\ s.threw \in BOOLEAN
    BY <1>0, <1>3 DEF InfoAnswered, Answered, SockJS
  <2>3. Whole(x) /\ Stays(s, x)
    BY <1>0, <2>1, <2>2, InfoWhole, DetectTyped
  <2> HIDE DEF x
  <2>4. Kept(DidClose(x, "undefined", FALSE))
    BY <1>1, <2>3, CloseKept
  <2> QED BY <1>3, <2>4 DEF InfoAnswered, x
<1>4. CASE InfoFailed
  <2> DEFINE x == [s EXCEPT !.ir = "null"]
  <2>1. x = InfoIs(s, "null", s.protocols, s.threw)
    BY <1>0 DEF SockJS, InfoIs
  <2>2. ~Answered(s) /\ s.threw \in BOOLEAN /\ s.protocols \in Seq(Protocols)
    BY <1>0, <1>4 DEF InfoFailed, Answered, SockJS
  <2>3. Whole(x) /\ Stays(s, x)
    BY <1>0, <2>1, <2>2, InfoWhole
  <2> HIDE DEF x
  <2>4. Kept(DidClose(x, "other", TRUE))
    BY <1>1, <2>3, CloseKept
  <2> QED BY <1>4, <2>4 DEF InfoFailed, x
<1>5. CASE InfoUnreadable
  <2>1. s' = InfoIs(s, "lost", s.protocols, TRUE)
    BY <1>0, <1>5 DEF InfoUnreadable, SockJS, InfoIs
  <2>2. ~Answered(s) /\ s.protocols \in Seq(Protocols)
    BY <1>0, <1>5 DEF InfoUnreadable, Answered, SockJS
  <2>3. Whole(s') /\ Stays(s, s') /\ s'.ir = "lost"
    BY <1>0, <2>1, <2>2, InfoWhole
  <2> QED BY <1>5, <2>3 DEF InfoUnreadable, Kept, Event
<1>6. CASE TransportTimeout
  <2> DEFINE x == [s EXCEPT !.timer = FALSE]
  <2>1. x \in SockJS /\ Stays(s, x) /\ x.tr = s.tr /\ x.transport = s.transport
        /\ x.pending = s.pending /\ x.waiting = s.waiting /\ x.ir = s.ir
        /\ x.protocols = s.protocols
    BY <1>0 DEF SockJS, Stays
  <2>2. Whole(x)
    BY <1>0, <2>1 DEF Whole, Typed, Announced, OneSpeaks, Waits, Answered, Stays
  <2> HIDE DEF x
  <2>3. Kept(DidClose(x, "other", FALSE))
    BY <1>1, <2>1, <2>2, CloseKept
  <2>4. CASE s.readyState = "CONNECTING"
    BY <1>6, <2>3, <2>4 DEF TransportTimeout, x
  <2>5. CASE s.readyState # "CONNECTING"
    <3>1. s' = x
      BY <1>6, <2>5 DEF TransportTimeout, x
    <3> QED BY <1>6, <2>1, <2>2, <2>5, <3>1 DEF TransportTimeout, Kept, Event, Moves, Stays
  <2> QED BY <2>4, <2>5
<1>7. ASSUME NEW p \in Protocols, AjaxStarts(p) \/ IframeLoaded(p) \/ PollAgain(p)
      PROVE  Kept(s') /\ complete' = complete
  <2>1. PICK ph \in {"delayed", "waiting", "off"} :
          s' = [s EXCEPT !.tr[p] = [s.tr[p] EXCEPT !.phase = ph]]
    BY <1>7 DEF AjaxStarts, IframeLoaded, PollAgain
  <2>2. [s.tr[p] EXCEPT !.phase = ph] \in Transport
        /\ [s.tr[p] EXCEPT !.phase = ph].attached = s.tr[p].attached
    BY <1>0 DEF Transport
  <2>3. Whole(s') /\ Quiet(s, s')
    BY <1>0, <2>1, <2>2, RequestQuiet
  <2>4. Kept(s')
    BY <2>3, QuietKept
  <2> QED BY <1>7, <2>4 DEF AjaxStarts, IframeLoaded, PollAgain
<1>8. CASE \E p \in Protocols : IframeFailed(p) \/ PollFails(p)
  <2>1. s' = DidClose(s, "other", FALSE)
    BY <1>8 DEF IframeFailed, PollFails
  <2>2. Kept(s')
    BY <1>0, <1>1, <2>1, CloseKept DEF Quiet
  <2> QED BY <1>8, <2>2 DEF IframeFailed, PollFails
<1>9. ASSUME NEW p \in Protocols, NEW f \in Frames, Receive(p, f)
      PROVE  Kept(s') /\ complete' = complete
  <2> DEFINE t == [s.tr[p] EXCEPT !.hello = s.tr[p].hello \/ f = "o"]
             x == [s EXCEPT !.tr[p] = t]
  <2>1. (s.tr[p].hello \/ f = "o") \in BOOLEAN
    OBVIOUS
  <2>2. t \in Transport /\ t.attached = s.tr[p].attached
    BY <1>0 DEF Transport
  <2>3. Whole(x) /\ Quiet(s, x)
    BY <1>0, <2>2, RequestQuiet
  <2>4. s' = DidMessage(x, f)
    BY <1>9 DEF Receive
  <2> HIDE DEF x
  <2>5. Kept(x)
    BY <2>3, QuietKept
  <2>6. Kept(DidMessage(x, f))
    BY <2>3, <2>5, DidMessageWhole DEF Kept, Event, Quiet, Stays, Closes
  <2> QED BY <1>9, <2>4, <2>6 DEF Receive
<1>10. CASE \E p \in Protocols : Breaks(p)
  <2>1. s' = DidMessage(s, "c other") /\ complete' = complete
    BY <1>10 DEF Breaks
  <2>2. s' = DidClose(s, "other", FALSE)
    BY <2>1 DEF DidMessage
  <2> QED BY <1>0, <1>1, <2>1, <2>2, CloseKept DEF Quiet
<1>11. CASE Send
  <2>1. CASE s' = s
    BY <1>0, <1>11, <2>1, QuietKept DEF Send
  <2>2. CASE s' = [s EXCEPT !.snd = DoSend(s.snd, sent', s.transport)]
    <3>1. sent' \in 1 .. MaxSends /\ s.transport \in Protocols \cup {None}
      BY <1>0, <1>11, SendsAssumption DEF Send, IInv, TypeOK, SockJS
    <3>2. DoSend(s.snd, sent', s.transport) \in Sender
      BY <1>0, <3>1, DoSendTyped
    <3>3. Kept(s')
      BY <1>0, <2>2, <3>2, SenderQuiet, QuietKept
    <3> QED BY <1>11, <3>3 DEF Send
  <2> QED BY <1>11, <2>1, <2>2 DEF Send
<1>12. CASE PostTaken \/ PostAnswered \/ WaitOver
  <2>1. PICK d \in Sender : s' = [s EXCEPT !.snd = d]
    <3>1. <<>> \in Seq(1 .. MaxSends)
      OBVIOUS
    <3>2. CASE PostTaken
      <4>1. [s.snd EXCEPT !.stop = "taken"] \in Sender
        BY <1>0 DEF Sender
      <4> QED BY <3>2, <4>1 DEF PostTaken
    <3>3. CASE PostAnswered
      <4>1. [s.snd EXCEPT !.stop = "wait", !.flight = <<>>] \in Sender
        BY <1>0, <3>1 DEF Sender
      <4>2. s' = [s EXCEPT !.snd = [s.snd EXCEPT !.stop = "wait", !.flight = <<>>]]
        BY <1>0, <3>3 DEF PostAnswered, SockJS
      <4> QED BY <4>1, <4>2
    <3>4. CASE WaitOver
      <4>1. [s.snd EXCEPT !.stop = "null"] \in Sender
        BY <1>0 DEF Sender
      <4>2. WaitedOut(s.snd) \in Sender
        BY <4>1, ScheduleTyped DEF WaitedOut
      <4> QED BY <3>4, <4>2 DEF WaitOver
    <3> QED BY <1>12, <3>2, <3>3, <3>4
  <2>2. Kept(s')
    BY <1>0, <2>1, SenderQuiet, QuietKept
  <2> QED BY <1>12, <2>2 DEF PostTaken, PostAnswered, WaitOver
<1>13. CASE PostFails
  <2> DEFINE d == [s.snd EXCEPT !.stop = "null", !.flight = <<>>]
             x == [s EXCEPT !.snd = d]
  <2>0. <<>> \in Seq(1 .. MaxSends)
    OBVIOUS
  <2>1. d \in Sender
    BY <1>0, <2>0 DEF Sender
  <2>2. Whole(x) /\ Stays(s, x)
    BY <1>0, <2>1, SenderQuiet DEF Quiet
  <2>3. x = [s EXCEPT !.snd.stop = "null", !.snd.flight = <<>>]
    BY <1>0 DEF SockJS
  <2> HIDE DEF x
  <2>4. Kept(DidClose(x, "other", FALSE))
    BY <1>1, <2>2, CloseKept
  <2> QED BY <1>13, <2>3, <2>4 DEF PostFails
<1>14. CASE Close
  <2>1. s' = DidClose(s, "normal", FALSE)
    BY <1>14 DEF Close
  <2> QED BY <1>0, <1>1, <1>14, <2>1, CloseKept DEF Quiet, Close
<1>15. CASE DispatchClose
  <2>1. s.readyState = "CLOSED" /\ s.pending = 1 /\ s.last # "close"
    BY <1>0, <1>15 DEF DispatchClose, Whole, Announced, SockJS
  <2>2. s' = [s EXCEPT !.pending = 0, !.last = "close"]
    BY <1>0, <1>15, <2>1 DEF DispatchClose, SockJS
  <2>3. s' \in SockJS
    <3>1. 0 \in 0 .. 1 /\ "close" \in {None, "open", "message", "heartbeat", "close"}
      OBVIOUS
    <3> QED BY <1>0, <2>2, <3>1 DEF SockJS
  <2>4. /\ s'.pending = 0 /\ s'.last = "close" /\ s'.readyState = "CLOSED"
        /\ s'.tr = s.tr /\ s'.transport = s.transport /\ s'.waiting = s.waiting
        /\ s'.ir = s.ir /\ s'.protocols = s.protocols
    BY <1>0, <2>1, <2>2 DEF SockJS
  <2>5. Whole(s')
    BY <1>0, <2>3, <2>4 DEF Whole, Typed, Announced, OneSpeaks, Waits, Answered
  <2> QED BY <1>15, <2>1, <2>4, <2>5 DEF DispatchClose, Kept, Event, Moves
<1> QED BY <1>2, <1>3, <1>4, <1>5, <1>6, <1>7, <1>8, <1>9, <1>10, <1>11, <1>12, <1>13,
           <1>14, <1>15 DEF Next, Timers

LEMMA LoadStep ==
  ASSUME IInv, Load
  PROVE  Kept(s') /\ complete' = TRUE /\ ~s'.waiting
<1>0. Whole(s) /\ s \in SockJS
  BY DEF IInv, Whole, Typed
<1>1. CASE s.waiting
  <2> DEFINE z == [s EXCEPT !.waiting = FALSE]
             p == Head(s.protocols)
  <2>1. s.protocols # <<>> /\ s.transport = None /\ s.protocols \in Seq(Protocols)
    BY <1>0, <1>1 DEF Whole, Waits, SockJS
  <2>2. z \in SockJS /\ Stays(s, z) /\ z.tr = s.tr /\ z.transport = None
        /\ z.pending = s.pending /\ z.waiting = FALSE
    BY <1>0, <2>1 DEF SockJS, Stays
  <2>3. Whole(z)
    BY <1>0, <2>1, <2>2 DEF Whole, Typed, Announced, OneSpeaks, Waits, Stays
  <2>4. p \in Protocols /\ Tail(s.protocols) \in Seq(Protocols)
    BY <2>1
  <2>5. s' = Opened(z, p, Tail(s.protocols))
    BY <1>0, <1>1 DEF Load, Opened, SockJS
  <2> HIDE DEF z, p
  <2>6. Whole(s') /\ s'.timer /\ ~s'.waiting /\ Stays(z, s')
    BY <2>2, <2>3, <2>4, <2>5, OpenedWhole
  <2> QED BY <2>2, <2>6 DEF Load, Kept, Event, Moves, Stays
<1>2. CASE ~s.waiting
  <2>1. s' = s
    BY <1>2 DEF Load
  <2>2. Quiet(s, s)
    BY DEF Quiet, Stays
  <2> QED BY <1>0, <1>2, <2>1, <2>2, QuietKept DEF Load
<1> QED BY <1>1, <1>2

-----------------------------------------------------------------------------
LEMMA InitIInv == Init => IInv
<1> SUFFICES ASSUME Init PROVE IInv
  OBVIOUS
<1>1. Unused \in Transport /\ ~Unused.attached
  BY DEF Unused, Transport
<1>2. <<>> \in Seq(Protocols) /\ <<>> \in Seq(1 .. MaxSends) /\ 0 \in 0 .. 1
      /\ 0 \in 0 .. MaxSends
  BY SendsAssumption
<1>3. [p \in Protocols |-> Unused] \in [Protocols -> Transport]
  BY <1>1
<1>4. s \in SockJS
  BY <1>2, <1>3, IdleTyped DEF Init, SockJS
<1>5. /\ s.readyState = "CONNECTING" /\ s.ir = "delayed" /\ s.waiting = FALSE
      /\ s.pending = 0 /\ s.last = None /\ s.transport = None
      /\ s.tr = [p \in Protocols |-> Unused]
  BY DEF Init
<1>6. OneSpeaks(s)
  BY <1>1, <1>5, NoneIsNoProtocol DEF OneSpeaks
<1>7. Whole(s)
  BY <1>4, <1>5, <1>6 DEF Whole, Typed, Announced, Waits
<1>8. TypeOK
  BY <1>2, <1>4 DEF Init, TypeOK
<1> QED BY <1>5, <1>7, <1>8 DEF IInv, NeverStuck

(* The variables beside s keep their types *)
LEMMA HistoryTyped ==
  ASSUME IInv, Next
  PROVE  /\ probed' \in Browsers /\ info' \in Info /\ complete' \in BOOLEAN
         /\ sent' \in 0 .. MaxSends /\ arrived' \in Seq(1 .. MaxSends)
<1>1. /\ probed \in Browsers /\ info \in Info /\ complete \in BOOLEAN
      /\ sent \in 0 .. MaxSends /\ arrived \in Seq(1 .. MaxSends)
      /\ s.snd.flight \in Seq(1 .. MaxSends)
  BY DEF IInv, TypeOK, SockJS, Sender
<1>2. CASE Send
  <2>1. sent' \in 0 .. MaxSends /\ sent' \in 1 .. MaxSends
    BY <1>1, <1>2, SendsAssumption DEF Send
  <2>2. Append(arrived, sent') \in Seq(1 .. MaxSends)
    BY <1>1, <2>1
  <2>3. arrived' \in {arrived, Append(arrived, sent')}
    BY <1>2 DEF Send
  <2>4. probed' = probed /\ info' = info /\ complete' = complete
    BY <1>2 DEF Send, Environment
  <2> QED BY <1>1, <2>1, <2>2, <2>3, <2>4
<1>3. CASE PostTaken
  BY <1>1, <1>3 DEF PostTaken, Environment
<1>4. CASE UNCHANGED <<probed, info, History>> /\ complete' \in {TRUE, complete}
  BY <1>1, <1>4 DEF History
<1>5. Next => \/ Send \/ PostTaken
              \/ UNCHANGED <<probed, info, History>> /\ complete' \in {TRUE, complete}
  BY DEF Next, Timers, AskInfo, TransportTimeout, Load, DispatchClose, InfoAnswered,
         InfoFailed, InfoUnreadable, AjaxStarts, IframeLoaded, IframeFailed, Receive,
         Breaks, PollAgain, PollFails, PostAnswered, PostFails, WaitOver, Close,
         Environment
<1> QED BY <1>2, <1>3, <1>4, <1>5

LEMMA NextIInv == IInv /\ [Next]_vars => IInv' /\ (Event(s, s') \/ UNCHANGED vars)
<1> SUFFICES ASSUME IInv, [Next]_vars PROVE IInv' /\ (Event(s, s') \/ UNCHANGED vars)
  OBVIOUS
<1>1. CASE UNCHANGED vars
  BY <1>1 DEF vars, IInv, TypeOK, Whole, Typed, Announced, OneSpeaks, Waits, Answered, NeverStuck
<1>2. CASE Next
  <2>1. Kept(s') /\ (complete' = complete \/ ~s'.waiting)
    BY <1>2, SocketStep, LoadStep
  <2>2. Whole(s)'
    BY <2>1 DEF Kept, Whole, Typed, Announced, OneSpeaks, Waits, Answered
  <2>3. NeverStuck'
    BY <2>1 DEF Kept, Moves, Answered, NeverStuck
  <2>4. TypeOK'
    BY <1>2, <2>2, HistoryTyped DEF TypeOK, Whole, Typed
  <2> QED BY <2>1, <2>2, <2>3, <2>4 DEF IInv, Kept
<1> QED BY <1>1, <1>2

THEOREM SocketInvariant == Spec => []IInv
<1>1. Init => IInv
  BY InitIInv
<1>2. IInv /\ [Next]_vars => IInv'
  BY NextIInv
<1> QED BY <1>1, <1>2, PTL DEF Spec

(* The fields of the socket, of its transports and of its sender have their  *)
(* types.                                                                   *)
THEOREM TypeCorrect == Spec => []TypeOK
<1>1. IInv => TypeOK
  BY DEF IInv
<1> QED BY <1>1, SocketInvariant, PTL

(* Only the transport the socket holds can call it back *)
THEOREM CurrentSpeaks == Spec => []OnlyCurrentSpeaks
<1>1. IInv => OnlyCurrentSpeaks
  <2> SUFFICES ASSUME IInv PROVE OnlyCurrentSpeaks
    OBVIOUS
  <2>1. s.transport \in Protocols \cup {None}
    BY DEF IInv, TypeOK, SockJS
  <2>2. \A p \in Protocols : s.tr[p].attached <=> p = s.transport
    BY DEF IInv, Whole, OneSpeaks
  <2> QED BY <2>1, <2>2, NoneIsNoProtocol DEF OnlyCurrentSpeaks, Attached
<1> QED BY <1>1, SocketInvariant, PTL

(* A connecting socket always has something that will move it on *)
THEOREM ConnectingMoves == Spec => []NeverStuck
<1>1. IInv => NeverStuck
  BY DEF IInv
<1> QED BY <1>1, SocketInvariant, PTL

(* Every callback is a step of Socket, or none *)
THEOREM SocketContract == Spec => Contract!SafeSpec
<1>1. Init => Contract!Init
  BY DEF Init, Contract!Init, None
<1>2. IInv /\ [Next]_vars => [Contract!Next]_(Contract!vars)
  <2> SUFFICES ASSUME IInv, [Next]_vars PROVE [Contract!Next]_(Contract!vars)
    OBVIOUS
  <2>1. Event(s, s') \/ UNCHANGED vars
    BY NextIInv
  <2>2. s.readyState \in {"CONNECTING", "OPEN", "CLOSED"}
    BY DEF IInv, TypeOK, SockJS
  <2> QED BY <2>1, <2>2 DEF Event, Stays, Closes, vars, None, Contract!Next, Contract!Open,
               Contract!Deliver, Contract!Close, Contract!Announce, Contract!vars
<1> QED BY <1>1, <1>2, SocketInvariant, PTL DEF Spec, Contract!SafeSpec

-----------------------------------------------------------------------------
(* The fallback.  Every protocol that was detected has been tried ...         *)
Tried(x) == \A i \in 1 .. Len(Detected) : x.tr[Detected[i]].phase # "unused"

(* ... or is still to be: _protocols loses nothing.                          *)
TriedOrLeft(x) ==
  \A i \in 1 .. Len(Detected) :
    \/ x.tr[Detected[i]].phase # "unused"
    \/ \E j \in 1 .. Len(x.protocols) : x.protocols[j] = Detected[i]

(* Before /info is answered nothing can fail *)
Untouched(x) ==
  /\ \A p \in Protocols : x.tr[p].phase = "unused"
  /\ ~x.timer /\ ~x.waiting /\ x.snd = Idle

Fallback(x) ==
  /\ x.readyState = "CONNECTING" /\ x.ir = "null" => TriedOrLeft(x)
  /\ x.readyState = "CONNECTING" /\ x.ir # "null" => x.ir # "nuked" /\ Untouched(x)
  /\ x.code = "all failed" => Tried(x)

(* The requests of y are those of x, or were put to use since *)
Used(x, y) ==
  \A p \in Protocols : x.tr[p].phase # "unused" => y.tr[p].phase # "unused"

LEMMA DetectedTyped ==
  Len(Detected) \in Nat /\ \A i \in 1 .. Len(Detected) : Detected[i] \in Protocols
<1>1. Detected \in Seq(Protocols)
  BY DetectTyped DEF Detected
<1> QED BY <1>1

(* One that polls is always detected, the script transport if no other *)
LEMMA PollsDetected ==
  ASSUME probed \in Browsers
  PROVE  \E i \in 1 .. Len(Detected) : Detected[i] \in Polls
<1> DEFINE w == IF info.websocket /\ "websocket" \in probed THEN <<"websocket">> ELSE <<>>
           st == Best("xhr-streaming", "xdr-streaming", "iframe-eventsource",
                      "iframe-htmlfile", probed, info)
           po == Best("xhr-polling", "xdr-polling", "iframe-xhr-polling", "jsonp-polling",
                      probed, info)
<1>1. "jsonp-polling" \in probed
  BY BrowsersAssumption DEF Script
<1>2. PICK p \in Polls : po = <<p>>
  BY <1>1 DEF Best, FirstOf, Polls
<1>3. p \in Protocols
  BY DEF Polls, Protocols, Ajax, Iframe, Script
<1>4. w \o st \in Seq(Protocols)
  <2>1. \A q \in Protocols : <<q>> \in Seq(Protocols)
    OBVIOUS
  <2>2. <<>> \in Seq(Protocols)
    OBVIOUS
  <2>3. /\ "websocket" \in Protocols /\ "xhr-streaming" \in Protocols
        /\ "xdr-streaming" \in Protocols /\ "iframe-eventsource" \in Protocols
        /\ "iframe-htmlfile" \in Protocols
    BY DEF Protocols, Ajax, Iframe, Script
  <2>4. w \in Seq(Protocols)
    BY <2>1, <2>2, <2>3
  <2>5. st \in Seq(Protocols)
    BY <2>1, <2>2, <2>3 DEF Best, FirstOf
  <2> HIDE DEF w, st
  <2> QED BY <2>4, <2>5
<1>5. Detected = (w \o st) \o po
  BY DEF Detected, DetectProtocols
<1>6. <<p>> \in Seq(Protocols) /\ Len(<<p>>) = 1 /\ <<p>>[1] = p
  BY <1>3
<1> DEFINE r == w \o st
<1> HIDE DEF r, w, st, po
<1>7. r \in Seq(Protocols) /\ Detected = r \o <<p>>
  BY <1>2, <1>4, <1>5 DEF r
<1>8. Len(r) \in Nat /\ Len(Detected) = Len(r) + 1 /\ Detected[Len(r) + 1] = p
  BY <1>6, <1>7
<1>9. Len(r) + 1 \in 1 .. Len(Detected) /\ Detected[Len(r) + 1] \in Polls
  BY <1>8
<1> QED BY <1>9

(* doCleanup uses nothing up and starts nothing *)
LEMMA DroppedUsed ==
  ASSUME NEW x, Whole(x)
  PROVE  /\ Used(x, Dropped(x))
         /\ Dropped(x).code = x.code
         /\ x.ir = "null" => Dropped(x).ir = "null"
         /\ x.transport \notin Iframe => Dropped(x).snd = x.snd
         /\ x.transport \in Iframe => Dropped(x).snd = Idle
<1> DEFINE y == [x EXCEPT !.ir = IF @ \in {"null", "lost"} THEN @ ELSE "nuked"]
           p == x.transport
<1>1. x \in SockJS /\ x.tr \in [Protocols -> Transport]
  BY DEF Whole, Typed, SockJS
<1>2. /\ y \in SockJS /\ y.tr = x.tr /\ y.code = x.code /\ y.snd = x.snd
      /\ y.transport = x.transport
      /\ x.ir = "null" => y.ir = "null"
  BY <1>1 DEF SockJS
<1>3. Dropped(x) = Cleanup(y)
  BY DEF Dropped
<1> HIDE DEF y
<1>4. CASE p = None
  <2>1. Dropped(x) = y /\ p \notin Iframe
    BY <1>2, <1>3, <1>4 DEF Cleanup, None, Iframe
  <2> QED BY <1>2, <2>1 DEF Used
<1>5. CASE p # None
  <2>1. p \in Protocols
    BY <1>1, <1>5 DEF SockJS
  <2>2. Cleanup(y) = [y EXCEPT !.tr[p] = Cleaned(p, y.tr[p]),
                               !.snd = IF p \in Iframe THEN Idle ELSE y.snd,
                               !.transport = None]
    BY <1>2, <1>5 DEF Cleanup
  <2>3. /\ Cleanup(y).tr = [y.tr EXCEPT ![p] = Cleaned(p, y.tr[p])]
        /\ Cleanup(y).code = y.code /\ Cleanup(y).ir = y.ir
        /\ p \notin Iframe => Cleanup(y).snd = y.snd
        /\ p \in Iframe => Cleanup(y).snd = Idle
    BY <1>2, <2>2 DEF SockJS
  <2>4. Cleaned(p, x.tr[p]).phase # "unused"
    BY <1>1, <2>1 DEF Cleaned, Transport
  <2>5. Used(x, Cleanup(y))
    BY <1>1, <1>2, <2>1, <2>3, <2>4 DEF Used
  <2> QED BY <1>2, <1>3, <2>3, <2>5
<1> QED BY <1>4, <1>5

(* The head of the list is opened *)
LEMMA OpenedUsed ==
  ASSUME NEW x, x \in SockJS, x.protocols # <<>>
  PROVE  LET y == Opened(x, Head(x.protocols), Tail(x.protocols))
         IN  /\ Used(x, y) /\ y.code = x.code /\ y.ir = x.ir /\ y.snd = x.snd
             /\ TriedOrLeft(x) => TriedOrLeft(y)
<1> DEFINE p == Head(x.protocols)
           rest == Tail(x.protocols)
           y == Opened(x, p, rest)
<1>1. x.protocols \in Seq(Protocols) /\ x.tr \in [Protocols -> Transport]
  BY DEF SockJS
<1>2. /\ p \in Protocols /\ p = x.protocols[1] /\ rest \in Seq(Protocols)
      /\ Len(x.protocols) \in Nat /\ Len(rest) = Len(x.protocols) - 1
      /\ \A j \in 1 .. Len(rest) : rest[j] = x.protocols[j + 1]
  BY <1>1, HeadTailProperties
<1> HIDE DEF p, rest
<1>3. y = [x EXCEPT !.protocol = p, !.protocols = rest, !.timer = TRUE,
                    !.transport = p, !.tr[p] = New(p)]
  BY DEF Opened
<1>4. /\ y.tr = [x.tr EXCEPT ![p] = New(p)] /\ y.protocols = rest
      /\ y.code = x.code /\ y.ir = x.ir /\ y.snd = x.snd
  BY <1>3 DEF SockJS
<1> HIDE DEF y
<1>5. New(p).phase # "unused"
  BY DEF New
<1>6. Used(x, y) /\ y.tr[p].phase # "unused"
  BY <1>1, <1>2, <1>4, <1>5 DEF Used
<1>7. ASSUME TriedOrLeft(x), NEW i \in 1 .. Len(Detected)
      PROVE  \/ y.tr[Detected[i]].phase # "unused"
             \/ \E j \in 1 .. Len(rest) : rest[j] = Detected[i]
  <2>1. CASE x.tr[Detected[i]].phase # "unused"
    BY <1>6, <2>1, DetectedTyped DEF Used
  <2>2. CASE Detected[i] = p
    BY <1>6, <2>2
  <2>3. ASSUME NEW j \in 1 .. Len(x.protocols), x.protocols[j] = Detected[i], Detected[i] # p
        PROVE  \E k \in 1 .. Len(rest) : rest[k] = Detected[i]
    <3>1. j # 1
      BY <1>2, <2>3
    <3>2. j - 1 \in 1 .. Len(rest) /\ rest[j - 1] = Detected[i]
      BY <1>2, <2>3, <3>1
    <3> QED BY <3>2
  <2> QED BY <1>7, <2>1, <2>2, <2>3 DEF TriedOrLeft
<1> QED BY <1>4, <1>6, <1>7, ZenonT(60) DEF TriedOrLeft, y, p, rest

(* _try_next_protocol takes a protocol from the list only to try it *)
LEMMA TryNextUsed ==
  ASSUME NEW x, Whole(x)
  PROVE  /\ Used(x, TryNext(x))
         /\ TryNext(x).code = x.code /\ TryNext(x).ir = x.ir /\ TryNext(x).snd = x.snd
         /\ TriedOrLeft(x) => TriedOrLeft(TryNext(x))
<1> DEFINE y == TryNext(x)
           p == Head(x.protocols)
<1>1. x \in SockJS /\ x.protocols \in Seq(Protocols) /\ x.tr \in [Protocols -> Transport]
  BY DEF Whole, Typed, SockJS
<1>2. CASE NoneLeft(x)
  <2>1. y = [x EXCEPT !.protocol = None, !.timer = FALSE]
    BY <1>2 DEF TryNext
  <2>2. /\ y.tr = x.tr /\ y.code = x.code /\ y.ir = x.ir /\ y.snd = x.snd
        /\ y.protocols = x.protocols
    BY <1>1, <2>1 DEF SockJS
  <2> QED BY <2>2 DEF Used, TriedOrLeft
<1>3. CASE ~NoneLeft(x) /\ p \in NeedBody /\ ~complete
  <2>1. y = [x EXCEPT !.protocol = "waiting-for-load", !.waiting = TRUE, !.timer = FALSE]
    BY <1>3 DEF TryNext
  <2>2. /\ y.tr = x.tr /\ y.code = x.code /\ y.ir = x.ir /\ y.snd = x.snd
        /\ y.protocols = x.protocols
    BY <1>1, <2>1 DEF SockJS
  <2> QED BY <2>2 DEF Used, TriedOrLeft
<1>4. CASE ~NoneLeft(x) /\ ~(p \in NeedBody /\ ~complete)
  <2>1. x.protocols # <<>>
    BY <1>4 DEF NoneLeft
  <2>2. y = Opened(x, p, Tail(x.protocols))
    BY <1>4 DEF TryNext, Opened
  <2> QED BY <1>1, <2>1, <2>2, OpenedUsed
<1> QED BY <1>2, <1>3, <1>4

(* There is nothing on an empty list *)
LEMMA NoneListed ==
  ASSUME NEW q, q = <<>>, NEW j \in 1 .. Len(q)
  PROVE  FALSE
  OBVIOUS

(* _didClose says "All transports failed" when the list is empty: by then    *)
(* everything on it was tried.                                              *)
LEMMA DidCloseFallback ==
  ASSUME NEW x, Whole(x), NEW code \in Codes \ {"all failed"}, NEW force \in BOOLEAN,
         x.code = "all failed" => Tried(x),
         x.readyState = "CONNECTING" /\ ~GivesUp(x, code, force) =>
           x.ir = "null" /\ TriedOrLeft(x)
  PROVE  Fallback(DidClose(x, code, force))
<1> DEFINE y == DidClose(x, code, force)
           d == Dropped(x)
<1>0. x \in SockJS
  BY DEF Whole, Typed
<1>1. CASE x.readyState = "CLOSED"
  <2>1. y = [x EXCEPT !.threw = TRUE]
    BY <1>1 DEF DidClose
  <2>2. y.readyState = "CLOSED" /\ y.code = x.code /\ y.tr = x.tr
    BY <1>0, <1>1, <2>1 DEF SockJS
  <2> QED BY <2>2 DEF Fallback, Tried
<1>2. CASE x.readyState # "CLOSED" /\ GivesUp(x, code, force)
  <2>1. y = Finished(d, code)
    BY <1>2 DEF DidClose
  <2>2. d \in SockJS
    BY DroppedWhole DEF Whole, Typed
  <2>3. y.readyState = "CLOSED" /\ y.code = code
    BY <2>1, <2>2 DEF Finished, SockJS
  <2> QED BY <2>3 DEF Fallback
<1>3. CASE x.readyState # "CLOSED" /\ ~GivesUp(x, code, force)
  <2>1. x.readyState = "CONNECTING"
    BY <1>3 DEF GivesUp
  <2>2. x.ir = "null" /\ TriedOrLeft(x)
    BY <1>3, <2>1
  <2>3. /\ Whole(d) /\ d.ir = "null" /\ d.protocols = x.protocols /\ Used(x, d)
        /\ d.code = x.code /\ d.readyState = "CONNECTING"
    BY <2>1, <2>2, DroppedWhole, DroppedUsed
  <2>4. TriedOrLeft(d)
    BY <2>2, <2>3, DetectedTyped DEF TriedOrLeft, Used
  <2> DEFINE z == TryNext(d)
  <2>5. /\ Used(d, z) /\ z.code = d.code /\ z.ir = d.ir /\ TriedOrLeft(z)
    BY <2>3, <2>4, TryNextUsed
  <2>6. Whole(z) /\ Stays(d, z)
    BY <2>1, <2>3, TryNextWhole, DroppedWhole
  <2>7. CASE NoneLeft(d)
    <3>1. y = Finished(z, "all failed")
      BY <1>3, <2>7 DEF DidClose
    <3>2. y.readyState = "CLOSED" /\ y.tr = z.tr
      BY <2>6, <3>1 DEF Finished, SockJS, Whole, Typed
    <3>3. Tried(d)
      <4>1. d.protocols = <<>>
        BY <2>7 DEF NoneLeft
      <4>2. ASSUME NEW j \in 1 .. Len(d.protocols) PROVE FALSE
        BY <4>1, NoneListed
      <4> QED BY <2>4, <4>2 DEF TriedOrLeft, Tried
    <3>4. Tried(y)
      BY <2>5, <3>2, <3>3, DetectedTyped DEF Tried, Used
    <3> QED BY <3>2, <3>4 DEF Fallback
  <2>8. CASE ~NoneLeft(d)
    <3>1. y = z
      BY <1>3, <2>8 DEF DidClose
    <3>2. y.code = "all failed" => Tried(y)
      BY <2>3, <2>5, <3>1, DetectedTyped DEF Tried, Used
    <3> QED BY <2>3, <2>5, <3>1, <3>2 DEF Fallback
  <2> QED BY <2>7, <2>8
<1> QED BY <1>1, <1>2, <1>3

(* A callback of a request, a timer or the sender cannot come before the     *)
(* answer of /info.                                                         *)
LEMMA TouchedFallback ==
  ASSUME NEW x, Fallback(x), NEW y,
         y.readyState = x.readyState, y.ir = x.ir, y.code = x.code,
         y.protocols = x.protocols, Used(x, y),
         x.readyState = "CONNECTING" => ~Untouched(x)
  PROVE  /\ Fallback(y)
         /\ y.readyState = "CONNECTING" => y.ir = "null" /\ TriedOrLeft(y)
<1>1. TriedOrLeft(x) => TriedOrLeft(y)
  BY DetectedTyped DEF TriedOrLeft, Used
<1>2. Tried(x) => Tried(y)
  BY DetectedTyped DEF Tried, Used
<1> QED BY <1>1, <1>2 DEF Fallback

(* What a socket that closes leaves behind, in the cases of Next *)
LEMMA CloseFallback ==
  ASSUME IInv, Fallback(s), NEW x, Whole(x),
         x.readyState = s.readyState, x.ir = s.ir, x.code = s.code,
         x.protocols = s.protocols, Used(s, x),
         s.readyState = "CONNECTING" => ~Untouched(s),
         NEW code \in Codes \ {"all failed"}, NEW force \in BOOLEAN
  PROVE  Fallback(DidClose(x, code, force))
<1>1. Fallback(x) /\ (x.readyState = "CONNECTING" => x.ir = "null" /\ TriedOrLeft(x))
  BY TouchedFallback
<1>2. x.code = "all failed" => Tried(x)
  BY <1>1 DEF Fallback
<1> QED BY <1>1, <1>2, DidCloseFallback

LEMMA FallbackStep ==
  ASSUME IInv, Fallback(s), Next
  PROVE  Fallback(s')
<1>0. /\ Whole(s) /\ s \in SockJS /\ s.tr \in [Protocols -> Transport] /\ s.snd \in Sender
      /\ Used(s, s)
  BY DEF IInv, Whole, Typed, SockJS, Used
<1>1. {"normal", "other", "undefined", "user"} \subseteq Codes \ {"all failed"}
  BY DEF Codes, UserCodes
<1>2. s.code = "all failed" => Tried(s)
  BY DEF Fallback
<1>3. CASE AskInfo
  <2>1. s' = [s EXCEPT !.ir = "asked"] /\ s.ir = "delayed"
    BY <1>3 DEF AskInfo
  <2>2. /\ s'.readyState = s.readyState /\ s'.ir = "asked" /\ s'.code = s.code
        /\ s'.tr = s.tr /\ s'.timer = s.timer /\ s'.waiting = s.waiting /\ s'.snd = s.snd
    BY <1>0, <2>1 DEF SockJS
  <2> QED BY <2>1, <2>2 DEF Fallback, Tried, Untouched
<1>4. CASE InfoUnreadable
  <2>1. s' = [s EXCEPT !.ir = "lost", !.threw = TRUE] /\ s.ir = "asked"
    BY <1>4 DEF InfoUnreadable
  <2>2. /\ s'.readyState = s.readyState /\ s'.ir = "lost" /\ s'.code = s.code
        /\ s'.tr = s.tr /\ s'.timer = s.timer /\ s'.waiting = s.waiting /\ s'.snd = s.snd
    BY <1>0, <2>1 DEF SockJS
  <2> QED BY <2>1, <2>2 DEF Fallback, Tried, Untouched
<1>5. CASE InfoAnswered
  <2> DEFINE x == [s EXCEPT !.ir = "null", !.protocols = DetectProtocols(probed, info)]
  <2>1. x = InfoIs(s, "null", DetectProtocols(probed, info), s.threw)
    BY <1>0 DEF SockJS, InfoIs
  <2>2. ~Answered(s) /\ s.threw \in BOOLEAN
    BY <1>0, <1>5 DEF InfoAnswered, Answered, SockJS
  <2>3. Whole(x)
    BY <1>0, <2>1, <2>2, InfoWhole, DetectTyped
  <2>4. x.ir = "null" /\ x.protocols = Detected /\ x.code = s.code /\ x.tr = s.tr
    BY <1>0 DEF SockJS, Detected
  <2> HIDE DEF x
  <2>5. TriedOrLeft(x)
    BY <2>4 DEF TriedOrLeft
  <2>6. x.code = "all failed" => Tried(x)
    BY <1>2, <2>4 DEF Tried
  <2>7. Fallback(DidClose(x, "undefined", FALSE))
    BY <1>1, <2>3, <2>4, <2>5, <2>6, DidCloseFallback
  <2> QED BY <1>5, <2>7 DEF InfoAnswered, x
<1>6. CASE InfoFailed
  <2> DEFINE x == [s EXCEPT !.ir = "null"]
  <2>1. x = InfoIs(s, "null", s.protocols, s.threw)
    BY <1>0 DEF SockJS, InfoIs
  <2>2. ~Answered(s) /\ s.threw \in BOOLEAN /\ s.protocols \in Seq(Protocols)
    BY <1>0, <1>6 DEF InfoFailed, Answered, SockJS
  <2>3. Whole(x)
    BY <1>0, <2>1, <2>2, InfoWhole
  <2>4. x.code = s.code /\ x.tr = s.tr
    BY <1>0 DEF SockJS
  <2> HIDE DEF x
  <2>5. x.code = "all failed" => Tried(x)
    BY <1>2, <2>4 DEF Tried
  <2>6. GivesUp(x, "other", TRUE)
    BY DEF GivesUp
  <2>7. Fallback(DidClose(x, "other", TRUE))
    BY <1>1, <2>3, <2>5, <2>6, DidCloseFallback
  <2> QED BY <1>6, <2>7 DEF InfoFailed, x
<1>7. CASE TransportTimeout
  <2> DEFINE x == [s EXCEPT !.timer = FALSE]
  <2>1. /\ x \in SockJS /\ x.readyState = s.readyState /\ x.tr = s.tr
        /\ x.transport = s.transport /\ x.pending = s.pending /\ x.waiting = s.waiting
        /\ x.ir = s.ir /\ x.protocols = s.protocols /\ x.last = s.last /\ x.code = s.code
    BY <1>0 DEF SockJS
  <2>2. Whole(x) /\ Used(s, x)
    BY <1>0, <2>1 DEF Whole, Typed, Announced, OneSpeaks, Waits, Answered, Used
  <2>3. ~Untouched(s)
    BY <1>7 DEF TransportTimeout, Untouched
  <2>4. s' \in {x, DidClose(x, "other", FALSE)}
    BY <1>7 DEF TransportTimeout
  <2> HIDE DEF x
  <2>5. Fallback(x)
    BY <2>1, <2>2, <2>3, TouchedFallback
  <2>6. Fallback(DidClose(x, "other", FALSE))
    BY <1>1, <2>1, <2>2, <2>3, CloseFallback
  <2> QED BY <2>4, <2>5, <2>6
<1>8. CASE Load
  <2>1. CASE ~s.waiting
    BY <1>8, <2>1 DEF Load
  <2>2. CASE s.waiting
    <3> DEFINE z == [s EXCEPT !.waiting = FALSE]
    <3>1. s.protocols # <<>>
      BY <1>0, <2>2 DEF Whole, Waits
    <3>2. /\ z \in SockJS /\ z.protocols = s.protocols /\ z.tr = s.tr /\ z.code = s.code
          /\ z.ir = s.ir /\ z.readyState = s.readyState
      BY <1>0 DEF SockJS
    <3>3. s' = Opened(z, Head(z.protocols), Tail(z.protocols))
      BY <1>0, <1>8, <2>2, <3>2 DEF Load, Opened, SockJS
    <3>4. ~Untouched(s)
      BY <2>2 DEF Untouched
    <3> HIDE DEF z
    <3>5. /\ Fallback(z)
          /\ z.readyState = "CONNECTING" => z.ir = "null" /\ TriedOrLeft(z)
      BY <3>2, <3>4, TouchedFallback DEF Used
    <3>6. /\ Used(z, s') /\ s'.code = z.code /\ s'.ir = z.ir
          /\ TriedOrLeft(z) => TriedOrLeft(s')
      BY <3>1, <3>2, <3>3, OpenedUsed
    <3>7. s'.readyState = z.readyState
      BY <3>2, <3>3 DEF Opened, SockJS
    <3>8. Tried(z) => Tried(s')
      BY <3>6, DetectedTyped DEF Tried, Used
    <3> QED BY <3>5, <3>6, <3>7, <3>8 DEF Fallback
  <2> QED BY <2>1, <2>2
<1>9. ASSUME NEW p \in Protocols, AjaxStarts(p) \/ IframeLoaded(p) \/ PollAgain(p)
      PROVE  Fallback(s')
  <2>1. PICK ph \in {"delayed", "waiting", "off"} :
          s' = [s EXCEPT !.tr[p] = [s.tr[p] EXCEPT !.phase = ph]]
    BY <1>9 DEF AjaxStarts, IframeLoaded, PollAgain
  <2>2. ~Untouched(s)
    BY <1>9 DEF AjaxStarts, IframeLoaded, PollAgain, Untouched
  <2>3. /\ s'.readyState = s.readyState /\ s'.ir = s.ir /\ s'.code = s.code
        /\ s'.protocols = s.protocols
        /\ s'.tr = [s.tr EXCEPT ![p] = [s.tr[p] EXCEPT !.phase = ph]]
    BY <1>0, <2>1 DEF SockJS
  <2>4. [s.tr[p] EXCEPT !.phase = ph].phase # "unused"
    BY <1>0 DEF Transport
  <2>5. Used(s, s')
    BY <1>0, <2>3, <2>4 DEF Used
  <2> QED BY <2>2, <2>3, <2>5, TouchedFallback
<1>10. CASE \E p \in Protocols : IframeFailed(p) \/ PollFails(p) \/ Breaks(p)
  <2>1. s' = DidClose(s, "other", FALSE)
    BY <1>10 DEF IframeFailed, PollFails, Breaks, DidMessage
  <2>2. ~Untouched(s)
    BY <1>10 DEF IframeFailed, PollFails, Breaks, Untouched
  <2> QED BY <1>0, <1>1, <2>1, <2>2, CloseFallback
<1>11. ASSUME NEW p \in Protocols, NEW f \in Frames, Receive(p, f)
       PROVE  Fallback(s')
  <2> DEFINE t == [s.tr[p] EXCEPT !.hello = s.tr[p].hello \/ f = "o"]
             x == [s EXCEPT !.tr[p] = t]
  <2>1. (s.tr[p].hello \/ f = "o") \in BOOLEAN
    OBVIOUS
  <2>2. t \in Transport /\ t.attached = s.tr[p].attached /\ t.phase = s.tr[p].phase
    BY <1>0 DEF Transport
  <2>3. Whole(x)
    BY <1>0, <2>2, RequestQuiet
  <2>4. s' = DidMessage(x, f)
    BY <1>11 DEF Receive
  <2>5. /\ x.readyState = s.readyState /\ x.ir = s.ir /\ x.code = s.code
        /\ x.protocols = s.protocols /\ x.tr = [s.tr EXCEPT ![p] = t] /\ x \in SockJS
    BY <1>0, <2>3 DEF SockJS, Whole, Typed
  <2> HIDE DEF x
  <2>6. Used(s, x)
    BY <1>0, <2>2, <2>5 DEF Used
  <2>7. ~Untouched(s)
    BY <1>11 DEF Receive, Untouched
  <2>8. Fallback(x)
    BY <2>5, <2>6, <2>7, TouchedFallback
  <2>9. \A c \in {"other", "user"} : Fallback(DidClose(x, c, FALSE))
    BY <1>1, <2>3, <2>5, <2>6, <2>7, CloseFallback
  <2>10. CASE f = "o" /\ x.readyState = "CONNECTING"
    <3>1. s' = [x EXCEPT !.readyState = "OPEN", !.timer = FALSE, !.last = "open"]
      BY <2>4, <2>10 DEF DidMessage, DispatchOpen
    <3>2. s'.readyState = "OPEN" /\ s'.code = x.code /\ s'.tr = x.tr
      BY <2>5, <3>1 DEF SockJS
    <3> QED BY <2>8, <3>2 DEF Fallback, Tried
  <2>11. CASE f \in {"a", "h"}
    <3>1. PICK e \in {"message", "heartbeat"} : s' = Dispatch(x, e)
      BY <2>4, <2>11 DEF DidMessage
    <3>2. CASE x.readyState # "OPEN"
      BY <2>8, <3>1, <3>2 DEF Dispatch
    <3>3. CASE x.readyState = "OPEN"
      <4>1. s' = [x EXCEPT !.last = e]
        BY <3>1, <3>3 DEF Dispatch
      <4>2. s'.readyState = "OPEN" /\ s'.code = x.code /\ s'.tr = x.tr
        BY <2>5, <3>3, <4>1 DEF SockJS
      <4> QED BY <2>8, <4>2 DEF Fallback, Tried
    <3> QED BY <3>2, <3>3
  <2>12. CASE ~(f = "o" /\ x.readyState = "CONNECTING") /\ f \notin {"a", "h"}
    <3>1. \E c \in {"other", "user"} : s' = DidClose(x, c, FALSE)
      BY <2>4, <2>12 DEF DidMessage, DispatchOpen, Frames
    <3> QED BY <2>9, <3>1
  <2> QED BY <2>10, <2>11, <2>12
<1>12. ASSUME NEW d, s' = [s EXCEPT !.snd = d],
              s.readyState = "CONNECTING" => s.snd # Idle
       PROVE  Fallback(s')
  <2>1. /\ s'.readyState = s.readyState /\ s'.ir = s.ir /\ s'.code = s.code
        /\ s'.protocols = s.protocols /\ s'.tr = s.tr
    BY <1>0, <1>12 DEF SockJS
  <2>2. Used(s, s')
    BY <2>1 DEF Used
  <2> QED BY <1>12, <2>1, <2>2, TouchedFallback DEF Untouched
<1>13. CASE Send
  <2>1. CASE s' = s
    BY <2>1
  <2>2. CASE s' = [s EXCEPT !.snd = DoSend(s.snd, sent', s.transport)]
    BY <1>12, <1>13, <2>2 DEF Send
  <2> QED BY <1>13, <2>1, <2>2 DEF Send
<1>14. CASE PostTaken \/ PostAnswered \/ WaitOver
  <2>1. s.snd # Idle
    BY <1>14 DEF PostTaken, PostAnswered, WaitOver, Idle
  <2>2. PICK d : s' = [s EXCEPT !.snd = d]
    <3>1. CASE PostTaken
      BY <3>1 DEF PostTaken
    <3>2. CASE PostAnswered
      <4>1. s' = [s EXCEPT !.snd = [s.snd EXCEPT !.stop = "wait", !.flight = <<>>]]
        BY <1>0, <3>2 DEF PostAnswered, SockJS
      <4> QED BY <4>1
    <3>3. CASE WaitOver
      BY <3>3 DEF WaitOver
    <3> QED BY <1>14, <3>1, <3>2, <3>3
  <2> QED BY <1>12, <2>1, <2>2
<1>15. CASE PostFails
  <2> DEFINE d == [s.snd EXCEPT !.stop = "null", !.flight = <<>>]
             x == [s EXCEPT !.snd = d]
  <2>0. <<>> \in Seq(1 .. MaxSends)
    OBVIOUS
  <2>1. d \in Sender
    BY <1>0, <2>0 DEF Sender
  <2>2. Whole(x)
    BY <1>0, <2>1, SenderQuiet
  <2>3. x = [s EXCEPT !.snd.stop = "null", !.snd.flight = <<>>]
    BY <1>0 DEF SockJS
  <2>4. /\ x.readyState = s.readyState /\ x.ir = s.ir /\ x.code = s.code
        /\ x.protocols = s.protocols /\ x.tr = s.tr
    BY <1>0 DEF SockJS
  <2> HIDE DEF x
  <2>5. s.snd # Idle
    BY <1>15 DEF PostFails, Idle
  <2>6. Fallback(DidClose(x, "other", FALSE))
    BY <1>1, <2>2, <2>4, <2>5, CloseFallback DEF Used, Untouched
  <2> QED BY <1>15, <2>3, <2>6 DEF PostFails
<1>16. CASE Close
  <2>1. s' = DidClose(s, "normal", FALSE)
    BY <1>16 DEF Close
  <2>2. GivesUp(s, "normal", FALSE)
    BY DEF GivesUp, UserCodes
  <2> QED BY <1>0, <1>1, <1>2, <2>1, <2>2, DidCloseFallback
<1>17. CASE DispatchClose
  <2>1. s' = [s EXCEPT !.pending = s.pending - 1, !.last = "close"]
    BY <1>0, <1>17 DEF DispatchClose, SockJS
  <2>2. s.readyState = "CLOSED"
    BY <1>0, <1>17 DEF DispatchClose, Whole, Announced, SockJS
  <2>3. s'.readyState = "CLOSED" /\ s'.code = s.code /\ s'.tr = s.tr
    BY <1>0, <2>1, <2>2 DEF SockJS
  <2> QED BY <1>2, <2>3 DEF Fallback, Tried
<1> QED BY <1>3, <1>4, <1>5, <1>6, <1>7, <1>8, <1>9, <1>10, <1>11, <1>13, <1>14, <1>15,
           <1>16, <1>17 DEF Next, Timers

(* "All transports failed" is said only after every one was tried, one that   *)
(* polls among them.                                                        *)
THEOREM NothingLeftUntried == Spec => []FallbackExhausted
<1>1. Init => Fallback(s)
  <2> SUFFICES ASSUME Init PROVE Fallback(s)
    OBVIOUS
  <2>1. /\ s.readyState = "CONNECTING" /\ s.ir = "delayed" /\ s.waiting = FALSE
        /\ s.timer = FALSE /\ s.snd = Idle /\ s.code = None
        /\ s.tr = [p \in Protocols |-> Unused]
    BY DEF Init
  <2> QED BY <2>1 DEF Fallback, Untouched, Unused, None
<1>2. IInv /\ Fallback(s) /\ [Next]_vars => Fallback(s)'
  <2> SUFFICES ASSUME IInv, Fallback(s), [Next]_vars PROVE Fallback(s)'
    OBVIOUS
  <2>1. probed' = probed /\ info' = info
    BY DEF Next, Timers, AskInfo, TransportTimeout, Load, DispatchClose, InfoAnswered,
           InfoFailed, InfoUnreadable, AjaxStarts, IframeLoaded, IframeFailed, Receive,
           Breaks, PollAgain, PollFails, Send, PostTaken, PostAnswered, PostFails, WaitOver,
           Close, Environment, vars
  <2>2. Detected' = Detected
    BY <2>1 DEF Detected
  <2>3. Fallback(s')
    BY FallbackStep DEF vars
  <2> QED BY <2>2, <2>3 DEF Fallback, Tried, TriedOrLeft, Untouched
<1>3. IInv /\ Fallback(s) => FallbackExhausted
  <2> SUFFICES ASSUME IInv, Fallback(s), s.code = "all failed"
               PROVE  /\ \A i \in 1 .. Len(Detected) : s.tr[Detected[i]].phase # "unused"
                      /\ \E p \in Polls : s.tr[p].phase # "unused"
    BY DEF FallbackExhausted
  <2>1. \A i \in 1 .. Len(Detected) : s.tr[Detected[i]].phase # "unused"
    BY DEF Fallback, Tried
  <2>2. \E i \in 1 .. Len(Detected) : Detected[i] \in Polls
    BY PollsDetected DEF IInv, TypeOK
  <2> QED BY <2>1, <2>2
<1> QED BY <1>1, <1>2, <1>3, SocketInvariant, PTL DEF Spec

-----------------------------------------------------------------------------
(* The sender.  What the server has, what is posted to it and what waits     *)
(* behind that; a buffer no timer will look at again does not count.         *)
Posted(d) == IF d.stop = "post" THEN d.flight ELSE <<>>
Queued(d) == IF d.stop = "null" THEN <<>> ELSE d.buffer
Line(d, arr) == (arr \o Posted(d)) \o Queued(d)

(* Messages of q are among the first n, in the order they were sent *)
Rises(q, n) ==
  \A i \in 1 .. Len(q) : q[i] <= n /\ \A j \in 1 .. Len(q) : i < j => q[i] < q[j]

(* ... and none of them is left out                                          *)
Numbered(q) == \A i \in 1 .. Len(q) : q[i] = i

Ordered(d, arr, n) ==
  Rises(Line(d, arr), n) /\ (d.via \notin Script => Numbered(Line(d, arr)))

(* The sender is used by the transport of an open socket that is no websocket *)
Serves(x, arr, n) ==
  /\ x.readyState = "CONNECTING" => x.snd = Idle /\ n = 0 /\ arr = <<>>
  /\ x.readyState = "OPEN" => x.snd.via \in {None, x.transport}
InLine(x, arr, n) ==
  /\ Ordered(x.snd, arr, n)
  /\ Serves(x, arr, n)
  /\ x.readyState = "OPEN" =>
       /\ x.snd.stop = "null" => x.snd.buffer = <<>>
       /\ x.transport = "websocket" => x.snd = Idle
       /\ x.snd.via \notin Script => Len(Line(x.snd, arr)) = n

Sent == 1 .. MaxSends

LEMMA LineTyped ==
  ASSUME NEW d \in Sender, NEW arr \in Seq(Sent)
  PROVE  Posted(d) \in Seq(Sent) /\ Queued(d) \in Seq(Sent) /\ Line(d, arr) \in Seq(Sent)
<1>1. <<>> \in Seq(Sent) /\ d.flight \in Seq(Sent) /\ d.buffer \in Seq(Sent)
  BY DEF Sender, Sent
<1>2. Posted(d) \in Seq(Sent) /\ Queued(d) \in Seq(Sent)
  BY <1>1 DEF Posted, Queued
<1> QED BY <1>2 DEF Line

LEMMA AppendRises ==
  ASSUME NEW q \in Seq(Sent), NEW n \in Nat, Rises(q, n)
  PROVE  /\ Rises(Append(q, n + 1), n + 1)
         /\ Len(Append(q, n + 1)) = Len(q) + 1
         /\ Numbered(q) /\ Len(q) = n => Numbered(Append(q, n + 1))
<1> DEFINE r == Append(q, n + 1)
<1>1. /\ Len(q) \in Nat /\ Len(r) = Len(q) + 1 /\ r[Len(q) + 1] = n + 1
      /\ \A i \in 1 .. Len(q) : r[i] = q[i]
      /\ \A i \in 1 .. Len(q) : q[i] \in Nat
  BY SendsAssumption DEF Sent
<1> HIDE DEF r
<1>2. Rises(r, n + 1)
  BY <1>1 DEF Rises
<1>3. Numbered(q) /\ Len(q) = n => Numbered(r)
  BY <1>1 DEF Numbered
<1> QED BY <1>1, <1>2, <1>3 DEF r

(* The order survives when the end is cut off, or a part in the middle *)
LEMMA CutRises ==
  ASSUME NEW a \in Seq(Sent), NEW b \in Seq(Sent), NEW c \in Seq(Sent), NEW n,
         Rises((a \o b) \o c, n)
  PROVE  /\ Rises(a, n) /\ Rises(a \o c, n)
         /\ Numbered((a \o b) \o c) => Numbered(a)
<1> DEFINE q == (a \o b) \o c
           r == a \o c
<1>1. Len(a) \in Nat /\ Len(b) \in Nat /\ Len(c) \in Nat
  OBVIOUS
<1>2. a \o b \in Seq(Sent) /\ Len(a \o b) = Len(a) + Len(b)
  OBVIOUS
<1>3. \A i \in 1 .. Len(a) : (a \o b)[i] = a[i]
  OBVIOUS
<1>4. /\ Len(q) = Len(a) + Len(b) + Len(c)
      /\ \A i \in 1 .. Len(a) + Len(b) : q[i] = (a \o b)[i]
      /\ \A i \in 1 .. Len(c) : q[Len(a) + Len(b) + i] = c[i]
  BY <1>1, <1>2
<1>5. /\ Len(r) = Len(a) + Len(c)
      /\ \A i \in 1 .. Len(a) : r[i] = a[i]
      /\ \A i \in 1 .. Len(c) : r[Len(a) + i] = c[i]
  BY <1>1
<1> HIDE DEF q, r
<1>6. /\ Len(a) <= Len(q) /\ Len(a) + Len(b) <= Len(q)
      /\ \A i \in 1 .. Len(a) : i \in 1 .. Len(q) /\ q[i] = a[i]
  <2>1. Len(a) <= Len(q) /\ Len(a) + Len(b) <= Len(q)
    BY <1>1, <1>4
  <2>2. \A i \in 1 .. Len(a) : i \in 1 .. Len(q) /\ i \in 1 .. Len(a) + Len(b)
    BY <1>1, <2>1
  <2>3. QED
    BY <1>3, <1>4, <2>1, <2>2
<1>7. \A i \in 1 .. Len(r) :
        \/ i \in 1 .. Len(a) /\ r[i] = q[i]
        \/ i \notin 1 .. Len(a) /\ i + Len(b) \in 1 .. Len(q) /\ r[i] = q[i + Len(b)]
  <2> SUFFICES ASSUME NEW i \in 1 .. Len(r), i \notin 1 .. Len(a)
               PROVE  i + Len(b) \in 1 .. Len(q) /\ r[i] = q[i + Len(b)]
    BY <1>5, <1>6
  <2>1. i - Len(a) \in 1 .. Len(c) /\ i \in Nat
    BY <1>1, <1>5
  <2>2. r[Len(a) + (i - Len(a))] = c[i - Len(a)]
    BY <1>5, <2>1
  <2>3. q[Len(a) + Len(b) + (i - Len(a))] = c[i - Len(a)]
    BY <1>4, <2>1
  <2>4. Len(a) + (i - Len(a)) = i /\ Len(a) + Len(b) + (i - Len(a)) = i + Len(b)
    BY <1>1, <2>1
  <2>5. r[i] = q[i + Len(b)]
    BY <2>2, <2>3, <2>4
  <2>6. i + Len(b) \in 1 .. Len(q)
    BY <1>1, <1>4, <2>1
  <2> QED BY <2>5, <2>6
<1>8. Rises(q, n)
  BY DEF q
<1>9. Rises(a, n)
  BY <1>6, <1>8 DEF Rises
<1>10. Rises(r, n)
  <2> SUFFICES ASSUME NEW i \in 1 .. Len(r)
               PROVE  r[i] <= n /\ \A j \in 1 .. Len(r) : i < j => r[i] < r[j]
    BY DEF Rises
  <2>1. r[i] <= n
    BY <1>6, <1>7, <1>8 DEF Rises
  <2>2. ASSUME NEW j \in 1 .. Len(r), i < j PROVE r[i] < r[j]
    <3>1. CASE j \in 1 .. Len(a)
      <4>1. i \in 1 .. Len(a)
        BY <1>1, <2>2, <3>1
      <4> QED BY <1>6, <1>7, <1>8, <2>2, <3>1, <4>1 DEF Rises
    <3>2. CASE i \in 1 .. Len(a) /\ j \notin 1 .. Len(a)
      <4>1. j + Len(b) \in 1 .. Len(q) /\ r[j] = q[j + Len(b)]
        BY <1>7, <3>2
      <4>2. i \in 1 .. Len(q) /\ r[i] = q[i] /\ i < j + Len(b)
        BY <1>1, <1>6, <1>7, <2>2, <3>2
      <4> QED BY <1>8, <4>1, <4>2 DEF Rises
    <3>3. CASE i \notin 1 .. Len(a) /\ j \notin 1 .. Len(a)
      <4>1. j + Len(b) \in 1 .. Len(q) /\ r[j] = q[j + Len(b)]
        BY <1>7, <3>3
      <4>2. i + Len(b) \in 1 .. Len(q) /\ r[i] = q[i + Len(b)] /\ i + Len(b) < j + Len(b)
        BY <1>1, <1>7, <2>2, <3>3
      <4> QED BY <1>8, <4>1, <4>2 DEF Rises
    <3> QED BY <3>1, <3>2, <3>3
  <2> QED BY <2>1, <2>2
<1>11. Numbered(q) => Numbered(a)
  BY <1>6 DEF Numbered
<1> QED BY <1>9, <1>10, <1>11 DEF q, r

(* A sender that is gone leaves what the server has *)
LEMMA IdleOrdered ==
  ASSUME NEW d \in Sender, NEW arr \in Seq(Sent), NEW n,
         Ordered(d, arr, n), d.via \notin Script
  PROVE  Ordered(Idle, arr, n)
<1>1. Idle.stop = "null" /\ Idle.via = None
  BY DEF Idle
<1>2. <<>> \in Seq(Sent) /\ arr \o <<>> = arr
  OBVIOUS
<1>3. Line(Idle, arr) = arr
  BY <1>1, <1>2 DEF Line, Posted, Queued
<1>4. Posted(d) \in Seq(Sent) /\ Queued(d) \in Seq(Sent)
  BY LineTyped
<1>5. Rises(arr, n) /\ Numbered(arr)
  BY <1>4, CutRises DEF Ordered, Line
<1> QED BY <1>3, <1>5 DEF Ordered

(* _didClose, whatever it does, loses at most what was not sent yet *)
LEMMA DidCloseInLine ==
  ASSUME NEW x, Whole(x), NEW arr \in Seq(Sent), NEW n,
         Ordered(x.snd, arr, n), Serves(x, arr, n),
         NEW code \in Codes, NEW force \in BOOLEAN
  PROVE  InLine(DidClose(x, code, force), arr, n)
<1> DEFINE y == DidClose(x, code, force)
           d == Dropped(x)
<1>0. x \in SockJS /\ x.snd \in Sender
  BY DEF Whole, Typed, SockJS
<1>1. CASE x.readyState = "CLOSED"
  <2>1. y = [x EXCEPT !.threw = TRUE]
    BY <1>1 DEF DidClose
  <2>2. y.readyState = "CLOSED" /\ y.snd = x.snd
    BY <1>0, <1>1, <2>1 DEF SockJS
  <2> QED BY <2>2 DEF InLine, Serves
<1>2. CASE x.readyState # "CLOSED"
  <2>1. /\ Whole(d) /\ d.transport = None /\ d.readyState = x.readyState /\ Answered(d)
        /\ x.transport \notin Iframe => d.snd = x.snd
        /\ x.transport \in Iframe => d.snd = Idle
    BY DroppedWhole, DroppedUsed
  <2>2. x.transport \in Iframe => x.snd.via \notin Script
    <3>1. CASE x.readyState = "CONNECTING"
      BY <3>1 DEF Serves, Idle, None, Script
    <3>2. CASE x.readyState = "OPEN"
      BY <3>2 DEF Serves, Iframe, None, Script
    <3> QED BY <1>0, <1>2, <3>1, <3>2 DEF SockJS
  <2>3. Ordered(d.snd, arr, n)
    BY <1>0, <2>1, <2>2, IdleOrdered
  <2>4. Whole(TryNext(d)) /\ TryNext(d).readyState = d.readyState /\ TryNext(d).snd = d.snd
    BY <2>1, TryNextWhole, TryNextUsed DEF Stays
  <2>5. CASE GivesUp(x, code, force) \/ NoneLeft(d)
    <3>1. y \in {Finished(d, code), Finished(TryNext(d), "all failed")}
      BY <1>2, <2>5 DEF DidClose
    <3>2. y.readyState = "CLOSED" /\ y.snd = d.snd
      BY <2>1, <2>4, <3>1, ZenonT(60) DEF Finished, Whole, Typed, SockJS
    <3> QED BY <2>3, <3>2 DEF InLine, Serves
  <2>6. CASE ~(GivesUp(x, code, force) \/ NoneLeft(d))
    <3>1. y = TryNext(d)
      BY <1>2, <2>6 DEF DidClose
    <3>2. x.readyState = "CONNECTING"
      BY <2>6 DEF GivesUp
    <3>3. d.snd = Idle /\ n = 0 /\ arr = <<>>
      BY <2>1, <3>2 DEF Serves
    <3> QED BY <2>1, <2>3, <2>4, <3>1, <3>2, <3>3 DEF InLine, Serves
  <2> QED BY <2>5, <2>6
<1> QED BY <1>1, <1>2

(* send() puts a message at the end of the line *)
LEMMA SendInLine ==
  ASSUME NEW d \in Sender, NEW arr \in Seq(Sent), NEW n \in Nat, n + 1 \in Sent,
         NEW p \in Protocols \cup {None}, d.via \in {None, p},
         d.stop = "null" => d.buffer = <<>>,
         d.via \notin Script => Len(Line(d, arr)) = n,
         Ordered(d, arr, n)
  PROVE  LET e == DoSend(d, n + 1, p)
         IN  /\ Ordered(e, arr, n + 1) /\ e.via = p /\ e.stop # "null"
             /\ e.via \notin Script => Len(Line(e, arr)) = n + 1
<1> DEFINE m == n + 1
           e == DoSend(d, m, p)
           f == [d EXCEPT !.buffer = Append(d.buffer, m), !.via = p]
<1>1. d.buffer \in Seq(Sent) /\ d.flight \in Seq(Sent) /\ Append(d.buffer, m) \in Seq(Sent)
  BY DEF Sender, Sent
<1>2. /\ f.buffer = Append(d.buffer, m) /\ f.via = p /\ f.stop = d.stop
      /\ f.flight = d.flight /\ f \in Sender
  BY <1>1 DEF Sender, Sent
<1>3. e = IF d.stop = "null" THEN Schedule(f) ELSE f
  BY DEF DoSend
<1>4. Posted(d) \in Seq(Sent) /\ Queued(d) \in Seq(Sent) /\ Line(d, arr) \in Seq(Sent)
  BY LineTyped
<1>5. \A q \in Seq(Sent) : q \o <<>> = q
  OBVIOUS
<1> HIDE DEF e, f, m
<1>6. /\ Line(e, arr) = Append(Line(d, arr), m)
      /\ e.via = p /\ e.stop # "null"
  <2>1. CASE d.stop = "null"
    <3>1. d.buffer = <<>> /\ Line(d, arr) = arr
      BY <1>5, <2>1 DEF Line, Posted, Queued
    <3>2. f.buffer = <<m>> /\ f.buffer # <<>>
      BY <1>2, <3>1
    <3>3. e = [f EXCEPT !.flight = f.buffer, !.buffer = <<>>, !.stop = "post"]
      BY <1>3, <2>1, <3>2 DEF Schedule
    <3>4. e.flight = <<m>> /\ e.buffer = <<>> /\ e.stop = "post" /\ e.via = p
      BY <1>2, <3>2, <3>3 DEF Sender
    <3>5. Line(e, arr) = (arr \o <<m>>) \o <<>>
      BY <3>4 DEF Line, Posted, Queued
    <3>6. <<m>> \in Seq(Sent) /\ arr \o <<m>> = Append(arr, m) /\ arr \o <<m>> \in Seq(Sent)
      BY DEF m
    <3> QED BY <1>5, <3>1, <3>4, <3>5, <3>6
  <2>2. CASE d.stop # "null"
    <3>1. e = f
      BY <1>3, <2>2
    <3>2. Line(e, arr) = (arr \o Posted(d)) \o Append(d.buffer, m)
      BY <1>2, <2>2, <3>1 DEF Line, Posted, Queued
    <3>3. Line(d, arr) = (arr \o Posted(d)) \o d.buffer
      BY <2>2 DEF Line, Queued
    <3>4. m \in Sent
      BY DEF m
    <3>5. ASSUME NEW a \in Seq(Sent), NEW b \in Seq(Sent)
          PROVE  a \o Append(b, m) = Append(a \o b, m)
      BY <3>4
    <3>6. arr \o Posted(d) \in Seq(Sent)
      BY <1>4
    <3> QED BY <1>1, <1>2, <2>2, <3>1, <3>2, <3>3, <3>5, <3>6
  <2> QED BY <2>1, <2>2
<1>7. /\ Rises(Append(Line(d, arr), m), m)
      /\ Len(Append(Line(d, arr), m)) = Len(Line(d, arr)) + 1
      /\ Numbered(Line(d, arr)) /\ Len(Line(d, arr)) = n => Numbered(Append(Line(d, arr), m))
  BY <1>4, AppendRises DEF Ordered, m
<1>8. p \notin Script => d.via \notin Script
  BY DEF None, Script
<1>9. Ordered(e, arr, m) /\ (e.via \notin Script => Len(Line(e, arr)) = m)
  BY <1>6, <1>7, <1>8 DEF Ordered, m
<1> QED BY <1>6, <1>9 DEF e, m

(* A callback that does not concern the sender *)
LEMMA ApartInLine ==
  ASSUME NEW x, NEW arr, NEW n, InLine(x, arr, n), NEW y,
         y.snd = x.snd, y.readyState = x.readyState, y.transport = x.transport
  PROVE  InLine(y, arr, n)
  BY DEF InLine, Serves

LEMMA ApartCloseInLine ==
  ASSUME NEW x, NEW arr \in Seq(Sent), NEW n, InLine(x, arr, n), NEW y, Whole(y),
         y.snd = x.snd, y.readyState = x.readyState, y.transport = x.transport,
         NEW code \in Codes, NEW force \in BOOLEAN
  PROVE  InLine(DidClose(y, code, force), arr, n)
<1>1. Ordered(y.snd, arr, n) /\ Serves(y, arr, n)
  BY DEF InLine, Serves
<1> QED BY <1>1, DidCloseInLine

(* The callbacks of the sender: the line stays, or loses what a form was      *)
(* posted with.                                                             *)
LEMMA SenderInLine ==
  ASSUME IInv, InLine(s, arrived, sent), PostTaken \/ PostAnswered \/ WaitOver
  PROVE  InLine(s', arrived', sent')
<1> DEFINE d == s.snd
           e == s'.snd
<1>0. /\ s \in SockJS /\ d \in Sender /\ arrived \in Seq(Sent)
      /\ d.flight \in Seq(Sent) /\ d.buffer \in Seq(Sent)
  BY DEF IInv, TypeOK, SockJS, Sender, Sent
<1>1. d # Idle /\ d.stop # "null"
  BY DEF PostTaken, PostAnswered, WaitOver, Idle
<1>2. <<>> \in Seq(Sent) /\ \A q \in Seq(Sent) : q \o <<>> = q
  OBVIOUS
<1>3. /\ s'.readyState = s.readyState /\ s'.transport = s.transport /\ sent' = sent
      /\ e.via = d.via
      /\ e.stop = "null" => e.buffer = <<>>
      /\ \/ Line(e, arrived') = Line(d, arrived)
         \/ d.via \in Script /\ Rises(Line(e, arrived'), sent)
  <2>1. CASE PostTaken
    <3>1. s' = [s EXCEPT !.snd = [d EXCEPT !.stop = "taken"]]
          /\ arrived' = arrived \o d.flight /\ sent' = sent /\ d.stop = "post"
      BY <2>1 DEF PostTaken
    <3>2. /\ s'.readyState = s.readyState /\ s'.transport = s.transport
          /\ e.stop = "taken" /\ e.via = d.via /\ e.buffer = d.buffer
      BY <1>0, <3>1 DEF SockJS, Sender
    <3>3. Line(e, arrived') = ((arrived \o d.flight) \o <<>>) \o d.buffer
      BY <3>1, <3>2 DEF Line, Posted, Queued
    <3>4. Line(d, arrived) = (arrived \o d.flight) \o d.buffer
      BY <3>1 DEF Line, Posted, Queued
    <3>5. arrived \o d.flight \in Seq(Sent)
      BY <1>0
    <3> QED BY <1>2, <3>1, <3>2, <3>3, <3>4, <3>5
  <2>2. CASE PostAnswered
    <3>1. /\ s' = [s EXCEPT !.snd = [d EXCEPT !.stop = "wait", !.flight = <<>>]]
          /\ arrived' = arrived /\ sent' = sent
          /\ d.stop = "taken" \/ (d.stop = "post" /\ d.via \in Script)
      BY <1>0, <2>2 DEF PostAnswered, History, SockJS
    <3>2. /\ s'.readyState = s.readyState /\ s'.transport = s.transport
          /\ e.stop = "wait" /\ e.via = d.via /\ e.buffer = d.buffer
      BY <1>0, <3>1 DEF SockJS, Sender
    <3>3. Line(e, arrived') = (arrived \o <<>>) \o d.buffer
      BY <3>1, <3>2 DEF Line, Posted, Queued
    <3>4. CASE d.stop = "taken"
      <4>1. Line(d, arrived) = (arrived \o <<>>) \o d.buffer
        BY <3>4 DEF Line, Posted, Queued
      <4> QED BY <3>1, <3>2, <3>3, <4>1
    <3>5. CASE d.stop = "post" /\ d.via \in Script
      <4>1. Line(d, arrived) = (arrived \o d.flight) \o d.buffer
        BY <3>5 DEF Line, Posted, Queued
      <4>2. Line(e, arrived') = arrived \o d.buffer
        BY <1>0, <1>2, <3>3
      <4>3. Rises((arrived \o d.flight) \o d.buffer, sent)
        BY <4>1 DEF InLine, Ordered
      <4>4. Rises(arrived \o d.buffer, sent)
        BY <1>0, <4>3, CutRises
      <4> QED BY <3>1, <3>2, <3>5, <4>2, <4>4
    <3> QED BY <3>1, <3>4, <3>5
  <2>3. CASE WaitOver
    <3> DEFINE g == [d EXCEPT !.stop = "null"]
    <3>1. /\ s' = [s EXCEPT !.snd = Schedule(g)]
          /\ arrived' = arrived /\ sent' = sent /\ d.stop = "wait"
      BY <2>3 DEF WaitOver, History, WaitedOut
    <3>2. g.stop = "null" /\ g.via = d.via /\ g.buffer = d.buffer /\ g \in Sender
      BY <1>0 DEF Sender
    <3>3. /\ s'.readyState = s.readyState /\ s'.transport = s.transport /\ e = Schedule(g)
      BY <1>0, <3>1 DEF SockJS
    <3> HIDE DEF g
    <3>4. Line(d, arrived) = (arrived \o <<>>) \o d.buffer
      BY <3>1 DEF Line, Posted, Queued
    <3>5. CASE g.buffer = <<>>
      <4>1. e = g
        BY <3>3, <3>5 DEF Schedule
      <4>2. Line(e, arrived') = (arrived \o <<>>) \o <<>>
        BY <3>1, <3>2, <4>1 DEF Line, Posted, Queued
      <4> QED BY <3>1, <3>2, <3>3, <3>4, <3>5, <4>1, <4>2
    <3>6. CASE g.buffer # <<>>
      <4>1. e = [g EXCEPT !.flight = g.buffer, !.buffer = <<>>, !.stop = "post"]
        BY <3>3, <3>6 DEF Schedule
      <4>2. e.flight = d.buffer /\ e.buffer = <<>> /\ e.stop = "post" /\ e.via = d.via
        BY <3>2, <4>1 DEF Sender
      <4>3. Line(e, arrived') = (arrived \o d.buffer) \o <<>>
        BY <3>1, <4>2 DEF Line, Posted, Queued
      <4>4. arrived \o d.buffer \in Seq(Sent) /\ arrived \o <<>> = arrived
        BY <1>0
      <4> QED BY <1>2, <3>1, <3>3, <3>4, <4>2, <4>3, <4>4
    <3> QED BY <3>5, <3>6
  <2> QED BY <2>1, <2>2, <2>3
<1> HIDE DEF d, e
<1>4. Ordered(d, arrived, sent) /\ Serves(s, arrived, sent) /\ s.snd = d /\ s'.snd = e
  BY DEF InLine, d, e
<1>5. s.readyState # "CONNECTING"
  BY <1>1, <1>4 DEF Serves
<1>6. Ordered(e, arrived', sent')
  BY <1>3, <1>4 DEF Ordered
<1>7. Serves(s', arrived', sent')
  BY <1>3, <1>4, <1>5 DEF Serves
<1>8. s.readyState = "OPEN" =>
        s.transport # "websocket" /\ (d.via \notin Script => Len(Line(d, arrived)) = sent)
  BY <1>1, <1>4 DEF InLine
<1> QED BY <1>3, <1>4, <1>6, <1>7, <1>8 DEF InLine

LEMMA OpenedInLine ==
  ASSUME NEW x, Whole(x), x.snd = Idle
  PROVE  LET y == [x EXCEPT !.readyState = "OPEN", !.timer = FALSE, !.last = "open"]
         IN  InLine(y, <<>>, 0)
<1> DEFINE y == [x EXCEPT !.readyState = "OPEN", !.timer = FALSE, !.last = "open"]
<1>1. y.readyState = "OPEN" /\ y.snd = Idle
  BY DEF Whole, Typed, SockJS
<1>2. Idle.stop = "null" /\ Idle.via = None /\ Idle.buffer = <<>>
  BY DEF Idle
<1>3. Posted(Idle) = <<>> /\ Queued(Idle) = <<>>
  BY <1>2 DEF Posted, Queued
<1>4. Line(Idle, <<>>) = <<>>
  <2>1. <<>> \o <<>> = <<>>
    OBVIOUS
  <2> QED BY <1>3, <2>1 DEF Line
<1>5. Len(<<>>) = 0
  BY EmptySeq
<1>6. Rises(<<>>, 0) /\ Numbered(<<>>)
  BY NoneListed DEF Rises, Numbered
<1> HIDE DEF y
<1> QED BY <1>1, <1>2, <1>4, <1>5, <1>6 DEF InLine, Ordered, Serves, y

LEMMA SendStepInLine ==
  ASSUME IInv, InLine(s, arrived, sent), Send
  PROVE  InLine(s', arrived', sent')
<1>0. /\ s \in SockJS /\ s.snd \in Sender /\ arrived \in Seq(Sent)
      /\ sent \in Nat /\ sent + 1 \in Sent /\ sent' = sent + 1
      /\ s.readyState = "OPEN" /\ s.transport \in Protocols \cup {None}
  BY SendsAssumption DEF IInv, TypeOK, SockJS, Send, Sent
<1>1. /\ Ordered(s.snd, arrived, sent)
      /\ s.snd.via \in {None, s.transport}
      /\ s.snd.stop = "null" => s.snd.buffer = <<>>
      /\ s.transport = "websocket" => s.snd = Idle
      /\ s.snd.via \notin Script => Len(Line(s.snd, arrived)) = sent
  BY <1>0 DEF InLine, Serves
<1>2. CASE s.transport = "websocket"
  <2>1. arrived' = Append(arrived, sent + 1) /\ s' = s
    BY <1>0, <1>2 DEF Send
  <2>2. Idle.stop = "null" /\ Idle.via = None /\ Idle.buffer = <<>> /\ None \notin Script
    BY DEF Idle, None, Script
  <2>3. \A q \in Seq(Sent) : Line(Idle, q) = q
    <3>1. \A q \in Seq(Sent) : (q \o <<>>) \o <<>> = q
      OBVIOUS
    <3> QED BY <2>2, <3>1 DEF Line, Posted, Queued
  <2>4. Rises(arrived, sent) /\ Numbered(arrived) /\ Len(arrived) = sent
    BY <1>0, <1>1, <1>2, <2>2, <2>3 DEF Ordered
  <2>5. /\ Rises(Append(arrived, sent + 1), sent + 1)
        /\ Numbered(Append(arrived, sent + 1))
        /\ Len(Append(arrived, sent + 1)) = sent + 1
    BY <1>0, <2>4, AppendRises
  <2>6. Append(arrived, sent + 1) \in Seq(Sent)
    BY <1>0
  <2>7. Line(Idle, arrived') = Append(arrived, sent + 1)
    BY <2>1, <2>3, <2>6
  <2> QED BY <1>0, <1>1, <1>2, <2>1, <2>2, <2>5, <2>7 DEF InLine, Ordered, Serves
<1>3. CASE s.transport # "websocket"
  <2> DEFINE e == DoSend(s.snd, sent + 1, s.transport)
  <2>1. s' = [s EXCEPT !.snd = e] /\ arrived' = arrived
    BY <1>0, <1>3 DEF Send
  <2>2. /\ Ordered(e, arrived, sent + 1) /\ e.via = s.transport /\ e.stop # "null"
        /\ e.via \notin Script => Len(Line(e, arrived)) = sent + 1
    BY <1>0, <1>1, SendInLine
  <2> HIDE DEF e
  <2>3. s'.snd = e /\ s'.readyState = "OPEN" /\ s'.transport = s.transport
    BY <1>0, <2>1 DEF SockJS
  <2> QED BY <1>0, <1>3, <2>1, <2>2, <2>3 DEF InLine, Serves
<1> QED BY <1>2, <1>3

LEMMA InLineStep ==
  ASSUME IInv, InLine(s, arrived, sent), Next
  PROVE  InLine(s', arrived', sent')
<1>0. /\ Whole(s) /\ s \in SockJS /\ s.tr \in [Protocols -> Transport] /\ s.snd \in Sender
      /\ arrived \in Seq(Sent)
  BY DEF IInv, Whole, Typed, SockJS, TypeOK, Sent
<1>1. {"normal", "other", "undefined", "user"} \subseteq Codes
  BY DEF Codes, UserCodes
<1>2. CASE AskInfo \/ InfoUnreadable \/ DispatchClose
  <2>1. arrived' = arrived /\ sent' = sent
    BY <1>2 DEF AskInfo, InfoUnreadable, DispatchClose, History
  <2>2. s'.snd = s.snd /\ s'.readyState = s.readyState /\ s'.transport = s.transport
    BY <1>0, <1>2 DEF AskInfo, InfoUnreadable, DispatchClose, SockJS
  <2> QED BY <2>1, <2>2, ApartInLine
<1>3. CASE InfoAnswered
  <2> DEFINE x == [s EXCEPT !.ir = "null", !.protocols = DetectProtocols(probed, info)]
  <2>1. x = InfoIs(s, "null", DetectProtocols(probed, info), s.threw)
    BY <1>0 DEF SockJS, InfoIs
  <2>2. ~Answered(s) /\ s.threw \in BOOLEAN
    BY <1>0, <1>3 DEF InfoAnswered, Answered, SockJS
  <2>3. Whole(x)
    BY <1>0, <2>1, <2>2, InfoWhole, DetectTyped
  <2>4. x.snd = s.snd /\ x.readyState = s.readyState /\ x.transport = s.transport
    BY <1>0 DEF SockJS
  <2> HIDE DEF x
  <2>5. InLine(DidClose(x, "undefined", FALSE), arrived, sent)
    BY <1>0, <1>1, <2>3, <2>4, ApartCloseInLine
  <2> QED BY <1>3, <2>5 DEF InfoAnswered, History, x
<1>4. CASE InfoFailed
  <2> DEFINE x == [s EXCEPT !.ir = "null"]
  <2>1. x = InfoIs(s, "null", s.protocols, s.threw)
    BY <1>0 DEF SockJS, InfoIs
  <2>2. ~Answered(s) /\ s.threw \in BOOLEAN /\ s.protocols \in Seq(Protocols)
    BY <1>0, <1>4 DEF InfoFailed, Answered, SockJS
  <2>3. Whole(x)
    BY <1>0, <2>1, <2>2, InfoWhole
  <2>4. x.snd = s.snd /\ x.readyState = s.readyState /\ x.transport = s.transport
    BY <1>0 DEF SockJS
  <2> HIDE DEF x
  <2>5. InLine(DidClose(x, "other", TRUE), arrived, sent)
    BY <1>0, <1>1, <2>3, <2>4, ApartCloseInLine
  <2> QED BY <1>4, <2>5 DEF InfoFailed, History, x
<1>5. CASE TransportTimeout
  <2> DEFINE x == [s EXCEPT !.timer = FALSE]
  <2>1. /\ x \in SockJS /\ x.readyState = s.readyState /\ x.tr = s.tr
        /\ x.transport = s.transport /\ x.pending = s.pending /\ x.waiting = s.waiting
        /\ x.ir = s.ir /\ x.protocols = s.protocols /\ x.last = s.last /\ x.snd = s.snd
    BY <1>0 DEF SockJS
  <2>2. Whole(x)
    BY <1>0, <2>1 DEF Whole, Typed, Announced, OneSpeaks, Waits, Answered
  <2>3. s' \in {x, DidClose(x, "other", FALSE)} /\ arrived' = arrived /\ sent' = sent
    BY <1>5 DEF TransportTimeout, History
  <2> HIDE DEF x
  <2>4. InLine(x, arrived, sent)
    BY <2>1, ApartInLine
  <2>5. InLine(DidClose(x, "other", FALSE), arrived, sent)
    BY <1>0, <1>1, <2>1, <2>2, ApartCloseInLine
  <2> QED BY <2>3, <2>4, <2>5
<1>6. CASE Load
  <2>1. arrived' = arrived /\ sent' = sent
    BY <1>6 DEF Load, History
  <2>2. CASE ~s.waiting
    BY <1>6, <2>1, <2>2 DEF Load
  <2>3. CASE s.waiting
    <3>1. s.transport = None /\ Head(s.protocols) # "websocket"
      BY <1>0, <2>3 DEF Whole, Waits, NeedBody, Iframe, Script
    <3>2. s'.snd = s.snd /\ s'.readyState = s.readyState /\ s'.transport = Head(s.protocols)
      BY <1>0, <1>6, <2>3 DEF Load, SockJS
    <3> QED BY <2>1, <3>1, <3>2 DEF InLine, Serves
  <2> QED BY <2>2, <2>3
<1>7. CASE \E p \in Protocols : AjaxStarts(p) \/ IframeLoaded(p) \/ PollAgain(p)
  <2>1. arrived' = arrived /\ sent' = sent
    BY <1>7 DEF AjaxStarts, IframeLoaded, PollAgain, History
  <2>2. s'.snd = s.snd /\ s'.readyState = s.readyState /\ s'.transport = s.transport
    BY <1>0, <1>7 DEF AjaxStarts, IframeLoaded, PollAgain, SockJS
  <2> QED BY <2>1, <2>2, ApartInLine
<1>8. CASE Close \/ \E p \in Protocols : IframeFailed(p) \/ PollFails(p) \/ Breaks(p)
  <2>1. /\ s' \in {DidClose(s, "normal", FALSE), DidClose(s, "other", FALSE)}
        /\ arrived' = arrived /\ sent' = sent
    BY <1>8 DEF Close, IframeFailed, PollFails, Breaks, DidMessage, History
  <2> QED BY <1>0, <1>1, <2>1, ApartCloseInLine
<1>9. ASSUME NEW p \in Protocols, NEW f \in Frames, Receive(p, f)
      PROVE  InLine(s', arrived', sent')
  <2> DEFINE t == [s.tr[p] EXCEPT !.hello = s.tr[p].hello \/ f = "o"]
             x == [s EXCEPT !.tr[p] = t]
  <2>1. (s.tr[p].hello \/ f = "o") \in BOOLEAN
    OBVIOUS
  <2>2. t \in Transport /\ t.attached = s.tr[p].attached
    BY <1>0 DEF Transport
  <2>3. Whole(x)
    BY <1>0, <2>2, RequestQuiet
  <2>4. s' = DidMessage(x, f) /\ arrived' = arrived /\ sent' = sent
    BY <1>9 DEF Receive, History
  <2>5. x.snd = s.snd /\ x.readyState = s.readyState /\ x.transport = s.transport
    BY <1>0 DEF SockJS
  <2> HIDE DEF x
  <2>6. InLine(x, arrived, sent)
    BY <2>5, ApartInLine
  <2>7. \A c \in {"other", "user"} : InLine(DidClose(x, c, FALSE), arrived, sent)
    BY <1>0, <1>1, <2>3, <2>5, ApartCloseInLine
  <2>8. CASE f = "o" /\ x.readyState = "CONNECTING"
    <3>1. s' = [x EXCEPT !.readyState = "OPEN", !.timer = FALSE, !.last = "open"]
      BY <2>4, <2>8 DEF DidMessage, DispatchOpen
    <3>2. x.snd = Idle /\ sent = 0 /\ arrived = <<>>
      BY <2>6, <2>8 DEF InLine, Serves
    <3> QED BY <2>3, <2>4, <3>1, <3>2, OpenedInLine
  <2>9. CASE f \in {"a", "h"}
    <3>1. PICK e \in {"message", "heartbeat"} : s' = Dispatch(x, e)
      BY <2>4, <2>9 DEF DidMessage
    <3>2. s'.snd = x.snd /\ s'.readyState = x.readyState /\ s'.transport = x.transport
      BY <2>3, <3>1 DEF Dispatch, Whole, Typed, SockJS
    <3> QED BY <2>4, <2>6, <3>2, ApartInLine
  <2>10. CASE ~(f = "o" /\ x.readyState = "CONNECTING") /\ f \notin {"a", "h"}
    <3>1. \E c \in {"other", "user"} : s' = DidClose(x, c, FALSE)
      BY <2>4, <2>10 DEF DidMessage, DispatchOpen, Frames
    <3> QED BY <2>4, <2>7, <3>1
  <2> QED BY <2>8, <2>9, <2>10
<1>10. CASE PostFails
  <2> DEFINE d == [s.snd EXCEPT !.stop = "null", !.flight = <<>>]
             x == [s EXCEPT !.snd = d]
  <2>1. d \in Sender /\ d.stop = "null" /\ d.via = s.snd.via
    <3>1. <<>> \in Seq(1 .. MaxSends)
      OBVIOUS
    <3> QED BY <1>0, <3>1 DEF Sender
  <2>2. Whole(x)
    BY <1>0, <2>1, SenderQuiet
  <2>3. x = [s EXCEPT !.snd.stop = "null", !.snd.flight = <<>>]
    BY <1>0 DEF SockJS
  <2>4. x.readyState = s.readyState /\ x.transport = s.transport /\ x.snd = d
    BY <1>0 DEF SockJS
  <2> HIDE DEF x, d
  <2>5. Line(d, arrived) = Line(Idle, arrived) /\ None \notin Script /\ Idle.via = None
    BY <2>1 DEF Line, Posted, Queued, Idle, None, Script
  <2>6. s.snd.via \notin Script /\ s.snd # Idle
    BY <1>10 DEF PostFails, Idle
  <2>7. Ordered(s.snd, arrived, sent) /\ Serves(s, arrived, sent)
    BY DEF InLine
  <2>8. Ordered(Idle, arrived, sent)
    BY <1>0, <2>6, <2>7, IdleOrdered
  <2>9. Ordered(x.snd, arrived, sent)
    BY <2>4, <2>5, <2>8 DEF Ordered
  <2>10. Serves(x, arrived, sent)
    BY <2>1, <2>4, <2>6, <2>7 DEF Serves
  <2>11. InLine(DidClose(x, "other", FALSE), arrived, sent)
    BY <1>0, <1>1, <2>2, <2>9, <2>10, DidCloseInLine
  <2> QED BY <1>10, <2>3, <2>11 DEF PostFails, History
<1> QED BY <1>2, <1>3, <1>4, <1>5, <1>6, <1>7, <1>8, <1>9, <1>10, SendStepInLine,
           SenderInLine DEF Next, Timers

(* The server gets what the page sends in the order it was sent, nothing     *)
(* twice, and nothing is left out by a transport that can tell.              *)
THEOREM ArrivesInOrder == Spec => []SentInOrder
<1>1. Init => InLine(s, arrived, sent)
  <2> SUFFICES ASSUME Init PROVE InLine(s, arrived, sent)
    OBVIOUS
  <2>1. s.readyState = "CONNECTING" /\ s.snd = Idle /\ sent = 0 /\ arrived = <<>>
    BY DEF Init
  <2>2. Idle.stop = "null" /\ <<>> \o <<>> = <<>>
    BY DEF Idle
  <2>3. Line(Idle, <<>>) = <<>>
    BY <2>2 DEF Line, Posted, Queued
  <2>4. Rises(<<>>, 0) /\ Numbered(<<>>)
    BY NoneListed DEF Rises, Numbered
  <2> QED BY <2>1, <2>3, <2>4 DEF InLine, Ordered, Serves
<1>2. IInv /\ InLine(s, arrived, sent) /\ [Next]_vars => InLine(s, arrived, sent)'
  <2> SUFFICES ASSUME IInv, InLine(s, arrived, sent), [Next]_vars
               PROVE  InLine(s, arrived, sent)'
    OBVIOUS
  <2>1. InLine(s', arrived', sent')
    BY InLineStep DEF vars
  <2> QED BY <2>1 DEF InLine, Serves, Ordered, Line, Posted, Queued, Rises, Numbered
<1>3. IInv /\ InLine(s, arrived, sent) => SentInOrder
  <2> SUFFICES ASSUME IInv, InLine(s, arrived, sent), NEW i \in 1 .. Len(arrived)
               PROVE  /\ i > 1 => arrived[i - 1] < arrived[i]
                      /\ s.snd.via \notin Script => arrived[i] = i
    BY DEF SentInOrder
  <2>1. arrived \in Seq(Sent) /\ s.snd \in Sender
    BY DEF IInv, TypeOK, SockJS, Sent
  <2>2. Posted(s.snd) \in Seq(Sent) /\ Queued(s.snd) \in Seq(Sent)
    BY <2>1, LineTyped
  <2>3. Rises(arrived, sent)
    BY <2>1, <2>2, CutRises DEF InLine, Ordered, Line
  <2>4. s.snd.via \notin Script => Numbered(arrived)
    BY <2>1, <2>2, CutRises DEF InLine, Ordered, Line
  <2>5. i > 1 => i - 1 \in 1 .. Len(arrived) /\ i - 1 < i
    BY <2>1
  <2> QED BY <2>3, <2>4, <2>5 DEF Rises, Numbered
<1> QED BY <1>1, <1>2, <1>3, SocketInvariant, PTL DEF Spec
=============================================================================
