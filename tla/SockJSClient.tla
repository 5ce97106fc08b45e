---------------------------- MODULE SockJSClient ----------------------------
(***************************************************************************)
(* The SockJS object of a page: it asks the server what it supports, opens  *)
(* the transports the browser has one after the other until one answers,    *)
(* and falls back when one fails or is too slow.  Everything is a callback  *)
(* of the browser's event loop, so each action below is one callback, with  *)
(* all it calls; what interleaves is the answers, the timers, the load      *)
(* event of the page and the page's own close and send.                     *)
(*                                                                          *)
(* An iframe transport runs an ajax one in another window behind two        *)
(* postMessage queues; the queues are part of the network.                  *)
(***************************************************************************)
EXTENDS Naturals, Sequences, FiniteSets

CONSTANTS
  Browsers,   \* for each kind of browser, the protocols that are enabled in it
  MaxSends    \* bound: messages the page sends

None == "none"
Ajax == {"xdr-streaming", "xhr-streaming", "xdr-polling", "xhr-polling"}
Iframe == {"iframe-eventsource", "iframe-htmlfile", "iframe-xhr-polling"}
Script == {"jsonp-polling"}
Protocols == {"websocket"} \cup Ajax \cup Iframe \cup Script
Polls == {"xdr-polling", "xhr-polling", "iframe-xhr-polling", "jsonp-polling"}
NeedBody == Iframe \cup Script \cup {"xhr-streaming"}

Info == [websocket : BOOLEAN, cookie_needed : BOOLEAN, null_origin : BOOLEAN]

(* Codes of a close: 1000 and 3000..4999 are the user's, utils.userSetCode *)
UserCodes == {"normal", "user"}
Codes == UserCodes \cup {"undefined", "other", "all failed"}
Frames == {"o", "a", "h", "c user", "c other"}

(* enabled() of JsonPTransport is true everywhere *)
ASSUME BrowsersAssumption == \A b \in Browsers : b \subseteq Protocols /\ Script \subseteq b
ASSUME SendsAssumption == MaxSends \in Nat

VARIABLES
  s,        \* the SockJS object, its transports and its sender
  probed,   \* utils.probeProtocols()
  info,     \* what the server's /info says
  complete, \* document.readyState is 'complete'
  sent,     \* history: number of messages the page has sent
  arrived   \* history: the messages the server got, in order

vars == <<s, probed, info, complete, sent, arrived>>

(* The request of a transport, whether its callbacks reach the socket, and   *)
(* whether the server has opened the session on it.                         *)
Transport == [phase : {"unused", "loading", "delayed", "waiting", "off"},
              attached : BOOLEAN, hello : BOOLEAN]
Sender == [buffer : Seq(1 .. MaxSends), flight : Seq(1 .. MaxSends),
           stop : {"null", "post", "taken", "wait"}, via : Protocols \cup {None}]
SockJS == [readyState : {"CONNECTING", "OPEN", "CLOSED"},
           ir : {"delayed", "asked", "null", "nuked", "lost"},
           protocols : Seq(Protocols),
           protocol : Protocols \cup {None, "waiting-for-load"},
           transport : Protocols \cup {None},
           timer : BOOLEAN, waiting : BOOLEAN,
           tr : [Protocols -> Transport], snd : Sender,
           pending : 0 .. 1, code : Codes \cup {None},
           last : {None, "open", "message", "heartbeat", "close"},
           threw : BOOLEAN]

Unused == [phase |-> "unused", attached |-> FALSE, hello |-> FALSE]
Idle == [buffer |-> <<>>, flight |-> <<>>, stop |-> "null", via |-> None]

-----------------------------------------------------------------------------
(* utils.detectProtocols: one websocket, one streaming and one polling       *)
(* transport at most, the best the browser has of each.                     *)
FirstOf(a, b, pe) ==
  IF a \in pe THEN <<a>> ELSE IF b \in pe THEN <<b>> ELSE <<>>
Best(xhr, xdr, a, b, pe, i) ==
  IF xhr \in pe /\ ~i.null_origin THEN <<xhr>>
  ELSE IF xdr \in pe /\ ~i.cookie_needed /\ ~i.null_origin THEN <<xdr>>
  ELSE FirstOf(a, b, pe)
DetectNoFallback(pe, i) ==
  (IF i.websocket /\ "websocket" \in pe THEN <<"websocket">> ELSE <<>>)
  \o Best("xhr-streaming", "xdr-streaming", "iframe-eventsource", "iframe-htmlfile", pe, i)
DetectProtocols(pe, i) ==
  (IF i.websocket /\ "websocket" \in pe THEN <<"websocket">> ELSE <<>>)
  \o Best("xhr-streaming", "xdr-streaming", "iframe-eventsource", "iframe-htmlfile", pe, i)
  \o Best("xhr-polling", "xdr-polling", "iframe-xhr-polling", "jsonp-polling", pe, i)

(* The constructors of the transports.  An ajax object starts its request in *)
(* a later turn of the loop; an iframe has to load first.                   *)
New(p) ==
  [phase |-> IF p \in Ajax THEN "delayed" ELSE IF p \in Iframe THEN "loading" ELSE "waiting",
   attached |-> TRUE, hello |-> FALSE]

(* doCleanup.  Handlers are removed and requests aborted, but the start of   *)
(* an ajax object that is due cannot be taken back.  The sender of an ajax   *)
(* transport goes on: send_destructor looks at _send_stop, a field nobody    *)
(* sets.  That of an iframe goes with its window.                           *)
CleanedButAttached(p, t) ==
  [t EXCEPT !.phase = IF p \in Ajax /\ @ = "delayed" THEN @ ELSE "off"]
Cleaned(p, t) ==
  [t EXCEPT !.attached = FALSE,
            !.phase = IF p \in Ajax /\ @ = "delayed" THEN @ ELSE "off"]
Cleanup(x) ==
  IF x.transport = None THEN x
  ELSE [x EXCEPT !.tr[x.transport] = Cleaned(x.transport, @),
                 !.snd = IF x.transport \in Iframe THEN Idle ELSE @,
                 !.transport = None]

-----------------------------------------------------------------------------
(* The end of _didClose: the state changes now, the event comes later.       *)
Finished(x, code) ==
  [x EXCEPT !.readyState = "CLOSED", !.pending = @ + 1, !.code = code]

(* _try_next_protocol, without its return value: whether there was another.  *)
(* Beside it, one without a timer.                                          *)
NoneLeft(x) == x.protocols = <<>>
TryUntimed(x) ==
  IF NoneLeft(x) THEN [x EXCEPT !.protocol = None, !.timer = FALSE]
  ELSE [x EXCEPT !.protocol = Head(x.protocols), !.protocols = Tail(@), !.timer = FALSE,
                 !.transport = Head(x.protocols),
                 !.tr[Head(x.protocols)] = New(Head(x.protocols))]
TryNext(x) ==
  LET p == Head(x.protocols) IN
  IF NoneLeft(x) THEN [x EXCEPT !.protocol = None, !.timer = FALSE]
  ELSE IF p \in NeedBody /\ ~complete
       THEN [x EXCEPT !.protocol = "waiting-for-load", !.waiting = TRUE, !.timer = FALSE]
       ELSE [x EXCEPT !.protocol = p, !.protocols = Tail(@), !.timer = TRUE,
                      !.transport = p, !.tr[p] = New(p)]

(* _didClose: an error when the socket is closed already; else the info      *)
(* receiver and the transport are dropped, and a socket that was still       *)
(* connecting goes on to the next protocol unless the close was meant.      *)
(* Beside it, one without the error.                                        *)
Dropped(x) == Cleanup([x EXCEPT !.ir = IF @ \in {"null", "lost"} THEN @ ELSE "nuked"])
GivesUp(x, code, force) == code \in UserCodes \/ x.readyState # "CONNECTING" \/ force
ClosedAgain(x, code, force) ==
  IF GivesUp(x, code, force) THEN Finished(Dropped(x), code)
  ELSE IF NoneLeft(Dropped(x)) THEN Finished(TryNext(Dropped(x)), "all failed")
  ELSE TryNext(Dropped(x))
DidClose(x, code, force) ==
  IF x.readyState = "CLOSED" THEN [x EXCEPT !.threw = TRUE]
  ELSE IF GivesUp(x, code, force) THEN Finished(Dropped(x), code)
  ELSE IF NoneLeft(Dropped(x)) THEN Finished(TryNext(Dropped(x)), "all failed")
  ELSE TryNext(Dropped(x))

(* _dispatchOpen, _dispatchMessage, _dispatchHeartbeat and _didMessage; beside *)
(* them a delivery that does not look at the state.                         *)
DispatchOpen(x) ==
  IF x.readyState = "CONNECTING"
  THEN [x EXCEPT !.readyState = "OPEN", !.timer = FALSE, !.last = "open"]
  ELSE DidClose(x, "other", FALSE)
DispatchAlways(x, event) == [x EXCEPT !.last = event]
Dispatch(x, event) ==
  IF x.readyState = "OPEN" THEN [x EXCEPT !.last = event] ELSE x
DidMessage(x, f) ==
  CASE f = "o" -> DispatchOpen(x)
    [] f = "a" -> Dispatch(x, "message")
    [] f = "h" -> Dispatch(x, "heartbeat")
    [] f = "c user" -> DidClose(x, "user", FALSE)
    [] f = "c other" -> DidClose(x, "other", FALSE)

-----------------------------------------------------------------------------
Init ==
  /\ probed \in Browsers /\ info \in Info
  /\ s = [readyState |-> "CONNECTING", ir |-> "delayed", protocols |-> <<>>,
          protocol |-> None, transport |-> None, timer |-> FALSE, waiting |-> FALSE,
          tr |-> [p \in Protocols |-> Unused], snd |-> Idle,
          pending |-> 0, code |-> None, last |-> None, threw |-> FALSE]
  /\ complete \in BOOLEAN
  /\ sent = 0 /\ arrived = <<>>

Environment == <<probed, info, complete>>
History == <<sent, arrived>>

(* The info receiver, or the one in its iframe, asks *)
AskInfo ==
  /\ s.ir = "delayed"
  /\ s' = [s EXCEPT !.ir = "asked"]
  /\ UNCHANGED <<Environment, History>>

(* /info is answered: onfinish, _applyInfo, then _didClose() for the first   *)
(* protocol.                                                                *)
InfoAnswered ==
  /\ s.ir = "asked"
  /\ s' = DidClose([s EXCEPT !.ir = "null", !.protocols = DetectProtocols(probed, info)],
                   "undefined", FALSE)
  /\ UNCHANGED <<Environment, History>>

(* /info fails, or takes more than 8 seconds *)
InfoFailed ==
  /\ s.ir = "asked"
  /\ s' = DidClose([s EXCEPT !.ir = "null"], "other", TRUE)
  /\ UNCHANGED <<Environment, History>>

(* /info is answered with a page that is not JSON, as a proxy or a login page *)
(* is: JSON.parse throws after the timer was cleared.                       *)
InfoUnreadable ==
  /\ s.ir = "asked"
  /\ s' = [s EXCEPT !.ir = "lost", !.threw = TRUE]
  /\ UNCHANGED <<Environment, History>>

(* _transport_tref goes off; close() leaves it armed *)
TransportTimeout ==
  /\ s.timer
  /\ LET x == [s EXCEPT !.timer = FALSE] IN
     s' = IF s.readyState = "CONNECTING" THEN DidClose(x, "other", FALSE) ELSE x
  /\ UNCHANGED <<Environment, History>>

(* The load event; _try_next_protocol does not look at the state of the      *)
(* socket when it was waiting for it.                                       *)
Load ==
  /\ ~complete /\ complete' = TRUE
  /\ s' = IF s.waiting
          THEN LET p == Head(s.protocols) IN
               [s EXCEPT !.waiting = FALSE, !.protocol = p, !.protocols = Tail(@),
                         !.timer = TRUE, !.transport = p, !.tr[p] = New(p)]
          ELSE s
  /\ UNCHANGED <<probed, info, History>>

-----------------------------------------------------------------------------
(* Ajax objects: _start, whether or not somebody still waits for it *)
AjaxStarts(p) ==
  /\ s.tr[p].phase = "delayed"
  /\ s' = [s EXCEPT !.tr[p].phase = "waiting"]
  /\ UNCHANGED <<Environment, History>>

(* The iframe posts 's', is told its protocol and makes its own transport;    *)
(* or it does not load in 15 seconds, or says nothing 2 seconds after.      *)
IframeLoaded(p) ==
  /\ s.tr[p].phase = "loading"
  /\ s' = [s EXCEPT !.tr[p].phase = "delayed"]
  /\ UNCHANGED <<Environment, History>>

IframeFailed(p) ==
  /\ s.tr[p].phase = "loading"
  /\ s' = DidClose(s, "other", FALSE)
  /\ UNCHANGED <<Environment, History>>

(* A frame of the server.  It opens a session first; it opens another on a    *)
(* polling transport when it was restarted.                                 *)
Receive(p, f) ==
  /\ s.tr[p].phase = "waiting" /\ s.tr[p].attached
  /\ f \in {"a", "h"} => s.tr[p].hello
  /\ f = "o" /\ p = "websocket" => ~s.tr[p].hello
  /\ s' = DidMessage([s EXCEPT !.tr[p].hello = @ \/ f = "o"], f)
  /\ UNCHANGED <<Environment, History>>

(* ws.onclose; or the script of a poll fails: both make a close frame *)
Breaks(p) ==
  /\ p \notin Ajax \cup Iframe
  /\ s.tr[p].phase = "waiting" /\ s.tr[p].attached
  /\ s' = DidMessage(s, "c other")
  /\ UNCHANGED <<Environment, History>>

(* The response of an ajax object ends: Polling asks again after a 200, and  *)
(* closes the socket else.  Nobody hears the end of one that was abandoned. *)
PollAgain(p) ==
  /\ p \in Ajax \cup Iframe /\ s.tr[p].phase = "waiting"
  /\ s' = [s EXCEPT !.tr[p].phase = IF s.tr[p].attached THEN "delayed" ELSE "off"]
  /\ UNCHANGED <<Environment, History>>

PollFails(p) ==
  /\ p \in Ajax \cup Iframe /\ s.tr[p].phase = "waiting" /\ s.tr[p].attached
  /\ s' = DidClose(s, "other", FALSE)
  /\ UNCHANGED <<Environment, History>>

-----------------------------------------------------------------------------
(* BufferedSender: send_schedule, which posts everything there is; beside it, *)
(* one that forgets to empty the buffer.                                    *)
ScheduleKeeping(d) ==
  IF d.buffer = <<>> THEN d ELSE [d EXCEPT !.flight = d.buffer, !.stop = "post"]
Schedule(d) ==
  IF d.buffer = <<>> THEN d
  ELSE [d EXCEPT !.flight = d.buffer, !.buffer = <<>>, !.stop = "post"]

(* SockJS.send while the socket is open: a websocket sends at once, the other  *)
(* transports when no request is out, beside a sender that does not care.   *)
DoSendAtOnce(d, m, p) == Schedule([d EXCEPT !.buffer = Append(@, m), !.via = p])
DoSend(d, m, p) ==
  LET e == [d EXCEPT !.buffer = Append(@, m), !.via = p]
  IN  IF d.stop = "null" THEN Schedule(e) ELSE e
Send ==
  /\ s.readyState = "OPEN" /\ sent < MaxSends
  /\ sent' = sent + 1
  /\ IF s.transport = "websocket"
     THEN arrived' = Append(arrived, sent') /\ UNCHANGED s
     ELSE s' = [s EXCEPT !.snd = DoSend(@, sent', s.transport)] /\ UNCHANGED arrived
  /\ UNCHANGED Environment

(* The server takes what was posted *)
PostTaken ==
  /\ s.snd.stop = "post"
  /\ arrived' = arrived \o s.snd.flight
  /\ s' = [s EXCEPT !.snd.stop = "taken"]
  /\ UNCHANGED <<Environment, sent>>

(* The callback of the sender.  A form posted into an iframe reports success *)
(* whatever happened.                                                       *)
PostAnswered ==
  /\ s.snd.stop = "taken" \/ (s.snd.stop = "post" /\ s.snd.via \in Script)
  /\ s' = [s EXCEPT !.snd.stop = "wait", !.snd.flight = <<>>]
  /\ UNCHANGED <<Environment, History>>

PostFails ==
  /\ s.snd.stop \in {"post", "taken"} /\ s.snd.via \notin Script
  /\ s' = DidClose([s EXCEPT !.snd.stop = "null", !.snd.flight = <<>>], "other", FALSE)
  /\ UNCHANGED <<Environment, History>>

(* 25 ms after an answer: send_schedule_wait; beside it, one that stays shut *)
StillStopped(d) == [Schedule(d) EXCEPT !.stop = "wait"]
WaitedOut(d) == Schedule([d EXCEPT !.stop = "null"])
WaitOver ==
  /\ s.snd.stop = "wait"
  /\ s' = [s EXCEPT !.snd = WaitedOut(@)]
  /\ UNCHANGED <<Environment, History>>

-----------------------------------------------------------------------------
(* SockJS.close(): it does nothing when the socket is closed *)
Close ==
  /\ s.readyState \in {"CONNECTING", "OPEN"}
  /\ s' = DidClose(s, "normal", FALSE)
  /\ UNCHANGED <<Environment, History>>

(* The delayed close event *)
DispatchClose ==
  /\ s.pending > 0
  /\ s' = [s EXCEPT !.pending = @ - 1, !.last = "close"]
  /\ UNCHANGED <<Environment, History>>

Timers == AskInfo \/ TransportTimeout \/ Load \/ DispatchClose
Next ==
  \/ Timers \/ InfoAnswered \/ InfoFailed \/ InfoUnreadable
  \/ \E p \in Protocols :
       \/ AjaxStarts(p) \/ IframeLoaded(p) \/ IframeFailed(p)
       \/ \E f \in Frames : Receive(p, f)
       \/ Breaks(p) \/ PollAgain(p) \/ PollFails(p)
  \/ Send \/ PostTaken \/ PostAnswered \/ PostFails \/ WaitOver
  \/ Close

Spec == Init /\ [][Next]_vars

(* The browser runs the timers it was given and loads the page; a request is *)
(* answered or fails, and info has a timeout of its own.                    *)
Fairness ==
  /\ WF_vars(AskInfo) /\ WF_vars(TransportTimeout) /\ WF_vars(Load)
  /\ WF_vars(DispatchClose) /\ WF_vars(WaitOver)
  /\ WF_vars(InfoAnswered \/ InfoFailed)
  /\ WF_vars(PostTaken \/ PostFails) /\ WF_vars(PostAnswered \/ PostFails)
FairSpec == Spec /\ Fairness

-----------------------------------------------------------------------------
Attached == {p \in Protocols : s.tr[p].attached}
Detected == DetectProtocols(probed, info)

TypeOK ==
  /\ s \in SockJS
  /\ probed \in Browsers /\ info \in Info /\ complete \in BOOLEAN
  /\ sent \in 0 .. MaxSends /\ arrived \in Seq(1 .. MaxSends)

(* However answers, timers, the load event and close() interleave, only the  *)
(* transport the socket holds can still call it back: one that was given up  *)
(* never speaks for it again.                                               *)
OnlyCurrentSpeaks == Attached = {s.transport} \ {None}

(* "All transports failed" is said only when each of them was tried, one that *)
(* polls among them: no interleaving of timeouts and failures leaves one out. *)
FallbackExhausted ==
  s.code = "all failed" =>
    /\ \A i \in 1 .. Len(Detected) : s.tr[Detected[i]].phase # "unused"
    /\ \E p \in Polls : s.tr[p].phase # "unused"

(* A socket that is connecting always has something that will move it on:    *)
(* its info is due, the timer of its transport runs, or it waits for the     *)
(* load event and the page is not loaded yet.  Only an unreadable answer to  *)
(* /info leaves it with nothing.                                            *)
NeverStuck ==
  s.readyState = "CONNECTING" =>
    s.ir \in {"delayed", "asked", "lost"} \/ s.timer \/ (s.waiting /\ ~complete)

(* What the page sends reaches the server in the order it was sent, nothing   *)
(* twice, through every transport, and without a gap unless the transport    *)
(* cannot tell: one request at a time, and none is sent again.              *)
SentInOrder ==
  \A i \in 1 .. Len(arrived) :
    /\ i > 1 => arrived[i - 1] < arrived[i]
    /\ s.snd.via \notin Script => arrived[i] = i

(* The socket does what Socket says of it *)
Contract == INSTANCE Socket WITH readyState <- s.readyState, last <- s.last
KeepsContract == Contract!Spec

(* What was sent arrives, unless the socket closes or posts forms *)
Arrives ==
  \A m \in 1 .. MaxSends :
    sent >= m ~> \/ \E i \in 1 .. Len(arrived) : arrived[i] = m
                 \/ s.readyState = "CLOSED" \/ s.snd.via \in Script
=============================================================================
