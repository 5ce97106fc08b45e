-------------------------------- MODULE Receivers --------------------------------
(***************************************************************************)
(* How a transport of SockJS that polls receives: request after request, each by a      *)
(* receiver of its own, over XMLHttpRequest, an EventSource, a page in a frame that       *)
(* calls hooks, or a script that calls one.  A message may make the page close the       *)
(* socket while others of the same response are still to be handed out.              *)
(***************************************************************************)
EXTENDS Integers, Sequences, FiniteSets, SequencesExt

CONSTANTS
  MaxRequests,   \* bound: requests made
  MaxText        \* bound: of a response, in halves of lines

VARIABLES
  kind,      \* the receiver
  closing,   \* poll_is_closing, _is_closing
  current,   \* the request of poll, or of _recv_stop, 0 for none
  requests,
  heard,     \* history: what the socket was told, by request and line
  failures,  \* history: times the socket was told that a poll failed for good
  limit      \* history: what had been heard when the transport was cleaned up

vars == <<kind, closing, current, requests, heard, failures, limit>>
Heap == [closing |-> closing, current |-> current, requests |-> requests, heard |-> heard,
         failures |-> failures, limit |-> limit]
Become(h) ==
  /\ closing' = h.closing /\ current' = h.current /\ requests' = h.requests /\ heard' = h.heard
  /\ failures' = h.failures /\ limit' = h.limit /\ UNCHANGED kind

(* A request: whether its onmessage and onclose are set; how much of the text was read;     *)
(* nuked: nothing is emitted; hooked: the page has a hook for it.                      *)
New == [phase |-> CASE kind = "xhr" -> "delayed" [] kind = "htmlfile" -> "loading" [] OTHER -> "open",
        hears |-> TRUE, text |-> 0, pos |-> 0, nuked |-> FALSE, reason |-> "none",
        hooked |-> kind \in {"htmlfile", "jsonp"}]

-----------------------------------------------------------------------------
(* _scheduleRecv, _schedule_recv *)
ScheduleRecv(h) ==
  [h EXCEPT !.requests = Append(@, New), !.current = Len(h.requests) + 1]
(* The socket cleans up: of itself, or for what it was told *)
Stops(h) == [h EXCEPT !.closing = TRUE, !.limit = Len(h.heard)]
Fails(h) == [Stops(h) EXCEPT !.failures = @ + 1]

(* onclose of Polling, which forgets the receiver first; and what jsonp's callback does     *)
(* after a frame.  Beside it, one that asks again though it is closing.                *)
Forgets(h, r) == [h EXCEPT !.current = 0, !.requests[r].hears = FALSE]
OnCloseAgain(h, r, reason) ==
  IF ~h.requests[r].hears THEN h
  ELSE IF reason = "permanent" THEN Fails(Forgets(h, r)) ELSE ScheduleRecv(Forgets(h, r))
OnClose(h, r, reason) ==
  IF ~h.requests[r].hears THEN h
  ELSE IF h.closing THEN Forgets(h, r)
  ELSE IF reason = "permanent" THEN Fails(Forgets(h, r)) ELSE ScheduleRecv(Forgets(h, r))

(* abort of the receivers: an XMLHttpRequest that has not started yet is nuked and starts     *)
(* all the same; an EventSource tells of its close later; a script cannot be stopped, and      *)
(* its hook stays.                                                                *)
AbortRequest(h, r) ==
  LET Done(x) == [x EXCEPT !.phase = "done", !.hooked = FALSE] IN
  CASE kind = "xhr" ->
         OnClose([h EXCEPT !.requests[r].nuked = TRUE,
                           !.requests[r].phase = IF @ = "delayed" THEN @ ELSE "done"], r, "user")
    [] kind = "eventsource" ->
         IF h.requests[r].phase # "open" THEN h
         ELSE [h EXCEPT !.requests[r].phase = "ending", !.requests[r].reason = "user"]
    [] kind = "htmlfile" -> OnClose([h EXCEPT !.requests[r] = Done(@)], r, "user")
    [] kind = "jsonp" -> Forgets([h EXCEPT !.requests[r].nuked = TRUE], r)
Abort(h) ==
  LET s == Stops(h) IN IF h.current = 0 THEN s ELSE AbortRequest(s, h.current)

(* One message; the page may close the socket on it *)
Hear(h, r, n, closes) ==
  IF ~h.requests[r].hears THEN h
  ELSE LET k == [h EXCEPT !.heard = Append(@, <<r, n>>)] IN IF closes THEN Abort(k) ELSE k

-----------------------------------------------------------------------------
Init ==
  /\ kind \in {"xhr", "eventsource", "htmlfile", "jsonp"}
  /\ closing = FALSE /\ current = 1 /\ requests = <<New>> /\ heard = <<>>
  /\ failures = 0 /\ limit = 0

Room == Len(requests) < MaxRequests

(* onchunk: every line that is complete *)
OnChunk(h, r, closesAt) ==
  LET x == h.requests[r]
      lines == [i \in 1 .. x.text \div 2 - x.pos |-> x.pos + i]
      Line(k, n) == Hear(k, r, n, n = closesAt)
  IN FoldLeft(Line, [h EXCEPT !.requests[r].pos = x.text \div 2], lines)
More(h, r, k) == [h EXCEPT !.requests[r].text = @ + k]

Starts(r) ==
  /\ requests[r].phase = "delayed" /\ Become([Heap EXCEPT !.requests[r].phase = "open"])
Chunk(r, k, closesAt) ==
  /\ kind = "xhr" /\ requests[r].phase = "open" /\ requests[r].text + k <= MaxText
  /\ Become(IF requests[r].nuked THEN Heap ELSE OnChunk(More(Heap, r, k), r, closesAt))
(* onfinish: what came with the end is read if it ended well *)
Finish(r, k, ok, closesAt) ==
  /\ kind = "xhr" /\ requests[r].phase = "open" /\ requests[r].text + k <= MaxText /\ Room
  /\ LET done == [Heap EXCEPT !.requests[r].phase = "done"]
         read == IF ok THEN OnChunk(More(done, r, k), r, closesAt) ELSE done
     IN Become(IF requests[r].nuked THEN done
               ELSE OnClose(read, r, IF ok THEN "network" ELSE "permanent"))

(* A message of an EventSource or a frame, and its end.  A frame that does not say that it     *)
(* started in time has failed.                                                     *)
FrameStarts(r) ==
  /\ requests[r].phase = "loading" /\ Become([Heap EXCEPT !.requests[r].phase = "open"])
Message(r, closes) ==
  /\ kind \in {"eventsource", "htmlfile"} /\ requests[r].phase = "open"
  /\ requests[r].pos < MaxText \div 2
  /\ Become(Hear([Heap EXCEPT !.requests[r].pos = @ + 1], r, requests[r].pos + 1, closes))
FrameEnds(r) ==
  /\ kind = "htmlfile" /\ requests[r].phase \in {"loading", "open"} /\ Room
  /\ Become(OnClose([Heap EXCEPT !.requests[r].phase = "done", !.requests[r].hooked = FALSE], r,
                    IF requests[r].phase = "open" THEN "network" ELSE "permanent"))
EventSourceErrs(r, reason) ==
  /\ kind = "eventsource" /\ requests[r].phase = "open"
  /\ Become([Heap EXCEPT !.requests[r].phase = "ending", !.requests[r].reason = reason])
(* 200 ms later *)
EventSourceCloses(r) ==
  /\ requests[r].phase = "ending" /\ Room
  /\ Become(OnClose([Heap EXCEPT !.requests[r].phase = "done"], r, requests[r].reason))

(* The script runs and calls its hook with a frame, or with none, a heartbeat; or it ends     *)
(* without that, or in 35 s.  close_script does nothing a second time.                  *)
ScriptRuns(r, frame, closes) ==
  /\ kind = "jsonp" /\ requests[r].phase = "open" /\ Room
  /\ LET done == [Heap EXCEPT !.requests[r].phase = "done"]
         told == [Forgets(done, r) EXCEPT !.requests[r].hooked = FALSE]
         k == IF frame THEN [told EXCEPT !.heard = Append(@, <<r, 1>>)] ELSE told
         left == IF frame /\ closes THEN Stops(k) ELSE k
     IN Become(IF requests[r].nuked THEN done ELSE IF left.closing THEN left ELSE ScheduleRecv(left))
ScriptFails(r) ==
  /\ kind = "jsonp" /\ requests[r].phase = "open" /\ ~requests[r].nuked
  /\ Become(Fails([Forgets(Heap, r) EXCEPT !.requests[r].phase = "done", !.requests[r].hooked = FALSE]))

(* The socket is closed, or gives the transport up *)
Cleanup == ~closing /\ Become(Abort(Heap))

Next ==
  \/ Cleanup
  \/ \E r \in DOMAIN requests :
       \/ Starts(r) \/ FrameStarts(r) \/ FrameEnds(r) \/ EventSourceCloses(r) \/ ScriptFails(r)
       \/ \E k \in 0 .. MaxText, at \in 0 .. MaxText \div 2 :
            \/ k > 0 /\ Chunk(r, k, at)
            \/ \E ok \in BOOLEAN : Finish(r, k, ok, at)
       \/ \E closes \in BOOLEAN :
            \/ Message(r, closes)
            \/ \E frame \in BOOLEAN : ScriptRuns(r, frame, closes)
       \/ \E reason \in {"network", "permanent"} : EventSourceErrs(r, reason)

Spec == Init /\ [][Next]_vars

-----------------------------------------------------------------------------
(* What comes is heard in the order of the requests and of their lines, no line twice and     *)
(* none left out, though responses come in pieces; once the transport is cleaned up nothing is *)
(* heard and nothing asked; one request is heard at a time, and while the transport is in use  *)
(* there is one; it fails once at most; and no hook stays in the page, but that of a script    *)
(* which the close has overtaken.                                                     *)
HeardInOrder ==
  /\ \A i \in 1 .. Len(heard) :
       IF i = 1 \/ heard[i - 1][1] # heard[i][1]
       THEN heard[i][2] = 1 /\ (i > 1 => heard[i - 1][1] < heard[i][1])
       ELSE heard[i][2] = heard[i - 1][2] + 1
  /\ \A r \in DOMAIN requests : kind # "jsonp" /\ requests[r].pos > 0 /\ ~closing =>
       Contains(heard, <<r, requests[r].pos>>)
  /\ closing => Len(heard) = limit /\ \A r \in DOMAIN requests :
       requests[r].hears => kind = "eventsource" /\ requests[r].phase = "ending"
  /\ ~closing => /\ {r \in DOMAIN requests : requests[r].hears} = {current}
                 /\ requests[current].phase # "done"
  /\ failures <= 1
  /\ \A r \in DOMAIN requests :
       requests[r].phase = "done" /\ requests[r].hooked => kind = "jsonp" /\ requests[r].nuked
=============================================================================
