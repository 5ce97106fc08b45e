------------------------------ MODULE DriverPage ------------------------------
(***************************************************************************)
(* The three monitoring pages: truck/truck.js, drools/truck.js and          *)
(* pred/truck.js.  Each subscribes to /app/driverEvents, which answers once *)
(* with the map to draw and, on the truck page, the last infractions, and   *)
(* to topics the topology writes to.  A batch is what one callback of the    *)
(* socket brings: it hands the frames to the page one by one, and an        *)
(* exception of the page ends the batch.  Popups are left out.               *)
(***************************************************************************)
EXTENDS StompClient, Sequences, SequencesExt

CONSTANTS
  Drivers,
  MaxEvents,  \* bound: frames the server sends
  MaxSteps,   \* radius / 1.1 from which a circle is too large: 40000 or 30000
  MaxNotes,   \* notifications shown: 5
  MaxBatch,   \* bound: frames in one message
  MaxLoad     \* bound: infractions in the answer of /app/driverEvents

ASSUME PageAssumption ==
  /\ MaxEvents \in Nat /\ MaxSteps \in Nat /\ MaxNotes \in Nat \ {0}
  /\ MaxBatch \in Nat /\ MaxLoad \in Nat

VARIABLES
  kind,    \* which page
  page,    \* the ApplicationModel and its DriverMonitorModel
  snap,    \* history: what became of the answer of /app/driverEvents
  events,  \* history: number of frames sent
  log      \* history: for each driver, the events since its circle is shown

vars == <<stomp, kind, page, snap, events, log>>

Kinds == {"truck", "drools", "pred"}
None == 0
Threshold == 3  \* successive_violation_prediction_threshold

Event == [driver : Drivers, unsafe : BOOLEAN, alert : BOOLEAN]
Row == [driver : Drivers, lit : BOOLEAN]
Circle == [shown : BOOLEAN, size : 0 .. MaxSteps + 1, color : {"green", "orange", "red"},
           count : 0 .. MaxEvents, streak : 0 .. MaxEvents]
Page == [map : BOOLEAN, rows : Seq(Row), lookup : [Drivers -> Nat],
         timers : [Drivers -> 0 .. MaxEvents], circles : [Drivers -> Circle],
         stopped : BOOLEAN, notes : Seq(0 .. MaxEvents), told : 0 .. MaxEvents,
         threw : BOOLEAN]

NoCircle == [shown |-> FALSE, size |-> 0, color |-> "green", count |-> 0, streak |-> 0]

-----------------------------------------------------------------------------
(* loadDangerousEvent and loadDangerousEvents: a row at the end, and the one  *)
(* that is looked up from now on.                                           *)
AddRow(pg, d) ==
  [pg EXCEPT !.rows = Append(@, [driver |-> d, lit |-> FALSE]),
             !.lookup[d] = Len(pg.rows) + 1]
AddRows(pg, ds) ==
  [pg EXCEPT
     !.rows = @ \o [i \in 1 .. Len(ds) |-> [driver |-> ds[i], lit |-> FALSE]],
     !.lookup = [d \in Drivers |->
        IF \E i \in 1 .. Len(ds) : ds[i] = d
        THEN Len(pg.rows) + CHOOSE i \in 1 .. Len(ds) :
               ds[i] = d /\ \A j \in i + 1 .. Len(ds) : ds[j] # d
        ELSE pg.lookup[d]]]

(* The callback of /app/driverEvents: rows on the truck page, then the map *)
Loaded(pg, ds) == [AddRows(pg, IF kind = "truck" THEN ds ELSE <<>>) EXCEPT !.map = TRUE]

(* processDangerousEvent: highlight, update and a timer of two seconds, on   *)
(* the other pages for an unsafe event only; beside it, one without timer.  *)
ProcessUntimed(pg, e) ==
  IF pg.lookup[e.driver] = None THEN AddRow(pg, e.driver)
  ELSE IF kind # "truck" /\ ~e.unsafe THEN pg
  ELSE [pg EXCEPT !.rows[pg.lookup[e.driver]].lit = TRUE]
Process(pg, e) ==
  IF pg.lookup[e.driver] = None THEN AddRow(pg, e.driver)
  ELSE IF kind # "truck" /\ ~e.unsafe THEN pg
  ELSE [pg EXCEPT !.rows[pg.lookup[e.driver]].lit = TRUE, !.timers[e.driver] = @ + 1]

(* pushNotification: the oldest goes; beside it, the newest.                *)
PushLosing(pg, n) ==
  [pg EXCEPT !.notes = IF Len(@) = MaxNotes THEN @ ELSE Append(@, n), !.told = n]
Push(pg, n) ==
  [pg EXCEPT !.notes = IF Len(@) = MaxNotes THEN Append(Tail(@), n) ELSE Append(@, n),
             !.told = n]

(* renderNewDriverOnMap and its likes: addTo throws where there is no map, and *)
(* the circle is not remembered.  Beside it, one that remembers it.         *)
ShowAnyway(pg, d) == [pg EXCEPT !.circles[d].shown = TRUE, !.threw = ~pg.map]
Show(pg, d) ==
  IF pg.map THEN [pg EXCEPT !.circles[d].shown = TRUE] ELSE [pg EXCEPT !.threw = TRUE]

(* One unsafe event more on a circle of the truck or the prediction page: once *)
(* any circle was too large, none grows.  Beside it, growth without an end. *)
GrowAgain(pg, d) == [pg EXCEPT !.circles[d].size = @ + 1]
Grow(pg, d) ==
  LET stop == pg.stopped \/ pg.circles[d].size > MaxSteps
  IN  [pg EXCEPT !.stopped = stop, !.circles[d].size = IF stop THEN @ ELSE @ + 1]

RenderTruck(pg, e) ==
  IF ~pg.circles[e.driver].shown THEN Show(pg, e.driver)
  ELSE IF e.unsafe THEN Grow(pg, e.driver) ELSE pg

(* drools: an alert paints the circle red for good; other events move it *)
RenderDrools(pg, e) ==
  LET c == pg.circles[e.driver] IN
  IF ~c.shown THEN Show([pg EXCEPT !.circles[e.driver].count = 0], e.driver)
  ELSE IF ~e.alert THEN pg
  ELSE [pg EXCEPT !.circles[e.driver] =
          [c EXCEPT !.count = @ + 1, !.color = "red",
                    !.size = IF @ < MaxSteps THEN @ + 1 ELSE @]]

(* pred: one violation more on a circle *)
Violated(c) ==
  [c EXCEPT !.streak = @ + 1, !.count = @ + 1,
            !.color = IF c.streak + 1 >= Threshold THEN "red" ELSE "orange"]

(* The first event only shows the circle; the streak of violations ends with  *)
(* a normal prediction unless it reached the threshold.  Beside it, one that *)
(* does not end.                                                            *)
RenderUnbroken(pg, e) ==
  LET c == pg.circles[e.driver] IN
  IF ~c.shown THEN Show(pg, e.driver)
  ELSE IF e.unsafe THEN [Grow(pg, e.driver) EXCEPT !.circles[e.driver] = Violated(@)]
  ELSE pg
RenderPred(pg, e) ==
  LET c == pg.circles[e.driver] IN
  IF ~c.shown THEN Show(pg, e.driver)
  ELSE IF e.unsafe THEN [Grow(pg, e.driver) EXCEPT !.circles[e.driver] = Violated(@)]
  ELSE IF c.streak < Threshold
  THEN [pg EXCEPT !.circles[e.driver] = [c EXCEPT !.streak = 0, !.color = "green"]]
  ELSE pg

(* What the topology publishes: on the truck page the rows and the circles     *)
(* come from two topics; on the others one event is for both.               *)
Render(pg, e) ==
  IF kind = "truck" THEN RenderTruck(pg, e)
  ELSE LET r == IF kind = "drools" THEN RenderDrools(pg, e) ELSE RenderPred(pg, e)
       IN  IF r.threw THEN r ELSE Process(r, e)

-----------------------------------------------------------------------------
(* Frames of the server, as <<topic, content>> *)
Frames ==
  {<<"load", ds>> : ds \in UNION {[1 .. n -> Drivers] : n \in 0 .. MaxLoad}}
  \cup {<<"event", e>> : e \in {x \in Event : x.alert => kind = "drools"}}
  \cup (IF kind = "truck" THEN {<<"infraction", d>> : d \in Drivers} ELSE {})
  \cup {<<"note", 0>>}

(* One message handed to its callback; nothing is, after an exception *)
Handle(st, f) ==
  LET pg == st.page
      seen == f[1] = "event" /\ pg.circles[f[2].driver].shown
  IN
  IF pg.threw THEN IF f[1] = "load" THEN [st EXCEPT !.snap = "lost"] ELSE st
  ELSE [page |-> CASE f[1] = "load" -> Loaded(pg, f[2])
                   [] f[1] = "infraction" ->
                        Process(pg, [driver |-> f[2], unsafe |-> TRUE, alert |-> FALSE])
                   [] f[1] = "event" -> Render(pg, f[2])
                   [] f[1] = "note" -> Push(pg, pg.told + 1),
        snap |-> IF f[1] = "load" THEN "handled" ELSE st.snap,
        log |-> IF seen THEN [st.log EXCEPT ![f[2].driver] = Append(@, f[2])] ELSE st.log]

(* Frames handed over one after the other *)
Handled(st, fs) ==
  LET after[i \in 0 .. Len(fs)] == IF i = 0 THEN st ELSE Handle(after[i - 1], fs[i])
  IN  after[Len(fs)]

Page0 ==
  [map |-> FALSE, rows |-> <<>>, lookup |-> [d \in Drivers |-> None],
   timers |-> [d \in Drivers |-> 0], circles |-> [d \in Drivers |-> NoCircle],
   stopped |-> FALSE, notes |-> <<0>>, told |-> 0, threw |-> FALSE]

Init ==
  /\ StompInit
  /\ kind \in Kinds
  /\ page = Page0 /\ snap = "awaited" /\ events = 0 /\ log = [d \in Drivers |-> <<>>]

(* Frames for the page, several in one message or one array of messages: the  *)
(* answer of /app/driverEvents comes once, and from another thread than what *)
(* the broker relays.                                                       *)
Deliver(batch) ==
  /\ Hears
  /\ events + Len(batch) <= MaxEvents
  /\ events' = events + Len(batch)
  /\ snap = "awaited" \/ \A i \in 1 .. Len(batch) : batch[i][1] # "load"
  /\ LET st == Handled([page |-> [page EXCEPT !.threw = FALSE], snap |-> snap, log |-> log],
                       batch)
     IN  page' = st.page /\ snap' = st.snap /\ log' = st.log
  /\ UNCHANGED kind

Batches ==
  {b \in UNION {[1 .. n -> Frames] : n \in 1 .. MaxBatch} :
     \A i, j \in 1 .. Len(b) : b[i][1] = "load" /\ b[j][1] = "load" => i = j}

(* The timer of a highlight looks the row up when it fires *)
UnHighlight(d) ==
  /\ page.timers[d] > 0
  /\ page' = [page EXCEPT !.timers[d] = @ - 1, !.rows[page.lookup[d]].lit = FALSE]
  /\ UNCHANGED <<stomp, kind, snap, events, log>>

(* logout: disconnect, and the page goes elsewhere *)
Logout == Disconnects /\ UNCHANGED <<kind, page, snap, events, log>>

Network ==
  /\ SocketOpens \/ SocketEnds \/ SocketClosed \/ ServerConnects \/ Hears
  /\ UNCHANGED <<kind, page, snap, events, log>>
Ponger == PongerTicks /\ UNCHANGED <<kind, page, snap, events, log>>

Next ==
  \/ \E batch \in Batches : Deliver(batch)
  \/ \E d \in Drivers : UnHighlight(d)
  \/ Network \/ Ponger \/ Logout

Spec == Init /\ [][Next]_vars
(* The browser runs the intervals it was given *)
FairSpec == Spec /\ WF_vars(Ponger)

-----------------------------------------------------------------------------
TypeOK ==
  /\ StompTypeOK
  /\ kind \in Kinds /\ page \in Page /\ events \in 0 .. MaxEvents
  /\ snap \in {"awaited", "handled", "lost"}
  /\ log \in [Drivers -> Seq(Event)]

Unsafe(d) == {i \in 1 .. Len(log[d]) : log[d][i].unsafe}
Alerts(d) == {i \in 1 .. Len(log[d]) : log[d][i].alert}
ThreeInARow(d) ==
  \E i \in 1 .. Len(log[d]) - 2 : \A j \in i .. i + 2 : log[d][j].unsafe

(* A circle tells the history of its driver, whatever was lost, delayed or     *)
(* batched: on the truck page its size is the number of unsafe events until  *)
(* some circle was too large; on the Drools page it is red if there was an    *)
(* alert, and counts them; on the prediction page it is red for good once    *)
(* three predictions in a row were violations, and else shows the last.      *)
CircleShowsEvents ==
  \A d \in Drivers :
    LET c == page.circles[d] IN
    /\ kind # "drools" /\ ~page.stopped => c.size = Cardinality(Unsafe(d))
    /\ kind = "drools" => /\ c.count = Cardinality(Alerts(d))
                          /\ c.color = IF c.count > 0 THEN "red" ELSE "green"
    /\ kind = "pred" =>
         /\ c.count = Cardinality(Unsafe(d))
         /\ c.color = IF ThreeInARow(d) THEN "red"
                      ELSE IF log[d] # <<>> /\ Last(log[d]).unsafe THEN "orange"
                      ELSE "green"

(* A row that is highlighted has a timer that will end it, however events and   *)
(* timers interleave; only a second row of the same driver, which the answer  *)
(* of /app/driverEvents makes when it comes late, takes the timer away.      *)
HighlightEnds ==
  \A i \in 1 .. Len(page.rows) :
    LET d == page.rows[i].driver IN
    page.rows[i].lit =>
      \/ page.timers[d] > 0 /\ page.lookup[d] = i
      \/ snap = "handled" /\ \E j \in i + 1 .. Len(page.rows) : page.rows[j].driver = d

(* A circle that is remembered was drawn: a driver whose events came before   *)
(* the map, and were lost, is drawn at the first event after it.            *)
CirclesDrawn == \A d \in Drivers : page.circles[d].shown => page.map

(* The notifications shown are the latest ones received, in their order *)
LatestNotifications ==
  LET n == Len(page.notes) IN
  /\ n = IF page.told < MaxNotes THEN page.told + 1 ELSE MaxNotes
  /\ \A i \in 1 .. n : page.notes[i] = page.told - n + i

(* The intervals run only while the client believes it is connected: no way    *)
(* out leaves one running.                                                  *)
IntervalsEnd == client.pinger \/ client.ponger => client.connected

(* A connection that was lost is noticed, although onclose does nothing, if the *)
(* server promised heart-beats                                              *)
NoticesLoss ==
  socket.readyState = "CLOSED" /\ client.ponger ~> ~client.connected
=============================================================================
