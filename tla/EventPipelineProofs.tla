------------------------ MODULE EventPipelineProofs ------------------------
(***************************************************************************)
(* For every set of drivers and tasks, every collection of logs and every    *)
(* bound: the types, the count of a driver against the violations stored,   *)
(* no total published twice while no call fails, and what an alert holds.    *)
(***************************************************************************)
EXTENDS EventPipeline, FiniteSetTheorems, SequenceTheorems, TLAPS

Copies == [msg : DOMAIN log, task : Tasks, stage : Stages, count : Nat]
Rules == [correlation : Nat, driverEvents : [Drivers -> Seq(Nat)], seen : Nat, began : Nat]
Attempts == [events : Seq(Nat), sent : BOOLEAN]

(* The typing that TypeOK leaves out                                        *)
Typed ==
  /\ log \in Logs /\ copies \in Seq(Copies)
  /\ replays \in 0 .. MaxReplays /\ faults \in 0 .. MaxFaults
  /\ rows \subseteq {m \in Emitted : log[m].unsafe} /\ counts \in [Drivers -> Nat]
  /\ published \subseteq [copy : Ids, count : Nat]
  /\ rules \in Rules /\ rules.seen <= Len(copies) /\ rules.began <= rules.seen
  /\ alerts \in Seq(Attempts)

(* A step adds copies at the end and changes no message and no task           *)
Onwards ==
  /\ log' = log /\ Ids \subseteq Ids'
  /\ \A c \in Ids : copies'[c].msg = copies[c].msg /\ copies'[c].task = copies[c].task

-----------------------------------------------------------------------------
LEMMA LogTyped ==
  ASSUME Typed
  PROVE  /\ log \in Seq(Message) /\ DOMAIN log = 1 .. Len(log) /\ Len(log) \in Nat
         /\ Ids = 1 .. Len(copies) /\ Len(copies) \in Nat
         /\ \A c \in Ids : copies[c] \in Copies /\ EventOf(c) \in Message
<1>1. log \in Seq(Message) /\ copies \in Seq(Copies)
  BY LogsAssumption DEF Typed
<1>2. /\ DOMAIN log = 1 .. Len(log) /\ Len(log) \in Nat
      /\ DOMAIN copies = 1 .. Len(copies) /\ Len(copies) \in Nat
  BY <1>1, LenProperties
<1>3. \A c \in Ids : copies[c] \in Copies
  BY <1>1, <1>2, ElementOfSeq DEF Ids
<1>4. \A c \in Ids : copies[c].msg \in DOMAIN log
  BY <1>3 DEF Copies
<1>5. \A c \in Ids : EventOf(c) \in Message
  BY <1>1, <1>2, <1>4, ElementOfSeq DEF EventOf
<1>6. QED
  BY <1>1, <1>2, <1>3, <1>5 DEF Ids

(* What a copy becomes in its place is all that changes                      *)
Became(c, st, n) == [msg |-> copies[c].msg, task |-> copies[c].task, stage |-> st, count |-> n]
LEMMA CopyMoves ==
  ASSUME Typed, log' = log, NEW c \in Ids, NEW st \in Stages, NEW n \in Nat,
         copies' = [copies EXCEPT ![c] = Became(c, st, n)]
  PROVE  /\ copies' \in Seq(Copies)' /\ Onwards /\ Ids' = Ids /\ Len(copies') = Len(copies)
         /\ copies'[c].stage = st /\ copies'[c].count = n
         /\ \A b \in Ids : b # c => copies'[b] = copies[b]
<1> DEFINE r == Became(c, st, n)
<1>1. copies \in Seq(Copies) /\ copies[c] \in Copies /\ c \in 1 .. Len(copies)
  BY LogTyped DEF Typed
<1>2. r \in Copies /\ r.msg = copies[c].msg /\ r.task = copies[c].task /\ r.stage = st /\ r.count = n
  BY <1>1 DEF Copies, Became
<1>3. copies' = [copies EXCEPT ![c] = r]
  OBVIOUS
<1> HIDE DEF r
<1>4. /\ copies' \in Seq(Copies) /\ Len(copies') = Len(copies)
      /\ \A b \in 1 .. Len(copies) : copies'[b] = IF b = c THEN r ELSE copies[b]
  BY <1>1, <1>2, <1>3, ExceptSeq
<1>5. Ids' = Ids /\ Ids = 1 .. Len(copies)
  BY <1>1, <1>4, LenProperties DEF Ids
<1>6. Copies' = Copies
  BY DEF Copies
<1>7. QED
  BY <1>2, <1>4, <1>5, <1>6 DEF Onwards

LEMMA ReadMoves ==
  ASSUME Typed, NEW c \in Ids, ReadCount(c)
  PROVE  copies' = [copies EXCEPT ![c] = Became(c, "read", counts[EventOf(c).driver])]
<1> DEFINE n == counts[EventOf(c).driver]
<1>1. copies[c] \in [msg : DOMAIN log, task : Tasks, stage : Stages, count : Nat] /\ DOMAIN copies = Ids
  BY LogTyped DEF Copies, Ids
<1>2. copies' = [copies EXCEPT ![c].stage = "read", ![c].count = n]
  BY DEF ReadCount
<1> HIDE DEF n
<1>3. DOMAIN copies' = Ids /\ \A b \in Ids : b # c => copies'[b] = copies[b]
  BY <1>1, <1>2
<1>4. copies'[c] = [[copies[c] EXCEPT !.stage = "read"] EXCEPT !.count = n]
  BY <1>1, <1>2
<1>5. copies'[c] = Became(c, "read", n)
  BY <1>1, <1>4 DEF Became
<1>6. QED
  BY <1>1, <1>2, <1>3, <1>5 DEF n

LEMMA PutMoves ==
  ASSUME Typed, NEW c \in Ids, NEW st \in Stages, copies' = [copies EXCEPT ![c].stage = st]
  PROVE  copies' = [copies EXCEPT ![c] = Became(c, st, copies[c].count)]
<1>1. copies[c] \in [msg : DOMAIN log, task : Tasks, stage : Stages, count : Nat] /\ DOMAIN copies = Ids
  BY LogTyped DEF Copies, Ids
<1>2. [copies[c] EXCEPT !.stage = st] = Became(c, st, copies[c].count)
  BY <1>1 DEF Became
<1>3. QED
  BY <1>1, <1>2

LEMMA IncrementMoves ==
  ASSUME Typed, NEW c \in Ids, Increment(c)
  PROVE  copies' = [copies EXCEPT ![c] = Became(c, "emitted", Incremented(c))]
<1> DEFINE n == Incremented(c)
<1>1. copies[c] \in [msg : DOMAIN log, task : Tasks, stage : Stages, count : Nat] /\ DOMAIN copies = Ids
  BY LogTyped DEF Copies, Ids
<1>2. copies' = [copies EXCEPT ![c].stage = "emitted", ![c].count = n]
  BY DEF Increment
<1> HIDE DEF n
<1>3. DOMAIN copies' = Ids /\ \A b \in Ids : b # c => copies'[b] = copies[b]
  BY <1>1, <1>2
<1>4. copies'[c] = [[copies[c] EXCEPT !.stage = "emitted"] EXCEPT !.count = n]
  BY <1>1, <1>2
<1>5. copies'[c] = Became(c, "emitted", n)
  BY <1>1, <1>4 DEF Became
<1>6. QED
  BY <1>1, <1>2, <1>3, <1>5 DEF n

LEMMA EmitMoves ==
  ASSUME Typed, NEW m \in DOMAIN log, NEW t \in Tasks, Emit(m, t)
  PROVE  /\ (copies \in Seq(Copies))' /\ Onwards
         /\ Len(copies') = Len(copies) + 1 /\ Ids' = 1 .. Len(copies) + 1
         /\ \A c \in Ids : copies'[c] = copies[c]
         /\ copies'[Len(copies) + 1] = Copy(m, t)
<1>1. copies \in Seq(Copies) /\ Copies' = Copies /\ log' = log
  BY DEF Typed, Copies, Emit
<1>2. Copy(m, t) \in Copies
  BY DEF Copy, Copies, Stages
<1>3. copies' = Append(copies, Copy(m, t))
  BY DEF Emit
<1>4. /\ copies' \in Seq(Copies) /\ Len(copies') = Len(copies) + 1
      /\ \A i \in 1 .. Len(copies) : copies'[i] = copies[i]
      /\ copies'[Len(copies) + 1] = Copy(m, t)
  BY <1>1, <1>2, <1>3, AppendProperties
<1>5. Ids = 1 .. Len(copies) /\ Ids' = 1 .. Len(copies) + 1 /\ Len(copies) \in Nat
  BY <1>1, <1>4, LenProperties DEF Ids
<1>6. QED
  BY <1>1, <1>4, <1>5 DEF Onwards

(* A worker that dies cuts tuples off; none leaves those between the put and    *)
(* the increment.                                                           *)
LEMMA DieMoves ==
  ASSUME Typed, NEW tasks, NEW gone \in SUBSET Waiting(tasks), WorkerDies(tasks, gone)
  PROVE  /\ (copies \in Seq(Copies))' /\ Onwards /\ Ids' = Ids /\ Len(copies') = Len(copies)
         /\ \A b \in Ids : copies'[b].stage \in {"put", "cut"} <=> copies[b].stage \in {"put", "cut"}
<1>1. Copies' = Copies /\ log' = log
  BY DEF Copies, WorkerDies
<1>2. Ids = 1 .. Len(copies) /\ Len(copies) \in Nat /\ \A b \in Ids : copies[b] \in Copies
  BY LogTyped
<1>3. \A b \in Ids : StageLeft(b, tasks, gone) \in Stages
  BY <1>2 DEF StageLeft, Stages, Copies
<1>4. \A b \in Ids : \A st \in Stages :
        /\ [copies[b] EXCEPT !.stage = st] = Became(b, st, copies[b].count)
        /\ Became(b, st, copies[b].count) \in Copies
  BY <1>2 DEF Copies, Became
<1>5. copies' = [b \in Ids |-> Became(b, StageLeft(b, tasks, gone), copies[b].count)]
  BY <1>3, <1>4 DEF WorkerDies
<1>6. copies' \in [1 .. Len(copies) -> Copies]
  BY <1>2, <1>3, <1>4, <1>5
<1>7. copies' \in Seq(Copies) /\ Len(copies') = Len(copies)
  BY <1>2, <1>6
<1>8. Ids' = Ids
  BY <1>5 DEF Ids
<1>9. \A b \in Ids : StageLeft(b, tasks, gone) \in {"put", "cut"} <=> copies[b].stage \in {"put", "cut"}
  BY <1>2 DEF StageLeft, Waiting
<1>10. \A b \in Ids : /\ copies'[b].stage = StageLeft(b, tasks, gone)
                      /\ copies'[b].msg = copies[b].msg /\ copies'[b].task = copies[b].task
  BY <1>5 DEF Became
<1>11. QED
  BY <1>1, <1>7, <1>8, <1>9, <1>10 DEF Onwards

(* What the two calls that throw have in common                              *)
LEMMA ThrowMoves ==
  ASSUME Typed, NEW c \in Ids, ReadCountFails(c) \/ PublishFails(c)
  PROVE  /\ (copies \in Seq(Copies))' /\ Onwards /\ Ids' = Ids /\ Len(copies') = Len(copies)
         /\ \A b \in Ids : copies'[b].stage \in {"put", "cut"} <=> copies[b].stage \in {"put", "cut"}
         /\ UNCHANGED <<log, replays, rows, counts, alerts>>
         /\ faults' = faults + 1 /\ faults < MaxFaults
         /\ rules' = rules \/ \E n \in rules.seen .. Len(copies) : rules' = NewEngine(n)
         /\ published' \in {published, Published(c)}
<1>1. PICK tasks \in SUBSET Tasks : \E gone \in SUBSET Waiting(tasks) : WorkerDies(tasks, gone)
  BY DEF ReadCountFails, PublishFails
<1>2. PICK gone \in SUBSET Waiting(tasks) : WorkerDies(tasks, gone)
  BY <1>1
<1>3. published' \in {published, Published(c)}
  BY DEF ReadCountFails, PublishFails
<1>4. QED
  BY <1>2, <1>3, DieMoves DEF WorkerDies, Failure

-----------------------------------------------------------------------------
(* The rule engine when an event comes up for it: what it holds is of the     *)
(* event's demo.                                                            *)
Held(c) ==
  IF rules.correlation = EventOf(c).demo THEN rules.driverEvents ELSE NoEvents
Engine(c, held) ==
  [correlation |-> EventOf(c).demo, driverEvents |-> held, seen |-> c, began |-> rules.began]

LEMMA EngineOfDemo ==
  ASSUME Typed, NEW c \in Ids
  PROVE  /\ OfThisDemo([rules EXCEPT !.seen = c], EventOf(c)) = Engine(c, Held(c))
         /\ Held(c) \in [Drivers -> Seq(Nat)] /\ EventOf(c).demo \in Nat /\ c \in Nat
         /\ EventOf(c).driver \in Drivers /\ EventOf(c).unsafe \in BOOLEAN
<1>1. /\ rules \in [correlation : Nat, driverEvents : [Drivers -> Seq(Nat)], seen : Nat, began : Nat]
      /\ EventOf(c) \in Message /\ c \in Nat
  BY LogTyped DEF Typed, Rules
<1>2. NoEvents \in [Drivers -> Seq(Nat)]
  BY EmptySeq DEF NoEvents
<1>3. [rules EXCEPT !.seen = c] =
        [correlation |-> rules.correlation, driverEvents |-> rules.driverEvents, seen |-> c,
         began |-> rules.began]
  BY <1>1
<1>4. ASSUME NEW e \in Message
      PROVE  OfThisDemo([correlation |-> rules.correlation, driverEvents |-> rules.driverEvents,
                         seen |-> c, began |-> rules.began], e)
        = [correlation |-> e.demo,
           driverEvents |-> IF rules.correlation = e.demo THEN rules.driverEvents ELSE NoEvents,
           seen |-> c, began |-> rules.began]
  BY <1>1 DEF OfThisDemo
<1>5. EventOf(c).demo \in Nat /\ EventOf(c).driver \in Drivers /\ EventOf(c).unsafe \in BOOLEAN
  BY <1>1 DEF Message
<1>6. QED
  BY <1>1, <1>2, <1>3, <1>4, <1>5 DEF Held, Engine

(* What the engine makes of an event: it leaves the lists, adds to one, or     *)
(* empties one into an alert, that is sent or not.                          *)
Leaves(c) == rules' = Engine(c, Held(c)) /\ alerts' = alerts /\ faults' = faults
Adds(c) == LET d == EventOf(c).driver IN
  /\ Len(Held(c)[d]) # MaxUnsafe
  /\ rules' = Engine(c, [Held(c) EXCEPT ![d] = <<c>> \o @]) /\ alerts' = alerts
  /\ faults' = faults
Attempt(c, sent) == [events |-> Held(c)[EventOf(c).driver], sent |-> sent]
Alerts(c) == LET d == EventOf(c).driver IN
  /\ Len(Held(c)[d]) = MaxUnsafe
  /\ rules' = Engine(c, [Held(c) EXCEPT ![d] = <<>>])
  /\ \E sent \in BOOLEAN : /\ alerts' = Append(alerts, Attempt(c, sent))
                           /\ IF sent THEN faults' = faults ELSE Failure

LEMMA EngineMoves ==
  ASSUME Typed, NEW c \in Ids, ProcessEvent(c)
  PROVE  /\ c = rules.seen + 1 /\ UNCHANGED <<log, copies, replays, Hbase>>
         /\ \/ ~EventOf(c).unsafe /\ Leaves(c)
            \/ EventOf(c).unsafe /\ (Adds(c) \/ Alerts(c))
<1> DEFINE e == EventOf(c)
           q == OfThisDemo([rules EXCEPT !.seen = c], e)
           r == Engine(c, Held(c))
<1>1. q = r /\ e.unsafe \in BOOLEAN
  BY EngineOfDemo
<1>2. /\ c = rules.seen + 1 /\ UNCHANGED <<log, copies, replays, Hbase>>
      /\ \/ ~e.unsafe /\ rules' = q /\ UNCHANGED <<alerts, faults>>
         \/ /\ e.unsafe /\ ~Full(q, e)
            /\ rules' = [q EXCEPT !.driverEvents[e.driver] = <<c>> \o @]
            /\ UNCHANGED <<alerts, faults>>
         \/ /\ e.unsafe /\ Full(q, e)
            /\ rules' = [q EXCEPT !.driverEvents[e.driver] = <<>>]
            /\ \E sent \in BOOLEAN :
                 /\ alerts' = Append(alerts, [events |-> q.driverEvents[e.driver], sent |-> sent])
                 /\ IF sent THEN UNCHANGED faults ELSE Failure
  BY Zenon DEF ProcessEvent
<1> HIDE DEF e, q
<1>3. r = [correlation |-> EventOf(c).demo, driverEvents |-> Held(c), seen |-> c,
           began |-> rules.began]
  BY DEF Engine
<1>4. ASSUME NEW k, NEW v
      PROVE  [r EXCEPT !.driverEvents[k] = v] = Engine(c, [Held(c) EXCEPT ![k] = v])
  BY <1>3 DEF Engine
<1>5. r.driverEvents = Held(c) /\ (Full(r, e) <=> Len(Held(c)[e.driver]) = MaxUnsafe)
  BY <1>3 DEF Full
<1> HIDE DEF r
<1>6. /\ [r EXCEPT !.driverEvents[e.driver] = <<c>> \o @] =
           Engine(c, [Held(c) EXCEPT ![e.driver] = <<c>> \o @])
      /\ [r EXCEPT !.driverEvents[e.driver] = <<>>] =
           Engine(c, [Held(c) EXCEPT ![e.driver] = <<>>])
  BY <1>4, <1>5
<1>7. CASE ~e.unsafe /\ rules' = q /\ UNCHANGED <<alerts, faults>>
  BY <1>1, <1>2, <1>7 DEF Leaves, e, r
<1>8. CASE /\ e.unsafe /\ ~Full(q, e)
           /\ rules' = [q EXCEPT !.driverEvents[e.driver] = <<c>> \o @]
           /\ UNCHANGED <<alerts, faults>>
  <2>1. Adds(c)
    BY <1>1, <1>5, <1>6, <1>8 DEF Adds, e
  <2>2. QED
    BY <1>2, <1>8, <2>1 DEF e
<1>9. CASE /\ e.unsafe /\ Full(q, e)
           /\ rules' = [q EXCEPT !.driverEvents[e.driver] = <<>>]
           /\ \E sent \in BOOLEAN :
                /\ alerts' = Append(alerts, [events |-> q.driverEvents[e.driver], sent |-> sent])
                /\ IF sent THEN UNCHANGED faults ELSE Failure
  <2>1. PICK sent \in BOOLEAN :
          /\ alerts' = Append(alerts, [events |-> q.driverEvents[e.driver], sent |-> sent])
          /\ IF sent THEN faults' = faults ELSE Failure
    BY <1>9
  <2>2. [events |-> q.driverEvents[e.driver], sent |-> sent] = Attempt(c, sent)
    BY <1>1, <1>5 DEF Attempt, e
  <2>3. \E b \in BOOLEAN : /\ alerts' = Append(alerts, Attempt(c, b))
                           /\ IF b THEN faults' = faults ELSE Failure
    BY <2>1, <2>2
  <2>4. /\ Len(Held(c)[e.driver]) = MaxUnsafe
        /\ rules' = Engine(c, [Held(c) EXCEPT ![e.driver] = <<>>])
    BY <1>1, <1>5, <1>6, <1>9
  <2>5. Alerts(c)
    BY <2>3, <2>4 DEF Alerts, e
  <2>6. QED
    BY <1>2, <1>9, <2>5 DEF e
<1>10. QED
  BY <1>2, <1>7, <1>8, <1>9

-----------------------------------------------------------------------------
(* The typing of what is beside the copies, when they go onwards               *)
LEMMA BesideTyped ==
  ASSUME Typed, Onwards, (copies \in Seq(Copies))', Len(copies) <= Len(copies'),
         replays' \in 0 .. MaxReplays, faults' \in 0 .. MaxFaults,
         \A m \in rows' : m \in Emitted /\ log[m].unsafe,
         counts' \in [Drivers -> Nat],
         published' \subseteq [copy : Ids, count : Nat],
         (rules \in Rules)', rules'.seen <= Len(copies'), rules'.began <= rules'.seen,
         alerts' \in Seq(Attempts)
  PROVE  Typed'
<1>1. log' \in Logs
  BY DEF Typed, Onwards
<1>2. \A m \in Emitted : m \in Emitted'
  BY DEF Onwards, Emitted
<1>3. rows' \subseteq {m \in Emitted : log[m].unsafe}'
  BY <1>2 DEF Onwards
<1>4. published' \subseteq [copy : Ids, count : Nat]'
  BY DEF Onwards
<1>5. alerts' \in Seq(Attempts)'
  BY DEF Attempts
<1>6. QED
  BY <1>1, <1>3, <1>4, <1>5 DEF Typed

LEMMA StayedTyped ==
  ASSUME Typed
  PROVE  /\ \A m \in rows : m \in Emitted /\ log[m].unsafe
         /\ \A c \in Ids : EventOf(c).unsafe =>
              \A m \in rows \cup {copies[c].msg} : m \in Emitted /\ log[m].unsafe
  BY DEF Typed, Emitted, EventOf

LEMMA PublishTyped ==
  ASSUME Typed, NEW c \in Ids
  PROVE  Published(c) \subseteq [copy : Ids, count : Nat]
<1>1. copies[c].count \in Nat
  BY LogTyped DEF Copies
<1>2. QED
  BY <1>1 DEF Typed, Published

LEMMA IncrementTyped ==
  ASSUME Typed, NEW c \in Ids
  PROVE  /\ Incremented(c) \in Nat /\ counts[EventOf(c).driver] \in Nat
         /\ Counted(c) => counts' \in [Drivers -> Nat]
<1>1. EventOf(c).driver \in Drivers
  BY EngineOfDemo
<1>2. counts \in [Drivers -> Nat]
  BY DEF Typed
<1>3. counts[EventOf(c).driver] \in Nat /\ Incremented(c) \in Nat
  BY <1>1, <1>2 DEF Incremented
<1>4. QED
  BY <1>2, <1>3 DEF Counted

LEMMA RulesTyped ==
  ASSUME Typed, NEW c \in Ids, ProcessEvent(c)
  PROVE  /\ (rules \in Rules)' /\ rules'.seen = c /\ rules'.began = rules.began
         /\ alerts' \in Seq(Attempts) /\ faults' \in 0 .. MaxFaults
<1> DEFINE d == EventOf(c).driver
<1>1. /\ Held(c) \in [Drivers -> Seq(Nat)] /\ EventOf(c).demo \in Nat /\ c \in Nat
      /\ d \in Drivers /\ Rules' = Rules /\ alerts \in Seq(Attempts)
      /\ rules.began \in Nat /\ faults \in 0 .. MaxFaults /\ MaxFaults \in Nat
  BY EngineOfDemo, BoundsAssumption DEF Typed, Rules
<1>2. <<c>> \o Held(c)[d] \in Seq(Nat)
  BY <1>1, ConcatProperties
<1>3. /\ [Held(c) EXCEPT ![d] = <<c>> \o @] \in [Drivers -> Seq(Nat)]
      /\ [Held(c) EXCEPT ![d] = <<>>] \in [Drivers -> Seq(Nat)]
  BY <1>1, <1>2, EmptySeq
<1>4. ASSUME NEW held \in [Drivers -> Seq(Nat)]
      PROVE  /\ Engine(c, held) \in Rules /\ Engine(c, held).seen = c
             /\ Engine(c, held).began = rules.began
  BY <1>1 DEF Engine, Rules
<1>5. \A sent \in BOOLEAN : Append(alerts, Attempt(c, sent)) \in Seq(Attempts)
  <2>1. \A sent \in BOOLEAN : Attempt(c, sent) \in Attempts
    BY <1>1 DEF Attempt, Attempts
  <2>2. QED
    BY <1>1, <2>1, AppendProperties
<1>6. Failure => faults' \in 0 .. MaxFaults
  BY <1>1 DEF Failure
<1>7. QED
  <2>1. CASE Leaves(c)
    BY <1>1, <1>4, <2>1 DEF Leaves
  <2>2. CASE Adds(c)
    BY <1>1, <1>3, <1>4, <2>2 DEF Adds
  <2>3. CASE Alerts(c)
    BY <1>1, <1>3, <1>4, <1>5, <1>6, <2>3 DEF Alerts
  <2>4. QED
    BY <2>1, <2>2, <2>3, EngineMoves

LEMMA NewEngineTyped ==
  ASSUME NEW n \in Nat
  PROVE  NewEngine(n) \in Rules /\ NewEngine(n).seen = n /\ NewEngine(n).began = n
<1>1. NoEvents \in [Drivers -> Seq(Nat)]
  BY EmptySeq DEF NoEvents
<1>2. QED
  BY <1>1 DEF NewEngine, Rules

LEMMA TypedInit == Init => Typed
<1> SUFFICES ASSUME Init PROVE Typed
  OBVIOUS
<1>1. copies \in Seq(Copies) /\ alerts \in Seq(Attempts) /\ Len(copies) = 0
  BY EmptySeq DEF Init
<1>2. rules \in Rules /\ rules.seen = 0 /\ rules.began = 0
  BY NewEngineTyped DEF Init
<1>3. QED
  BY <1>1, <1>2, BoundsAssumption DEF Init, Typed

LEMMA TypedKept ==
  ASSUME Typed, [Next]_vars
  PROVE  Typed' /\ Onwards
<1>0. /\ counts \in [Drivers -> Nat] /\ published \subseteq [copy : Ids, count : Nat]
      /\ (log' = log => Rules' = Rules) /\ rules \in Rules /\ rules.seen <= Len(copies)
      /\ rules.seen \in Nat /\ rules.began \in Nat /\ rules.began <= rules.seen
      /\ alerts \in Seq(Attempts)
      /\ replays \in 0 .. MaxReplays /\ faults \in 0 .. MaxFaults /\ Len(copies) \in Nat
      /\ \A m \in rows : m \in Emitted /\ log[m].unsafe
  BY LogTyped, StayedTyped DEF Typed, Rules
<1>1. ASSUME NEW m \in DOMAIN log, NEW t \in Tasks, Emit(m, t)
      PROVE  Typed' /\ Onwards
  <2>1. replays' \in 0 .. MaxReplays
    BY <1>0, <1>1, BoundsAssumption DEF Emit
  <2>2. UNCHANGED <<log, faults, rows, counts, published, rules, alerts>>
    BY <1>1 DEF Emit, Hbase, Monitor
  <2>3. /\ (copies \in Seq(Copies))' /\ Onwards /\ Len(copies') = Len(copies) + 1
    BY <1>1, EmitMoves
  <2>4. Len(copies) <= Len(copies') /\ rules'.seen <= Len(copies') /\ faults' \in 0 .. MaxFaults
    BY <1>0, <2>2, <2>3 DEF Rules
  <2>5. (rules \in Rules)' /\ Rules' = Rules
    BY <1>0, <2>2
  <2>6. QED
    BY <1>0, <2>1, <2>2, <2>3, <2>4, <2>5, BesideTyped
<1>2. ASSUME NEW c \in Ids, NEW st \in Stages, NEW n \in Nat, log' = log,
             copies' = [copies EXCEPT ![c] = Became(c, st, n)],
             replays' = replays, faults' \in 0 .. MaxFaults,
             rows' = rows \/ (EventOf(c).unsafe /\ rows' = rows \cup {copies[c].msg}),
             counts' = counts \/ Counted(c),
             published' = published
               \/ published' = Published(c),
             rules' = rules, alerts' = alerts
      PROVE  Typed' /\ Onwards
  <2>1. (copies \in Seq(Copies))' /\ Onwards /\ Len(copies') = Len(copies)
    BY <1>2, CopyMoves
  <2>2. counts' \in [Drivers -> Nat]
    BY <1>0, <1>2, IncrementTyped
  <2>3. published' \subseteq [copy : Ids, count : Nat]
    BY <1>0, <1>2, PublishTyped
  <2>4. \A m \in rows' : m \in Emitted /\ log[m].unsafe
    BY <1>2, StayedTyped
  <2>5. QED
    BY <1>0, <1>2, <2>1, <2>2, <2>3, <2>4, BesideTyped
<1>3. ASSUME NEW c \in Ids, ReadCount(c)
      PROVE  Typed' /\ Onwards
  <2>1. UNCHANGED <<log, replays, faults, rows, counts, published, rules, alerts>>
    BY <1>3 DEF ReadCount, Hbase, Monitor
  <2>2. counts[EventOf(c).driver] \in Nat /\ "read" \in Stages
    BY IncrementTyped DEF Stages
  <2>3. QED
    BY <1>0, <1>2, <1>3, <2>1, <2>2, ReadMoves
<1>4. ASSUME NEW c \in Ids, ReadCountFails(c) \/ PublishFails(c)
      PROVE  Typed' /\ Onwards
  <2>1. /\ UNCHANGED <<log, replays, rows, counts, alerts>>
        /\ faults' = faults + 1 /\ faults < MaxFaults
        /\ rules' = rules \/ \E n \in rules.seen .. Len(copies) : rules' = NewEngine(n)
        /\ published' \in {published, Published(c)}
    BY <1>4, ThrowMoves
  <2>2. faults' \in 0 .. MaxFaults
    BY <1>0, <2>1, BoundsAssumption
  <2>3. (copies \in Seq(Copies))' /\ Onwards /\ Len(copies') = Len(copies)
    BY <1>4, ThrowMoves
  <2>4. published' \subseteq [copy : Ids, count : Nat]
    BY <1>0, <2>1, PublishTyped
  <2>5. rules' \in Rules /\ rules'.seen <= Len(copies') /\ rules'.began <= rules'.seen
    <3>1. CASE rules' = rules
      BY <1>0, <2>3, <3>1
    <3>2. CASE \E n \in rules.seen .. Len(copies) : rules' = NewEngine(n)
      <4>1. PICK n \in rules.seen .. Len(copies) : rules' = NewEngine(n)
        BY <3>2
      <4>2. n \in Nat /\ n <= Len(copies)
        BY <1>0
      <4>3. QED
        BY <2>3, <4>1, <4>2, NewEngineTyped
    <3>3. QED
      BY <2>1, <3>1, <3>2
  <2>6. QED
    BY <1>0, <2>1, <2>2, <2>3, <2>4, <2>5, BesideTyped
<1>5. \A c \in Ids : copies[c].count \in Nat
  BY LogTyped DEF Copies
<1>6. \A c \in Ids : \A st \in Stages :
        copies' = [copies EXCEPT ![c].stage = st]
          => copies' = [copies EXCEPT ![c] = Became(c, st, copies[c].count)]
  BY PutMoves
<1>7. ASSUME NEW c \in Ids, PutRow(c)
      PROVE  Typed' /\ Onwards
  <2>1. /\ UNCHANGED <<log, replays, faults, counts, published, rules, alerts>>
        /\ EventOf(c).unsafe /\ rows' = rows \cup {copies[c].msg}
        /\ copies' = [copies EXCEPT ![c].stage = "put"] /\ "put" \in Stages
    BY <1>7 DEF PutRow, Monitor, Stages
  <2>2. \E n \in Nat : \E st \in Stages : copies' = [copies EXCEPT ![c] = Became(c, st, n)]
    BY <1>5, <1>6, <2>1
  <2>3. QED
    BY <1>0, <1>2, <2>1, <2>2
<1>8. ASSUME NEW c \in Ids, Increment(c)
      PROVE  Typed' /\ Onwards
  <2>1. /\ UNCHANGED <<log, replays, faults, rows, published, rules, alerts>> /\ Counted(c)
        /\ Incremented(c) \in Nat /\ "emitted" \in Stages
    BY <1>8, IncrementTyped DEF Increment, Monitor, Stages
  <2>2. QED
    BY <1>0, <1>2, <1>8, <2>1, IncrementMoves
<1>9. ASSUME NEW c \in Ids, StoreFails(c)
      PROVE  Typed' /\ Onwards
  <2>1. /\ UNCHANGED <<log, replays, published, rules, alerts>> /\ faults' = faults + 1
        /\ faults < MaxFaults /\ EventOf(c).unsafe /\ "emitted" \in Stages
        /\ copies[c].count \in Nat
        /\ rows' = rows \/ rows' = rows \cup {copies[c].msg}
        /\ counts' = counts \/ Counted(c)
        /\ copies' = [copies EXCEPT ![c].stage = "emitted"]
    BY <1>5, <1>9 DEF StoreFails, Failure, Monitor, Stages
  <2>2. faults' \in 0 .. MaxFaults
    BY <1>0, <2>1, BoundsAssumption
  <2>3. QED
    BY <1>0, <1>2, <1>5, <1>6, <2>1, <2>2
<1>10. ASSUME NEW c \in Ids, PassOn(c)
       PROVE  Typed' /\ Onwards
  <2>1. /\ UNCHANGED <<log, replays, faults, rows, counts, published, rules, alerts>>
        /\ copies' = [copies EXCEPT ![c].stage = "emitted"] /\ "emitted" \in Stages
    BY <1>10 DEF PassOn, Hbase, Monitor, Stages
  <2>2. \E n \in Nat : \E st \in Stages : copies' = [copies EXCEPT ![c] = Became(c, st, n)]
    BY <1>5, <1>6, <2>1
  <2>3. QED
    BY <1>0, <1>2, <2>1, <2>2
<1>11. ASSUME NEW c \in Ids, Publish(c)
       PROVE  Typed' /\ Onwards
  <2>1. /\ UNCHANGED <<log, replays, faults, rows, counts, rules, alerts>>
        /\ copies' = [copies EXCEPT ![c].stage = "done"] /\ "done" \in Stages
        /\ published' = Published(c)
    BY <1>11 DEF Publish, Monitor, Stages
  <2>2. \E n \in Nat : \E st \in Stages : copies' = [copies EXCEPT ![c] = Became(c, st, n)]
    BY <1>5, <1>6, <2>1
  <2>3. QED
    BY <1>0, <1>2, <2>1, <2>2
<1>15. ASSUME NEW c \in Ids, PublishLost(c)
       PROVE  Typed' /\ Onwards
  <2>1. /\ UNCHANGED <<log, replays, rows, counts, published, rules, alerts>>
        /\ copies' = [copies EXCEPT ![c].stage = "done"] /\ "done" \in Stages
        /\ faults' = faults + 1 /\ faults < MaxFaults
    BY <1>15 DEF PublishLost, Failure, Hbase, Monitor, Stages
  <2>2. \E n \in Nat : \E st \in Stages : copies' = [copies EXCEPT ![c] = Became(c, st, n)]
    BY <1>5, <1>6, <2>1
  <2>3. faults' \in 0 .. MaxFaults
    BY <1>0, <2>1, BoundsAssumption
  <2>4. QED
    BY <1>0, <1>2, <2>1, <2>2, <2>3
<1>12. ASSUME NEW c \in Ids, ProcessEvent(c)
       PROVE  Typed' /\ Onwards
  <2>1. UNCHANGED <<log, copies, replays, rows, counts, published>>
    BY <1>12, EngineMoves DEF Hbase
  <2>2. Onwards /\ (copies \in Seq(Copies))' /\ Ids = 1 .. Len(copies)
    BY <2>1, LogTyped DEF Onwards, Ids, Typed, Copies
  <2>3. /\ (rules \in Rules)' /\ rules'.seen = c /\ rules'.began = rules.began
        /\ alerts' \in Seq(Attempts) /\ faults' \in 0 .. MaxFaults /\ c = rules.seen + 1
    <3>1. c = rules.seen + 1
      BY <1>12, EngineMoves
    <3>2. QED
      BY <1>12, <3>1, RulesTyped
  <2>4. rules'.seen <= Len(copies') /\ rules'.began <= rules'.seen
    BY <1>0, <2>1, <2>2, <2>3
  <2>5. QED
    BY <1>0, <2>1, <2>2, <2>3, <2>4, BesideTyped
<1>13. CASE UNCHANGED vars
  <2>1. UNCHANGED <<log, copies, replays, faults, rows, counts, published, rules, alerts>>
    BY <1>13 DEF vars
  <2>2. Onwards /\ (copies \in Seq(Copies))'
    BY <2>1 DEF Onwards, Ids, Typed, Copies
  <2>3. QED
    BY <1>0, <2>1, <2>2, BesideTyped
<1>14. QED
  BY <1>1, <1>3, <1>4, <1>7, <1>8, <1>9, <1>10, <1>11, <1>12, <1>13, <1>15 DEF Next

-----------------------------------------------------------------------------
(* The two sets of CountsFollowRows                                         *)
RowsOf(d) == {m \in rows : log[m].driver = d}
Halfway == {"put", "cut"}
Putting(d) == {c \in Ids : copies[c].stage \in Halfway /\ EventOf(c).driver = d}
Followed(d) == Cardinality(RowsOf(d)) <= counts[d] + faults + Cardinality(Putting(d))

LEMMA FollowedEach == CountsFollowRows <=> \A d \in Drivers : Followed(d)
  BY DEF CountsFollowRows, Followed, RowsOf, Putting, Halfway

LEMMA SetsFinite ==
  ASSUME Typed, NEW d \in Drivers
  PROVE  /\ IsFiniteSet(RowsOf(d)) /\ Cardinality(RowsOf(d)) \in Nat
         /\ IsFiniteSet(Putting(d)) /\ Cardinality(Putting(d)) \in Nat
<1>1. Len(log) \in Nat /\ DOMAIN log = 1 .. Len(log) /\ Len(copies) \in Nat /\ Ids = 1 .. Len(copies)
      /\ \A c \in Ids : copies[c].msg \in DOMAIN log
  BY LogTyped DEF Copies
<1>2. RowsOf(d) \subseteq 1 .. Len(log) /\ Putting(d) \subseteq 1 .. Len(copies)
  <2>1. \A m \in rows : m \in Emitted
    BY StayedTyped
  <2>2. QED
    BY <1>1, <2>1 DEF RowsOf, Putting, Emitted
<1>3. IsFiniteSet(1 .. Len(log)) /\ IsFiniteSet(1 .. Len(copies))
  <2>1. \A n \in Nat : IsFiniteSet(1 .. n)
    BY FS_Interval
  <2>2. QED
    BY <1>1, <2>1
<1>4. IsFiniteSet(RowsOf(d)) /\ IsFiniteSet(Putting(d))
  BY <1>2, <1>3, FS_Subset
<1>5. QED
  BY <1>4, FS_CardinalityType

(* A copy's move adds it to those between put and increment, or takes it out   *)
LEMMA PuttingMoves ==
  ASSUME Typed, NEW d \in Drivers, NEW c \in Ids, Onwards, Ids' = Ids,
         \A b \in Ids : b # c => copies'[b] = copies[b]
  PROVE  /\ EventOf(c).driver # d => Putting(d)' = Putting(d)
         /\ (copies[c].stage \in Halfway <=> copies'[c].stage \in Halfway)
              => Putting(d)' = Putting(d)
         /\ EventOf(c).driver = d /\ copies[c].stage \notin Halfway /\ copies'[c].stage \in Halfway
              => Cardinality(Putting(d)') = Cardinality(Putting(d)) + 1
         /\ EventOf(c).driver = d /\ copies[c].stage \in Halfway /\ copies'[c].stage \notin Halfway
              => Cardinality(Putting(d)') = Cardinality(Putting(d)) - 1
<1>1. \A b \in Ids : EventOf(b)' = EventOf(b)
  BY DEF Onwards, EventOf
<1>2. IsFiniteSet(Putting(d)) /\ Cardinality(Putting(d)) \in Nat
  BY SetsFinite
<1>3. Putting(d)' = {b \in Ids : copies'[b].stage \in Halfway /\ EventOf(b).driver = d}
  BY <1>1 DEF Putting
<1>4. (copies[c].stage \in Halfway <=> copies'[c].stage \in Halfway) => Putting(d)' = Putting(d)
  BY <1>3 DEF Putting
<1>5. EventOf(c).driver # d => Putting(d)' = Putting(d)
  BY <1>3 DEF Putting
<1>6. copies[c].stage \notin Halfway /\ copies'[c].stage \in Halfway /\ EventOf(c).driver = d
        => Putting(d)' = Putting(d) \cup {c} /\ c \notin Putting(d)
  BY <1>3 DEF Putting
<1>7. copies[c].stage \in Halfway /\ copies'[c].stage \notin Halfway /\ EventOf(c).driver = d
        => Putting(d)' = Putting(d) \ {c} /\ c \in Putting(d)
  BY <1>3 DEF Putting
<1>8. Cardinality(Putting(d) \cup {c}) =
        IF c \in Putting(d) THEN Cardinality(Putting(d)) ELSE Cardinality(Putting(d)) + 1
  BY <1>2, FS_AddElement
<1>9. Cardinality(Putting(d) \ {c}) =
        IF c \in Putting(d) THEN Cardinality(Putting(d)) - 1 ELSE Cardinality(Putting(d))
  BY <1>2, FS_RemoveElement
<1>10. QED
  BY <1>4, <1>5, <1>6, <1>7, <1>8, <1>9

(* A row stored is at most one more of its driver's                          *)
LEMMA RowsGrow ==
  ASSUME Typed, NEW d \in Drivers, NEW c \in Ids, log' = log,
         rows' = rows \cup {copies[c].msg}
  PROVE  /\ EventOf(c).driver # d => RowsOf(d)' = RowsOf(d)
         /\ Cardinality(RowsOf(d)') \in {Cardinality(RowsOf(d)), Cardinality(RowsOf(d)) + 1}
<1> DEFINE m == copies[c].msg
<1>1. IsFiniteSet(RowsOf(d)) /\ Cardinality(RowsOf(d)) \in Nat
  BY SetsFinite
<1>2. RowsOf(d)' = IF log[m].driver = d THEN RowsOf(d) \cup {m} ELSE RowsOf(d)
  BY DEF RowsOf
<1>3. Cardinality(RowsOf(d) \cup {m}) =
        IF m \in RowsOf(d) THEN Cardinality(RowsOf(d)) ELSE Cardinality(RowsOf(d)) + 1
  BY <1>1, FS_AddElement
<1>4. EventOf(c) = log[m]
  BY DEF EventOf
<1>5. QED
  BY <1>2, <1>3, <1>4

(* The ways a step may touch the counts: the rows grow with the copies that     *)
(* are being put, these shrink as the count grows, or a call fails.           *)
LEMMA CountsFollowKept ==
  ASSUME Typed, Onwards, CountsFollowRows, [Next]_vars
  PROVE  CountsFollowRows'
<1> SUFFICES ASSUME NEW d \in Drivers PROVE Followed(d)'
  BY DEF CountsFollowRows, Followed, RowsOf, Putting, Halfway
<1> DEFINE R == Cardinality(RowsOf(d))
           P == Cardinality(Putting(d))
<1>1. /\ R \in Nat /\ P \in Nat /\ counts[d] \in Nat /\ faults \in Nat
      /\ R <= counts[d] + faults + P
  BY SetsFinite, FollowedEach, BoundsAssumption DEF Typed, Followed
<1> SUFFICES R' <= counts'[d] + faults' + P'
  BY DEF Followed
<1>2. ASSUME Putting(d)' = Putting(d), RowsOf(d)' = RowsOf(d),
             counts' = counts, faults' \in {faults, faults + 1}
      PROVE  R' <= counts'[d] + faults' + P'
  BY <1>1, <1>2
<1>3. (log' = log /\ rows' = rows) => RowsOf(d)' = RowsOf(d)
  BY DEF RowsOf
<1>4. \A c \in Ids : EventOf(c)' = EventOf(c)
  BY DEF Onwards, EventOf
<1>5. /\ \A c \in Ids : copies[c] \in Copies /\ EventOf(c).driver \in Drivers
      /\ counts \in [Drivers -> Nat] /\ Ids = 1 .. Len(copies) /\ Len(copies) \in Nat
  BY LogTyped, EngineOfDemo DEF Typed
<1>6. ASSUME NEW m \in DOMAIN log, NEW t \in Tasks, Emit(m, t)
      PROVE  R' <= counts'[d] + faults' + P'
  <2>1. UNCHANGED <<log, rows, counts, faults>>
    BY <1>6 DEF Emit, Hbase
  <2>2. /\ Ids' = 1 .. Len(copies) + 1 /\ \A c \in Ids : copies'[c] = copies[c]
        /\ copies'[Len(copies) + 1] = Copy(m, t)
    BY <1>6, EmitMoves
  <2>3. Copy(m, t).stage = "queued"
    BY DEF Copy
  <2>4. Putting(d)' = Putting(d)
    BY <1>4, <1>5, <2>2, <2>3 DEF Putting, Halfway
  <2>5. QED
    BY <1>2, <1>3, <2>1, <2>4
<1>7. ASSUME NEW c \in Ids, ReadCountFails(c) \/ PublishFails(c)
      PROVE  R' <= counts'[d] + faults' + P'
  <2>1. UNCHANGED <<log, rows, counts>> /\ faults' = faults + 1
    BY <1>7, ThrowMoves
  <2>2. Ids' = Ids /\ \A b \in Ids : copies'[b].stage \in Halfway <=> copies[b].stage \in Halfway
    BY <1>7, ThrowMoves DEF Halfway
  <2>3. Putting(d)' = Putting(d)
    BY <1>4, <2>2 DEF Putting
  <2>4. QED
    BY <1>2, <1>3, <2>1, <2>3
(* What the moves of one copy do to R, P and the count of its driver            *)
<1>8. ASSUME NEW c \in Ids, NEW st \in Stages, NEW n \in Nat, log' = log,
             copies' = [copies EXCEPT ![c] = Became(c, st, n)]
      PROVE  /\ copies'[c].stage = st
             /\ EventOf(c).driver # d => P' = P
             /\ (copies[c].stage \in Halfway <=> st \in Halfway) => P' = P
             /\ EventOf(c).driver = d /\ copies[c].stage \notin Halfway /\ st \in Halfway => P' = P + 1
             /\ EventOf(c).driver = d /\ copies[c].stage \in Halfway /\ st \notin Halfway => P' = P - 1
  <2>1. /\ Ids' = Ids /\ copies'[c].stage = st /\ \A b \in Ids : b # c => copies'[b] = copies[b]
    BY <1>8, CopyMoves
  <2>2. QED
    BY <2>1, PuttingMoves
<1>9. ASSUME NEW c \in Ids
      PROVE  /\ (log' = log /\ rows' = rows) => R' = R
             /\ (log' = log /\ rows' = rows \cup {copies[c].msg}) =>
                  R' \in {R, R + 1} /\ (EventOf(c).driver # d => R' = R)
             /\ Counted(c) => counts'[d] = IF EventOf(c).driver = d THEN counts[d] + 1 ELSE counts[d]
  BY <1>3, <1>5, RowsGrow DEF Counted, Incremented
<1>10. ASSUME NEW c \in Ids, ReadCount(c) \/ PassOn(c) \/ Publish(c) \/ PublishLost(c)
       PROVE  R' <= counts'[d] + faults' + P'
  <2>1. UNCHANGED <<log, rows, counts>> /\ faults' \in {faults, faults + 1}
    BY <1>10 DEF ReadCount, PassOn, Publish, PublishLost, Failure, Hbase
  <2>2. /\ copies[c].stage \notin Halfway
        /\ \E st \in Stages \ Halfway, n \in Nat : copies' = [copies EXCEPT ![c] = Became(c, st, n)]
    <3>1. CASE ReadCount(c)
      <4>1. counts[EventOf(c).driver] \in Nat /\ "read" \in Stages \ Halfway /\ copies[c].stage \notin Halfway
        BY <1>5, <3>1 DEF Stages, Halfway, ReadCount, FirstQueued
      <4>2. QED
        BY <3>1, <4>1, ReadMoves
    <3>2. CASE PassOn(c)
      <4>1. /\ copies[c].count \in Nat /\ "emitted" \in Stages \ Halfway /\ copies[c].stage \notin Halfway
            /\ copies' = [copies EXCEPT ![c].stage = "emitted"]
        BY <1>5, <3>2 DEF Stages, Halfway, PassOn, Copies
      <4>2. QED
        BY <4>1, PutMoves
    <3>3. CASE Publish(c) \/ PublishLost(c)
      <4>1. /\ copies[c].count \in Nat /\ "done" \in Stages \ Halfway /\ copies[c].stage \notin Halfway
            /\ copies' = [copies EXCEPT ![c].stage = "done"]
        BY <1>5, <3>3 DEF Stages, Halfway, Publish, PublishLost, Copies
      <4>2. QED
        BY <4>1, PutMoves
    <3>4. QED
      BY <1>10, <3>1, <3>2, <3>3
  <2>3. P' = P
    BY <1>8, <2>1, <2>2
  <2>4. R' = R
    BY <1>9, <2>1
  <2>5. QED
    BY <1>1, <2>1, <2>3, <2>4
<1>11. ASSUME NEW c \in Ids, PutRow(c)
       PROVE  R' <= counts'[d] + faults' + P'
  <2>1. /\ UNCHANGED <<log, counts, faults>> /\ rows' = rows \cup {copies[c].msg}
        /\ copies[c].stage = "read" /\ copies' = [copies EXCEPT ![c].stage = "put"]
        /\ copies[c].count \in Nat /\ "put" \in Stages
    BY <1>5, <1>11 DEF PutRow, Stages, Copies
  <2>2. copies' = [copies EXCEPT ![c] = Became(c, "put", copies[c].count)]
    BY <2>1, PutMoves
  <2>3. /\ EventOf(c).driver # d => P' = P
        /\ EventOf(c).driver = d => P' = P + 1
    BY <1>8, <2>1, <2>2 DEF Halfway
  <2>4. R' \in {R, R + 1} /\ (EventOf(c).driver # d => R' = R)
    BY <1>9, <2>1
  <2>5. QED
    BY <1>1, <2>1, <2>3, <2>4
<1>12. ASSUME NEW c \in Ids, Increment(c)
       PROVE  R' <= counts'[d] + faults' + P'
  <2>1. /\ UNCHANGED <<log, rows, faults>> /\ copies[c].stage = "put" /\ Counted(c)
        /\ "emitted" \in Stages /\ Incremented(c) \in Nat
    BY <1>12, IncrementTyped DEF Increment, Stages
  <2>2. copies' = [copies EXCEPT ![c] = Became(c, "emitted", Incremented(c))]
    BY <1>12, IncrementMoves
  <2>3. /\ EventOf(c).driver # d => P' = P
        /\ EventOf(c).driver = d => P' = P - 1
    BY <1>8, <2>1, <2>2 DEF Halfway
  <2>4. R' = R /\ counts'[d] = IF EventOf(c).driver = d THEN counts[d] + 1 ELSE counts[d]
    BY <1>9, <2>1
  <2>5. QED
    BY <1>1, <2>1, <2>3, <2>4
<1>13. ASSUME NEW c \in Ids, StoreFails(c)
       PROVE  R' <= counts'[d] + faults' + P'
  <2>1. /\ log' = log /\ faults' = faults + 1 /\ copies[c].stage \in {"read", "put"}
        /\ \/ UNCHANGED <<rows, counts>>
           \/ copies[c].stage = "read" /\ rows' = rows \cup {copies[c].msg} /\ UNCHANGED counts
           \/ copies[c].stage = "put" /\ Counted(c) /\ UNCHANGED rows
        /\ copies' = [copies EXCEPT ![c].stage = "emitted"]
        /\ copies[c].count \in Nat /\ "emitted" \in Stages
    BY <1>5, <1>13 DEF StoreFails, Failure, Stages, Copies
  <2>2. copies' = [copies EXCEPT ![c] = Became(c, "emitted", copies[c].count)]
    BY <2>1, PutMoves
  <2>3. /\ EventOf(c).driver # d \/ copies[c].stage = "read" => P' = P
        /\ EventOf(c).driver = d /\ copies[c].stage = "put" => P' = P - 1
    <3>1. copies[c].stage \in Halfway <=> copies[c].stage = "put"
      BY <2>1 DEF Halfway
    <3>2. "emitted" \notin Halfway /\ "read" # "put"
      BY DEF Halfway
    <3>3. QED
      BY <1>8, <2>1, <2>2, <3>1, <3>2, ZenonT(60)
  <2>4. /\ rows' = rows => R' = R
        /\ rows' = rows \cup {copies[c].msg} => R' \in {R, R + 1}
        /\ Counted(c) => counts'[d] = IF EventOf(c).driver = d THEN counts[d] + 1 ELSE counts[d]
    BY <1>9, <2>1
  <2>5. QED
    BY <1>1, <2>1, <2>3, <2>4
<1>14. ASSUME NEW c \in Ids, ProcessEvent(c)
       PROVE  R' <= counts'[d] + faults' + P'
  <2>1. UNCHANGED <<log, copies, rows, counts>> /\ faults' \in {faults, faults + 1}
    BY <1>14, EngineMoves DEF Hbase, Leaves, Adds, Alerts, Failure
  <2>2. QED
    BY <1>2, <1>3, <2>1 DEF Putting, Ids, EventOf
<1>15. CASE UNCHANGED vars
  BY <1>2, <1>3, <1>15 DEF vars, Putting, Ids, EventOf
<1>16. QED
  BY <1>6, <1>7, <1>10, <1>11, <1>12, <1>13, <1>14, <1>15 DEF Next

-----------------------------------------------------------------------------
(* While every call has gone well, the totals that violations have    *)
(* left the bolt with are below the driver's count, and no two are the same.  *)
Told(c) == EventOf(c).unsafe /\ copies[c].stage \in {"emitted", "done"}
Settled == faults = 0 =>
  /\ \A p \in published : copies[p.copy].stage = "done" /\ p.count = copies[p.copy].count
  /\ \A c \in Ids : Told(c) => copies[c].count <= counts[EventOf(c).driver]
  /\ \A b, c \in Ids :
       (b # c /\ Told(b) /\ Told(c) /\ EventOf(b).driver = EventOf(c).driver)
         => copies[b].count # copies[c].count

(* A move of one copy: if it leaves the bolt with a total, it is a new one      *)
LEMMA SettledMoves ==
  ASSUME Typed, Settled, faults = 0, Onwards, Ids' = Ids, NEW c \in Ids,
         \A b \in Ids : b # c => copies'[b] = copies[b],
         counts' \in [Drivers -> Nat], \A d \in Drivers : counts[d] <= counts'[d],
         \A p \in published' : copies'[p.copy].stage = "done" /\ p.count = copies'[p.copy].count,
         (EventOf(c).unsafe /\ copies'[c].stage \in {"emitted", "done"}) =>
           \/ Told(c) /\ copies'[c].count = copies[c].count
           \/ /\ copies'[c].count > counts[EventOf(c).driver]
              /\ copies'[c].count <= counts'[EventOf(c).driver],
         copies'[c].count \in Nat
  PROVE  Settled'
<1>1. \A b \in Ids : EventOf(b)' = EventOf(b)
  BY DEF Onwards, EventOf
<1>2. /\ counts \in [Drivers -> Nat]
      /\ \A b \in Ids : EventOf(b).driver \in Drivers /\ copies[b].count \in Nat
  BY LogTyped, EngineOfDemo DEF Typed, Copies
<1>3. \A b \in Ids : b # c => (Told(b)' <=> Told(b))
  BY <1>1 DEF Told
<1>4. Told(c)' <=> (EventOf(c).unsafe /\ copies'[c].stage \in {"emitted", "done"})
  BY <1>1 DEF Told
<1>5. /\ \A b \in Ids : Told(b) => copies[b].count <= counts[EventOf(b).driver]
      /\ \A a, b \in Ids :
           (a # b /\ Told(a) /\ Told(b) /\ EventOf(a).driver = EventOf(b).driver)
             => copies[a].count # copies[b].count
  BY DEF Settled
<1>6. \A b \in Ids : Told(b)' => copies'[b].count <= counts'[EventOf(b).driver]
  BY <1>2, <1>3, <1>4, <1>5
<1>7. ASSUME NEW a \in Ids, NEW b \in Ids, a # b, Told(a)', Told(b)',
             EventOf(a).driver = EventOf(b).driver
      PROVE  copies'[a].count # copies'[b].count
  BY <1>2, <1>3, <1>4, <1>5, <1>7
<1>8. QED
  BY <1>1, <1>6, <1>7 DEF Settled

LEMMA SettledKept ==
  ASSUME Typed, Onwards, Settled, [Next]_vars
  PROVE  Settled'
<1>1. /\ counts \in [Drivers -> Nat] /\ published \subseteq [copy : Ids, count : Nat]
      /\ faults \in Nat /\ log' = log /\ \A c \in Ids : EventOf(c)' = EventOf(c)
      /\ \A c \in Ids : copies[c].count \in Nat
      /\ Ids = 1 .. Len(copies) /\ Len(copies) \in Nat
  BY LogTyped, BoundsAssumption DEF Typed, Onwards, EventOf, Copies
<1>2. \A c \in Ids : EventOf(c).driver \in Drivers
  BY EngineOfDemo
<1>3. \A d \in Drivers : counts[d] \in Nat /\ counts[d] <= counts[d]
  BY <1>1
(* A move that lets no total out, nor publishes one                            *)
<1>4. ASSUME NEW c \in Ids, NEW st \in Stages \ {"done"}, NEW n \in Nat, log' = log, faults = 0,
             copies' = [copies EXCEPT ![c] = Became(c, st, n)],
             EventOf(c).unsafe => st # "emitted", copies[c].stage # "done",
             counts' = counts, published' = published
      PROVE  Settled'
  <2>1. /\ Ids' = Ids /\ copies'[c].stage = st /\ copies'[c].count = n
        /\ \A b \in Ids : b # c => copies'[b] = copies[b]
    BY <1>4, CopyMoves
  <2>2. ASSUME NEW p \in published
        PROVE  copies'[p.copy].stage = "done" /\ p.count = copies'[p.copy].count
    <3>1. p.copy \in Ids /\ copies[p.copy].stage = "done" /\ p.count = copies[p.copy].count
      BY <1>1, <1>4 DEF Settled
    <3>2. QED
      BY <1>4, <2>1, <3>1
  <2>3. QED
    BY <1>1, <1>3, <1>4, <2>1, <2>2, SettledMoves
<1>5. ASSUME NEW m \in DOMAIN log, NEW t \in Tasks, Emit(m, t), faults = 0
      PROVE  Settled'
  <2>1. UNCHANGED <<log, counts, published, faults>>
    BY <1>5 DEF Emit, Hbase
  <2>2. /\ Ids' = 1 .. Len(copies) + 1 /\ \A c \in Ids : copies'[c] = copies[c]
        /\ copies'[Len(copies) + 1] = Copy(m, t)
    BY <1>5, EmitMoves
  <2>3. Copy(m, t).stage = "queued"
    BY DEF Copy
  <2>4. \A c \in Ids' : Told(c)' => c \in Ids /\ Told(c)
    BY <1>1, <2>2, <2>3 DEF Told
  <2>5. \A p \in published : p.copy \in Ids
    BY <1>1
  <2>6. QED
    <3>1. faults' = faults /\ counts' = counts /\ published' = published
      BY <2>1
    <3>2. \A c \in Ids : copies'[c] = copies[c] /\ EventOf(c)' = EventOf(c)
      BY <1>1, <2>2
    <3>3. \A p \in published : copies'[p.copy] = copies[p.copy]
      BY <2>5, <3>2
    <3>4. QED
      BY <1>5, <2>4, <3>1, <3>2, <3>3 DEF Settled
<1>6. ASSUME NEW c \in Ids, ReadCount(c), faults = 0
      PROVE  Settled'
  <2>1. /\ UNCHANGED <<counts, published>> /\ copies[c].stage # "done"
        /\ counts[EventOf(c).driver] \in Nat /\ "read" \in Stages \ {"done"}
    BY <1>2, <1>3, <1>6 DEF ReadCount, FirstQueued, Hbase, Stages
  <2>2. QED
    BY <1>1, <1>4, <1>6, <2>1, ReadMoves
<1>7. ASSUME NEW c \in Ids, PutRow(c), faults = 0
      PROVE  Settled'
  <2>1. /\ UNCHANGED <<counts, published>> /\ copies[c].stage # "done" /\ "put" \in Stages \ {"done"}
        /\ copies' = [copies EXCEPT ![c].stage = "put"]
    BY <1>7 DEF PutRow, Stages
  <2>2. copies' = [copies EXCEPT ![c] = Became(c, "put", copies[c].count)]
    BY <2>1, PutMoves
  <2>3. QED
    BY <1>1, <1>4, <1>7, <2>1, <2>2, ZenonT(60)
<1>8. ASSUME NEW c \in Ids, PassOn(c), faults = 0
      PROVE  Settled'
  <2>1. /\ UNCHANGED <<counts, published>> /\ copies[c].stage # "done" /\ "emitted" \in Stages \ {"done"}
        /\ copies' = [copies EXCEPT ![c].stage = "emitted"] /\ ~EventOf(c).unsafe
    BY <1>8 DEF PassOn, Hbase, Stages
  <2>2. copies' = [copies EXCEPT ![c] = Became(c, "emitted", copies[c].count)]
    BY <2>1, PutMoves
  <2>3. QED
    BY <1>1, <1>4, <1>8, <2>1, <2>2
<1>9. ASSUME NEW c \in Ids, Increment(c), faults = 0
      PROVE  Settled'
  <2> DEFINE n == Incremented(c)
             d == EventOf(c).driver
  <2>1. /\ published' = published /\ copies[c].stage = "put" /\ "emitted" \in Stages
        /\ Counted(c) /\ n \in Nat
    BY <1>9, IncrementTyped DEF Increment, Stages
  <2>2. copies' = [copies EXCEPT ![c] = Became(c, "emitted", n)]
    BY <1>9, IncrementMoves
  <2>3. /\ Ids' = Ids /\ copies'[c].count = n /\ \A b \in Ids : b # c => copies'[b] = copies[b]
    BY <1>1, <2>1, <2>2, CopyMoves
  <2>4. /\ counts' \in [Drivers -> Nat] /\ \A e \in Drivers : counts[e] <= counts'[e]
        /\ n > counts[d] /\ n <= counts'[d]
    BY <1>1, <1>2, <1>3, <2>1, IncrementTyped DEF Counted, Incremented
  <2>5. ASSUME NEW p \in published
        PROVE  copies'[p.copy].stage = "done" /\ p.count = copies'[p.copy].count
    <3>1. p.copy \in Ids /\ copies[p.copy].stage = "done" /\ p.count = copies[p.copy].count
      BY <1>1, <1>9 DEF Settled
    <3>2. QED
      BY <2>1, <2>3, <3>1
  <2> HIDE DEF n
  <2>6. QED
    BY <1>1, <1>9, <2>1, <2>3, <2>4, <2>5, SettledMoves
<1>10. ASSUME NEW c \in Ids, Publish(c), faults = 0
       PROVE  Settled'
  <2> DEFINE n == copies[c].count
  <2>1. /\ published' = published \cup {[copy |-> c, count |-> n]} /\ copies[c].stage = "emitted"
        /\ counts' = counts
    BY <1>10 DEF Publish, Published
  <2>2. copies' = [copies EXCEPT ![c] = Became(c, "done", n)] /\ "done" \in Stages /\ n \in Nat
    BY <1>1, <1>10, PutMoves DEF Publish, Stages
  <2> HIDE DEF n
  <2>3. /\ Ids' = Ids /\ copies'[c].count = n /\ copies'[c].stage = "done"
        /\ \A b \in Ids : b # c => copies'[b] = copies[b]
    BY <1>1, <2>2, CopyMoves, ZenonT(60)
  <2>4. ASSUME NEW p \in published'
        PROVE  copies'[p.copy].stage = "done" /\ p.count = copies'[p.copy].count
    <3>1. CASE p \in published
      <4>1. p.copy \in Ids /\ copies[p.copy].stage = "done" /\ p.count = copies[p.copy].count
        BY <1>1, <1>10, <3>1 DEF Settled
      <4>2. QED
        BY <2>1, <2>3, <4>1
    <3>2. CASE p = [copy |-> c, count |-> n]
      BY <2>3, <3>2
    <3>3. QED
      BY <2>1, <3>1, <3>2
  <2>5. EventOf(c).unsafe => Told(c)
    BY <2>1 DEF Told
  <2>6. QED
    BY <1>1, <1>3, <1>10, <2>1, <2>3, <2>4, <2>5, SettledMoves DEF n
<1>11. ASSUME NEW c \in Ids, ProcessEvent(c)
       PROVE  Settled'
  <2>1. UNCHANGED <<log, copies, counts, published>> /\ faults' \in {faults, faults + 1}
    BY <1>11, EngineMoves DEF Hbase, Leaves, Adds, Alerts, Failure
  <2>2. faults' = 0 => faults = 0
    BY <1>1, <2>1
  <2>3. QED
    BY <2>1, <2>2 DEF Settled, Told, Ids, EventOf
<1>12. ASSUME NEW c \in Ids,
              ReadCountFails(c) \/ StoreFails(c) \/ PublishLost(c) \/ PublishFails(c)
       PROVE  Settled'
  <2>1. faults' = faults + 1
    BY <1>12, ThrowMoves DEF StoreFails, PublishLost, Failure
  <2>2. QED
    BY <1>1, <2>1 DEF Settled
<1>13. CASE UNCHANGED vars
  BY <1>13 DEF vars, Settled, Told, Ids, EventOf
<1>14. CASE faults' # 0
  BY <1>14 DEF Settled
<1>15. ASSUME NEW c \in Ids, ReadCount(c) \/ PutRow(c) \/ Increment(c) \/ PassOn(c) \/ Publish(c)
       PROVE  faults' = faults
  BY <1>15 DEF ReadCount, PutRow, Increment, PassOn, Publish
<1>16. ASSUME NEW m \in DOMAIN log, NEW t \in Tasks, Emit(m, t)
       PROVE  faults' = faults
  BY <1>16 DEF Emit
<1>17. QED
  BY <1>5, <1>6, <1>7, <1>8, <1>9, <1>10, <1>11, <1>12, <1>13, <1>14, <1>15, <1>16 DEF Next

LEMMA SettledDistinct == Typed /\ Settled => DistinctCounts
<1> SUFFICES ASSUME Typed, Settled, faults = 0, NEW p \in published, NEW q \in published,
                    p.copy # q.copy, EventOf(p.copy).unsafe, EventOf(q.copy).unsafe,
                    EventOf(p.copy).driver = EventOf(q.copy).driver
             PROVE  p.count # q.count
  BY BoundsAssumption DEF DistinctCounts, Typed
<1>1. p.copy \in Ids /\ q.copy \in Ids
  BY DEF Typed
<1>2. /\ copies[p.copy].stage = "done" /\ p.count = copies[p.copy].count
      /\ copies[q.copy].stage = "done" /\ q.count = copies[q.copy].count
  BY DEF Settled
<1>3. QED
  BY <1>1, <1>2 DEF Settled, Told

-----------------------------------------------------------------------------
(* A list of unsafe events of one driver in one demo, the last that came first *)
Happened == [c \in Ids |-> EventOf(c)]
Gathered(ev, w, d, demo, seen) ==
  /\ \A k \in DOMAIN w : /\ w[k] \in 1 .. seen /\ ev[w[k]].unsafe
                         /\ ev[w[k]].driver = d /\ ev[w[k]].demo = demo
  /\ \A k, l \in DOMAIN w : k < l => w[k] > w[l]
Lists == [i \in DOMAIN alerts |-> alerts[i].events]
Apart(v, w) == \A k \in DOMAIN v, l \in DOMAIN w : v[k] # w[l]

(* What the engine holds is such a list of each driver, never full, of copies   *)
(* it has seen, and so is every alert, full; no two of them share an event.   *)
Watched ==
  /\ \A d \in Drivers : /\ Len(rules.driverEvents[d]) <= MaxUnsafe
                        /\ Gathered(Happened, rules.driverEvents[d], d, rules.correlation, rules.seen)
                        /\ \A k \in DOMAIN rules.driverEvents[d] :
                             rules.driverEvents[d][k] > rules.began
                        /\ \A i \in DOMAIN Lists : Apart(rules.driverEvents[d], Lists[i])
  /\ \A i \in DOMAIN Lists :
       /\ Len(Lists[i]) = MaxUnsafe
       /\ \E d \in Drivers, demo \in Nat : Gathered(Happened, Lists[i], d, demo, rules.seen)
       /\ \A j \in DOMAIN Lists : i # j => Apart(Lists[i], Lists[j])

LEMMA ListsTyped ==
  ASSUME Typed
  PROVE  /\ Lists \in Seq(Seq(Nat)) /\ Len(Lists) = Len(alerts) /\ Len(alerts) \in Nat
         /\ DOMAIN Lists = 1 .. Len(alerts) /\ DOMAIN alerts = 1 .. Len(alerts)
         /\ \A i \in DOMAIN alerts : alerts[i] \in Attempts /\ Lists[i] = alerts[i].events
<1>1. alerts \in Seq(Attempts)
  BY DEF Typed
<1>2. /\ DOMAIN alerts = 1 .. Len(alerts) /\ Len(alerts) \in Nat
      /\ \A i \in DOMAIN alerts : alerts[i] \in Attempts
  BY <1>1, LenProperties, ElementOfSeq
<1>3. \A i \in DOMAIN alerts : Lists[i] = alerts[i].events /\ alerts[i].events \in Seq(Nat)
  BY <1>2 DEF Lists, Attempts
<1>4. Lists \in [1 .. Len(alerts) -> Seq(Nat)]
  BY <1>2, <1>3 DEF Lists
<1>5. Lists \in Seq(Seq(Nat)) /\ Len(Lists) = Len(alerts)
  BY <1>2, <1>4
<1>6. QED
  BY <1>2, <1>3, <1>4, <1>5

LEMMA ListsMove ==
  ASSUME Typed, NEW c \in Ids, ProcessEvent(c)
  PROVE  /\ Leaves(c) \/ Adds(c) => Lists' = Lists
         /\ Alerts(c) => Lists' = Append(Lists, Held(c)[EventOf(c).driver])
<1> DEFINE w == Held(c)[EventOf(c).driver]
<1>1. Leaves(c) \/ Adds(c) => alerts' = alerts
  BY DEF Leaves, Adds
<1>2. ASSUME Alerts(c)
      PROVE  Lists' = Append(Lists, w)
  <2>1. PICK sent \in BOOLEAN : alerts' = Append(alerts, Attempt(c, sent))
    BY <1>2 DEF Alerts
  <2>2. Attempt(c, sent).events = w /\ w \in Seq(Nat) /\ Attempt(c, sent) \in Attempts
    BY EngineOfDemo DEF Attempt, Attempts
  <2>3. alerts \in Seq(Attempts) /\ Lists \in Seq(Seq(Nat))
    BY ListsTyped DEF Typed
  <2> HIDE DEF w
  <2>4. /\ alerts' \in Seq(Attempts) /\ Len(alerts') = Len(alerts) + 1
        /\ \A i \in 1 .. Len(alerts) : alerts'[i] = alerts[i]
        /\ alerts'[Len(alerts) + 1] = Attempt(c, sent)
    BY <2>1, <2>2, <2>3, AppendProperties
  <2>5. /\ Append(Lists, w) \in Seq(Seq(Nat)) /\ Len(Append(Lists, w)) = Len(Lists) + 1
        /\ \A i \in 1 .. Len(Lists) : Append(Lists, w)[i] = Lists[i]
        /\ Append(Lists, w)[Len(Lists) + 1] = w
    BY <2>2, <2>3, AppendProperties
  <2>6. /\ Len(Lists) = Len(alerts) /\ Len(alerts) \in Nat
        /\ \A i \in 1 .. Len(alerts) : Lists[i] = alerts[i].events
    BY ListsTyped
  <2>7. DOMAIN alerts' = 1 .. Len(alerts) + 1 /\ DOMAIN Append(Lists, w) = 1 .. Len(alerts) + 1
    BY <2>4, <2>5, <2>6, LenProperties
  <2>8. Lists' = [i \in 1 .. Len(alerts) + 1 |-> alerts'[i].events]
    BY <2>7 DEF Lists
  <2>9. ASSUME NEW i \in 1 .. Len(alerts) + 1
        PROVE  alerts'[i].events = Append(Lists, w)[i]
    <3>1. CASE i \in 1 .. Len(alerts)
      <4>1. alerts'[i] = alerts[i] /\ Lists[i] = alerts[i].events
        BY <2>4, <2>6, <3>1
      <4>2. Append(Lists, w)[i] = Lists[i]
        BY <2>5, <2>6, <3>1
      <4>3. QED
        BY <4>1, <4>2
    <3>2. CASE i = Len(alerts) + 1
      <4>1. alerts'[i] = Attempt(c, sent) /\ Append(Lists, w)[i] = w
        BY <2>4, <2>5, <2>6, <3>2
      <4>2. QED
        BY <2>2, <4>1
    <3>3. QED
      BY <2>6, <3>1, <3>2
  <2>10. Append(Lists, w) = [i \in 1 .. Len(alerts) + 1 |-> Append(Lists, w)[i]]
    <3> DEFINE v == Append(Lists, w)
               n == Len(alerts) + 1
    <3>1. v \in Seq(Seq(Nat)) /\ Len(v) = n
      BY <2>5, <2>6
    <3> HIDE DEF v, n
    <3>2. v \in [1 .. n -> Seq(Nat)]
      BY <3>1, LenProperties
    <3>3. v = [i \in 1 .. n |-> v[i]]
      BY <3>2
    <3>4. QED
      BY <3>3 DEF v, n
  <2>11. QED
    BY <2>8, <2>9, <2>10
<1>3. QED
  BY <1>1, <1>2 DEF Lists

LEMMA EventsStay ==
  ASSUME Typed, Onwards
  PROVE  \A c \in 1 .. rules.seen : c \in Ids /\ EventOf(c)' = EventOf(c)
<1>1. Ids = 1 .. Len(copies) /\ rules.seen <= Len(copies) /\ rules.seen \in Nat /\ Len(copies) \in Nat
  BY LogTyped DEF Typed, Rules
<1>2. QED
  BY <1>1 DEF Onwards, EventOf

LEMMA WatchedStays ==
  ASSUME Typed, Onwards, Watched, rules' = rules, alerts' = alerts
  PROVE  Watched'
<1>0. Lists' = Lists
  BY DEF Lists
<1> DEFINE ev == Happened
<1>1. \A c \in 1 .. rules.seen : Happened'[c] = ev[c]
  BY EventsStay DEF Happened, Onwards
<1> HIDE DEF ev
<1>2. \A w, d, demo : Gathered(ev, w, d, demo, rules.seen) => Gathered(Happened', w, d, demo, rules.seen)
  BY <1>1 DEF Gathered
<1>3. QED
  BY <1>0, <1>2 DEF Watched, ev

(* The rule engine of another worker holds nothing                            *)
LEMMA WatchedAnew ==
  ASSUME Typed, Onwards, Watched, NEW n \in rules.seen .. Len(copies), rules' = NewEngine(n),
         alerts' = alerts
  PROVE  Watched'
<1> DEFINE ev == Happened
<1>1. \A c \in 1 .. rules.seen : Happened'[c] = ev[c]
  BY EventsStay DEF Happened, Onwards
<1>2. /\ Lists' = Lists /\ rules'.seen = n /\ rules.seen \in Nat /\ n \in Nat /\ rules.seen <= n
      /\ \A d \in Drivers : rules'.driverEvents[d] = <<>>
  BY LogTyped DEF Lists, NewEngine, NoEvents, Typed, Rules
<1> HIDE DEF ev
<1>3. \A w, d, demo : Gathered(ev, w, d, demo, rules.seen) => Gathered(Happened', w, d, demo, n)
  BY <1>1, <1>2 DEF Gathered
<1>4. \A d \in Drivers : /\ Len(rules'.driverEvents[d]) <= MaxUnsafe
                         /\ DOMAIN rules'.driverEvents[d] = {}
  BY <1>2, EmptySeq, BoundsAssumption
<1>5. \A d \in Drivers : /\ Gathered(Happened', rules'.driverEvents[d], d, rules'.correlation, n)
                         /\ \A i \in DOMAIN Lists : Apart(rules'.driverEvents[d], Lists[i])
  BY <1>4 DEF Gathered, Apart
<1>6. \A i \in DOMAIN Lists :
       /\ Len(Lists[i]) = MaxUnsafe
       /\ \E d \in Drivers, demo \in Nat : Gathered(Happened', Lists[i], d, demo, n)
       /\ \A j \in DOMAIN Lists : i # j => Apart(Lists[i], Lists[j])
  BY <1>3 DEF Watched, ev
<1>7. QED
  BY <1>2, <1>4, <1>5, <1>6 DEF Watched

(* The lists of the demo at hand                                            *)
LEMMA HeldGathered ==
  ASSUME Typed, Watched, NEW c \in Ids, NEW d \in Drivers
  PROVE  /\ Len(Held(c)[d]) <= MaxUnsafe /\ Len(Held(c)[d]) \in Nat
         /\ Gathered(Happened, Held(c)[d], d, EventOf(c).demo, rules.seen)
         /\ \A k \in DOMAIN Held(c)[d] : Held(c)[d][k] > rules.began
         /\ \A i \in DOMAIN Lists : Apart(Held(c)[d], Lists[i])
<1>1. CASE rules.correlation = EventOf(c).demo
  <2>1. rules.driverEvents[d] \in Seq(Nat)
    BY DEF Typed, Rules
  <2>2. QED
    BY <1>1, <2>1, LenProperties DEF Held, Watched
<1>2. CASE rules.correlation # EventOf(c).demo
  <2>1. Held(c)[d] = <<>>
    BY <1>2 DEF Held, NoEvents
  <2>2. QED
    BY <2>1, EmptySeq, BoundsAssumption DEF Gathered, Apart
<1>3. QED
  BY <1>1, <1>2

LEMMA LongerGathered ==
  ASSUME NEW ev, NEW w, NEW d, NEW demo, NEW n \in Nat, Gathered(ev, w, d, demo, n)
  PROVE  Gathered(ev, w, d, demo, n + 1)
  BY DEF Gathered

LEMMA ConsGathered ==
  ASSUME NEW ev, NEW w \in Seq(Nat), NEW d, NEW demo, NEW n \in Nat, Gathered(ev, w, d, demo, n),
         ev[n + 1].unsafe, ev[n + 1].driver = d, ev[n + 1].demo = demo
  PROVE  /\ Len(<<n + 1>> \o w) = Len(w) + 1 /\ Gathered(ev, <<n + 1>> \o w, d, demo, n + 1)
         /\ \A x : (Apart(w, x) /\ \A l \in DOMAIN x : x[l] \in 1 .. n) => Apart(<<n + 1>> \o w, x)
<1> DEFINE v == <<n + 1>> \o w
<1>1. /\ <<n + 1>> \in Seq(Nat) /\ Len(<<n + 1>>) = 1 /\ <<n + 1>>[1] = n + 1
      /\ DOMAIN w = 1 .. Len(w) /\ Len(w) \in Nat /\ \A k \in DOMAIN w : w[k] \in Nat
  BY LenProperties, ElementOfSeq
<1>2. /\ v \in Seq(Nat) /\ Len(v) = 1 + Len(w)
      /\ \A k \in 1 .. 1 + Len(w) : v[k] = IF k <= 1 THEN <<n + 1>>[k] ELSE w[k - 1]
  BY <1>1, ConcatProperties
<1> HIDE DEF v
<1>3. DOMAIN v = 1 .. 1 + Len(w)
  BY <1>2, LenProperties
<1>4. /\ v[1] = n + 1
      /\ \A k \in DOMAIN v : k # 1 => k - 1 \in DOMAIN w /\ v[k] = w[k - 1]
  BY <1>1, <1>2, <1>3
<1>5. \A k \in DOMAIN w : /\ w[k] \in 1 .. n /\ ev[w[k]].unsafe
                          /\ ev[w[k]].driver = d /\ ev[w[k]].demo = demo
  BY DEF Gathered
<1>6. \A k \in DOMAIN v : /\ v[k] \in 1 .. n + 1 /\ ev[v[k]].unsafe
                          /\ ev[v[k]].driver = d /\ ev[v[k]].demo = demo
  BY <1>4, <1>5
<1>7. ASSUME NEW k \in DOMAIN v, NEW l \in DOMAIN v, k < l
      PROVE  v[k] > v[l]
  <2>1. k \in Nat /\ l \in Nat /\ l # 1 /\ l - 1 \in DOMAIN w /\ v[l] = w[l - 1] /\ w[l - 1] \in 1 .. n
    BY <1>1, <1>3, <1>4, <1>5, <1>7
  <2>2. CASE k = 1
    BY <1>4, <2>1, <2>2
  <2>3. CASE k # 1
    <3>1. k - 1 \in DOMAIN w /\ v[k] = w[k - 1] /\ k - 1 < l - 1
      BY <1>4, <1>7, <2>1, <2>3
    <3>2. QED
      BY <2>1, <3>1 DEF Gathered
  <2>4. QED
    BY <2>2, <2>3
<1>8. ASSUME NEW x, Apart(w, x), \A l \in DOMAIN x : x[l] \in 1 .. n
      PROVE  Apart(v, x)
  <2>1. ASSUME NEW k \in DOMAIN v, NEW l \in DOMAIN x
        PROVE  v[k] # x[l]
    BY <1>4, <1>8, <2>1 DEF Apart
  <2>2. QED
    BY <2>1 DEF Apart
<1>9. Gathered(ev, v, d, demo, n + 1)
  BY <1>6, <1>7 DEF Gathered
<1>10. QED
  BY <1>2, <1>8, <1>9 DEF v

LEMMA OthersApart ==
  ASSUME NEW ev, NEW v, NEW w, NEW d, NEW e, NEW demo, NEW n, d # e,
         Gathered(ev, v, d, demo, n), Gathered(ev, w, e, demo, n)
  PROVE  Apart(v, w)
  BY DEF Gathered, Apart

LEMMA WatchedProcess ==
  ASSUME Typed, Watched, NEW c \in Ids, ProcessEvent(c)
  PROVE  Watched'
<1> DEFINE d == EventOf(c).driver
           demo == EventOf(c).demo
           h == Held(c)
           ev == Happened
<1>1. /\ c = rules.seen + 1 /\ rules.seen \in Nat /\ h \in [Drivers -> Seq(Nat)]
      /\ d \in Drivers /\ demo \in Nat /\ log' = log /\ copies' = copies
      /\ Lists \in Seq(Seq(Nat)) /\ MaxUnsafe \in Nat \ {0} /\ c \in Nat
      /\ rules.began \in Nat /\ rules.began <= rules.seen
  BY EngineMoves, EngineOfDemo, ListsTyped, BoundsAssumption DEF Typed, Rules
<1>2. Happened' = ev /\ ev[c] = EventOf(c)
  BY <1>1 DEF EventOf, Happened, Ids
<1>3. \A e \in Drivers :
        /\ Len(h[e]) <= MaxUnsafe /\ Len(h[e]) \in Nat
        /\ Gathered(ev, h[e], e, demo, rules.seen) /\ Gathered(ev, h[e], e, demo, c)
        /\ \A k \in DOMAIN h[e] : h[e][k] > rules.began
        /\ \A i \in DOMAIN Lists : Apart(h[e], Lists[i])
  BY <1>1, HeldGathered, LongerGathered
<1>4. \A i \in DOMAIN Lists :
       /\ Len(Lists[i]) = MaxUnsafe
       /\ \E e \in Drivers, n \in Nat :
            Gathered(ev, Lists[i], e, n, rules.seen) /\ Gathered(ev, Lists[i], e, n, c)
       /\ \A j \in DOMAIN Lists : i # j => Apart(Lists[i], Lists[j])
  BY <1>1, LongerGathered DEF Watched
<1> SUFFICES
      /\ \A e \in Drivers : /\ Len(rules'.driverEvents[e]) <= MaxUnsafe
                            /\ Gathered(ev, rules'.driverEvents[e], e, rules'.correlation, rules'.seen)
                            /\ \A k \in DOMAIN rules'.driverEvents[e] :
                                 rules'.driverEvents[e][k] > rules'.began
                            /\ \A i \in DOMAIN Lists' : Apart(rules'.driverEvents[e], Lists'[i])
      /\ \A i \in DOMAIN Lists' :
           /\ Len(Lists'[i]) = MaxUnsafe
           /\ \E e \in Drivers, n \in Nat : Gathered(ev, Lists'[i], e, n, rules'.seen)
           /\ \A j \in DOMAIN Lists' : i # j => Apart(Lists'[i], Lists'[j])
  BY <1>2 DEF Watched
<1> HIDE DEF h, ev
<1>5. CASE Leaves(c)
  <2>1. /\ rules'.correlation = demo /\ rules'.driverEvents = h /\ rules'.seen = c
        /\ Lists' = Lists /\ rules'.began = rules.began
    BY <1>5, ListsMove DEF Leaves, Engine, h
  <2>2. QED
    BY <1>3, <1>4, <2>1
<1>6. CASE Adds(c) /\ EventOf(c).unsafe
  <2> DEFINE w == <<c>> \o h[d]
  <2>1. /\ rules'.correlation = demo /\ rules'.driverEvents = [h EXCEPT ![d] = w]
        /\ rules'.seen = c /\ Lists' = Lists /\ Len(h[d]) # MaxUnsafe
        /\ rules'.began = rules.began
    BY <1>6, ListsMove DEF Adds, Engine, h
  <2>2. /\ Gathered(ev, w, d, demo, c) /\ Len(w) = Len(h[d]) + 1
        /\ \A x : (Apart(h[d], x) /\ \A l \in DOMAIN x : x[l] \in 1 .. rules.seen) => Apart(w, x)
        /\ \A k \in DOMAIN w : w[k] > rules.began
    <3> DEFINE n == rules.seen
               x == h[d]
    <3>1. x \in Seq(Nat) /\ Gathered(ev, x, d, demo, n) /\ n \in Nat
      BY <1>1, <1>3
    <3>2. ev[n + 1].unsafe /\ ev[n + 1].driver = d /\ ev[n + 1].demo = demo
      BY <1>1, <1>2, <1>6
    <3> HIDE DEF n, d, demo, x
    <3>3. /\ Len(<<n + 1>> \o x) = Len(x) + 1 /\ Gathered(ev, <<n + 1>> \o x, d, demo, n + 1)
          /\ \A y : (Apart(x, y) /\ \A l \in DOMAIN y : y[l] \in 1 .. n) => Apart(<<n + 1>> \o x, y)
      BY <3>1, <3>2, ConsGathered
    <3>4. \A k \in DOMAIN w : w[k] > rules.began
      <4>1. /\ <<c>> \in Seq(Nat) /\ Len(<<c>>) = 1 /\ <<c>>[1] = c /\ h[d] \in Seq(Nat)
            /\ DOMAIN h[d] = 1 .. Len(h[d]) /\ Len(h[d]) \in Nat
        BY <1>1, LenProperties DEF d
      <4>2. /\ w \in Seq(Nat) /\ Len(w) = 1 + Len(h[d])
            /\ \A k \in 1 .. 1 + Len(h[d]) : w[k] = IF k <= 1 THEN <<c>>[k] ELSE h[d][k - 1]
        BY <4>1, ConcatProperties
      <4>3. DOMAIN w = 1 .. 1 + Len(h[d])
        BY <4>2, LenProperties
      <4> HIDE DEF w
      <4>4. ASSUME NEW k \in DOMAIN w
            PROVE  w[k] = c \/ \E l \in DOMAIN h[d] : w[k] = h[d][l]
        <5>1. k \in 1 .. 1 + Len(h[d]) /\ w[k] = IF k <= 1 THEN <<c>>[k] ELSE h[d][k - 1]
          BY <4>2, <4>3
        <5>2. CASE k = 1
          BY <4>1, <5>1, <5>2
        <5>3. CASE k # 1
          <6>1. k - 1 \in 1 .. Len(h[d]) /\ w[k] = h[d][k - 1]
            BY <4>1, <5>1, <5>3
          <6>2. QED
            BY <4>1, <6>1
        <5>4. QED
          BY <5>2, <5>3
      <4>5. c > rules.began /\ \A l \in DOMAIN h[d] : h[d][l] > rules.began
        BY <1>1, <1>3 DEF d
      <4>6. QED
        BY <4>4, <4>5
    <3>5. QED
      BY <1>1, <3>3, <3>4 DEF n, x
  <2> HIDE DEF w
  <2>3. \A i \in DOMAIN Lists : Apart(w, Lists[i])
    <3>1. \A i \in DOMAIN Lists : \A l \in DOMAIN Lists[i] : Lists[i][l] \in 1 .. rules.seen
      BY <1>4 DEF Gathered
    <3>2. QED
      BY <1>1, <1>3, <2>2, <3>1
  <2>4. Len(w) <= MaxUnsafe
    BY <1>1, <1>3, <2>1, <2>2
  <2>5. QED
    <3>1. \A e \in Drivers : rules'.driverEvents[e] = IF e = d THEN w ELSE h[e]
      BY <1>1, <2>1
    <3>2. ASSUME NEW e \in Drivers
          PROVE  /\ Len(rules'.driverEvents[e]) <= MaxUnsafe
                 /\ Gathered(ev, rules'.driverEvents[e], e, demo, c)
                 /\ \A k \in DOMAIN rules'.driverEvents[e] :
                      rules'.driverEvents[e][k] > rules.began
                 /\ \A i \in DOMAIN Lists : Apart(rules'.driverEvents[e], Lists[i])
      <4>1. CASE e = d
        <5>1. rules'.driverEvents[e] = w
          BY <3>1, <4>1
        <5>2. QED
          BY <2>2, <2>3, <2>4, <4>1, <5>1
      <4>2. CASE e # d
        <5>1. rules'.driverEvents[e] = h[e]
          BY <3>1, <4>2
        <5>2. QED
          BY <1>3, <5>1
      <4>3. QED
        BY <4>1, <4>2
    <3>3. QED
      BY <1>4, <2>1, <3>2
<1>7. CASE Alerts(c)
  <2>1. /\ rules'.correlation = demo /\ rules'.driverEvents = [h EXCEPT ![d] = <<>>]
        /\ rules'.seen = c /\ Lists' = Append(Lists, h[d]) /\ Len(h[d]) = MaxUnsafe
        /\ rules'.began = rules.began
    BY <1>7, ListsMove DEF Alerts, Engine, h
  <2>2. /\ DOMAIN Lists = 1 .. Len(Lists) /\ Len(Lists) \in Nat
        /\ DOMAIN Lists' = 1 .. Len(Lists) + 1
        /\ \A i \in 1 .. Len(Lists) : Lists'[i] = Lists[i]
        /\ Lists'[Len(Lists) + 1] = h[d]
    <3>1. h[d] \in Seq(Nat)
      BY <1>1
    <3>2. /\ Lists' \in Seq(Seq(Nat)) /\ Len(Lists') = Len(Lists) + 1
          /\ \A i \in 1 .. Len(Lists) : Lists'[i] = Lists[i]
          /\ Lists'[Len(Lists) + 1] = h[d]
      BY <1>1, <2>1, <3>1, AppendProperties
    <3>3. QED
      BY <1>1, <3>2, LenProperties
  <2>3. \A i \in DOMAIN Lists' : i \in DOMAIN Lists \/ i = Len(Lists) + 1
    BY <2>2
  <2>4. ASSUME NEW e \in Drivers
        PROVE  /\ Len(rules'.driverEvents[e]) <= MaxUnsafe
               /\ Gathered(ev, rules'.driverEvents[e], e, demo, c)
               /\ \A k \in DOMAIN rules'.driverEvents[e] : rules'.driverEvents[e][k] > rules.began
               /\ \A i \in DOMAIN Lists' : Apart(rules'.driverEvents[e], Lists'[i])
    <3>1. CASE e = d
      <4>1. rules'.driverEvents[e] = <<>>
        BY <1>1, <2>1, <3>1
      <4>2. QED
        BY <1>1, <4>1, EmptySeq DEF Gathered, Apart
    <3>2. CASE e # d
      <4>1. rules'.driverEvents[e] = h[e]
        BY <1>1, <2>1, <3>2
      <4>2. Apart(h[e], h[d])
        BY <1>1, <1>3, <3>2, OthersApart
      <4>3. QED
        BY <1>3, <2>2, <2>3, <4>1, <4>2
    <3>3. QED
      BY <3>1, <3>2
  <2>5. ASSUME NEW i \in DOMAIN Lists'
        PROVE  /\ Len(Lists'[i]) = MaxUnsafe
               /\ \E e \in Drivers, n \in Nat : Gathered(ev, Lists'[i], e, n, c)
    BY <1>1, <1>3, <1>4, <2>1, <2>2, <2>3
  <2>6. ASSUME NEW i \in DOMAIN Lists', NEW j \in DOMAIN Lists', i # j
        PROVE  Apart(Lists'[i], Lists'[j])
    <3>1. \A a \in DOMAIN Lists : Apart(h[d], Lists[a]) /\ Apart(Lists[a], h[d])
      BY <1>1, <1>3 DEF Apart
    <3>2. QED
      BY <1>4, <2>2, <2>3, <2>6, <3>1
  <2>7. QED
    BY <2>1, <2>4, <2>5, <2>6
<1>8. QED
  BY <1>5, <1>6, <1>7, EngineMoves

-----------------------------------------------------------------------------
(* The alerts against the violations.  Owed(k) violations make k alerts.       *)
Owed(k) == (MaxUnsafe + 1) * k

LEMMA OwedNext ==
  /\ Owed(0) = 0
  /\ \A k \in Nat : Owed(k) \in Nat /\ Owed(k + 1) = Owed(k) + (MaxUnsafe + 1)
  BY BoundsAssumption DEF Owed

LEMMA OwedDiv ==
  ASSUME NEW k \in Nat, NEW left \in 0 .. MaxUnsafe
  PROVE  (Owed(k) + left) \div (MaxUnsafe + 1) = k
  BY BoundsAssumption DEF Owed

Violates(ev, c, d, demo) == ev[c].unsafe /\ ev[c].driver = d /\ ev[c].demo = demo
ViolationsIn(ev, d, demo, from, seen) == {c \in from + 1 .. seen : Violates(ev, c, d, demo)}
AlertsIn(ev, al, d, demo, from) ==
  {i \in DOMAIN al : al[i][1] > from /\ ev[al[i][1]].driver = d /\ ev[al[i][1]].demo = demo}
Balance(ev, al, d, demo, from, seen, left) ==
  Cardinality(ViolationsIn(ev, d, demo, from, seen))
    = Owed(Cardinality(AlertsIn(ev, al, d, demo, from))) + left
InOrder(ev, from, seen) ==
  \A b, c \in from + 1 .. seen : b < c => ev[b].demo <= ev[c].demo

(* While the demos have come in order since the engine began, what the alerts   *)
(* leave of a driver's violations in a demo is less than one more takes, and    *)
(* in the demo at hand it is what the engine holds.                          *)
Balanced == InOrder(Happened, rules.began, rules.seen) =>
  /\ rules.seen > rules.began => rules.correlation = Happened[rules.seen].demo
  /\ \A d \in Drivers, demo \in Nat : \E left \in 0 .. MaxUnsafe :
       /\ Balance(Happened, Lists, d, demo, rules.began, rules.seen, left)
       /\ demo = rules.correlation => left = Len(rules.driverEvents[d])

LEMMA SetsOfBalance ==
  ASSUME Typed, Watched, NEW d, NEW demo
  PROVE  /\ IsFiniteSet(ViolationsIn(Happened, d, demo, rules.began, rules.seen))
         /\ IsFiniteSet(AlertsIn(Happened, Lists, d, demo, rules.began))
         /\ Cardinality(ViolationsIn(Happened, d, demo, rules.began, rules.seen)) \in Nat
         /\ Cardinality(AlertsIn(Happened, Lists, d, demo, rules.began)) \in Nat
<1>1. /\ rules.seen \in Nat /\ rules.began \in Nat
      /\ DOMAIN Lists = 1 .. Len(alerts) /\ Len(alerts) \in Nat
  BY ListsTyped DEF Typed, Rules
<1>2. /\ ViolationsIn(Happened, d, demo, rules.began, rules.seen) \subseteq rules.began + 1 .. rules.seen
      /\ AlertsIn(Happened, Lists, d, demo, rules.began) \subseteq 1 .. Len(alerts)
  BY <1>1 DEF ViolationsIn, AlertsIn
<1>3. IsFiniteSet(rules.began + 1 .. rules.seen) /\ IsFiniteSet(1 .. Len(alerts))
  <2>1. \A m, n \in Nat : IsFiniteSet(m + 1 .. n) /\ IsFiniteSet(1 .. n)
    BY FS_Interval
  <2>2. QED
    BY <1>1, <2>1
<1>4. /\ IsFiniteSet(ViolationsIn(Happened, d, demo, rules.began, rules.seen))
      /\ IsFiniteSet(AlertsIn(Happened, Lists, d, demo, rules.began))
  BY <1>2, <1>3, FS_Subset
<1>5. QED
  BY <1>4, FS_CardinalityType

(* The first event of an alert is one the engine has seen                     *)
LEMMA AlertsFirst ==
  ASSUME Typed, Watched, NEW i \in DOMAIN Lists
  PROVE  /\ 1 \in DOMAIN Lists[i] /\ Lists[i][1] \in 1 .. rules.seen
<1>1. /\ Len(Lists[i]) = MaxUnsafe /\ MaxUnsafe \in Nat \ {0}
      /\ \A k \in DOMAIN Lists[i] : Lists[i][k] \in 1 .. rules.seen
  BY BoundsAssumption DEF Watched, Gathered
<1>2. Lists \in Seq(Seq(Nat)) /\ DOMAIN Lists = 1 .. Len(Lists)
  BY ListsTyped
<1>3. Lists[i] \in Seq(Nat)
  BY <1>2, ElementOfSeq
<1>4. DOMAIN Lists[i] = 1 .. MaxUnsafe
  BY <1>1, <1>3, LenProperties
<1>5. QED
  BY <1>1, <1>4

(* With the rules and the alerts left as they are nothing changes              *)
LEMMA BalancedStays ==
  ASSUME Typed, Onwards, Watched, Balanced, rules' = rules, alerts' = alerts
  PROVE  Balanced'
<1> DEFINE ev == Happened
           from == rules.began
           seen == rules.seen
<1>1. Lists' = Lists /\ from \in Nat /\ seen \in Nat /\ from <= seen
  BY DEF Lists, Typed, Rules
<1>2. \A c \in 1 .. seen : Happened'[c] = ev[c]
  BY EventsStay DEF Happened, Onwards
<1> SUFFICES ASSUME InOrder(Happened', from, seen)
             PROVE  /\ seen > from => rules.correlation = Happened'[seen].demo
                    /\ \A d \in Drivers, demo \in Nat : \E left \in 0 .. MaxUnsafe :
                         /\ Balance(Happened', Lists, d, demo, from, seen, left)
                         /\ demo = rules.correlation => left = Len(rules.driverEvents[d])
  BY <1>1 DEF Balanced
<1>3. \A i \in DOMAIN Lists : Lists[i][1] \in 1 .. seen
  BY AlertsFirst
<1> HIDE DEF ev, from, seen
<1>4. \A c \in from + 1 .. seen : c \in 1 .. seen
  BY <1>1
<1>5. InOrder(ev, from, seen)
  BY <1>2, <1>4 DEF InOrder
<1>6. ASSUME NEW d, NEW demo
      PROVE  /\ ViolationsIn(Happened', d, demo, from, seen) = ViolationsIn(ev, d, demo, from, seen)
             /\ AlertsIn(Happened', Lists, d, demo, from) = AlertsIn(ev, Lists, d, demo, from)
  BY <1>2, <1>3, <1>4 DEF ViolationsIn, Violates, AlertsIn
<1>7. /\ seen > from => rules.correlation = ev[seen].demo
      /\ \A d \in Drivers, demo \in Nat : \E left \in 0 .. MaxUnsafe :
           /\ Balance(ev, Lists, d, demo, from, seen, left)
           /\ demo = rules.correlation => left = Len(rules.driverEvents[d])
  BY <1>5 DEF Balanced, ev, from, seen
<1>8. seen > from => seen \in 1 .. seen
  BY <1>1
<1>9. QED
  BY <1>2, <1>6, <1>7, <1>8 DEF Balance

(* The engine of another worker has seen nothing since it began                *)
LEMMA BalancedAnew ==
  ASSUME Typed, Watched, NEW n \in rules.seen .. Len(copies), rules' = NewEngine(n),
         alerts' = alerts
  PROVE  Balanced'
<1>1. /\ Lists' = Lists /\ rules'.seen = n /\ rules'.began = n /\ rules.seen \in Nat
      /\ n \in Nat /\ rules.seen <= n
      /\ \A d \in Drivers : rules'.driverEvents[d] = <<>>
  BY LogTyped DEF Lists, NewEngine, NoEvents, Typed, Rules
<1>2. \A i \in DOMAIN Lists : Lists[i][1] \in 1 .. rules.seen
  BY AlertsFirst
<1>3. ASSUME NEW d \in Drivers, NEW demo \in Nat
      PROVE  /\ Balance(Happened', Lists, d, demo, n, n, 0) /\ 0 \in 0 .. MaxUnsafe
             /\ Len(rules'.driverEvents[d]) = 0
  <2>1. ViolationsIn(Happened', d, demo, n, n) = {}
    BY <1>1 DEF ViolationsIn
  <2>2. AlertsIn(Happened', Lists, d, demo, n) = {}
    BY <1>1, <1>2 DEF AlertsIn
  <2>3. Cardinality({}) = 0 /\ Owed(0) = 0
    BY FS_EmptySet, OwedNext
  <2>4. Balance(Happened', Lists, d, demo, n, n, 0)
    BY <2>1, <2>2, <2>3 DEF Balance
  <2>5. QED
    BY <1>1, <2>4, BoundsAssumption
<1>4. ~(n > n)
  BY <1>1
<1>5. QED
  BY <1>1, <1>3, <1>4 DEF Balanced

-----------------------------------------------------------------------------
(* What the engine holds when an event comes up balances the demo of the event *)
LEMMA HeldBalances ==
  ASSUME Typed, Watched, Balanced, NEW c \in Ids, c = rules.seen + 1,
         InOrder(Happened, rules.began, c), NEW d \in Drivers
  PROVE  Balance(Happened, Lists, d, EventOf(c).demo, rules.began, rules.seen, Len(Held(c)[d]))
<1> DEFINE n == EventOf(c).demo
           from == rules.began
           seen == rules.seen
           ev == Happened
<1>1. /\ seen \in Nat /\ from \in Nat /\ from <= seen /\ c \in Nat /\ n \in Nat
      /\ Ids = 1 .. Len(copies) /\ Len(copies) \in Nat
      /\ ev[c].demo = n /\ rules.correlation \in Nat
      /\ \A b \in Ids : ev[b].demo \in Nat
  BY LogTyped, EngineOfDemo DEF Typed, Rules, Happened
<1>2. \A i \in DOMAIN Lists : Lists[i][1] \in 1 .. seen
  BY AlertsFirst
<1>3. InOrder(ev, from, seen)
  BY <1>1 DEF InOrder
<1>4. /\ seen > from => rules.correlation = ev[seen].demo
      /\ \A demo \in Nat : \E left \in 0 .. MaxUnsafe :
           /\ Balance(ev, Lists, d, demo, from, seen, left)
           /\ demo = rules.correlation => left = Len(rules.driverEvents[d])
  BY <1>3 DEF Balanced
<1>5. CASE rules.correlation = n
  <2>1. \E left \in 0 .. MaxUnsafe :
          Balance(ev, Lists, d, n, from, seen, left) /\ left = Len(rules.driverEvents[d])
    BY <1>1, <1>4, <1>5
  <2>2. Held(c)[d] = rules.driverEvents[d]
    BY <1>5 DEF Held
  <2>3. QED
    BY <2>1, <2>2
<1>6. CASE rules.correlation # n
  <2>1. ASSUME NEW b \in from + 1 .. seen
        PROVE  ev[b].demo # n
    <3>1. /\ b \in from + 1 .. c /\ seen \in from + 1 .. c /\ c \in from + 1 .. c
          /\ b <= seen /\ seen < c /\ seen > from /\ b \in Ids /\ seen \in Ids /\ b \in Nat
      BY <1>1
    <3>2. ev[seen].demo <= n
      BY <1>1, <3>1 DEF InOrder
    <3>3. ev[b].demo <= ev[seen].demo
      <4>1. CASE b < seen
        BY <3>1, <4>1 DEF InOrder
      <4>2. CASE b = seen
        BY <1>1, <3>1, <4>2
      <4>3. QED
        BY <1>1, <3>1, <4>1, <4>2
    <3>4. rules.correlation = ev[seen].demo
      BY <1>4, <3>1
    <3>5. ev[b].demo \in Nat /\ ev[seen].demo \in Nat
      BY <1>1, <3>1
    <3> HIDE DEF n, ev, seen, from
    <3>6. QED
      BY <1>1, <1>6, <3>2, <3>3, <3>4, <3>5
  <2> HIDE DEF n, ev, seen, from
  <2>2. ViolationsIn(ev, d, n, from, seen) = {}
    BY <2>1 DEF ViolationsIn, Violates
  <2>3. AlertsIn(ev, Lists, d, n, from) = {}
    <3>1. \A i \in DOMAIN Lists : Lists[i][1] > from => Lists[i][1] \in from + 1 .. seen
      BY <1>1, <1>2
    <3>2. QED
      BY <2>1, <3>1 DEF AlertsIn
  <2>4. Len(Held(c)[d]) = 0
    BY <1>6 DEF Held, NoEvents, n
  <2>5. Cardinality({}) = 0 /\ Owed(0) = 0
    BY FS_EmptySet, OwedNext
  <2>6. Balance(ev, Lists, d, n, from, seen, 0)
    BY <2>2, <2>3, <2>5 DEF Balance
  <2>7. QED
    BY <2>4, <2>6 DEF n, ev, seen, from
<1>7. QED
  BY <1>5, <1>6

LEMMA ViolationsNext ==
  ASSUME NEW ev, NEW d, NEW demo, NEW from \in Nat, NEW n \in Nat, from <= n
  PROVE  /\ Violates(ev, n + 1, d, demo)
              => ViolationsIn(ev, d, demo, from, n + 1) = ViolationsIn(ev, d, demo, from, n) \cup {n + 1}
         /\ ~Violates(ev, n + 1, d, demo)
              => ViolationsIn(ev, d, demo, from, n + 1) = ViolationsIn(ev, d, demo, from, n)
         /\ n + 1 \notin ViolationsIn(ev, d, demo, from, n)
<1>1. from + 1 .. n + 1 = (from + 1 .. n) \cup {n + 1} /\ n + 1 \notin from + 1 .. n
  OBVIOUS
<1>2. QED
  BY <1>1 DEF ViolationsIn

LEMMA AlertsNext ==
  ASSUME NEW ev, NEW al \in Seq(Seq(Nat)), NEW w \in Seq(Nat), NEW d, NEW demo, NEW from
  PROVE  /\ AlertsIn(ev, Append(al, w), d, demo, from) =
              IF w[1] > from /\ ev[w[1]].driver = d /\ ev[w[1]].demo = demo
              THEN AlertsIn(ev, al, d, demo, from) \cup {Len(al) + 1}
              ELSE AlertsIn(ev, al, d, demo, from)
         /\ Len(al) + 1 \notin AlertsIn(ev, al, d, demo, from)
<1> DEFINE b == Append(al, w)
<1>1. /\ b \in Seq(Seq(Nat)) /\ Len(b) = Len(al) + 1
      /\ \A i \in 1 .. Len(al) : b[i] = al[i]
      /\ b[Len(al) + 1] = w
  BY AppendProperties
<1> HIDE DEF b
<1>2. DOMAIN al = 1 .. Len(al) /\ DOMAIN b = 1 .. Len(al) + 1 /\ Len(al) \in Nat
  BY <1>1, LenProperties
<1>3. DOMAIN b = DOMAIN al \cup {Len(al) + 1} /\ Len(al) + 1 \notin DOMAIN al
  BY <1>2
<1>4. \A i \in DOMAIN al : b[i] = al[i]
  BY <1>1, <1>2
<1>5. QED
  BY <1>1, <1>3, <1>4 DEF AlertsIn, b

LEMMA BalancedProcess ==
  ASSUME Typed, Watched, Balanced, NEW c \in Ids, ProcessEvent(c)
  PROVE  Balanced'
<1> SUFFICES ASSUME InOrder(Happened', rules'.began, rules'.seen) PROVE Balanced'
  BY DEF Balanced
<1> DEFINE d == EventOf(c).driver
           demo == EventOf(c).demo
           h == Held(c)
           ev == Happened
           n == rules.seen
           from == rules.began
<1>1. /\ c = n + 1 /\ n \in Nat /\ h \in [Drivers -> Seq(Nat)]
      /\ d \in Drivers /\ demo \in Nat /\ log' = log /\ copies' = copies
      /\ Lists \in Seq(Seq(Nat)) /\ MaxUnsafe \in Nat \ {0}
      /\ from \in Nat /\ from <= n
  BY EngineMoves, EngineOfDemo, ListsTyped, BoundsAssumption DEF Typed, Rules
<1>2. Happened' = ev /\ ev[n + 1] = EventOf(c) /\ Ids' = Ids
  BY <1>1 DEF EventOf, Happened, Ids
<1>3. /\ rules'.correlation = demo /\ rules'.seen = n + 1 /\ rules'.began = from
  <2>1. \E held : rules' = Engine(c, held)
    BY EngineMoves DEF Leaves, Adds, Alerts
  <2>2. QED
    BY <1>1, <2>1 DEF Engine
<1>4. InOrder(ev, from, n + 1) /\ InOrder(ev, from, n)
  <2>1. InOrder(ev, from, n + 1)
    BY <1>2, <1>3
  <2>2. \A b \in from + 1 .. n : b \in from + 1 .. n + 1
    BY <1>1
  <2>3. QED
    BY <2>1, <2>2 DEF InOrder
<1>5. \A e \in Drivers :
        /\ Balance(ev, Lists, e, demo, from, n, Len(h[e]))
        /\ Len(h[e]) \in 0 .. MaxUnsafe /\ h[e] \in Seq(Nat)
  BY <1>1, <1>4, HeldBalances, HeldGathered
<1>6. \A e \in Drivers, m \in Nat : \E left \in 0 .. MaxUnsafe : Balance(ev, Lists, e, m, from, n, left)
  BY <1>4 DEF Balanced
<1>7. \A e, m : /\ IsFiniteSet(ViolationsIn(ev, e, m, from, n))
                /\ IsFiniteSet(AlertsIn(ev, Lists, e, m, from))
                /\ Cardinality(ViolationsIn(ev, e, m, from, n)) \in Nat
                /\ Cardinality(AlertsIn(ev, Lists, e, m, from)) \in Nat
  BY SetsOfBalance
<1>8. \A e, m : Cardinality(ViolationsIn(ev, e, m, from, n) \cup {n + 1}) = Cardinality(ViolationsIn(ev, e, m, from, n)) + 1
  BY <1>1, <1>7, ViolationsNext, FS_AddElement
<1>9. \A e, m : Cardinality(AlertsIn(ev, Lists, e, m, from) \cup {Len(Lists) + 1})
                  = Cardinality(AlertsIn(ev, Lists, e, m, from)) + 1
  BY <1>1, <1>7, <1>5, AlertsNext, FS_AddElement
<1>10. \A e, m :
        /\ Violates(ev, n + 1, e, m)
             => ViolationsIn(ev, e, m, from, n + 1) = ViolationsIn(ev, e, m, from, n) \cup {n + 1}
        /\ ~Violates(ev, n + 1, e, m)
             => ViolationsIn(ev, e, m, from, n + 1) = ViolationsIn(ev, e, m, from, n)
  <2>1. n \in Nat /\ from \in Nat /\ from <= n
    BY <1>1
  <2> HIDE DEF n, ev, from
  <2>2. QED
    BY <2>1, ViolationsNext
<1> SUFFICES \A e \in Drivers, m \in Nat : \E left \in 0 .. MaxUnsafe :
       /\ Balance(ev, Lists', e, m, from, n + 1, left)
       /\ m = demo => left = Len(rules'.driverEvents[e])
  <2>1. ev[n + 1].demo = demo
    BY <1>2
  <2>2. QED
    BY <1>2, <1>3, <2>1 DEF Balanced
<1> HIDE DEF h, ev, n, d, demo, from
<1>12. ASSUME NEW e \in Drivers, NEW m \in Nat,
              ViolationsIn(ev, e, m, from, n + 1) = ViolationsIn(ev, e, m, from, n),
              AlertsIn(ev, Lists', e, m, from) = AlertsIn(ev, Lists, e, m, from),
              m = demo => Len(rules'.driverEvents[e]) = Len(h[e])
       PROVE  \E left \in 0 .. MaxUnsafe :
                /\ Balance(ev, Lists', e, m, from, n + 1, left)
                /\ m = demo => left = Len(rules'.driverEvents[e])
  <2>1. \A left : Balance(ev, Lists', e, m, from, n + 1, left) <=> Balance(ev, Lists, e, m, from, n, left)
    BY <1>12 DEF Balance
  <2>2. CASE m = demo
    BY <1>5, <1>12, <2>1, <2>2
  <2>3. CASE m # demo
    BY <1>6, <2>1, <2>3
  <2>4. QED
    BY <2>2, <2>3
<1>13. CASE ~EventOf(c).unsafe /\ Leaves(c)
  <2>1. Lists' = Lists /\ rules'.driverEvents = h
    BY <1>13, ListsMove DEF Leaves, Engine, h
  <2>2. \A e, m : ViolationsIn(ev, e, m, from, n + 1) = ViolationsIn(ev, e, m, from, n)
    BY <1>2, <1>13, <1>10 DEF Violates
  <2>3. QED
    BY <1>12, <2>1, <2>2
<1>14. ASSUME EventOf(c).unsafe
       PROVE  /\ ViolationsIn(ev, d, demo, from, n + 1) = ViolationsIn(ev, d, demo, from, n) \cup {n + 1}
              /\ \A e, m : (e # d \/ m # demo) => ViolationsIn(ev, e, m, from, n + 1) = ViolationsIn(ev, e, m, from, n)
  <2>1. ev[n + 1].unsafe /\ ev[n + 1].driver = d /\ ev[n + 1].demo = demo
    BY <1>2, <1>14 DEF d, demo
  <2>2. QED
    BY <1>10, <2>1 DEF Violates
<1>15. CASE EventOf(c).unsafe /\ Adds(c)
  <2>1. /\ Lists' = Lists /\ rules'.driverEvents = [h EXCEPT ![d] = <<c>> \o h[d]]
        /\ Len(h[d]) # MaxUnsafe
    BY <1>15, ListsMove DEF Adds, Engine, h, d
  <2>2. Len(<<c>> \o h[d]) = 1 + Len(h[d])
    BY <1>1, <1>5
  <2>3. rules'.driverEvents[d] = <<c>> \o h[d] /\ \A e \in Drivers : e # d => rules'.driverEvents[e] = h[e]
    BY <1>1, <2>1
  <2>4. Balance(ev, Lists', d, demo, from, n + 1, Len(h[d]) + 1)
    <3> DEFINE V == Cardinality(ViolationsIn(ev, d, demo, from, n))
               O == Owed(Cardinality(AlertsIn(ev, Lists, d, demo, from)))
    <3>1. V = O + Len(h[d]) /\ Len(h[d]) \in Nat
      BY <1>1, <1>5 DEF Balance
    <3>2. V \in Nat /\ O \in Nat
      BY <1>7, OwedNext
    <3>3. Cardinality(ViolationsIn(ev, d, demo, from, n + 1)) = V + 1
      BY <1>8, <1>14, <1>15
    <3> HIDE DEF V, O
    <3>4. V + 1 = O + (Len(h[d]) + 1)
      BY <3>1, <3>2
    <3>5. QED
      BY <2>1, <3>3, <3>4 DEF Balance, O
  <2>5. Len(h[d]) + 1 \in 0 .. MaxUnsafe /\ Len(rules'.driverEvents[d]) = Len(h[d]) + 1
    BY <1>1, <1>5, <2>1, <2>2, <2>3
  <2>6. ASSUME NEW e \in Drivers, NEW m \in Nat
        PROVE  \E left \in 0 .. MaxUnsafe :
                 /\ Balance(ev, Lists', e, m, from, n + 1, left)
                 /\ m = demo => left = Len(rules'.driverEvents[e])
    <3>1. CASE e = d /\ m = demo
      BY <2>4, <2>5, <3>1
    <3>2. CASE e # d \/ m # demo
      <4>1. m = demo => Len(rules'.driverEvents[e]) = Len(h[e])
        BY <2>3, <3>2
      <4>2. ViolationsIn(ev, e, m, from, n + 1) = ViolationsIn(ev, e, m, from, n)
        BY <1>14, <1>15, <3>2
      <4>3. QED
        BY <1>12, <2>1, <4>1, <4>2
    <3>3. QED
      BY <3>1, <3>2
  <2>7. QED
    BY <2>6
<1>16. CASE EventOf(c).unsafe /\ Alerts(c)
  <2>1. /\ Lists' = Append(Lists, h[d]) /\ rules'.driverEvents = [h EXCEPT ![d] = <<>>]
        /\ Len(h[d]) = MaxUnsafe
    BY <1>16, ListsMove DEF Alerts, Engine, h, d
  <2>2. rules'.driverEvents[d] = <<>> /\ \A e \in Drivers : e # d => rules'.driverEvents[e] = h[e]
    BY <1>1, <2>1
  <2>3. h[d][1] > from /\ ev[h[d][1]].driver = d /\ ev[h[d][1]].demo = demo
    <3>1. DOMAIN h[d] = 1 .. MaxUnsafe
      BY <1>1, <1>5, <2>1, LenProperties
    <3>2. 1 \in DOMAIN h[d]
      BY <1>1, <3>1
    <3>3. Gathered(ev, h[d], d, demo, n) /\ \A k \in DOMAIN h[d] : h[d][k] > from
      BY <1>1, HeldGathered DEF ev, h, d, demo, n, from
    <3>4. QED
      BY <3>2, <3>3 DEF Gathered
  <2>4. /\ AlertsIn(ev, Lists', d, demo, from) = AlertsIn(ev, Lists, d, demo, from) \cup {Len(Lists) + 1}
        /\ \A e, m : (e # d \/ m # demo) => AlertsIn(ev, Lists', e, m, from) = AlertsIn(ev, Lists, e, m, from)
    <3>1. h[d] \in Seq(Nat)
      BY <1>1, <1>5
    <3>2. ASSUME NEW e, NEW m
          PROVE  AlertsIn(ev, Append(Lists, h[d]), e, m, from) =
                   IF h[d][1] > from /\ ev[h[d][1]].driver = e /\ ev[h[d][1]].demo = m
                   THEN AlertsIn(ev, Lists, e, m, from) \cup {Len(Lists) + 1} ELSE AlertsIn(ev, Lists, e, m, from)
      BY <1>1, <3>1, AlertsNext
    <3>3. QED
      BY <2>1, <2>3, <3>2
  <2>5. Balance(ev, Lists', d, demo, from, n + 1, 0)
    <3> DEFINE V == Cardinality(ViolationsIn(ev, d, demo, from, n))
               A == Cardinality(AlertsIn(ev, Lists, d, demo, from))
    <3>1. V = Owed(A) + MaxUnsafe
      BY <1>1, <1>5, <2>1 DEF Balance
    <3>2. V \in Nat /\ A \in Nat /\ Owed(A) \in Nat /\ Owed(A + 1) = Owed(A) + (MaxUnsafe + 1)
      BY <1>7, OwedNext
    <3>3. Cardinality(ViolationsIn(ev, d, demo, from, n + 1)) = V + 1
      BY <1>8, <1>14, <1>16
    <3>4. Cardinality(AlertsIn(ev, Lists', d, demo, from)) = A + 1
      BY <1>9, <2>4
    <3> HIDE DEF V, A
    <3>5. V + 1 = Owed(A + 1) + 0
      BY <1>1, <3>1, <3>2
    <3>6. QED
      BY <3>3, <3>4, <3>5 DEF Balance
  <2>6. 0 \in 0 .. MaxUnsafe /\ Len(rules'.driverEvents[d]) = 0
    BY <1>1, <2>2
  <2>7. ASSUME NEW e \in Drivers, NEW m \in Nat
        PROVE  \E left \in 0 .. MaxUnsafe :
                 /\ Balance(ev, Lists', e, m, from, n + 1, left)
                 /\ m = demo => left = Len(rules'.driverEvents[e])
    <3>1. CASE e = d /\ m = demo
      BY <2>5, <2>6, <3>1
    <3>2. CASE e # d \/ m # demo
      <4>1. m = demo => Len(rules'.driverEvents[e]) = Len(h[e])
        BY <2>2, <3>2
      <4>2. ViolationsIn(ev, e, m, from, n + 1) = ViolationsIn(ev, e, m, from, n)
        BY <1>14, <1>16, <3>2
      <4>3. QED
        BY <1>12, <2>4, <3>2, <4>1, <4>2
    <3>3. QED
      BY <3>1, <3>2
  <2>8. QED
    BY <2>7
<1>17. QED
  BY <1>13, <1>15, <1>16, EngineMoves

-----------------------------------------------------------------------------
(* What the steps that are not the rule engine's do to it: nothing, or it dies   *)
LEMMA OtherSteps ==
  ASSUME Typed, [Next]_vars, ~\E c \in Ids : ProcessEvent(c)
  PROVE  /\ alerts' = alerts /\ faults' \in {faults, faults + 1}
         /\ rules' = rules \/ \E n \in rules.seen .. Len(copies) : rules' = NewEngine(n)
<1>1. ASSUME NEW c \in Ids, ReadCountFails(c) \/ PublishFails(c)
      PROVE  /\ alerts' = alerts /\ faults' = faults + 1
             /\ rules' = rules \/ \E n \in rules.seen .. Len(copies) : rules' = NewEngine(n)
  BY <1>1, ThrowMoves
<1>2. ASSUME NEW c \in Ids, StoreFails(c) \/ PublishLost(c)
      PROVE  alerts' = alerts /\ faults' = faults + 1 /\ rules' = rules
  BY <1>2 DEF StoreFails, PublishLost, Failure, Monitor
<1>3. ASSUME NEW c \in Ids,
             ReadCount(c) \/ PutRow(c) \/ Increment(c) \/ PassOn(c) \/ Publish(c)
      PROVE  alerts' = alerts /\ faults' = faults /\ rules' = rules
  BY <1>3 DEF ReadCount, PutRow, Increment, PassOn, Publish, Monitor
<1>4. ASSUME NEW m \in DOMAIN log, NEW t \in Tasks, Emit(m, t)
      PROVE  alerts' = alerts /\ faults' = faults /\ rules' = rules
  BY <1>4 DEF Emit, Monitor
<1>5. UNCHANGED vars => alerts' = alerts /\ faults' = faults /\ rules' = rules
  BY DEF vars
<1>6. QED
  BY <1>1, <1>2, <1>3, <1>4, <1>5 DEF Next

(* An alert that was not sent is a call that failed                           *)
Unsent == {i \in DOMAIN alerts : ~alerts[i].sent}
FewUnsent == Cardinality(Unsent) <= faults

LEMMA UnsentFinite ==
  ASSUME Typed
  PROVE  IsFiniteSet(Unsent) /\ Cardinality(Unsent) \in Nat
<1>1. DOMAIN alerts = 1 .. Len(alerts) /\ Len(alerts) \in Nat
  BY ListsTyped
<1>2. IsFiniteSet(1 .. Len(alerts)) /\ Unsent \subseteq 1 .. Len(alerts)
  BY <1>1, FS_Interval DEF Unsent
<1>3. IsFiniteSet(Unsent)
  BY <1>2, FS_Subset
<1>4. QED
  BY <1>3, FS_CardinalityType

LEMMA FewUnsentKept ==
  ASSUME Typed, FewUnsent, [Next]_vars
  PROVE  FewUnsent'
<1>1. /\ faults \in Nat /\ IsFiniteSet(Unsent) /\ Cardinality(Unsent) \in Nat
      /\ Cardinality(Unsent) <= faults
  BY UnsentFinite, BoundsAssumption DEF Typed, FewUnsent
<1>2. ASSUME alerts' = alerts, faults' \in {faults, faults + 1}
      PROVE  FewUnsent'
  <2>1. Unsent' = Unsent
    BY <1>2 DEF Unsent
  <2>2. QED
    BY <1>1, <1>2, <2>1 DEF FewUnsent
<1>3. ASSUME NEW c \in Ids, ProcessEvent(c)
      PROVE  FewUnsent'
  <2>1. CASE Leaves(c) \/ Adds(c)
    BY <1>2, <2>1 DEF Leaves, Adds
  <2>2. CASE Alerts(c)
    <3>1. PICK sent \in BOOLEAN : /\ alerts' = Append(alerts, Attempt(c, sent))
                                 /\ IF sent THEN faults' = faults ELSE faults' = faults + 1
      BY <2>2 DEF Alerts, Failure
    <3>2. Attempt(c, sent) \in Attempts /\ Attempt(c, sent).sent = sent
      BY EngineOfDemo DEF Attempt, Attempts
    <3>3. alerts \in Seq(Attempts) /\ DOMAIN alerts = 1 .. Len(alerts) /\ Len(alerts) \in Nat
      BY ListsTyped DEF Typed
    <3>4. /\ alerts' \in Seq(Attempts) /\ Len(alerts') = Len(alerts) + 1
          /\ \A i \in 1 .. Len(alerts) : alerts'[i] = alerts[i]
          /\ alerts'[Len(alerts) + 1] = Attempt(c, sent)
      BY <3>1, <3>2, <3>3, AppendProperties
    <3>5. DOMAIN alerts' = 1 .. Len(alerts) + 1
      BY <3>3, <3>4, LenProperties
    <3>6. Len(alerts) + 1 \notin Unsent
      BY <3>3 DEF Unsent
    <3>7. Unsent' = IF sent THEN Unsent ELSE Unsent \cup {Len(alerts) + 1}
      <4>1. \A i \in 1 .. Len(alerts) + 1 : i \in 1 .. Len(alerts) \/ i = Len(alerts) + 1
        BY <3>3
      <4>2. Len(alerts) + 1 \in 1 .. Len(alerts) + 1 /\ 1 .. Len(alerts) \subseteq 1 .. Len(alerts) + 1
        BY <3>3
      <4>3. QED
        BY <3>2, <3>3, <3>4, <3>5, <4>1, <4>2 DEF Unsent
    <3>8. Cardinality(Unsent \cup {Len(alerts) + 1}) = Cardinality(Unsent) + 1
      BY <1>1, <3>6, FS_AddElement
    <3>9. QED
      BY <1>1, <3>1, <3>7, <3>8 DEF FewUnsent
  <2>3. QED
    BY <1>3, <2>1, <2>2, EngineMoves
<1>4. QED
  BY <1>2, <1>3, OtherSteps

-----------------------------------------------------------------------------
(* The inductive invariant *)
IInv == Typed /\ CountsFollowRows /\ Settled /\ Watched /\ Balanced /\ FewUnsent

LEMMA InitEstablishesIInv == Init => IInv
<1> SUFFICES ASSUME Init PROVE IInv
  OBVIOUS
<1>1. /\ copies = <<>> /\ Ids = {} /\ rows = {} /\ published = {} /\ alerts = <<>> /\ faults = 0
      /\ counts = [d \in Drivers |-> 0] /\ MaxUnsafe \in Nat \ {0}
      /\ rules = NewEngine(0) /\ DOMAIN alerts = {} /\ DOMAIN Lists = {}
  BY BoundsAssumption DEF Init, Ids, Lists
<1>2. /\ rules.seen = 0 /\ rules.began = 0 /\ rules.correlation = 0
      /\ \A d \in Drivers : rules.driverEvents[d] = <<>>
  BY <1>1 DEF NewEngine, NoEvents
<1>3. Cardinality({}) = 0
  BY FS_EmptySet
<1>4. CountsFollowRows
  <2>1. ASSUME NEW d \in Drivers
        PROVE  RowsOf(d) = {} /\ Putting(d) = {} /\ counts[d] = 0
    BY <1>1 DEF RowsOf, Putting
  <2>2. QED
    <3>1. ASSUME NEW d \in Drivers PROVE Followed(d)
      <4>1. /\ Cardinality(RowsOf(d)) = 0 /\ Cardinality(Putting(d)) = 0
            /\ counts[d] = 0 /\ faults = 0
        BY <1>1, <1>3, <2>1
      <4>2. QED
        BY <4>1 DEF Followed
    <3>2. QED
      BY <3>1, FollowedEach
<1>5. Settled
  BY <1>1 DEF Settled
<1>6. Watched
  BY <1>1, <1>2, EmptySeq DEF Watched, Gathered
<1>7. Balanced
  <2>1. ASSUME NEW d \in Drivers, NEW demo \in Nat
        PROVE  Balance(Happened, Lists, d, demo, rules.began, rules.seen, 0)
    <3>1. /\ ViolationsIn(Happened, d, demo, rules.began, rules.seen) = {}
          /\ AlertsIn(Happened, Lists, d, demo, rules.began) = {}
      BY <1>1, <1>2 DEF ViolationsIn, AlertsIn
    <3>2. Owed(0) = 0
      BY OwedNext
    <3>3. QED
      BY <1>3, <3>1, <3>2 DEF Balance
  <2>2. \A d \in Drivers : Len(rules.driverEvents[d]) = 0
    BY <1>2
  <2>3. 0 \in 0 .. MaxUnsafe /\ ~(rules.seen > rules.began)
    BY <1>1, <1>2
  <2>4. QED
    BY <1>1, <2>1, <2>2, <2>3 DEF Balanced
<1>8. FewUnsent
  <2>1. Unsent = {}
    BY <1>1 DEF Unsent
  <2>2. QED
    BY <1>1, <1>3, <2>1 DEF FewUnsent
<1>9. QED
  BY <1>4, <1>5, <1>6, <1>7, <1>8, TypedInit DEF IInv

LEMMA NextKeepsIInv == IInv /\ [Next]_vars => IInv'
<1> SUFFICES ASSUME IInv, [Next]_vars PROVE IInv'
  OBVIOUS
<1>1. Typed' /\ Onwards
  BY TypedKept DEF IInv
<1>2. CountsFollowRows'
  BY <1>1, CountsFollowKept DEF IInv
<1>3. Settled'
  BY <1>1, SettledKept DEF IInv
<1>4. Watched' /\ Balanced'
  <2>1. ASSUME NEW c \in Ids, ProcessEvent(c)
        PROVE  Watched' /\ Balanced'
    BY <2>1, WatchedProcess, BalancedProcess DEF IInv
  <2>2. CASE rules' = rules /\ alerts' = alerts
    BY <1>1, <2>2, WatchedStays, BalancedStays DEF IInv
  <2>3. ASSUME NEW n \in rules.seen .. Len(copies), rules' = NewEngine(n), alerts' = alerts
        PROVE  Watched' /\ Balanced'
    BY <1>1, <2>3, WatchedAnew, BalancedAnew DEF IInv
  <2>4. QED
    BY <2>1, <2>2, <2>3, OtherSteps DEF IInv
<1>5. FewUnsent'
  BY FewUnsentKept DEF IInv
<1>6. QED
  BY <1>1, <1>2, <1>3, <1>4, <1>5 DEF IInv

(* In every behaviour the copies, the rows, the counts, what is published, the  *)
(* lists of the rule engine and the alerts are as IInv says they are: calls    *)
(* of HBase and ActiveMQ that fail, alerts that cannot be sent and workers that *)
(* die with their tuples and their rule engine included.                     *)
THEOREM Inductive == Spec => []IInv
<1>1. Init => IInv
  BY InitEstablishesIInv
<1>2. IInv /\ [Next]_vars => IInv'
  BY NextKeepsIInv
<1>3. QED
  BY <1>1, <1>2, PTL DEF Spec

(* TypeOK of EventPipeline: the fields keep their types, the rule engine's lists *)
(* are of copies it has seen and never longer than MAX_UNSAFE_EVENTS.         *)
THEOREM PipelineTyped == Spec => []TypeOK
<1>1. IInv => TypeOK
  <2> SUFFICES ASSUME IInv PROVE TypeOK
    OBVIOUS
  <2>1. Typed /\ Watched
    BY DEF IInv
  <2>2. \A c \in Ids : /\ copies[c].msg \in DOMAIN log /\ copies[c].task \in Tasks
                       /\ copies[c].stage \in Stages /\ copies[c].count \in Nat
    BY <2>1, LogTyped DEF Copies
  <2>3. \A p \in published : p.copy \in Ids /\ p.count \in Nat
    BY <2>1 DEF Typed
  <2>4. /\ rules.correlation \in Nat /\ rules.seen \in 0 .. Len(copies)
        /\ rules.began \in 0 .. rules.seen
    <3>1. /\ rules.seen \in Nat /\ rules.began \in Nat /\ rules.correlation \in Nat
          /\ rules.began <= rules.seen /\ rules.seen <= Len(copies) /\ Len(copies) \in Nat
      BY <2>1, LogTyped DEF Typed, Rules
    <3>2. QED
      BY <3>1
  <2>5. /\ \A d \in Drivers : \A i \in DOMAIN rules.driverEvents[d] :
             rules.driverEvents[d][i] \in rules.began + 1 .. rules.seen
        /\ \A d \in Drivers : Len(rules.driverEvents[d]) <= MaxUnsafe
    <3>1. \A d \in Drivers : \A i \in DOMAIN rules.driverEvents[d] :
            /\ rules.driverEvents[d][i] \in 1 .. rules.seen
            /\ rules.driverEvents[d][i] > rules.began
      BY <2>1 DEF Watched, Gathered
    <3>2. rules.seen \in Nat /\ rules.began \in Nat
      BY <2>1 DEF Typed, Rules
    <3>3. \A d \in Drivers : Len(rules.driverEvents[d]) <= MaxUnsafe
      BY <2>1 DEF Watched
    <3>4. QED
      BY <3>1, <3>2, <3>3
  <2>6. QED
    BY <2>1, <2>2, <2>3, <2>4, <2>5 DEF TypeOK, Typed
<1>2. QED
  BY <1>1, Inductive, PTL

(* CountsFollowRows of EventPipeline: TruckHBaseBolt's count of a driver falls   *)
(* behind the violations it has stored only by those between the put and the   *)
(* increment, their worker alive or dead, and by calls that failed.          *)
THEOREM CountsFollow == Spec => []CountsFollowRows
<1>1. IInv => CountsFollowRows
  BY DEF IInv
<1>2. QED
  BY <1>1, Inductive, PTL

(* DistinctCounts of EventPipeline: however the tasks of the bolt are           *)
(* interleaved, two violations of a driver are published with one total only    *)
(* if a call has failed.                                                    *)
THEOREM TotalsDistinct == Spec => []DistinctCounts
<1>1. IInv => DistinctCounts
  BY SettledDistinct DEF IInv
<1>2. QED
  BY <1>1, Inductive, PTL

LEMMA AlertsCounted == IInv => AlertsHonest
<1> SUFFICES ASSUME IInv PROVE AlertsHonest
  OBVIOUS
<1>1. Typed /\ Watched /\ Balanced /\ FewUnsent
  BY DEF IInv
<1>2. /\ \A c \in 1 .. rules.seen : Happened[c] = EventOf(c)
      /\ rules.seen \in Nat /\ rules.began \in Nat
  BY <1>1, LogTyped DEF Happened, Typed, Rules
<1>3. /\ DOMAIN Lists = DOMAIN alerts
      /\ \A i \in DOMAIN alerts : Lists[i] = alerts[i].events
  BY DEF Lists
<1>4. AlertsOfOne
  <2>1. ASSUME NEW i \in DOMAIN alerts
        PROVE  /\ Len(Lists[i]) = MaxUnsafe
               /\ \A j \in DOMAIN alerts : i # j => Apart(Lists[i], Lists[j])
               /\ \A k, l \in DOMAIN Lists[i] :
                    /\ EventOf(Lists[i][k]).driver = EventOf(Lists[i][l]).driver
                    /\ EventOf(Lists[i][k]).demo = EventOf(Lists[i][l]).demo
                    /\ k < l => Lists[i][k] > Lists[i][l]
    <3> DEFINE w == Lists[i]
    <3>1. /\ Len(w) = MaxUnsafe
          /\ \A j \in DOMAIN alerts : i # j => Apart(w, Lists[j])
          /\ \E d \in Drivers, demo \in Nat : Gathered(Happened, w, d, demo, rules.seen)
      BY <1>1, <1>3 DEF Watched
    <3>2. PICK d \in Drivers, demo \in Nat : Gathered(Happened, w, d, demo, rules.seen)
      BY <3>1
    <3> HIDE DEF w
    <3>3. \A k \in DOMAIN w : EventOf(w[k]).driver = d /\ EventOf(w[k]).demo = demo
      BY <1>2, <3>2 DEF Gathered
    <3>4. \A k, l \in DOMAIN w : k < l => w[k] > w[l]
      BY <3>2 DEF Gathered
    <3>5. QED
      BY <3>1, <3>3, <3>4 DEF w
  <2>2. \A i, j \in DOMAIN alerts : Apart(Lists[i], Lists[j]) <=>
          \A k \in DOMAIN alerts[i].events, l \in DOMAIN alerts[j].events :
            alerts[i].events[k] # alerts[j].events[l]
    BY <1>3 DEF Apart
  <2>3. QED
    BY <1>3, <2>1, <2>2 DEF AlertsOfOne
<1>5. Cardinality({i \in DOMAIN alerts : ~alerts[i].sent}) <= faults
  BY <1>1 DEF FewUnsent, Unsent
<1>6. \A c \in SinceItBegan : c \in 1 .. rules.seen /\ Happened[c] = EventOf(c)
  BY <1>2 DEF SinceItBegan
<1>7. DemosInOrder => InOrder(Happened, rules.began, rules.seen)
  BY <1>6 DEF DemosInOrder, SinceItBegan, InOrder
<1>8. ASSUME DemosInOrder, NEW d \in Drivers, NEW demo \in {log[m].demo : m \in DOMAIN log}
      PROVE  Cardinality(AlertsAbout(d, demo)) = Cardinality(Violations(d, demo)) \div (MaxUnsafe + 1)
  <2>1. demo \in Nat
    <3>1. \A m \in DOMAIN log : log[m] \in Message
      BY <1>1, LogTyped, ElementOfSeq
    <3>2. QED
      BY <3>1 DEF Message
  <2>2. Violations(d, demo) = ViolationsIn(Happened, d, demo, rules.began, rules.seen)
    BY <1>6 DEF Violations, ViolationsIn, Violates, SinceItBegan
  <2>3. AlertsAbout(d, demo) = AlertsIn(Happened, Lists, d, demo, rules.began)
    <3>1. ASSUME NEW i \in DOMAIN alerts
          PROVE  /\ Lists[i][1] = alerts[i].events[1] /\ Lists[i][1] \in 1 .. rules.seen
                 /\ Happened[Lists[i][1]] = EventOf(Lists[i][1])
                 /\ Lists[i][1] \in SinceItBegan <=> Lists[i][1] > rules.began
      <4>1. Lists[i][1] \in 1 .. rules.seen
        BY <1>1, <1>3, AlertsFirst
      <4>2. Lists[i][1] = alerts[i].events[1]
        BY <1>3
      <4>3. QED
        BY <1>2, <4>1, <4>2 DEF SinceItBegan
    <3>2. QED
      BY <1>3, <3>1 DEF AlertsAbout, AlertsIn
  <2>4. \E left \in 0 .. MaxUnsafe :
          Balance(Happened, Lists, d, demo, rules.began, rules.seen, left)
    BY <1>1, <1>7, <1>8, <2>1 DEF Balanced
  <2>5. Cardinality(AlertsAbout(d, demo)) \in Nat
    BY <1>1, <2>3, SetsOfBalance
  <2>6. QED
    BY <2>2, <2>3, <2>4, <2>5, OwedDiv DEF Balance
<1>9. QED
  BY <1>4, <1>5, <1>8 DEF AlertsHonest

(* AlertsHonest of EventPipeline: an alert of the rule engine is about one       *)
(* driver in one demo and holds MAX_UNSAFE_EVENTS violations that no other       *)
(* alert holds; in the life of one engine, with the demos in order, one is      *)
(* raised for every MAX_UNSAFE_EVENTS + 1 violations of the driver in the demo;  *)
(* and no more of them stay unsent than calls have failed.                   *)
THEOREM AlertsAreHonest == Spec => []AlertsHonest
<1>1. IInv => AlertsHonest
  BY AlertsCounted
<1>2. QED
  BY <1>1, Inductive, PTL
=============================================================================
