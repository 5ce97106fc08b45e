---------------------------- MODULE EventPipeline ----------------------------
(***************************************************************************)
(* What the topology does with the truck events the spout emits.  Two tasks *)
(* of the HBase bolt store a violation and count it, and publish every      *)
(* event with the driver's count through the web socket bolt; one task of   *)
(* the monitoring bolt feeds the rule engine.  The spout emits a message     *)
(* again when its tuple fails, and all after it with it.  A call of HBase or *)
(* of ActiveMQ may fail: a bolt logs it and acks the tuple, or throws, and   *)
(* the worker dies with every task in it, the rule engine's maybe.          *)
(***************************************************************************)
EXTENDS Integers, Sequences, FiniteSets

CONSTANTS
  Drivers,
  Tasks,      \* tasks of hbase_bolt
  MaxUnsafe,  \* MAX_UNSAFE_EVENTS
  Logs,       \* the logs of truck events to look at
  MaxReplays, \* bound: messages emitted again
  MaxFaults   \* bound: calls of HBase and ActiveMQ that fail

Message == [driver : Drivers, unsafe : BOOLEAN, demo : Nat]
ASSUME LogsAssumption == \A l \in Logs : l \in Seq(Message)
ASSUME BoundsAssumption ==
  MaxUnsafe \in Nat \ {0} /\ MaxReplays \in Nat /\ MaxFaults \in Nat

VARIABLES
  log,       \* the messages, each by its position
  copies,    \* the tuples emitted, in order
  replays, faults,
  rows,      \* driver_dangerous_events: the messages stored, by their key
  counts,    \* driver_dangerous_events_count
  published, \* history: what went to the topics, as [msg, count]
  rules,     \* the rule engine, the copies it has seen, those before it began
  alerts     \* history: the alerts raised, each the copies in it, sent or not

vars == <<log, copies, replays, faults, rows, counts, published, rules, alerts>>
Hbase == <<rows, counts, published>>
Monitor == <<rules, alerts>>

(* A tuple whose worker dies is dead, or cut off between put and increment *)
Stages == {"queued", "read", "put", "cut", "emitted", "done", "dead"}
Copy(m, t) == [msg |-> m, task |-> t, stage |-> "queued", count |-> 0]
EventOf(c) == log[copies[c].msg]
Ids == DOMAIN copies

(* The rule engine of a new worker, which is to see the copies after n *)
NoEvents == [d \in Drivers |-> <<>>]
NewEngine(n) == [correlation |-> 0, driverEvents |-> NoEvents, seen |-> n, began |-> n]

Init ==
  /\ log \in Logs
  /\ copies = <<>> /\ replays = 0 /\ faults = 0
  /\ rows = {} /\ counts = [d \in Drivers |-> 0] /\ published = {}
  /\ rules = NewEngine(0)
  /\ alerts = <<>>

(* The spout: each message in turn, and any of those again; a shuffle grouping *)
(* picks the task of the HBase bolt.                                        *)
Emitted == {copies[c].msg : c \in Ids}
Emit(m, t) ==
  /\ \/ m = Cardinality(Emitted) + 1 /\ UNCHANGED replays
     \/ m \in Emitted /\ replays < MaxReplays /\ replays' = replays + 1
  /\ copies' = Append(copies, Copy(m, t))
  /\ UNCHANGED <<log, faults, Hbase, Monitor>>

-----------------------------------------------------------------------------
(* A worker dies, and with it the tuples its tasks are at and some of those that *)
(* wait in its queues or are on their way; if the monitoring task is in it, what *)
(* the rule engine held and the first of the copies it was still to see.      *)
Failure == faults < MaxFaults /\ faults' = faults + 1
Waiting(tasks) == {b \in Ids : \/ copies[b].stage = "emitted"
                               \/ copies[b].stage = "queued" /\ copies[b].task \in tasks}
StageLeft(b, tasks, gone) ==
  IF b \in gone \/ (copies[b].task \in tasks /\ copies[b].stage = "read") THEN "dead"
  ELSE IF copies[b].task \in tasks /\ copies[b].stage = "put" THEN "cut"
  ELSE copies[b].stage
WorkerDies(tasks, gone) ==
  /\ Failure
  /\ copies' = [b \in Ids |-> [copies[b] EXCEPT !.stage = StageLeft(b, tasks, gone)]]
  /\ UNCHANGED rules \/ \E n \in rules.seen .. Len(copies) : rules' = NewEngine(n)
  /\ UNCHANGED <<log, replays, rows, counts, alerts>>

-----------------------------------------------------------------------------
(* TruckHBaseBolt.execute, one tuple of a task at a time.  First the count *)
Busy(t) == \E c \in Ids : copies[c].task = t /\ copies[c].stage \in {"read", "put"}
FirstQueued(c) ==
  /\ copies[c].stage = "queued"
  /\ \A b \in 1 .. c - 1 : copies[b].task = copies[c].task => copies[b].stage # "queued"

ReadCount(c) ==
  /\ FirstQueued(c) /\ ~Busy(copies[c].task)
  /\ copies' = [copies EXCEPT ![c].stage = "read", ![c].count = counts[EventOf(c).driver]]
  /\ UNCHANGED <<log, replays, faults, Hbase, Monitor>>

(* A read that fails throws out of the bolt *)
ReadCountFails(c) ==
  /\ FirstQueued(c) /\ ~Busy(copies[c].task)
  /\ \E tasks \in SUBSET Tasks : \E gone \in SUBSET Waiting(tasks) :
       copies[c].task \in tasks /\ c \in gone /\ WorkerDies(tasks, gone)
  /\ UNCHANGED published

(* Then a violation is stored; the key has driver, truck and time, so that a  *)
(* message is stored once.                                                  *)
PutRow(c) ==
  /\ copies[c].stage = "read" /\ EventOf(c).unsafe
  /\ rows' = rows \cup {copies[c].msg}
  /\ copies' = [copies EXCEPT ![c].stage = "put"]
  /\ UNCHANGED <<log, replays, faults, counts, published, Monitor>>

(* And counted: incrementColumnValue returns what it made of the count.      *)
(* Beside it, one that goes by what was read before; and an Increment that    *)
(* does not take what the call returns.                                     *)
IncrementedAsRead(c) == copies[c].count + 1
Incremented(c) == counts[EventOf(c).driver] + 1
Counted(c) == counts' = [counts EXCEPT ![EventOf(c).driver] = Incremented(c)]
IncrementUnread(c) ==
  /\ copies[c].stage = "put" /\ Counted(c)
  /\ copies' = [copies EXCEPT ![c].stage = "emitted"]
  /\ UNCHANGED <<log, replays, faults, rows, published, Monitor>>
Increment(c) ==
  /\ copies[c].stage = "put" /\ Counted(c)
  /\ copies' = [copies EXCEPT ![c].stage = "emitted", ![c].count = Incremented(c)]
  /\ UNCHANGED <<log, replays, faults, rows, published, Monitor>>

(* Either call fails, done by HBase or not: the tuple goes on with the count    *)
(* as it was read, and is acked.                                            *)
StoreFails(c) ==
  /\ copies[c].stage \in {"read", "put"} /\ EventOf(c).unsafe /\ Failure
  /\ \/ UNCHANGED <<rows, counts>>
     \/ copies[c].stage = "read" /\ rows' = rows \cup {copies[c].msg} /\ UNCHANGED counts
     \/ copies[c].stage = "put" /\ Counted(c) /\ UNCHANGED rows
  /\ copies' = [copies EXCEPT ![c].stage = "emitted"]
  /\ UNCHANGED <<log, replays, published, Monitor>>

(* A normal event goes on with the count as it was read *)
PassOn(c) ==
  /\ copies[c].stage = "read" /\ ~EventOf(c).unsafe
  /\ copies' = [copies EXCEPT ![c].stage = "emitted"]
  /\ UNCHANGED <<log, replays, faults, Hbase, Monitor>>

(* WebSocketBolt.execute, in any of four tasks: the message goes to the topics *)
Published(c) == published \cup {[copy |-> c, count |-> copies[c].count]}
Publish(c) ==
  /\ copies[c].stage = "emitted"
  /\ copies' = [copies EXCEPT ![c].stage = "done"]
  /\ published' = Published(c)
  /\ UNCHANGED <<log, replays, faults, rows, counts, Monitor>>

(* When ActiveMQ cannot be reached it is lost, and acked *)
PublishLost(c) ==
  /\ copies[c].stage = "emitted" /\ Failure
  /\ copies' = [copies EXCEPT ![c].stage = "done"]
  /\ UNCHANGED <<log, replays, Hbase, Monitor>>

(* When there is no producer for a topic, the first or the second, it throws *)
PublishFails(c) ==
  /\ copies[c].stage = "emitted"
  /\ \E tasks \in SUBSET Tasks : \E gone \in SUBSET Waiting(tasks) :
       c \in gone /\ WorkerDies(tasks, gone)
  /\ published' \in {published, Published(c)}

-----------------------------------------------------------------------------
(* processEvent.  Another correlation id than the last forgets every driver;  *)
(* beside it, one that forgets the driver at hand.                          *)
OfThisDriver(r, e) ==
  IF r.correlation = e.demo THEN r
  ELSE [r EXCEPT !.correlation = e.demo, !.driverEvents[e.driver] = <<>>]
OfThisDemo(r, e) ==
  IF r.correlation = e.demo THEN r
  ELSE [r EXCEPT !.correlation = e.demo, !.driverEvents = NoEvents]

(* The sixth unsafe event sends the five before it and is not kept itself; if *)
(* they cannot be sent that is logged, and they are forgotten as well.  Beside *)
(* it, a list that takes one more.                                          *)
FullLate(r, e) == Len(r.driverEvents[e.driver]) > MaxUnsafe
Full(r, e) == Len(r.driverEvents[e.driver]) = MaxUnsafe
ProcessEvent(c) ==
  LET e == EventOf(c)
      r == OfThisDemo([rules EXCEPT !.seen = c], e)
  IN
  /\ c = rules.seen + 1
  /\ \/ ~e.unsafe /\ rules' = r /\ UNCHANGED <<alerts, faults>>
     \/ /\ e.unsafe /\ ~Full(r, e)
        /\ rules' = [r EXCEPT !.driverEvents[e.driver] = <<c>> \o @]
        /\ UNCHANGED <<alerts, faults>>
     \/ /\ e.unsafe /\ Full(r, e)
        /\ rules' = [r EXCEPT !.driverEvents[e.driver] = <<>>]
        /\ \E sent \in BOOLEAN :
             /\ alerts' = Append(alerts, [events |-> r.driverEvents[e.driver], sent |-> sent])
             /\ IF sent THEN UNCHANGED faults ELSE Failure
  /\ UNCHANGED <<log, copies, replays, Hbase>>

Next ==
  \/ \E m \in DOMAIN log, t \in Tasks : Emit(m, t)
  \/ \E c \in Ids :
       \/ ReadCount(c) \/ ReadCountFails(c) \/ PutRow(c) \/ Increment(c)
       \/ StoreFails(c) \/ PassOn(c) \/ Publish(c) \/ PublishLost(c) \/ PublishFails(c)
       \/ ProcessEvent(c)

Spec == Init /\ [][Next]_vars

-----------------------------------------------------------------------------
(* The variables hold what their comments say *)
TypeOK ==
  /\ \A c \in Ids : /\ copies[c].msg \in DOMAIN log /\ copies[c].task \in Tasks
                    /\ copies[c].stage \in Stages /\ copies[c].count \in Nat
  /\ replays \in 0 .. MaxReplays /\ faults \in 0 .. MaxFaults
  /\ rows \subseteq {m \in Emitted : log[m].unsafe} /\ counts \in [Drivers -> Nat]
  /\ \A p \in published : p.copy \in Ids /\ p.count \in Nat
  /\ rules.correlation \in Nat /\ rules.seen \in 0 .. Len(copies)
  /\ rules.began \in 0 .. rules.seen
  /\ \A d \in Drivers : \A i \in DOMAIN rules.driverEvents[d] :
       rules.driverEvents[d][i] \in rules.began + 1 .. rules.seen
  /\ \A d \in Drivers : Len(rules.driverEvents[d]) <= MaxUnsafe

(* A driver's count falls behind the violations stored only by those between   *)
(* the put and the increment, their worker alive or dead, and by calls that     *)
(* failed: but for these, the service that gives the page its first picture,    *)
(* which throws for a driver with a row and no count, finds a count for each.   *)
CountsFollowRows == \A d \in Drivers :
  Cardinality({m \in rows : log[m].driver = d})
    <= counts[d] + faults
         + Cardinality({c \in Ids : /\ copies[c].stage \in {"put", "cut"}
                                    /\ EventOf(c).driver = d})

(* Two tasks that count violations of one driver at a time never publish one    *)
(* total twice: no violation but one whose increment failed repeats a total.    *)
DistinctCounts == \A p, q \in published :
  LET e == EventOf(p.copy) f == EventOf(q.copy) IN
  (p.copy # q.copy /\ e.unsafe /\ f.unsafe /\ e.driver = f.driver /\ p.count = q.count)
    => faults > 0

(* An alert is about one driver in one demo, carries MAX_UNSAFE_EVENTS events,  *)
(* none of them in an alert before.  As long as the rule engine lives and the    *)
(* demos come in order, every MaxUnsafe + 1st violation raises one, and it is     *)
(* sent but for a call that fails, which the engine forgets like one it sent.   *)
AlertsOfOne == \A i \in DOMAIN alerts :
  LET w == alerts[i].events IN
  /\ Len(w) = MaxUnsafe
  /\ \A k, l \in DOMAIN w :
       /\ EventOf(w[k]).driver = EventOf(w[l]).driver
       /\ EventOf(w[k]).demo = EventOf(w[l]).demo
       /\ k < l => w[k] > w[l]
  /\ \A j \in DOMAIN alerts : \A k \in DOMAIN w, l \in DOMAIN alerts[j].events :
       i # j => w[k] # alerts[j].events[l]
SinceItBegan == rules.began + 1 .. rules.seen
DemosInOrder == \A b, c \in SinceItBegan : b < c => EventOf(b).demo <= EventOf(c).demo
Violations(d, demo) == {c \in SinceItBegan :
  EventOf(c).unsafe /\ EventOf(c).driver = d /\ EventOf(c).demo = demo}
AlertsAbout(d, demo) == {i \in DOMAIN alerts :
  LET first == alerts[i].events[1] IN
  /\ first \in SinceItBegan
  /\ EventOf(first).driver = d /\ EventOf(first).demo = demo}
AlertsHonest ==
  /\ AlertsOfOne
  /\ Cardinality({i \in DOMAIN alerts : ~alerts[i].sent}) <= faults
  /\ DemosInOrder =>
       \A d \in Drivers, demo \in {log[m].demo : m \in DOMAIN log} :
         Cardinality(AlertsAbout(d, demo))
           = Cardinality(Violations(d, demo)) \div (MaxUnsafe + 1)
=============================================================================
