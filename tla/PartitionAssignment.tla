------------------------ MODULE PartitionAssignment ------------------------
(***************************************************************************)
(* The tasks of the Kafka spout share the partitions of a topic without     *)
(* talking to each other: each reads the brokers from ZooKeeper, partition  *)
(* by partition, and takes its part of what it saw.  Pictures taken at      *)
(* different times differ, so a partition may have two managers, which      *)
(* write one node, or none.                                                 *)
(*                                                                          *)
(* A manager is reduced to the offset it has completed, the offset it has   *)
(* emitted to and the offset it believes saved.  What lies between the first *)
(* two is pending and completed in order; PartitionManager says in which     *)
(* orders really.  A tuple that fails takes its manager back, also one that  *)
(* an earlier manager of the same partition on the same host has emitted.   *)
(***************************************************************************)
EXTENDS Integers, FiniteSets

CONSTANTS
  NumTasks,       \* totalTasks
  NumPartitions,  \* children of /brokers/topics/<topic>/partitions
  Hosts,          \* brokers
  NoHost,         \* not read yet, or not found
  NoManager,      \* the task has no manager for the partition
  NoNode,         \* nothing saved for the partition
  NotWriting,     \* the task is not inside ZkState.writeBytes
  MaxOffset,      \* bound: messages in a partition
  LogEnd,         \* partition -> its messages, all there from the start
  MaxFaults,      \* bound: crashes, broker failures and leader moves
  MaxFails        \* bound: tuples that fail

Tasks      == 0 .. NumTasks - 1
Partitions == 0 .. NumPartitions - 1
NO_OFFSET  == -5

(* GlobalPartitionInformation: NoHost where the map has no entry *)
View    == [Partitions -> Hosts \cup {NoHost}]
Offset  == {NO_OFFSET} \cup 0 .. MaxOffset
Manager == [host : Hosts, done : Offset, emitted : Offset, saved : Offset]
Write   == [partition : Partitions, exists : BOOLEAN]

(* KafkaMessageId: its Partition is a host and a number *)
MessageId == [host : Hosts, partition : Partitions, offset : Offset]

ASSUME AssignmentAssumption ==
  /\ NumTasks \in Nat \ {0} /\ NumPartitions \in Nat
  /\ MaxOffset \in Nat /\ LogEnd \in [Partitions -> 0 .. MaxOffset]
  /\ MaxFaults \in Nat /\ MaxFails \in Nat
  /\ NoHost \notin Hosts /\ NoManager \notin Manager
  /\ NoNode \notin Int /\ NotWriting \notin Write

VARIABLES
  leader, alive,    \* Kafka's nodes: leader of each partition, brokers registered
  scan,             \* task -> partitions getBrokerInfo is through with, NumPartitions + 1 at rest
  found,            \* task -> leader of the next one, once read
  read,             \* task -> what getBrokerInfo has read so far
  view,             \* task -> what it had read at its last refresh
  managers,         \* task -> _managers
  connections,      \* task -> _connections: the partitions of each host
  writing,          \* task -> the write it has begun
  inFlight,         \* task -> tuples, by their ids, that it emitted and does not wait for
  zk,               \* partition -> the offset in its node
  processed,        \* history: partition -> offsets processed
  lost,             \* history: a broker has been missing
  faults, fails

kafkaVars   == <<leader, alive>>
refreshVars == <<scan, found, read>>
taskVars    == <<view, managers, connections, inFlight>>
vars == <<kafkaVars, refreshVars, taskVars, writing, zk, processed, lost, faults, fails>>

Nothing == [p \in Partitions |-> NoHost]
AtRest  == NumPartitions + 1
Idle(t) == scan[t] = AtRest /\ writing[t] = NotWriting
Serves(h, p) == h = leader[p] /\ h \in alive

-----------------------------------------------------------------------------
(* KafkaUtils.calculatePartitionsForTask: the partitions of a view in their  *)
(* order, every NumTasks-th of them, beside two that stop a partition short *)
(* and that number the tasks from one.                                      *)
Rank(v, p) == Cardinality({q \in Partitions : v[q] # NoHost /\ q < p})

MineButLast(v, t) ==
  {p \in Partitions : /\ v[p] # NoHost
                      /\ Rank(v, p) % NumTasks = t
                      /\ \E q \in Partitions : v[q] # NoHost /\ q > p}
MineFromOne(v, t) ==
  {p \in Partitions : v[p] # NoHost /\ (Rank(v, p) + 1) % NumTasks = t}
Mine(v, t) == {p \in Partitions : v[p] # NoHost /\ Rank(v, p) % NumTasks = t}

(* The constructor of PartitionManager, with startOffsetTime = EarliestTime  *)
(* and forceFromStart; beside it, one that ignores the node.  A broker that *)
(* is not the leader has no offset.                                         *)
StartsAt(offset, h) ==
  [host |-> h, done |-> offset, emitted |-> offset, saved |-> offset]
OpenedAfresh(p, h) == StartsAt(IF Serves(h, p) THEN 0 ELSE NO_OFFSET, h)
Opened(p, h) ==
  StartsAt(IF zk[p] # NoNode THEN zk[p]
           ELSE IF Serves(h, p) THEN 0 ELSE NO_OFFSET, h)

(* What fetchMessages reads at the offset the manager has: an offset out of  *)
(* range is replaced by the earliest one.                                   *)
NextOffset(offset) == IF offset = NO_OFFSET THEN 0 ELSE offset

(* _pending, with the labels fill() gives: a message fetched without an       *)
(* offset is labelled so.                                                   *)
Pending(m) ==
  {o \in Offset : m.done <= o /\ o < m.emitted /\ (m.done = NO_OFFSET => o # 0)}
Ids(t, p) ==
  IF managers[t][p] = NoManager THEN {}
  ELSE {[host |-> managers[t][p].host, partition |-> p, offset |-> o] :
          o \in Pending(managers[t][p])}

(* _emittedToOffset after fail(), beside one that goes back too far *)
RewindBefore(offset) == offset - 1
RewindTo(offset) == offset

(* lastCompletedOffset(), beside _emittedToOffset, and whether commit() has  *)
(* something to write.                                                      *)
LastFetched(m) == m.emitted
LastCompleted(m) == m.done
CommitDue(m) == LastCompleted(m) # m.saved

-----------------------------------------------------------------------------
(* The worker of task t dies, its memory with it *)
Die(t) ==
  /\ scan' = [scan EXCEPT ![t] = AtRest]
  /\ found' = [found EXCEPT ![t] = NoHost]
  /\ read' = [read EXCEPT ![t] = Nothing]
  /\ view' = [view EXCEPT ![t] = Nothing]
  /\ managers' = [managers EXCEPT ![t] = [p \in Partitions |-> NoManager]]
  /\ connections' = [connections EXCEPT ![t] = [h \in Hosts |-> {}]]
  /\ inFlight' = [inFlight EXCEPT ![t] = {}]
  /\ writing' = [writing EXCEPT ![t] = NotWriting]

(* ZkCoordinator.refresh() asks DynamicBrokersReader.getBrokerInfo() *)
BeginRefresh(t) ==
  /\ Idle(t)
  /\ scan' = [scan EXCEPT ![t] = 0]
  /\ read' = [read EXCEPT ![t] = Nothing]
  /\ UNCHANGED <<kafkaVars, found, taskVars, writing, zk, processed, lost, faults, fails>>

(* getLeaderFor *)
ReadLeader(t) ==
  /\ scan[t] \in Partitions
  /\ found[t] = NoHost
  /\ found' = [found EXCEPT ![t] = leader[scan[t]]]
  /\ UNCHANGED <<kafkaVars, scan, read, taskVars, writing, zk, processed, lost, faults, fails>>

(* The leader's own node, which may be gone: then the partition is left out *)
ReadBroker(t) ==
  /\ scan[t] \in Partitions
  /\ found[t] # NoHost
  /\ read' = IF found[t] \in alive
             THEN [read EXCEPT ![t][scan[t]] = found[t]] ELSE read
  /\ scan' = [scan EXCEPT ![t] = @ + 1]
  /\ found' = [found EXCEPT ![t] = NoHost]
  /\ UNCHANGED <<kafkaVars, taskVars, writing, zk, processed, lost, faults, fails>>

(* A manager stays if the partition is still the task's, on the same host;   *)
(* beside it, a refresh that deletes nothing.                               *)
Kept(t, p) == /\ managers[t][p] # NoManager
              /\ p \in Mine(read[t], t)
              /\ managers[t][p].host = read[t][p]

NotMine(t, p) == managers[t][p]
Dropped(t, p) == NoManager

New(t) == {p \in Mine(read[t], t) : ~Kept(t, p)}

(* The constructor asks the broker for an offset if nothing is saved *)
CanOpen(t) == \A p \in New(t) : zk[p] # NoNode \/ read[t][p] \in alive

(* DynamicPartitionConnections.unregister for the managers closed, then      *)
(* register for the ones opened; beside it, without unregister.             *)
Registered(t, h) == {p \in New(t) : read[t][p] = h}
ConnectionsLeft(t, h) == connections[t][h] \cup Registered(t, h)
ConnectionsAfter(t, h) ==
  {p \in connections[t][h] : Kept(t, p)} \cup Registered(t, h)

(* The tuples of the managers closed are still on their way *)
Orphans(t) == UNION {Ids(t, p) : p \in {q \in Partitions : ~Kept(t, q)}}

Reassign(t) ==
  /\ scan[t] = NumPartitions
  /\ CanOpen(t)
  /\ managers' = [managers EXCEPT ![t] =
       [p \in Partitions |-> IF Kept(t, p) THEN managers[t][p]
                             ELSE IF p \in New(t) THEN Opened(p, read[t][p])
                             ELSE Dropped(t, p)]]
  /\ connections' = [connections EXCEPT ![t] = [h \in Hosts |-> ConnectionsAfter(t, h)]]
  /\ inFlight' = [inFlight EXCEPT ![t] = @ \cup Orphans(t)]
  /\ view' = [view EXCEPT ![t] = read[t]]
  /\ scan' = [scan EXCEPT ![t] = AtRest]
  /\ read' = [read EXCEPT ![t] = Nothing]
  /\ UNCHANGED <<kafkaVars, found, writing, zk, processed, lost, faults, fails>>

(* ... or it throws, and the worker dies *)
RefreshFails(t) ==
  /\ scan[t] = NumPartitions
  /\ ~CanOpen(t)
  /\ Die(t)
  /\ UNCHANGED <<kafkaVars, zk, processed, lost, faults, fails>>

-----------------------------------------------------------------------------
(* A manager fetches from its host; only a fetch that finds something counts *)
Fetch(t, p) ==
  /\ Idle(t)
  /\ managers[t][p] # NoManager
  /\ Serves(managers[t][p].host, p)
  /\ NextOffset(managers[t][p].emitted) < LogEnd[p]
  /\ managers' = [managers EXCEPT ![t][p].emitted = LogEnd[p]]
  /\ UNCHANGED <<kafkaVars, refreshVars, view, connections, inFlight, writing, zk,
                 processed, lost, faults, fails>>

(* The first of its pending messages is completed, whatever has become of    *)
(* the host: the next is pending, or it is where it emitted to.              *)
Process(t, p) ==
  /\ Idle(t)
  /\ managers[t][p] # NoManager
  /\ managers[t][p].done # managers[t][p].emitted
  /\ LET offset == NextOffset(managers[t][p].done)
         emitted == managers[t][p].emitted
     IN /\ managers' = [managers EXCEPT ![t][p].done =
                          IF offset < emitted THEN offset + 1 ELSE emitted]
        /\ processed' = [processed EXCEPT ![p] = @ \cup {offset}]
  /\ UNCHANGED <<kafkaVars, refreshVars, view, connections, inFlight, writing, zk, lost,
                 faults, fails>>

(* A tuple fails and fail() takes the manager back to it; what was pending     *)
(* above it is out and will be emitted again.  An id stands for all the tuples *)
(* that have it, of which others may be out when one has failed.             *)
Failable(t, p) ==
  Pending(managers[t][p]) \cup
    {o \in Offset : [host |-> managers[t][p].host, partition |-> p, offset |-> o] \in inFlight[t]}
Fail(t, p, o) ==
  /\ Idle(t)
  /\ managers[t][p] # NoManager
  /\ o \in Failable(t, p) /\ o < managers[t][p].emitted
  /\ fails < MaxFails /\ fails' = fails + 1
  /\ managers' = [managers EXCEPT ![t][p].emitted = RewindTo(o),
                                  ![t][p].done = IF o < @ THEN RewindTo(o) ELSE @]
  /\ inFlight' = [inFlight EXCEPT ![t] = @ \cup {id \in Ids(t, p) : id.offset > o}]
  /\ UNCHANGED <<kafkaVars, refreshVars, view, connections, writing, zk, processed, lost, faults>>

(* A fetch fails, because the host is not the leader or is down *)
FetchFails(t) ==
  /\ Idle(t)
  /\ \E p \in Partitions : /\ managers[t][p] # NoManager
                           /\ ~Serves(managers[t][p].host, p)
  /\ Die(t)
  /\ UNCHANGED <<kafkaVars, zk, processed, lost, faults, fails>>

(* PartitionManager.commit() and ZkState.writeBytes(): is there a node? *)
CheckNode(t, p) ==
  /\ Idle(t)
  /\ managers[t][p] # NoManager
  /\ CommitDue(managers[t][p])
  /\ writing' = [writing EXCEPT ![t] = [partition |-> p, exists |-> zk[p] # NoNode]]
  /\ UNCHANGED <<kafkaVars, refreshVars, taskVars, zk, processed, lost, faults, fails>>

(* If so its data are set, if not it is created *)
WriteNode(t) ==
  /\ writing[t] # NotWriting
  /\ LET p == writing[t].partition
         offset == LastCompleted(managers[t][p])
     IN /\ writing[t].exists \/ zk[p] = NoNode
        /\ zk' = [zk EXCEPT ![p] = offset]
        /\ managers' = [managers EXCEPT ![t][p].saved = offset]
  /\ writing' = [writing EXCEPT ![t] = NotWriting]
  /\ UNCHANGED <<kafkaVars, refreshVars, view, connections, inFlight, processed, lost,
                 faults, fails>>

(* ... and if another task has created it in between, the worker dies *)
CreateFails(t) ==
  /\ writing[t] # NotWriting
  /\ ~writing[t].exists /\ zk[writing[t].partition] # NoNode
  /\ Die(t)
  /\ UNCHANGED <<kafkaVars, zk, processed, lost, faults, fails>>

-----------------------------------------------------------------------------
(* Kafka and the cluster *)

Fault == faults < MaxFaults /\ faults' = faults + 1

(* The leader of a partition moves, or a dead one is replaced *)
MoveLeader(p, h) ==
  /\ h \in alive /\ h # leader[p]
  /\ leader' = [leader EXCEPT ![p] = h]
  /\ IF leader[p] \in alive THEN Fault ELSE UNCHANGED faults
  /\ UNCHANGED <<alive, refreshVars, taskVars, writing, zk, processed, lost, fails>>

StopBroker(h) ==
  /\ h \in alive
  /\ Fault
  /\ alive' = alive \ {h}
  /\ lost' = TRUE
  /\ UNCHANGED <<leader, refreshVars, taskVars, writing, zk, processed, fails>>

StartBroker(h) ==
  /\ h \notin alive
  /\ alive' = alive \cup {h}
  /\ UNCHANGED <<leader, refreshVars, taskVars, writing, zk, processed, lost, faults, fails>>

Crash(t) ==
  /\ Fault
  /\ Die(t)
  /\ UNCHANGED <<kafkaVars, zk, processed, lost, fails>>

-----------------------------------------------------------------------------
Init ==
  /\ leader \in [Partitions -> Hosts] /\ alive = Hosts
  /\ scan = [t \in Tasks |-> AtRest]
  /\ found = [t \in Tasks |-> NoHost]
  /\ read = [t \in Tasks |-> Nothing]
  /\ view = [t \in Tasks |-> Nothing]
  /\ managers = [t \in Tasks |-> [p \in Partitions |-> NoManager]]
  /\ connections = [t \in Tasks |-> [h \in Hosts |-> {}]]
  /\ writing = [t \in Tasks |-> NotWriting]
  /\ inFlight = [t \in Tasks |-> {}]
  /\ zk = [p \in Partitions |-> NoNode]
  /\ processed = [p \in Partitions |-> {}]
  /\ lost = FALSE /\ faults = 0 /\ fails = 0

Refresh(t) ==
  BeginRefresh(t) \/ ReadLeader(t) \/ ReadBroker(t) \/ Reassign(t) \/ RefreshFails(t)

Commit(t) == (\E p \in Partitions : CheckNode(t, p)) \/ WriteNode(t) \/ CreateFails(t)

Task(t) ==
  \/ Refresh(t) \/ Commit(t) \/ FetchFails(t)
  \/ \E p \in Partitions : Fetch(t, p) \/ Process(t, p)

Environment ==
  \/ \E p \in Partitions, h \in Hosts : MoveLeader(p, h)
  \/ \E h \in Hosts : StopBroker(h) \/ StartBroker(h)
  \/ \E t \in Tasks : Crash(t)
  \/ \E t \in Tasks, p \in Partitions, o \in Offset : Fail(t, p, o)

Next == (\E t \in Tasks : Task(t)) \/ Environment

Spec == Init /\ [][Next]_vars

(* The executor of each task never stops: it refreshes when the time has     *)
(* come, finishes what it began, and has a turn for its managers now and    *)
(* then, without any promise to one of them.  Stopped brokers come back.    *)
Finish(t) == \/ ReadLeader(t) \/ ReadBroker(t) \/ Reassign(t) \/ RefreshFails(t)
             \/ WriteNode(t) \/ CreateFails(t)
Work(t) == \E p \in Partitions : Fetch(t, p) \/ Process(t, p) \/ CheckNode(t, p)

TaskFairness(t) ==
  /\ SF_vars(BeginRefresh(t)) /\ WF_vars(Finish(t))
  /\ SF_vars(Work(t)) /\ SF_vars(FetchFails(t))

FairSpec ==
  /\ Spec
  /\ \A t \in Tasks : TaskFairness(t)
  /\ WF_vars(\E h \in Hosts : StartBroker(h))

-----------------------------------------------------------------------------
(* Properties *)

Owners(p) == {t \in Tasks : managers[t][p] # NoManager}

(* The variables have their types: what is saved, emitted to, rewound to is    *)
(* an offset, or the NO_OFFSET a manager may have been told to start from.   *)
TypeOK ==
  /\ leader \in [Partitions -> Hosts] /\ alive \in SUBSET Hosts
  /\ scan \in [Tasks -> 0 .. NumPartitions + 1]
  /\ found \in [Tasks -> Hosts \cup {NoHost}]
  /\ read \in [Tasks -> View] /\ view \in [Tasks -> View]
  /\ managers \in [Tasks -> [Partitions -> {NoManager} \cup Manager]]
  /\ connections \in [Tasks -> [Hosts -> SUBSET Partitions]]
  /\ writing \in [Tasks -> {NotWriting} \cup Write]
  /\ inFlight \in [Tasks -> SUBSET MessageId]
  /\ zk \in [Partitions -> {NoNode} \cup Offset]
  /\ processed \in [Partitions -> SUBSET (0 .. MaxOffset - 1)]
  /\ lost \in BOOLEAN /\ faults \in 0 .. MaxFaults /\ fails \in 0 .. MaxFails

(* Tasks that saw the same brokers at their last refresh share no partition, *)
(* and when all of them did, no partition they saw is left out.             *)
AgreeingTasksShareOut ==
  /\ \A t, u \in Tasks : t # u /\ view[t] = view[u] =>
       \A p \in Partitions : ~({t, u} \subseteq Owners(p))
  /\ \A v \in View : (\A t \in Tasks : view[t] = v) =>
       \A p \in Partitions : v[p] # NoHost =>
         \E t \in Owners(p) : managers[t][p].host = v[p]

(* As long as no broker has gone, a partition belongs to the task of its     *)
(* number, through leader moves, crashes and pictures taken in the middle of *)
(* both (ZkCoordinatorTest.testOnePartitionPerTask).                        *)
OwnedByNumber ==
  ~lost => \A p \in Partitions : Owners(p) \subseteq {p % NumTasks}

(* Two managers of a partition may overwrite each other's offset, but what   *)
(* is saved never has an unprocessed message below it.                      *)
SavedIsProcessed ==
  \A p \in Partitions : zk[p] # NoNode => 0 .. zk[p] - 1 \subseteq processed[p]

(* As long as no broker has gone, the saved offset of a partition goes back  *)
(* only where a manager that knows what is saved was rewound by a tuple that *)
(* failed: through leader moves and crashes no other offset is overwritten   *)
(* with a lower one.                                                        *)
NodeGoesBackByRewindOnly ==
  [][~lost => \A p \in Partitions : zk[p] # NoNode /\ zk'[p] < zk[p] =>
       \E t \in Owners(p) : /\ managers[t][p].saved = zk[p]
                            /\ managers[t][p].done < managers[t][p].saved]_vars

(* unregister() never misses: a task's connections are those of its managers *)
ConnectionsMatchManagers ==
  \A t \in Tasks, h \in Hosts :
    connections[t][h] =
      {p \in Partitions : managers[t][p] # NoManager /\ managers[t][p].host = h}

(* "No new offset for", says commit() when it has nothing to write: then the *)
(* node of a partition with one manager is not behind what it completed.    *)
NoNewOffset ==
  \A p \in Partitions, t \in Tasks :
    /\ Owners(p) = {t} /\ zk[p] # NoNode
    /\ ~CommitDue(managers[t][p])
    => zk[p] >= managers[t][p].done

(* Once leaders and brokers stay, each partition has one manager for good,   *)
(* and it is on the leader.                                                 *)
EventuallyOneOwner ==
  <>[](\A p \in Partitions : \E t \in Tasks :
         Owners(p) = {t} /\ managers[t][p].host = leader[p])
=============================================================================
