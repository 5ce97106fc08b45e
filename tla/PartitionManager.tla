-------------------------- MODULE PartitionManager --------------------------
(***************************************************************************)
(* One Kafka partition as seen by one task of the Storm spout of            *)
(* storm-kafkaplus: the broker's log, the PartitionManager object that      *)
(* reads it, the tuples it has emitted and that Storm has neither acked nor *)
(* failed yet, and the offset it keeps in ZooKeeper.                        *)
(*                                                                          *)
(* nextTuple, ack, fail and deactivate run on the one thread of the spout's *)
(* executor, so each of them is one action.  What happens between them is   *)
(* up to Storm, Kafka and ZooKeeper: tuples complete or time out in any     *)
(* order, the leader of the partition moves, the worker dies and comes      *)
(* back, the topology is redeployed.                                        *)
(***************************************************************************)
EXTENDS Integers, Sequences, FiniteSetsExt

CONSTANTS
  MaxOffset,   \* bound: the log never grows beyond this offset
  MaxFetch,    \* bound: messages that fit in one fetch of fetchSizeBytes
  MaxFaults,   \* bound: crashes, redeployments, leader moves and log faults
  Payload,     \* offset -> what the scheme makes of the message stored there
  RootIds,     \* tuple trees Storm tracks at a time (max spout pending)
  Hosts,       \* brokers that may lead the partition
  NoHost,      \* no manager for the partition, or no live leader
  NoTuple,     \* an unused root id
  NoEntry,     \* no node at committedPath() in ZooKeeper
  Configs      \* the spout configurations to consider

Offsets      == 0 .. MaxOffset - 1
PayloadKinds == {"tuple", "null", "throws"}

(* forceFromStart, startOffsetTime and useStartOffsetTimeIfOffsetOutOfRange *)
Config  == [forceFromStart : BOOLEAN,
            startAt : {"earliest", "latest"},
            useStart : BOOLEAN]

(* A message is its place in the log and the epoch it was appended in; an   *)
(* entry of the buffer pairs it with the offset the manager gives it.       *)
Message == [at : Offsets, epoch : Nat]
Entry   == [tag : 0 .. MaxOffset, msg : Message]
Tuple   == [host : Hosts, tag : 0 .. MaxOffset, msg : Message]
ZkNode  == [topology : Nat, offset : 0 .. MaxOffset]

ASSUME BoundsAssumption ==
  MaxOffset \in Nat /\ MaxFetch \in Nat \ {0} /\ MaxFaults \in Nat
ASSUME PayloadAssumption == Payload \in [Offsets -> PayloadKinds]
ASSUME NoneAssumption ==
  NoHost \notin Hosts /\ NoTuple \notin Tuple /\ NoEntry \notin ZkNode
ASSUME ConfigAssumption == Configs \subseteq Config

VARIABLES
  logStart, logEnd, log, epoch,  \* the broker: retained range, epoch of each slot
  leader,                        \* the host the partition is to be read from
  zk,                            \* the node at committedPath()
  topology,                      \* _topologyInstanceId, fresh for each deployment
  config,                        \* SpoutConfig
  host,                          \* host of _partition, NoHost when unmanaged
  emittedTo, committedTo,        \* _emittedToOffset, _committedTo
  pending, waiting,              \* _pending, _waitingToEmit
  inflight,                      \* root id -> tuple neither acked nor failed
  handled,                       \* history: messages fully processed
  origin,                        \* history: first offset this spout answers for
  disturbed,                     \* history: a tuple failed or a manager was lost
  faults                         \* faults so far, at most MaxFaults

brokerVars  == <<logStart, logEnd, log, epoch>>
deployVars  == <<topology, config>>
managerVars == <<host, emittedTo, committedTo, pending, waiting>>
historyVars == <<handled, origin, disturbed>>
vars == <<brokerVars, leader, zk, deployVars, managerVars,
          inflight, historyVars, faults>>

-----------------------------------------------------------------------------
(* Reading the log *)

MessageAt(o) == [at |-> o, epoch |-> log[o]]

(* KafkaUtils.getOffset, for startOffsetTime and for a SpoutConfig *)
StartOffset      == IF config.startAt = "earliest" THEN logStart ELSE logEnd
ConfiguredOffset == IF config.forceFromStart THEN StartOffset ELSE logEnd

InRange(o) == logStart <= o /\ o <= logEnd

(* KafkaUtils.fetchMessages: where the messages that come back start.  An    *)
(* offset out of range is replaced, once, by the start offset.              *)
FetchPosition == IF InRange(emittedTo) THEN emittedTo ELSE StartOffset
FetchSucceeds == host = leader /\ (InRange(emittedTo) \/ config.useStart)

(* Nothing is fetched while messages wait; else at least one message comes   *)
(* back unless the position is the end of the log.                          *)
FetchCounts ==
  IF waiting # <<>> \/ FetchPosition = logEnd
  THEN {0}
  ELSE {n \in 1 .. MaxFetch : FetchPosition + n <= logEnd}

(* fill() labels a message with _emittedToOffset as it stands before the     *)
(* message: the first one with the offset asked for, wherever it was found. *)
FetchedTag(i) == IF i = 1 THEN emittedTo ELSE FetchPosition + i - 1
Fetched(n) == [i \in 1 .. n |-> [tag |-> FetchedTag(i),
                                 msg |-> MessageAt(FetchPosition + i - 1)]]

Buffer(n) == waiting \o Fetched(n)

(* _pending and _emittedToOffset after fill(); beside them, what they would  *)
(* be if fill() added nothing, or were one off in either direction.         *)
PendingNotExtended(n) == pending
PendingAfterFill(n) == pending \cup {FetchedTag(i) : i \in 1 .. n}

EmittedToLastMessage(n) == IF n = 0 THEN emittedTo ELSE FetchPosition + n - 1
EmittedToOneTooFar(n) == IF n = 0 THEN emittedTo ELSE FetchPosition + n + 1
EmittedToAfterFill(n) == IF n = 0 THEN emittedTo ELSE FetchPosition + n

-----------------------------------------------------------------------------
(* The offset in ZooKeeper *)

(* lastCompletedOffset() of a pending set and an emitted-to offset; beside    *)
(* it, one that overlooks what is pending and one that stops a message      *)
(* short.                                                                   *)
CompletedIsEmitted(pend, emitted) == emitted
CompletedBeforePending(pend, emitted) ==
  IF pend = {} THEN emitted ELSE IF Min(pend) = 0 THEN 0 ELSE Min(pend) - 1
Completed(pend, emitted) == IF pend = {} THEN emitted ELSE Min(pend)

Commit(pend, emitted) ==
  LET completed == Completed(pend, emitted) IN
  IF completed # committedTo
  THEN /\ zk' = [topology |-> topology, offset |-> completed]
       /\ committedTo' = completed
  ELSE UNCHANGED <<zk, committedTo>>

(* The constructor resumes from the node unless there is none, or it is of   *)
(* another deployment and forceFromStart is set.                            *)
CheckpointValid ==
  zk # NoEntry /\ (zk.topology = topology \/ ~config.forceFromStart)

-----------------------------------------------------------------------------
(* nextTuple() *)

FreeRoots == {r \in RootIds : inflight[r] = NoTuple}

(* The first k messages of the buffer deserialize to null and the one after  *)
(* them, if any, does not.                                                  *)
SkipsNulls(buffer, k) ==
  /\ \A i \in 1 .. k : Payload[buffer[i].msg.at] = "null"
  /\ k < Len(buffer) => Payload[buffer[k + 1].msg.at] # "null"

(* Storm calls nextTuple while fewer than max spout pending tuples are out   *)
CanPoll == host # NoHost /\ FreeRoots # {}

(* next(): fill() if nothing waits, ack the k messages that give no tuple,   *)
(* take the one after them; then commit() if the update interval is over.   *)
Poll(n, k, commitDue) ==
  LET buffer  == Buffer(n)
      pend    == PendingAfterFill(n) \ {buffer[i].tag : i \in 1 .. k}
      emitted == EmittedToAfterFill(n)
  IN /\ emittedTo' = emitted
     /\ pending' = pend
     /\ waiting' = SubSeq(buffer, k + 2, Len(buffer))
     /\ handled' = handled \cup {buffer[i].msg : i \in 1 .. k}
     /\ IF commitDue THEN Commit(pend, emitted) ELSE UNCHANGED <<zk, committedTo>>
     /\ UNCHANGED <<brokerVars, leader, deployVars, host, origin, disturbed, faults>>

(* A tuple goes out: EMITTED_MORE_LEFT or EMITTED_END *)
Emit(commitDue) ==
  /\ CanPoll
  /\ waiting = <<>> => FetchSucceeds
  /\ \E n \in FetchCounts, r \in FreeRoots :
       LET buffer == Buffer(n) IN
       \E k \in 0 .. Len(buffer) - 1 :
         /\ SkipsNulls(buffer, k)
         /\ Payload[buffer[k + 1].msg.at] = "tuple"
         /\ Poll(n, k, commitDue)
         /\ inflight' = [inflight EXCEPT ![r] =
                           [host |-> host, tag |-> buffer[k + 1].tag,
                            msg |-> buffer[k + 1].msg]]

(* NO_EMITTED: nothing to read, or nothing that gives a tuple *)
EmitNothing(commitDue) ==
  /\ CanPoll
  /\ waiting = <<>> => FetchSucceeds
  /\ \E n \in FetchCounts :
       LET buffer == Buffer(n) IN
       /\ SkipsNulls(buffer, Len(buffer))
       /\ Poll(n, Len(buffer), commitDue)
  /\ UNCHANGED inflight

NextTuple(commitDue) == Emit(commitDue) \/ EmitNothing(commitDue)

(* The manager object is gone *)
Discard ==
  emittedTo' = 0 /\ committedTo' = 0 /\ pending' = {} /\ waiting' = <<>>

(* The worker dies: its managers are lost, and so are the acks and fails of  *)
(* its tuples, because Storm tracks them in the spout's own executor.       *)
LoseWorker ==
  /\ host' = NoHost
  /\ Discard
  /\ inflight' = [r \in RootIds |-> NoTuple]
  /\ disturbed' = TRUE
  /\ UNCHANGED <<brokerVars, zk, handled, origin>>

(* An exception nobody catches ends the worker: the scheme's, on a message   *)
(* it cannot read ...                                                       *)
DeserializeFails ==
  /\ CanPoll
  /\ waiting = <<>> => FetchSucceeds
  /\ \E n \in FetchCounts :
       LET buffer == Buffer(n) IN
       \E k \in 0 .. Len(buffer) - 1 :
         /\ SkipsNulls(buffer, k)
         /\ Payload[buffer[k + 1].msg.at] = "throws"
  /\ LoseWorker
  /\ UNCHANGED <<leader, deployVars, faults>>

(* ... or FailedFetchException, when the host asked is not the leader any    *)
(* more or the offset is out of range and may not be replaced.              *)
FetchFails ==
  /\ CanPoll
  /\ waiting = <<>>
  /\ ~FetchSucceeds
  /\ LoseWorker
  /\ UNCHANGED <<leader, deployVars, faults>>

-----------------------------------------------------------------------------
(* ack(), fail(), deactivate() *)

(* getManager finds the manager only if the tuple's host is still its host *)
Managed(tuple) == tuple.host = host

(* _pending after ack(); beside it, an ack that is lost *)
AckForgotten(tuple) == pending
PendingAfterAck(tuple) == IF Managed(tuple) THEN pending \ {tuple.tag} ELSE pending

(* The tuple tree of root id r completes *)
Ack(r) ==
  /\ inflight[r] # NoTuple
  /\ handled' = handled \cup {inflight[r].msg}
  /\ pending' = PendingAfterAck(inflight[r])
  /\ inflight' = [inflight EXCEPT ![r] = NoTuple]
  /\ UNCHANGED <<brokerVars, leader, zk, deployVars, host, emittedTo,
                 committedTo, waiting, origin, disturbed, faults>>

(* _pending after tailSet(offset).clear(); beside it, a view that leaves the  *)
(* failed offset in, and one that clears everything.                        *)
PendingUpTo(offset) == {p \in pending : p <= offset}
PendingCleared(offset) == {}
PendingBelow(offset) == {p \in pending : p < offset}

(* _emittedToOffset after fail(); beside it, a fail that leaves it there *)
NotRewound(offset) == emittedTo
RewoundTo(offset) == offset

(* A bolt fails the tuple tree of root id r or Storm times it out *)
Fail(r) ==
  /\ inflight[r] # NoTuple
  /\ IF Managed(inflight[r]) /\ emittedTo > inflight[r].tag
     THEN /\ emittedTo' = RewoundTo(inflight[r].tag)
          /\ pending' = PendingBelow(inflight[r].tag)
     ELSE UNCHANGED <<emittedTo, pending>>
  /\ inflight' = [inflight EXCEPT ![r] = NoTuple]
  /\ disturbed' = TRUE
  /\ UNCHANGED <<brokerVars, leader, zk, deployVars, host, committedTo,
                 waiting, handled, origin, faults>>

Deactivate ==
  /\ host # NoHost
  /\ Commit(pending, emittedTo)
  /\ UNCHANGED <<brokerVars, leader, deployVars, host, emittedTo, pending,
                 waiting, inflight, historyVars, faults>>

-----------------------------------------------------------------------------
(* ZkCoordinator.refresh(), for this partition *)

(* The partition is not among the task's any more: the manager is dropped,   *)
(* uncommitted.                                                             *)
Close ==
  /\ host # NoHost
  /\ leader = NoHost
  /\ host' = NoHost
  /\ Discard
  /\ disturbed' = TRUE
  /\ UNCHANGED <<brokerVars, leader, zk, deployVars, inflight, handled, origin, faults>>

(* The partition is new to the task, or has a new leader: a new manager.  An *)
(* error while reading the node counts as no node.  The history variable    *)
(* origin moves only when the configuration, not the node, says where to    *)
(* start.                                                                   *)
Open(readOk) ==
  /\ leader # NoHost
  /\ host # leader
  /\ host' = leader
  /\ LET start == IF readOk /\ CheckpointValid THEN zk.offset ELSE ConfiguredOffset
     IN /\ emittedTo' = start
        /\ committedTo' = start
        /\ origin' = IF CheckpointValid THEN origin ELSE start
  /\ pending' = {}
  /\ waiting' = <<>>
  /\ disturbed' = (disturbed \/ host # NoHost)
  /\ UNCHANGED <<brokerVars, leader, zk, deployVars, inflight, handled, faults>>

-----------------------------------------------------------------------------
(* Kafka, the cluster and its operators *)

Produce ==
  /\ logEnd < MaxOffset
  /\ logEnd' = logEnd + 1
  /\ log' = [log EXCEPT ![logEnd] = epoch]
  /\ UNCHANGED <<logStart, epoch, leader, zk, deployVars, managerVars,
                 inflight, historyVars, faults>>

Fault == faults < MaxFaults /\ faults' = faults + 1

(* The leader moves or vanishes, or a vanished one is replaced *)
ChangeLeader(h) ==
  /\ leader # h
  /\ leader' = h
  /\ IF leader = NoHost THEN UNCHANGED faults ELSE Fault
  /\ UNCHANGED <<brokerVars, zk, deployVars, managerVars, inflight, historyVars>>

Crash ==
  /\ Fault
  /\ LoseWorker
  /\ UNCHANGED <<leader, deployVars>>

(* A new submission of the topology has a new KafkaSpout, with a new UUID *)
Redeploy ==
  /\ Fault
  /\ LoseWorker
  /\ topology' = topology + 1
  /\ UNCHANGED <<leader, config>>

(* Segments at the head of the log expire *)
Expire(o) ==
  /\ Fault
  /\ logStart < o
  /\ o <= logEnd
  /\ logStart' = o
  /\ UNCHANGED <<logEnd, log, epoch, leader, zk, deployVars, managerVars,
                 inflight, historyVars>>

(* The log is cut back to o: the topic is recreated, or a replica that had   *)
(* not caught up takes over.                                                *)
Truncate(o) ==
  /\ Fault
  /\ o < logEnd
  /\ logEnd' = o
  /\ logStart' = IF o < logStart THEN o ELSE logStart
  /\ epoch' = epoch + 1
  /\ UNCHANGED <<log, leader, zk, deployVars, managerVars, inflight, historyVars>>

-----------------------------------------------------------------------------
Init ==
  /\ logStart = 0 /\ logEnd = 0 /\ log = [o \in Offsets |-> 0] /\ epoch = 0
  /\ leader \in Hosts
  /\ zk = NoEntry
  /\ topology = 1
  /\ config \in Configs
  /\ host = NoHost /\ emittedTo = 0 /\ committedTo = 0
  /\ pending = {} /\ waiting = <<>>
  /\ inflight = [r \in RootIds |-> NoTuple]
  /\ handled = {} /\ origin = 0 /\ disturbed = FALSE
  /\ faults = 0

Spout ==
  \/ \E commitDue \in BOOLEAN : NextTuple(commitDue)
  \/ DeserializeFails
  \/ FetchFails
  \/ \E r \in RootIds : Ack(r) \/ Fail(r)
  \/ Deactivate
  \/ Close
  \/ Open(TRUE)

Environment ==
  \/ Produce
  \/ \E h \in Hosts \cup {NoHost} : ChangeLeader(h)
  \/ Crash
  \/ Redeploy

Next == Spout \/ Environment

Spec == Init /\ [][Next]_vars

(* The same with retention running ahead of the spout, with logs cut back,   *)
(* and with reads of the node that fail.                                    *)
RetentionSpec  == Init /\ [][Next \/ \E o \in 0 .. MaxOffset : Expire(o)]_vars
TruncationSpec == Init /\ [][Next \/ \E o \in 0 .. MaxOffset : Truncate(o)]_vars
ReadErrorSpec  == Init /\ [][Next \/ Open(FALSE)]_vars

-----------------------------------------------------------------------------
(* Scheduling.  The executor of the spout keeps calling nextTuple, every     *)
(* call after the update interval commits, and the managed partitions are   *)
(* refreshed every refreshFreqSecs.  A message that Storm is given again    *)
(* and again is acked in the end, and a partition does not stay without a   *)
(* leader.  Nothing is asked of Kafka's clients, of crashes or of timeouts. *)
AckOffset(o) == \E r \in RootIds : inflight[r] # NoTuple /\ inflight[r].msg.at = o /\ Ack(r)

Recover == \E h \in Hosts : leader = NoHost /\ ChangeLeader(h)

Fairness ==
  /\ SF_vars(NextTuple(TRUE))
  /\ WF_vars(Close \/ Open(TRUE))
  /\ WF_vars(FetchFails)
  /\ WF_vars(Recover)
  /\ \A o \in Offsets : SF_vars(AckOffset(o))

FairSpec == Spec /\ Fairness

-----------------------------------------------------------------------------
(* Properties *)

Buffered == {waiting[i].tag : i \in DOMAIN waiting}
Outstanding == {r \in RootIds : inflight[r] # NoTuple}

(* The variables have their types: offsets lie in the log's bounds, the      *)
(* saved node is one that commit() wrote (PartitionManager.commit).         *)
TypeOK ==
  /\ logStart \in 0 .. MaxOffset /\ logEnd \in 0 .. MaxOffset
  /\ epoch \in Nat /\ log \in [Offsets -> Nat]
  /\ leader \in Hosts \cup {NoHost}
  /\ zk \in {NoEntry} \cup ZkNode
  /\ topology \in Nat /\ config \in Configs
  /\ host \in Hosts \cup {NoHost}
  /\ emittedTo \in 0 .. MaxOffset /\ committedTo \in 0 .. MaxOffset
  /\ pending \in SUBSET (0 .. MaxOffset)
  /\ waiting \in Seq(Entry)
  /\ inflight \in [RootIds -> {NoTuple} \cup Tuple]
  /\ handled \in SUBSET Message
  /\ origin \in 0 .. MaxOffset
  /\ disturbed \in BOOLEAN
  /\ faults \in 0 .. MaxFaults

(* At least once: when the offset in ZooKeeper is one a new manager would    *)
(* resume from, every message of the log from the origin up to it has been  *)
(* processed, whatever was failed, timed out, lost in a crash or acked to   *)
(* an earlier manager of the partition in between.                          *)
CommittedIsProcessed ==
  CheckpointValid =>
    \A o \in Offsets :
      origin <= o /\ logStart <= o /\ o < zk.offset /\ o < logEnd
        => MessageAt(o) \in handled

(* Nothing is skipped: a message the manager has read past is processed, or  *)
(* its offset holds the commit back.                                        *)
NothingSkipped ==
  host # NoHost =>
    \A o \in Offsets :
      origin <= o /\ o < emittedTo => o \in pending \/ MessageAt(o) \in handled

(* Every offset that holds the commit back has a live copy, buffered or in   *)
(* flight, whose ack or fail reaches this manager: the commit cannot be     *)
(* stuck behind a tuple nobody will ever answer for.                        *)
NoOrphanPending ==
  \A p \in pending :
    \/ p \in Buffered
    \/ \E r \in Outstanding : Managed(inflight[r]) /\ inflight[r].tag = p

(* As long as nothing fails and no manager is lost, each message read past   *)
(* is in exactly one place: buffered once, in flight once, or processed; so *)
(* it is emitted at most once (the TODO of KafkaSpout: not to re-emit        *)
(* messages if it does not have to).                                        *)
NoDuplicateUndisturbed ==
  ~disturbed /\ host # NoHost =>
    \A o \in Offsets : origin <= o /\ o < emittedTo =>
      Cardinality({i \in DOMAIN waiting : waiting[i].msg.at = o})
        + Cardinality({r \in Outstanding : inflight[r].msg.at = o})
        + (IF MessageAt(o) \in handled THEN 1 ELSE 0) = 1

(* The commit goes back only to a message that has failed: an offset below   *)
(* the one in ZooKeeper is written by a deployment only after a tuple       *)
(* failed or a manager was lost.                                            *)
NoUncausedRegress ==
  [][CheckpointValid /\ zk' # zk /\ zk'.offset < zk.offset => disturbed]_vars

(* The manager, its log and ZooKeeper implement the at-least-once reader *)
ReaderSpec == INSTANCE AtLeastOnce WITH
  NoPosition <- NoEntry,
  published  <- logEnd,
  processed  <- {m.at : m \in handled},
  first      <- origin,
  saved      <- IF CheckpointValid THEN zk.offset ELSE NoEntry

ImplementsAtLeastOnce == ReaderSpec!Spec

(* Every message from the origin on is processed in the end, or a restart    *)
(* with nothing saved moves the origin past it.                             *)
EventuallyProcessed ==
  \A o \in Offsets :
    (origin <= o /\ o < logEnd) ~> (MessageAt(o) \in handled \/ o < origin)

(* ... and the offset in ZooKeeper passes it: no ack is forgotten and no     *)
(* pending offset blocks the commit for ever.                               *)
EventuallyCommitted ==
  \A o \in Offsets :
    (origin <= o /\ o < logEnd) ~> ((CheckpointValid /\ o < zk.offset) \/ o < origin)
=============================================================================
