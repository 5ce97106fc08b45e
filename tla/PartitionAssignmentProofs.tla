--------------------- MODULE PartitionAssignmentProofs ---------------------
(***************************************************************************)
(* Proofs about PartitionAssignment, for any number of tasks, partitions,   *)
(* brokers and messages: the invariant IInv is inductive, and the type      *)
(* invariant, the sharing out, the connections and the truth of the saved   *)
(* offsets follow from it.                                                  *)
(***************************************************************************)
EXTENDS PartitionAssignment, FiniteSetTheorems, TLAPS

(* The constants that are numbers. *)
LEMMA Bounds ==
  /\ NumTasks \in Nat \ {0} /\ NumPartitions \in Nat
  /\ MaxOffset \in Nat /\ LogEnd \in [Partitions -> 0 .. MaxOffset]
  /\ MaxFaults \in Nat /\ MaxFails \in Nat
BY AssignmentAssumption DEF AssignmentAssumption

(* A task manages exactly its part of what it saw, on the hosts it saw. *)
ManagersMatchView ==
  \A t \in Tasks, p \in Partitions :
    /\ managers[t][p] # NoManager <=> p \in Mine(view[t], t)
    /\ managers[t][p] # NoManager => managers[t][p].host = view[t][p]

(* What a manager has completed is processed, and what it still waits for is *)
(* a message of the log.                                                    *)
Honest(m, messages) ==
  /\ m.done # NO_OFFSET => 0 .. m.done - 1 \subseteq messages
  /\ m.done # m.emitted => NextOffset(m.done) < MaxOffset
DoneIsProcessed ==
  \A t \in Tasks, p \in Partitions :
    managers[t][p] # NoManager => Honest(managers[t][p], processed[p])

(* A task that writes is not refreshing and has something to write. *)
WritesWhatIsDue ==
  \A t \in Tasks : writing[t] # NotWriting =>
    /\ scan[t] = AtRest
    /\ managers[t][writing[t].partition] # NoManager
    /\ CommitDue(managers[t][writing[t].partition])

IInv ==
  /\ TypeOK /\ ManagersMatchView /\ DoneIsProcessed /\ WritesWhatIsDue
  /\ ConnectionsMatchManagers /\ SavedIsProcessed

-----------------------------------------------------------------------------
(* Counting the partitions of a view gives a number. *)
LEMMA RankIsNat ==
  ASSUME NEW v, NEW p \in Partitions
  PROVE  Rank(v, p) \in Nat
<1> DEFINE S == {q \in Partitions : v[q] # NoHost /\ q < p}
<1>1. IsFiniteSet(Partitions)
  BY Bounds, FS_Interval DEF Partitions
<1>2. IsFiniteSet(S)
  BY <1>1, FS_Subset
<1> QED BY <1>2, FS_CardinalityType DEF Rank

(* Each partition of a view is some task's. *)
LEMMA SomeTaskHas ==
  ASSUME NEW v, NEW p \in Partitions, v[p] # NoHost
  PROVE  \E t \in Tasks : p \in Mine(v, t)
<1>1. Rank(v, p) % NumTasks \in Tasks
  BY Bounds, RankIsNat DEF Tasks
<1> QED BY <1>1 DEF Mine

(* No partition of a view is two tasks'. *)
LEMMA OneTaskHas ==
  ASSUME NEW v, NEW t, NEW u, NEW p, p \in Mine(v, t), p \in Mine(v, u)
  PROVE  t = u
BY DEF Mine

LEMMA ShareOutFromInvariant == TypeOK /\ ManagersMatchView => AgreeingTasksShareOut
<1> SUFFICES ASSUME TypeOK, ManagersMatchView PROVE AgreeingTasksShareOut
  OBVIOUS
<1>1. ASSUME NEW t \in Tasks, NEW u \in Tasks, t # u, view[t] = view[u],
             NEW p \in Partitions
      PROVE  ~({t, u} \subseteq Owners(p))
  BY <1>1, OneTaskHas DEF Owners, ManagersMatchView
<1>2. ASSUME NEW v \in View, \A t \in Tasks : view[t] = v,
             NEW p \in Partitions, v[p] # NoHost
      PROVE  \E t \in Owners(p) : managers[t][p].host = v[p]
  <2>1. PICK t \in Tasks : p \in Mine(v, t)
    BY <1>2, SomeTaskHas
  <2>2. managers[t][p] # NoManager /\ managers[t][p].host = v[p]
    BY <1>2, <2>1 DEF ManagersMatchView
  <2> QED BY <2>2 DEF Owners
<1> QED BY <1>1, <1>2 DEF AgreeingTasksShareOut

-----------------------------------------------------------------------------
(* Initially nobody has seen or saved anything. *)
LEMMA InitIInv == Init => IInv
<1> SUFFICES ASSUME Init PROVE IInv
  OBVIOUS
<1> USE DEF Init, Nothing
<1>1. TypeOK
  <2>1. scan \in [Tasks -> 0 .. NumPartitions + 1]
    <3>1. AtRest \in 0 .. NumPartitions + 1
      BY Bounds DEF AtRest
    <3> QED BY <3>1
  <2>6. faults \in 0 .. MaxFaults /\ fails \in 0 .. MaxFails
    BY Bounds
  <2>7. lost \in BOOLEAN
    BY Zenon
  <2>2. Nothing \in View
    BY DEF View
  <2>3. /\ found \in [Tasks -> Hosts \cup {NoHost}]
        /\ read \in [Tasks -> View] /\ view \in [Tasks -> View]
        /\ writing \in [Tasks -> {NotWriting} \cup Write]
    BY <2>2
  <2>4. /\ managers \in [Tasks -> [Partitions -> {NoManager} \cup Manager]]
        /\ connections \in [Tasks -> [Hosts -> SUBSET Partitions]]
    OBVIOUS
  <2>5. /\ zk \in [Partitions -> {NoNode} \cup Offset]
        /\ processed \in [Partitions -> SUBSET (0 .. MaxOffset - 1)]
        /\ inFlight \in [Tasks -> SUBSET MessageId]
    OBVIOUS
  <2> QED BY <2>1, <2>3, <2>4, <2>5, <2>6, <2>7, Zenon DEF TypeOK
<1>2. ManagersMatchView
  BY DEF ManagersMatchView, Mine
<1>3. DoneIsProcessed /\ WritesWhatIsDue
  BY DEF DoneIsProcessed, WritesWhatIsDue
<1>4. ConnectionsMatchManagers /\ SavedIsProcessed
  BY DEF ConnectionsMatchManagers, SavedIsProcessed
<1> QED BY <1>1, <1>2, <1>3, <1>4 DEF IInv

(* A worker that dies takes all that is said of it along. *)
LEMMA DieKeepsIInv ==
  ASSUME IInv, NEW t \in Tasks, Die(t), UNCHANGED <<kafkaVars, zk, processed, lost, fails>>,
         faults' \in 0 .. MaxFaults
  PROVE  IInv'
<1> USE DEF IInv, Die, kafkaVars
<1>1. TypeOK'
  BY Bounds DEF TypeOK, View, Nothing, AtRest, Partitions
<1>2. ManagersMatchView'
  <2> SUFFICES ASSUME NEW u \in Tasks, NEW p \in Partitions
               PROVE  /\ managers'[u][p] # NoManager <=> p \in Mine(view'[u], u)
                      /\ managers'[u][p] # NoManager => managers'[u][p].host = view'[u][p]
    BY DEF ManagersMatchView, Mine
  <2>1. CASE u = t
    BY <2>1 DEF Mine, Nothing, TypeOK
  <2>2. CASE u # t
    BY <2>2 DEF ManagersMatchView, TypeOK
  <2> QED BY <2>1, <2>2
<1>3. DoneIsProcessed'
  BY DEF DoneIsProcessed, Honest, TypeOK
<1>4. WritesWhatIsDue'
  BY DEF WritesWhatIsDue, TypeOK, CommitDue, LastCompleted, AtRest
<1>5. ConnectionsMatchManagers'
  BY DEF ConnectionsMatchManagers, TypeOK
<1>6. SavedIsProcessed'
  BY DEF SavedIsProcessed
<1> QED BY <1>1, <1>2, <1>3, <1>4, <1>5, <1>6 DEF IInv

(* Reading the brokers, Kafka's own steps and the check for a node leave the *)
(* managers as they are.                                                    *)
LEMMA SameManagersKeepIInv ==
  ASSUME IInv, TypeOK', WritesWhatIsDue', UNCHANGED <<taskVars, zk, processed>>
  PROVE  IInv'
<1> USE DEF IInv, taskVars
<1>1. ManagersMatchView'
  BY DEF ManagersMatchView, Mine, Rank
<1>2. DoneIsProcessed'
  BY DEF DoneIsProcessed, Honest
<1>3. ConnectionsMatchManagers' /\ SavedIsProcessed'
  BY DEF ConnectionsMatchManagers, SavedIsProcessed
<1> QED BY <1>1, <1>2, <1>3 DEF IInv
(* Refreshing only reads, up to Reassign. *)
LEMMA ReadKeepsIInv ==
  ASSUME IInv, NEW t \in Tasks,
         BeginRefresh(t) \/ ReadLeader(t) \/ ReadBroker(t)
  PROVE  IInv'
<1> USE DEF BeginRefresh, ReadLeader, ReadBroker, kafkaVars, taskVars
<1>1. TypeOK'
  <2>1. Nothing \in View
    BY DEF Nothing, View
  <2>2. scan' \in [Tasks -> 0 .. NumPartitions + 1]
    <3>1. scan \in [Tasks -> 0 .. NumPartitions + 1]
      BY DEF IInv, TypeOK
    <3>2. scan[t] \in Partitions => scan[t] + 1 \in 0 .. NumPartitions + 1
      BY Bounds DEF Partitions
    <3> QED BY Bounds, <3>1, <3>2 DEF AtRest
  <2>3. found' \in [Tasks -> Hosts \cup {NoHost}]
    BY DEF IInv, TypeOK
  <2>4. read' \in [Tasks -> View]
    <3>1. read \in [Tasks -> View] /\ found \in [Tasks -> Hosts \cup {NoHost}]
      BY DEF IInv, TypeOK
    <3>2. scan[t] \in Partitions => [read[t] EXCEPT ![scan[t]] = found[t]] \in View
      BY <3>1 DEF View
    <3>3. \/ read' = read
          \/ read' = [read EXCEPT ![t] = Nothing]
          \/ /\ scan[t] \in Partitions
             /\ read' = [read EXCEPT ![t] = [read[t] EXCEPT ![scan[t]] = found[t]]]
      BY <3>1
    <3> QED BY <2>1, <3>1, <3>2, <3>3
  <2> QED BY <2>2, <2>3, <2>4 DEF IInv, TypeOK
<1>2. WritesWhatIsDue'
  <2>1. writing[t] = NotWriting
    BY Bounds DEF IInv, WritesWhatIsDue, Idle, AtRest, Partitions
  <2> QED BY <2>1 DEF IInv, TypeOK, WritesWhatIsDue, CommitDue, LastCompleted
<1> QED BY <1>1, <1>2, SameManagersKeepIInv

(* What Kafka does to its own nodes. *)
LEMMA KafkaKeepsIInv ==
  ASSUME IInv,
         \/ \E p \in Partitions, h \in Hosts : MoveLeader(p, h)
         \/ \E h \in Hosts : StopBroker(h) \/ StartBroker(h)
  PROVE  IInv'
<1> USE DEF MoveLeader, StopBroker, StartBroker, refreshVars, taskVars
<1>1. TypeOK'
  <2>1. leader' \in [Partitions -> Hosts] /\ alive' \in SUBSET Hosts
    BY DEF IInv, TypeOK
  <2>2. faults' \in 0 .. MaxFaults
    BY Bounds DEF IInv, TypeOK, Fault
  <2>3. lost' \in BOOLEAN
    BY Zenon DEF IInv, TypeOK
  <2>4. UNCHANGED <<refreshVars, taskVars, writing, zk, processed, fails>>
    OBVIOUS
  <2> QED BY <2>1, <2>2, <2>3, <2>4, Zenon DEF IInv, TypeOK
<1>2. WritesWhatIsDue'
  BY DEF IInv, WritesWhatIsDue, CommitDue, LastCompleted
<1> QED BY <1>1, <1>2, SameManagersKeepIInv

(* commit() finds out whether there is a node. *)
LEMMA CheckNodeKeepsIInv ==
  ASSUME IInv, NEW t \in Tasks, NEW p \in Partitions, CheckNode(t, p)
  PROVE  IInv'
<1> USE DEF CheckNode, kafkaVars, refreshVars, taskVars
<1>1. TypeOK'
  BY DEF IInv, TypeOK, Write
<1>2. WritesWhatIsDue'
  BY DEF IInv, TypeOK, WritesWhatIsDue, CommitDue, LastCompleted, Idle
<1> QED BY <1>1, <1>2, SameManagersKeepIInv

-----------------------------------------------------------------------------
(* One manager's offsets change, never its host: what is to be shown then. *)
LEMMA OneManagerKeepsIInv ==
  ASSUME IInv, NEW t \in Tasks, NEW p \in Partitions, NEW m \in Manager,
         managers[t][p] # NoManager, m.host = managers[t][p].host,
         managers' = [managers EXCEPT ![t][p] = m],
         UNCHANGED <<kafkaVars, refreshVars, view, connections, lost, faults>>,
         inFlight' \in [Tasks -> SUBSET MessageId], fails' \in 0 .. MaxFails,
         zk' \in [Partitions -> {NoNode} \cup Offset],
         processed' \in [Partitions -> SUBSET (0 .. MaxOffset - 1)],
         \A q \in Partitions : processed[q] \subseteq processed'[q],
         Honest(m, processed'[p]),
         writing' = [writing EXCEPT ![t] = NotWriting], Idle(t)' , SavedIsProcessed'
  PROVE  IInv'
<1> USE DEF kafkaVars, refreshVars
<1>0. m # NoManager
  BY AssignmentAssumption DEF AssignmentAssumption
<1>1. /\ managers'[t][p] = m
      /\ \A u \in Tasks, q \in Partitions :
           u # t \/ q # p => managers'[u][q] = managers[u][q]
  BY DEF IInv, TypeOK
<1>2. TypeOK'
  BY DEF IInv, TypeOK
<1>3. ManagersMatchView'
  <2>1. ASSUME NEW u \in Tasks, NEW q \in Partitions
        PROVE  /\ managers'[u][q] # NoManager <=> managers[u][q] # NoManager
               /\ managers[u][q] # NoManager => managers'[u][q].host = managers[u][q].host
    BY <1>0, <1>1
  <2> SUFFICES ASSUME NEW u \in Tasks, NEW q \in Partitions
               PROVE  /\ managers'[u][q] # NoManager <=> q \in Mine(view'[u], u)
                      /\ managers'[u][q] # NoManager => managers'[u][q].host = view'[u][q]
    BY DEF ManagersMatchView, Mine
  <2> QED BY <2>1 DEF IInv, ManagersMatchView
<1>4. DoneIsProcessed'
  <2> SUFFICES ASSUME NEW u \in Tasks, NEW q \in Partitions, managers'[u][q] # NoManager
               PROVE  Honest(managers'[u][q], processed'[q])
    BY DEF DoneIsProcessed, Honest
  <2>1. CASE u = t /\ q = p
    BY <1>1, <2>1
  <2>2. CASE u # t \/ q # p
    BY <1>1, <2>2 DEF IInv, DoneIsProcessed, Honest
  <2> QED BY <2>1, <2>2
<1>5. WritesWhatIsDue'
  BY <1>1 DEF IInv, TypeOK, WritesWhatIsDue, CommitDue, LastCompleted
<1>6. ConnectionsMatchManagers'
  <2>1. ASSUME NEW u \in Tasks, NEW q \in Partitions
        PROVE  /\ managers'[u][q] # NoManager <=> managers[u][q] # NoManager
               /\ managers[u][q] # NoManager => managers'[u][q].host = managers[u][q].host
    BY <1>0, <1>1
  <2> QED BY <2>1 DEF IInv, ConnectionsMatchManagers
<1> QED BY <1>2, <1>3, <1>4, <1>5, <1>6 DEF IInv

(* A manager that there is has its type. *)
LEMMA ManagerType ==
  ASSUME TypeOK, NEW t \in Tasks, NEW p \in Partitions, managers[t][p] # NoManager
  PROVE  managers[t][p] \in Manager
BY DEF TypeOK

(* Fetching completes nothing. *)
LEMMA FetchKeepsIInv ==
  ASSUME IInv, NEW t \in Tasks, NEW p \in Partitions, Fetch(t, p)
  PROVE  IInv'
<1> DEFINE end == LogEnd[p]
           old == managers[t][p]
           m == [old EXCEPT !.emitted = end]
<1>1. old \in Manager /\ end \in 0 .. MaxOffset
  BY ManagerType, Bounds DEF IInv, Fetch
<1>2. m \in Manager /\ m.host = old.host /\ m.done = old.done /\ m.emitted = end
  <2> HIDE DEF end
  <2> QED BY <1>1 DEF Manager, Offset
<1>3. managers' = [managers EXCEPT ![t][p] = m]
  BY DEF Fetch
<1>4. SavedIsProcessed'
  BY DEF IInv, SavedIsProcessed, Fetch
<1>5. writing' = [writing EXCEPT ![t] = NotWriting] /\ Idle(t)'
  BY DEF IInv, TypeOK, Fetch, Idle, refreshVars
<1>6. Honest(m, processed'[p])
  <2>1. Honest(old, processed[p]) /\ processed' = processed
    BY DEF IInv, DoneIsProcessed, Fetch
  <2>2. NextOffset(old.done) < MaxOffset
    <3>1. CASE old.done = old.emitted
      <4>1. NextOffset(old.emitted) < end
        BY DEF Fetch
      <4>2. NextOffset(old.emitted) \in Int
        BY <1>1, Bounds DEF Manager, Offset, NextOffset, NO_OFFSET
      <4> HIDE DEF end
      <4> QED BY <1>1, <3>1, <4>1, <4>2, Bounds
    <3>2. CASE old.done # old.emitted
      BY <2>1, <3>2 DEF Honest
    <3> QED BY <3>1, <3>2
  <2> HIDE DEF m
  <2> QED BY <1>2, <2>1, <2>2 DEF Honest
<1>7. /\ zk' \in [Partitions -> {NoNode} \cup Offset]
      /\ processed' \in [Partitions -> SUBSET (0 .. MaxOffset - 1)]
      /\ \A q \in Partitions : processed[q] \subseteq processed'[q]
      /\ inFlight' \in [Tasks -> SUBSET MessageId] /\ fails' \in 0 .. MaxFails
  BY DEF IInv, TypeOK, Fetch
<1> HIDE DEF m
<1> QED
  BY <1>2, <1>3, <1>4, <1>5, <1>6, <1>7, OneManagerKeepsIInv DEF Fetch

(* Completing a message moves the manager past it and processes it. *)
LEMMA ProcessKeepsIInv ==
  ASSUME IInv, NEW t \in Tasks, NEW p \in Partitions, Process(t, p)
  PROVE  IInv'
<1> DEFINE old == managers[t][p]
           offset == NextOffset(old.done)
           next == IF offset < old.emitted THEN offset + 1 ELSE old.emitted
           m == [old EXCEPT !.done = next]
<1>1. old \in Manager /\ old # NoManager
  BY ManagerType DEF IInv, Process
<1>2. Honest(old, processed[p]) /\ old.done # old.emitted
  BY <1>1 DEF IInv, DoneIsProcessed, Process
<1>3. offset \in 0 .. MaxOffset - 1 /\ (old.done # NO_OFFSET => offset = old.done)
  BY <1>1, <1>2, Bounds DEF Manager, Offset, NextOffset, NO_OFFSET, Honest
<1>4. next \in Offset /\ (next # NO_OFFSET => next <= offset + 1)
      /\ (next # old.emitted => NextOffset(next) < MaxOffset)
  BY <1>1, <1>3, Bounds DEF Manager, Offset, NextOffset, NO_OFFSET
<1>5. m \in Manager /\ m.host = old.host /\ m.done = next /\ m.emitted = old.emitted
  <2> HIDE DEF next
  <2> QED BY <1>1, <1>4 DEF Manager
<1>6. managers' = [managers EXCEPT ![t][p] = m]
  BY DEF Process
<1>7. /\ processed' \in [Partitions -> SUBSET (0 .. MaxOffset - 1)]
      /\ \A q \in Partitions : processed[q] \subseteq processed'[q]
      /\ processed'[p] = processed[p] \cup {offset}
  BY <1>3 DEF IInv, TypeOK, Process
<1>8. Honest(m, processed'[p])
  <2>1. 0 .. offset - 1 \subseteq processed[p]
    <3>1. CASE old.done = NO_OFFSET
      BY <3>1 DEF NextOffset
    <3>2. CASE old.done # NO_OFFSET
      BY <1>2, <1>3, <3>2 DEF Honest
    <3> QED BY <3>1, <3>2
  <2>2. next # NO_OFFSET => 0 .. next - 1 \subseteq processed'[p]
    <3> HIDE DEF next
    <3> QED BY <1>3, <1>4, <1>7, <2>1, Bounds DEF Offset
  <2> HIDE DEF next, m
  <2> QED BY <1>4, <1>5, <2>2 DEF Honest
<1>9. SavedIsProcessed'
  BY <1>7 DEF IInv, SavedIsProcessed, Process
<1>10. writing' = [writing EXCEPT ![t] = NotWriting] /\ Idle(t)'
  BY DEF IInv, TypeOK, Process, Idle, refreshVars
<1>11. /\ zk' \in [Partitions -> {NoNode} \cup Offset]
       /\ inFlight' \in [Tasks -> SUBSET MessageId] /\ fails' \in 0 .. MaxFails
  BY DEF IInv, TypeOK, Process
<1> HIDE DEF m
<1> QED
  BY <1>1, <1>5, <1>6, <1>7, <1>8, <1>9, <1>10, <1>11, OneManagerKeepsIInv DEF Process

(* The tuples a manager waits for have ids. *)
LEMMA IdsType ==
  ASSUME TypeOK, NEW t \in Tasks, NEW p \in Partitions
  PROVE  Ids(t, p) \subseteq MessageId
<1>1. CASE managers[t][p] = NoManager
  BY <1>1 DEF Ids
<1>2. CASE managers[t][p] # NoManager
  <2>1. managers[t][p].host \in Hosts
    BY <1>2, ManagerType DEF Manager
  <2>2. Pending(managers[t][p]) \subseteq Offset
    BY DEF Pending
  <2> QED BY <1>2, <2>1, <2>2 DEF Ids, MessageId
<1> QED BY <1>1, <1>2

(* A tuple that fails takes the manager back, to where all is processed still. *)
Rewound(m, o) == [m EXCEPT !.emitted = o, !.done = IF o < m.done THEN o ELSE m.done]
LEMMA FailRewinds ==
  ASSUME NEW t \in Tasks, NEW p \in Partitions, NEW o \in Offset, Fail(t, p, o)
  PROVE  managers' = [managers EXCEPT ![t][p] = Rewound(managers[t][p], o)]
BY DEF Fail, RewindTo, Rewound

LEMMA FailKeepsIInv ==
  ASSUME IInv, NEW t \in Tasks, NEW p \in Partitions, NEW o \in Offset, Fail(t, p, o)
  PROVE  IInv'
<1> DEFINE old == managers[t][p]
           done == IF o < old.done THEN o ELSE old.done
           m == Rewound(old, o)
<1>1. old \in Manager /\ old # NoManager /\ o < old.emitted
  BY ManagerType DEF IInv, Fail
<1>2. Honest(old, processed[p]) /\ processed' = processed
  BY <1>1 DEF IInv, DoneIsProcessed, Fail
<1>3. /\ done \in Offset /\ (done # NO_OFFSET => old.done # NO_OFFSET /\ done <= old.done)
      /\ (done # o => done = old.done /\ old.done # old.emitted)
  BY <1>1, Bounds DEF Manager, Offset, NO_OFFSET
<1>4. m \in Manager /\ m.host = old.host /\ m.done = done /\ m.emitted = o
  BY <1>1, <1>3 DEF Manager, Rewound
<1>5. managers' = [managers EXCEPT ![t][p] = m]
  BY FailRewinds
<1>6. Honest(m, processed'[p])
  <2>1. done # NO_OFFSET => 0 .. done - 1 \subseteq processed[p]
    <3>1. old.done # NO_OFFSET => 0 .. old.done - 1 \subseteq processed[p]
      BY <1>2 DEF Honest
    <3>2. old.done \in Int /\ done \in Int
      BY <1>1, <1>3, Bounds DEF Manager, Offset, NO_OFFSET
    <3> HIDE DEF done
    <3> QED BY <1>3, <3>1, <3>2
  <2>2. done # o => NextOffset(done) < MaxOffset
    BY <1>2, <1>3 DEF Honest
  <2> HIDE DEF m, done
  <2> QED BY <1>2, <1>4, <2>1, <2>2 DEF Honest
<1>7. SavedIsProcessed'
  BY DEF IInv, SavedIsProcessed, Fail
<1>8. writing' = [writing EXCEPT ![t] = NotWriting] /\ Idle(t)'
  BY DEF IInv, TypeOK, Fail, Idle, refreshVars
<1>9. /\ zk' \in [Partitions -> {NoNode} \cup Offset]
      /\ processed' \in [Partitions -> SUBSET (0 .. MaxOffset - 1)]
      /\ \A q \in Partitions : processed[q] \subseteq processed'[q]
  BY DEF IInv, TypeOK, Fail
<1>10. inFlight' \in [Tasks -> SUBSET MessageId]
  <2>1. Ids(t, p) \subseteq MessageId
    BY IdsType DEF IInv
  <2> QED BY <2>1 DEF IInv, TypeOK, Fail
<1>11. fails' \in 0 .. MaxFails
  BY Bounds DEF IInv, TypeOK, Fail
<1> HIDE DEF m
<1> QED
  BY <1>1, <1>4, <1>5, <1>6, <1>7, <1>8, <1>9, <1>10, <1>11, OneManagerKeepsIInv DEF Fail

(* What is written is an offset, and everything below it is processed. *)
LEMMA WriteNodeKeepsIInv ==
  ASSUME IInv, NEW t \in Tasks, WriteNode(t)
  PROVE  IInv'
<1> DEFINE p == writing[t].partition
           old == managers[t][p]
           m == [old EXCEPT !.saved = old.done]
<1>1. p \in Partitions /\ old # NoManager /\ scan[t] = AtRest /\ CommitDue(old)
  BY DEF IInv, TypeOK, WritesWhatIsDue, WriteNode, Write
<1>2. old \in Manager
  BY <1>1, ManagerType DEF IInv
<1>3. old.done \in Offset /\ Honest(old, processed[p])
  BY <1>1, <1>2 DEF IInv, DoneIsProcessed, Manager
<1>4. m \in Manager /\ m.host = old.host /\ m.done = old.done /\ m.emitted = old.emitted
  BY <1>2 DEF Manager
<1>5. managers' = [managers EXCEPT ![t][p] = m] /\ zk' = [zk EXCEPT ![p] = old.done]
  BY DEF WriteNode, LastCompleted
<1>6. 0 .. old.done - 1 \subseteq processed[p]
  BY <1>3 DEF Honest, NO_OFFSET
<1>7. SavedIsProcessed'
  BY <1>5, <1>6 DEF IInv, TypeOK, SavedIsProcessed, WriteNode
<1>8. writing' = [writing EXCEPT ![t] = NotWriting] /\ Idle(t)'
  BY <1>1 DEF IInv, TypeOK, WriteNode, Idle, refreshVars
<1>9. zk' \in [Partitions -> {NoNode} \cup Offset]
  BY <1>3, <1>5 DEF IInv, TypeOK
<1>10. /\ processed' \in [Partitions -> SUBSET (0 .. MaxOffset - 1)]
       /\ \A q \in Partitions : processed[q] \subseteq processed'[q]
       /\ inFlight' \in [Tasks -> SUBSET MessageId] /\ fails' \in 0 .. MaxFails
  BY DEF IInv, TypeOK, WriteNode
<1>11. Honest(m, processed'[p])
  <2>1. processed' = processed
    BY DEF WriteNode
  <2> HIDE DEF m, old
  <2> QED BY <1>3, <1>4, <2>1 DEF Honest
<1> HIDE DEF m
<1> QED
  BY <1>1, <1>4, <1>5, <1>7, <1>8, <1>9, <1>10, <1>11, OneManagerKeepsIInv DEF WriteNode

(* A manager opened starts from the node, where everything below is          *)
(* processed, from the start of the log, or without an offset.              *)
LEMMA OpenedType ==
  ASSUME TypeOK, SavedIsProcessed, NEW p \in Partitions, NEW h \in Hosts
  PROVE  /\ Opened(p, h) \in Manager /\ Opened(p, h).host = h
         /\ Honest(Opened(p, h), processed[p])
<1> DEFINE offset == IF zk[p] # NoNode THEN zk[p] ELSE IF Serves(h, p) THEN 0 ELSE NO_OFFSET
<1>1. offset \in Offset
  BY Bounds DEF TypeOK, Offset
<1>2. offset # NO_OFFSET => 0 .. offset - 1 \subseteq processed[p]
  BY DEF SavedIsProcessed
<1>3. Opened(p, h) = StartsAt(offset, h)
  BY DEF Opened
<1> HIDE DEF offset
<1> QED BY <1>1, <1>2, <1>3 DEF StartsAt, Manager, Honest

(* A refresh gives the task exactly its part of what it has just read. *)
LEMMA ReassignKeepsIInv ==
  ASSUME IInv, NEW t \in Tasks, Reassign(t)
  PROVE  IInv'
<1> DEFINE mine == Mine(read[t], t)
           after(p) == IF Kept(t, p) THEN managers[t][p]
                       ELSE IF p \in New(t) THEN Opened(p, read[t][p])
                       ELSE Dropped(t, p)
<1>1. /\ read[t] \in View
      /\ \A p \in mine : p \in Partitions /\ read[t][p] \in Hosts
  BY DEF IInv, TypeOK, Mine, View
<1>2. /\ managers' = [managers EXCEPT ![t] = [p \in Partitions |-> after(p)]]
      /\ view' = [view EXCEPT ![t] = read[t]]
      /\ connections' = [connections EXCEPT ![t] = [h \in Hosts |-> ConnectionsAfter(t, h)]]
  BY DEF Reassign
<1>3. ASSUME NEW p \in mine
      PROVE  /\ after(p) \in Manager /\ after(p).host = read[t][p]
             /\ Honest(after(p), processed[p])
  <2>1. p \in Partitions /\ read[t][p] \in Hosts
    BY <1>1
  <2>2. CASE Kept(t, p)
    <3>1. after(p) = managers[t][p] /\ managers[t][p] # NoManager
          /\ managers[t][p].host = read[t][p]
      BY <2>2 DEF Kept
    <3>2. managers[t][p] \in Manager
      BY <2>1, <3>1, ManagerType DEF IInv
    <3> QED BY <2>1, <3>1, <3>2 DEF IInv, DoneIsProcessed
  <2>3. CASE ~Kept(t, p)
    <3>1. after(p) = Opened(p, read[t][p])
      BY <2>3 DEF New
    <3> QED BY <2>1, <3>1, OpenedType DEF IInv
  <2> QED BY <2>2, <2>3
<1>4. ASSUME NEW p, p \notin mine PROVE after(p) = NoManager
  BY <1>4 DEF Kept, New, Dropped
<1> HIDE DEF after
<1>5. \A p \in Partitions : after(p) \in {NoManager} \cup Manager
  BY <1>3, <1>4
<1>6. NoManager \notin Manager
  BY AssignmentAssumption DEF AssignmentAssumption
<1>7. /\ \A p \in Partitions : managers'[t][p] = after(p)
      /\ \A u \in Tasks : u # t => managers'[u] = managers[u]
      /\ view'[t] = read[t] /\ \A u \in Tasks : u # t => view'[u] = view[u]
  BY <1>2 DEF IInv, TypeOK
<1>8. TypeOK'
  <2>1. managers' \in [Tasks -> [Partitions -> {NoManager} \cup Manager]]
    BY <1>2, <1>5 DEF IInv, TypeOK
  <2>2. \A h \in Hosts : ConnectionsAfter(t, h) \in SUBSET Partitions
    BY <1>1 DEF IInv, TypeOK, ConnectionsAfter, Registered, New
  <2>3. connections' \in [Tasks -> [Hosts -> SUBSET Partitions]]
    BY <1>2, <2>2 DEF IInv, TypeOK
  <2>4. view' \in [Tasks -> View] /\ scan' \in [Tasks -> 0 .. NumPartitions + 1]
    BY <1>1, <1>2, Bounds DEF IInv, TypeOK, Reassign, AtRest
  <2>5. read' \in [Tasks -> View]
    <3>1. Nothing \in View
      BY DEF Nothing, View
    <3> QED BY <3>1 DEF IInv, TypeOK, Reassign
  <2>6. inFlight' \in [Tasks -> SUBSET MessageId]
    <3>1. Orphans(t) \subseteq MessageId
      BY IdsType DEF IInv, Orphans
    <3> QED BY <3>1 DEF IInv, TypeOK, Reassign
  <2> QED BY <2>1, <2>3, <2>4, <2>5, <2>6 DEF IInv, TypeOK, Reassign, kafkaVars
<1>9. ManagersMatchView'
  <2> SUFFICES ASSUME NEW u \in Tasks, NEW p \in Partitions
               PROVE  /\ managers'[u][p] # NoManager <=> p \in Mine(view'[u], u)
                      /\ managers'[u][p] # NoManager => managers'[u][p].host = view'[u][p]
    BY DEF ManagersMatchView, Mine
  <2>1. CASE u = t
    BY <1>3, <1>4, <1>6, <1>7, <2>1
  <2>2. CASE u # t
    BY <1>7, <2>2 DEF IInv, ManagersMatchView
  <2> QED BY <2>1, <2>2
<1>10. DoneIsProcessed'
  <2> SUFFICES ASSUME NEW u \in Tasks, NEW p \in Partitions, managers'[u][p] # NoManager
               PROVE  Honest(managers'[u][p], processed'[p])
    BY DEF DoneIsProcessed, Honest
  <2>1. processed' = processed
    BY DEF Reassign
  <2>2. CASE u = t
    BY <1>3, <1>4, <1>7, <2>1, <2>2
  <2>3. CASE u # t
    BY <1>7, <2>1, <2>3 DEF IInv, DoneIsProcessed
  <2> QED BY <2>2, <2>3
<1>11. WritesWhatIsDue'
  <2>1. writing' = writing /\ writing[t] = NotWriting
    BY Bounds DEF IInv, WritesWhatIsDue, Reassign, AtRest
  <2>2. \A u \in Tasks : u # t => scan'[u] = scan[u]
    BY DEF IInv, TypeOK, Reassign
  <2> QED BY <1>7, <2>1, <2>2 DEF IInv, WritesWhatIsDue, CommitDue, LastCompleted
<1>12. ConnectionsMatchManagers'
  <2> SUFFICES ASSUME NEW u \in Tasks, NEW h \in Hosts
               PROVE  connections'[u][h] =
                 {p \in Partitions : managers'[u][p] # NoManager /\ managers'[u][p].host = h}
    BY DEF ConnectionsMatchManagers
  <2>1. CASE u = t
    <3>1. connections'[t][h] = ConnectionsAfter(t, h)
      BY <1>2 DEF IInv, TypeOK
    <3>2. ASSUME NEW p \in Partitions
          PROVE  p \in ConnectionsAfter(t, h) <=> p \in mine /\ read[t][p] = h
      <4>1. p \in connections[t][h] <=> managers[t][p] # NoManager /\ managers[t][p].host = h
        BY DEF IInv, ConnectionsMatchManagers
      <4> QED BY <4>1 DEF ConnectionsAfter, Registered, New, Kept
    <3>3. ConnectionsAfter(t, h) \subseteq Partitions
      BY <1>1 DEF IInv, TypeOK, ConnectionsAfter, Registered, New
    <3>4. ASSUME NEW p \in Partitions
          PROVE  p \in mine /\ read[t][p] = h
                   <=> managers'[t][p] # NoManager /\ managers'[t][p].host = h
      BY <1>3, <1>4, <1>6, <1>7
    <3> HIDE DEF mine
    <3> QED BY <2>1, <3>1, <3>2, <3>3, <3>4
  <2>2. CASE u # t
    BY <1>2, <1>7, <2>2 DEF IInv, TypeOK, ConnectionsMatchManagers
  <2> QED BY <2>1, <2>2
<1>13. SavedIsProcessed'
  BY DEF IInv, SavedIsProcessed, Reassign
<1> QED BY <1>8, <1>9, <1>10, <1>11, <1>12, <1>13 DEF IInv

(* Every step keeps the invariant. *)
LEMMA NextKeepsIInv == IInv /\ [Next]_vars => IInv'
<1> SUFFICES ASSUME IInv, [Next]_vars PROVE IInv'
  OBVIOUS
<1>1. ASSUME NEW t \in Tasks, Refresh(t) PROVE IInv'
  <2>1. CASE BeginRefresh(t) \/ ReadLeader(t) \/ ReadBroker(t)
    BY <2>1, ReadKeepsIInv
  <2>2. CASE Reassign(t)
    BY <2>2, ReassignKeepsIInv
  <2>3. CASE RefreshFails(t)
    BY <2>3, DieKeepsIInv DEF RefreshFails, IInv, TypeOK
  <2> QED BY <1>1, <2>1, <2>2, <2>3 DEF Refresh
<1>2. ASSUME NEW t \in Tasks, Commit(t) PROVE IInv'
  <2>1. CASE \E p \in Partitions : CheckNode(t, p)
    BY <2>1, CheckNodeKeepsIInv
  <2>2. CASE WriteNode(t)
    BY <2>2, WriteNodeKeepsIInv
  <2>3. CASE CreateFails(t)
    BY <2>3, DieKeepsIInv DEF CreateFails, IInv, TypeOK
  <2> QED BY <1>2, <2>1, <2>2, <2>3 DEF Commit
<1>3. ASSUME NEW t \in Tasks, FetchFails(t) PROVE IInv'
  BY <1>3, DieKeepsIInv DEF FetchFails, IInv, TypeOK
<1>4. ASSUME NEW t \in Tasks, \E p \in Partitions : Fetch(t, p) \/ Process(t, p)
      PROVE  IInv'
  BY <1>4, FetchKeepsIInv, ProcessKeepsIInv
<1>5. ASSUME NEW t \in Tasks, Crash(t) PROVE IInv'
  <2>1. faults' \in 0 .. MaxFaults
    BY <1>5, Bounds DEF Crash, Fault, IInv, TypeOK
  <2> QED BY <1>5, <2>1, DieKeepsIInv DEF Crash
<1>8. ASSUME NEW t \in Tasks, NEW p \in Partitions, NEW o \in Offset, Fail(t, p, o)
      PROVE  IInv'
  BY <1>8, FailKeepsIInv
<1>6. CASE UNCHANGED vars
  <2>1. TypeOK'
    BY <1>6 DEF IInv, TypeOK, vars, kafkaVars, refreshVars, taskVars
  <2>2. WritesWhatIsDue'
    BY <1>6 DEF IInv, WritesWhatIsDue, CommitDue, LastCompleted, vars, refreshVars, taskVars
  <2> QED BY <1>6, <2>1, <2>2, SameManagersKeepIInv DEF vars
<1>7. CASE Next
  BY <1>1, <1>2, <1>3, <1>4, <1>5, <1>7, <1>8, KafkaKeepsIInv DEF Next, Task, Environment
<1> QED BY <1>6, <1>7

(* The invariant holds in every reachable state. *)
THEOREM AssignmentInvariant == Spec => []IInv
BY InitIInv, NextKeepsIInv, PTL DEF Spec

(* Type correctness: among others, a rewound manager still has an offset. *)
THEOREM AssignmentTypeCorrect == Spec => []TypeOK
<1>1. IInv => TypeOK
  BY DEF IInv
<1> QED BY <1>1, AssignmentInvariant, PTL

(* calculatePartitionsForTask shares out what the tasks agree on. *)
THEOREM PartitionsSharedOut == Spec => []AgreeingTasksShareOut
<1>1. IInv => AgreeingTasksShareOut
  BY ShareOutFromInvariant DEF IInv
<1> QED BY <1>1, AssignmentInvariant, PTL

(* unregister() always finds the connection of the manager it closes. *)
THEOREM ConnectionsBelongToManagers == Spec => []ConnectionsMatchManagers
<1>1. IInv => ConnectionsMatchManagers
  BY DEF IInv
<1> QED BY <1>1, AssignmentInvariant, PTL

(* However many tasks write a partition's node, nothing below it is           *)
(* unprocessed.                                                             *)
THEOREM SharedNodeSafe == Spec => []SavedIsProcessed
<1>1. IInv => SavedIsProcessed
  BY DEF IInv
<1> QED BY <1>1, AssignmentInvariant, PTL

-----------------------------------------------------------------------------
(* While no broker has gone, a refresh that is through with a partition has  *)
(* it, so the last picture of a task is whole, or there was none.           *)
WholePictures ==
  ~lost =>
    /\ alive = Hosts
    /\ \A t \in Tasks :
         /\ view[t] = Nothing \/ \A p \in Partitions : view[t][p] # NoHost
         /\ scan[t] # AtRest =>
              \A p \in Partitions : p < scan[t] => read[t][p] # NoHost

(* In a whole picture a partition has its own number for a rank. *)
LEMMA RankOfWhole ==
  ASSUME NEW v, \A p \in Partitions : v[p] # NoHost, NEW p \in Partitions
  PROVE  Rank(v, p) = p
<1>1. {q \in Partitions : v[q] # NoHost /\ q < p} = 0 .. p - 1
  BY Bounds DEF Partitions
<1>2. Cardinality(0 .. p - 1) = p
  BY Bounds, FS_Interval DEF Partitions
<1> QED BY <1>1, <1>2 DEF Rank

LEMMA OwnedFromWhole == IInv /\ WholePictures => OwnedByNumber
<1> SUFFICES ASSUME IInv, WholePictures, ~lost, NEW p \in Partitions,
                    NEW t \in Owners(p)
             PROVE  t = p % NumTasks
  BY DEF OwnedByNumber
<1>1. t \in Tasks /\ p \in Mine(view[t], t)
  BY DEF Owners, IInv, ManagersMatchView
<1>2. view[t][p] # NoHost /\ Rank(view[t], p) % NumTasks = t
  BY <1>1 DEF Mine
<1>3. \A q \in Partitions : view[t][q] # NoHost
  BY <1>1, <1>2 DEF WholePictures, Nothing
<1> QED BY <1>2, <1>3, RankOfWhole

(* A worker that dies has no picture. *)
LEMMA DieKeepsWholePictures ==
  ASSUME TypeOK, WholePictures, NEW t \in Tasks, Die(t), UNCHANGED <<kafkaVars, lost>>
  PROVE  WholePictures'
BY DEF TypeOK, WholePictures, Die, kafkaVars, Nothing, AtRest

(* A refresh that goes on reads what it is at; one that ends was whole. *)
LEMMA RefreshKeepsWholePictures ==
  ASSUME TypeOK, WholePictures, NEW t \in Tasks,
         BeginRefresh(t) \/ ReadLeader(t) \/ ReadBroker(t) \/ Reassign(t)
  PROVE  WholePictures'
<1> SUFFICES ASSUME ~lost, NEW u \in Tasks
             PROVE  /\ view'[u] = Nothing \/ \A p \in Partitions : view'[u][p] # NoHost
                    /\ scan'[u] # AtRest =>
                         \A p \in Partitions : p < scan'[u] => read'[u][p] # NoHost
  BY DEF WholePictures, BeginRefresh, ReadLeader, ReadBroker, Reassign, kafkaVars, Nothing, AtRest
<1>1. CASE BeginRefresh(t)
  BY <1>1, Bounds DEF TypeOK, WholePictures, BeginRefresh, taskVars, Partitions
<1>2. CASE ReadLeader(t)
  BY <1>2 DEF WholePictures, ReadLeader, taskVars
<1>3. CASE ReadBroker(t)
  <2>1. found[t] \in alive /\ found[t] # NoHost
    BY <1>3 DEF TypeOK, WholePictures, ReadBroker
  <2>2. read' = [read EXCEPT ![t][scan[t]] = found[t]] /\ scan[t] \in Partitions
        /\ scan' = [scan EXCEPT ![t] = scan[t] + 1] /\ view' = view
    BY <1>3, <2>1 DEF ReadBroker, taskVars
  <2>3. CASE u = t
    <3>1. scan'[t] = scan[t] + 1 /\ scan[t] # AtRest
      BY <2>2, Bounds DEF TypeOK, Partitions, AtRest
    <3>2. ASSUME NEW p \in Partitions, p < scan'[t] PROVE read'[t][p] # NoHost
      <4>1. CASE p = scan[t]
        BY <2>1, <2>2, <4>1 DEF TypeOK, View
      <4>2. CASE p # scan[t]
        <5>1. p < scan[t]
          BY <2>2, <3>1, <3>2, <4>2 DEF Partitions
        <5>2. read[t][p] # NoHost
          BY <3>1, <5>1 DEF WholePictures
        <5> QED BY <2>2, <4>2, <5>2 DEF TypeOK, View
      <4> QED BY <4>1, <4>2
    <3> QED BY <2>2, <2>3, <3>2 DEF WholePictures
  <2>4. CASE u # t
    BY <2>2, <2>4 DEF TypeOK, WholePictures
  <2> QED BY <2>3, <2>4
<1>4. CASE Reassign(t)
  <2>1. \A p \in Partitions : read[t][p] # NoHost
    BY <1>4, Bounds DEF WholePictures, Reassign, AtRest, Partitions
  <2> QED BY <1>4, <2>1 DEF TypeOK, WholePictures, Reassign
<1> QED BY <1>1, <1>2, <1>3, <1>4

LEMMA NextKeepsWholePictures == IInv /\ WholePictures /\ [Next]_vars => WholePictures'
<1> SUFFICES ASSUME TypeOK, WholePictures, [Next]_vars PROVE WholePictures'
  BY DEF IInv
<1> USE DEF kafkaVars, refreshVars, taskVars
<1>1. ASSUME NEW t \in Tasks, RefreshFails(t) \/ CreateFails(t) \/ FetchFails(t) \/ Crash(t)
      PROVE  WholePictures'
  BY <1>1, DieKeepsWholePictures DEF RefreshFails, CreateFails, FetchFails, Crash
<1>2. ASSUME NEW t \in Tasks, NEW p \in Partitions,
             \/ CheckNode(t, p) \/ Fetch(t, p) \/ Process(t, p)
             \/ \E o \in Offset : Fail(t, p, o)
      PROVE  WholePictures'
  BY <1>2 DEF WholePictures, CheckNode, Fetch, Process, Fail
<1>3. ASSUME NEW t \in Tasks, WriteNode(t)
      PROVE  WholePictures'
  BY <1>3 DEF WholePictures, WriteNode
<1>4. ASSUME NEW p \in Partitions, NEW h \in Hosts, MoveLeader(p, h)
      PROVE  WholePictures'
  BY <1>4 DEF WholePictures, MoveLeader
<1>5. ASSUME NEW h \in Hosts, StopBroker(h) \/ StartBroker(h)
      PROVE  WholePictures'
  BY <1>5 DEF WholePictures, StopBroker, StartBroker
<1>6. CASE UNCHANGED vars
  BY <1>6 DEF WholePictures, vars
<1> QED
  BY <1>1, <1>2, <1>3, <1>4, <1>5, <1>6, RefreshKeepsWholePictures
     DEF Next, Task, Environment, Refresh, Commit

(* While no broker has gone, each partition belongs to the task of its       *)
(* number.                                                                  *)
THEOREM PartitionKeepsItsTask == Spec => []OwnedByNumber
<1>1. Init => WholePictures
  BY DEF Init, WholePictures
<1>2. IInv /\ WholePictures => OwnedByNumber
  BY OwnedFromWhole
<1> QED BY <1>1, <1>2, NextKeepsWholePictures, AssignmentInvariant, PTL DEF Spec

-----------------------------------------------------------------------------
(* ... and its manager knows what the node says, which nobody else writes. *)
KnowsNode ==
  ~lost => \A t \in Tasks, p \in Partitions :
    managers[t][p] # NoManager /\ zk[p] # NoNode => managers[t][p].saved = zk[p]

(* The steps that neither open a manager nor write a node. *)
LEMMA SameOrFewerKnowNode ==
  ASSUME KnowsNode, zk' = zk, lost' = lost,
         \A t \in Tasks, p \in Partitions :
           managers'[t][p] # NoManager =>
             managers[t][p] # NoManager /\ managers'[t][p].saved = managers[t][p].saved
  PROVE  KnowsNode'
BY DEF KnowsNode

LEMMA DieKeepsKnowsNode ==
  ASSUME TypeOK, KnowsNode, NEW t \in Tasks, Die(t), UNCHANGED <<zk, lost>>
  PROVE  KnowsNode'
<1>1. \A u \in Tasks, p \in Partitions :
        managers'[u][p] # NoManager => managers'[u][p] = managers[u][p]
  BY DEF TypeOK, Die
<1> QED BY <1>1, SameOrFewerKnowNode

(* A manager that is opened has read the node. *)
LEMMA ReassignKeepsKnowsNode ==
  ASSUME TypeOK, KnowsNode, NEW t \in Tasks, Reassign(t)
  PROVE  KnowsNode'
<1> SUFFICES ASSUME ~lost, NEW u \in Tasks, NEW p \in Partitions,
                    managers'[u][p] # NoManager, zk[p] # NoNode
             PROVE  managers'[u][p].saved = zk[p]
  BY DEF KnowsNode, Reassign
<1>1. CASE u = t
  <2>1. managers'[t][p] = IF Kept(t, p) THEN managers[t][p]
                          ELSE IF p \in New(t) THEN Opened(p, read[t][p])
                          ELSE NoManager
    BY DEF TypeOK, Reassign, Dropped
  <2>2. Opened(p, read[t][p]).saved = zk[p]
    BY DEF Opened, StartsAt
  <2>3. CASE Kept(t, p)
    BY <1>1, <2>1, <2>3 DEF Kept, KnowsNode
  <2>4. CASE ~Kept(t, p)
    BY <1>1, <2>1, <2>2, <2>4
  <2> QED BY <2>3, <2>4
<1>2. CASE u # t
  <2>1. managers'[u] = managers[u]
    BY <1>2 DEF TypeOK, Reassign
  <2> QED BY <2>1 DEF KnowsNode
<1> QED BY <1>1, <1>2

(* Fetching, completing and rewinding leave what a manager believes saved. *)
LEMMA OffsetsKeepKnowsNode ==
  ASSUME TypeOK, KnowsNode, NEW t \in Tasks, NEW p \in Partitions,
         Fetch(t, p) \/ Process(t, p) \/ \E o \in Offset : Fail(t, p, o)
  PROVE  KnowsNode'
<1> DEFINE old == managers[t][p]
<1>1. old \in Manager /\ old # NoManager
  BY ManagerType DEF Fetch, Process, Fail
<1>2. PICK m : managers' = [managers EXCEPT ![t][p] = m] /\ m.saved = old.saved
  <2>1. CASE Fetch(t, p)
    <3>1. managers' = [managers EXCEPT ![t][p] = [old EXCEPT !.emitted = LogEnd[p]]]
      BY <2>1 DEF Fetch
    <3> DEFINE m == [old EXCEPT !.emitted = LogEnd[p]]
    <3>2. m.saved = old.saved
      BY <1>1 DEF Manager
    <3> HIDE DEF m
    <3> QED BY <3>1, <3>2 DEF m
  <2>2. CASE Process(t, p)
    <3> DEFINE offset == NextOffset(old.done)
               next == IF offset < old.emitted THEN offset + 1 ELSE old.emitted
               m == [old EXCEPT !.done = next]
    <3>1. managers' = [managers EXCEPT ![t][p] = m]
      BY <2>2 DEF Process
    <3> HIDE DEF next
    <3>2. m.saved = old.saved
      BY <1>1 DEF Manager
    <3> HIDE DEF m
    <3> QED BY <3>1, <3>2
  <2>3. CASE \E o \in Offset : Fail(t, p, o)
    <3>1. PICK o \in Offset : Fail(t, p, o)
      BY <2>3
    <3> DEFINE m == Rewound(old, o)
    <3>2. managers' = [managers EXCEPT ![t][p] = m]
      BY <3>1, FailRewinds
    <3>3. m.saved = old.saved
      BY <1>1 DEF Manager, Rewound
    <3> HIDE DEF m
    <3> QED BY <3>2, <3>3
  <2> QED BY <2>1, <2>2, <2>3
<1>3. ASSUME NEW u \in Tasks, NEW q \in Partitions, managers'[u][q] # NoManager
      PROVE  managers[u][q] # NoManager /\ managers'[u][q].saved = managers[u][q].saved
  <2>1. CASE u = t /\ q = p
    BY <1>1, <1>2, <2>1 DEF TypeOK
  <2>2. CASE u # t \/ q # p
    BY <1>2, <1>3, <2>2 DEF TypeOK
  <2> QED BY <2>1, <2>2
<1>4. zk' = zk /\ lost' = lost
  BY DEF Fetch, Process, Fail
<1> QED BY <1>3, <1>4, SameOrFewerKnowNode

(* The owner alone writes, and knows what it overwrites. *)
LEMMA WriteNodeKeepsKnowsNode ==
  ASSUME IInv, OwnedByNumber, KnowsNode, NEW t \in Tasks, WriteNode(t), ~lost
  PROVE  /\ KnowsNode'
         /\ \A q \in Partitions : zk[q] # NoNode /\ zk'[q] < zk[q] =>
              \E u \in Owners(q) : /\ managers[u][q].saved = zk[q]
                                   /\ managers[u][q].done < managers[u][q].saved
<1> DEFINE p == writing[t].partition
           old == managers[t][p]
<1>1. p \in Partitions /\ old # NoManager
  BY DEF IInv, TypeOK, WritesWhatIsDue, WriteNode, Write
<1>2. old \in Manager
  BY <1>1, ManagerType DEF IInv
<1>3. /\ zk' = [zk EXCEPT ![p] = old.done]
      /\ managers' = [managers EXCEPT ![t][p].saved = old.done]
  BY DEF WriteNode, LastCompleted
<1>4. zk'[p] = old.done /\ \A q \in Partitions : q # p => zk'[q] = zk[q]
  BY <1>1, <1>3 DEF IInv, TypeOK
<1>5. /\ managers'[t][p].saved = old.done
      /\ \A u \in Tasks, q \in Partitions :
           u # t \/ q # p => managers'[u][q] = managers[u][q]
  BY <1>1, <1>2, <1>3 DEF IInv, TypeOK, Manager
<1>6. \A u \in Tasks : managers[u][p] # NoManager => u = t
  BY <1>1 DEF OwnedByNumber, Owners
<1> HIDE DEF old, p
<1>7. KnowsNode'
  <2> SUFFICES ASSUME NEW u \in Tasks, NEW q \in Partitions,
                      managers'[u][q] # NoManager, zk'[q] # NoNode
               PROVE  managers'[u][q].saved = zk'[q]
    BY DEF KnowsNode
  <2>1. CASE q = p
    BY <1>4, <1>5, <1>6, <2>1
  <2>2. CASE q # p
    BY <1>4, <1>5, <2>2 DEF KnowsNode
  <2> QED BY <2>1, <2>2
<1>8. ASSUME NEW q \in Partitions, zk[q] # NoNode, zk'[q] < zk[q]
      PROVE  \E u \in Owners(q) : /\ managers[u][q].saved = zk[q]
                                   /\ managers[u][q].done < managers[u][q].saved
  <2>1. CASE q = p
    <3>1. managers[t][p].saved = zk[p] /\ managers[t][p].done = old.done /\ t \in Owners(p)
      BY <1>1, <1>8, <2>1 DEF KnowsNode, Owners, old
    <3> QED BY <1>4, <1>8, <2>1, <3>1
  <2>2. CASE q # p
    <3>1. zk[q] \in Int
      BY <1>8, Bounds DEF IInv, TypeOK, Offset, NO_OFFSET
    <3> QED BY <1>4, <1>8, <2>2, <3>1
  <2> QED BY <2>1, <2>2
<1> QED BY <1>7, <1>8

(* No other step writes a node. *)
LEMMA OnlyWriteNodeWrites ==
  ASSUME [Next]_vars, \A t \in Tasks : ~WriteNode(t)
  PROVE  zk' = zk
<1>1. ASSUME NEW t \in Tasks, Refresh(t) \/ Commit(t) \/ FetchFails(t) \/ Crash(t)
      PROVE  zk' = zk
  BY <1>1 DEF Refresh, BeginRefresh, ReadLeader, ReadBroker, Reassign, RefreshFails,
     Commit, CheckNode, CreateFails, FetchFails, Crash
<1>2. ASSUME NEW t \in Tasks, NEW p \in Partitions,
             Fetch(t, p) \/ Process(t, p) \/ \E o \in Offset : Fail(t, p, o)
      PROVE  zk' = zk
  BY <1>2 DEF Fetch, Process, Fail
<1>3. ASSUME \/ \E p \in Partitions, h \in Hosts : MoveLeader(p, h)
             \/ \E h \in Hosts : StopBroker(h) \/ StartBroker(h)
      PROVE  zk' = zk
  BY <1>3 DEF MoveLeader, StopBroker, StartBroker
<1>4. UNCHANGED vars => zk' = zk
  BY DEF vars
<1> QED BY <1>1, <1>2, <1>3, <1>4 DEF Next, Task, Environment

LEMMA NextKeepsKnowsNode == IInv /\ OwnedByNumber /\ KnowsNode /\ [Next]_vars => KnowsNode'
<1> SUFFICES ASSUME IInv, OwnedByNumber, KnowsNode, [Next]_vars PROVE KnowsNode'
  OBVIOUS
<1> USE DEF kafkaVars, refreshVars, taskVars
<1>0. TypeOK
  BY DEF IInv
<1>1. ASSUME NEW t \in Tasks, RefreshFails(t) \/ CreateFails(t) \/ FetchFails(t) \/ Crash(t)
      PROVE  KnowsNode'
  BY <1>0, <1>1, DieKeepsKnowsNode DEF RefreshFails, CreateFails, FetchFails, Crash
<1>2. ASSUME NEW t \in Tasks, BeginRefresh(t) \/ ReadLeader(t) \/ ReadBroker(t)
      PROVE  KnowsNode'
  BY <1>2, SameOrFewerKnowNode DEF BeginRefresh, ReadLeader, ReadBroker
<1>3. ASSUME NEW t \in Tasks, NEW p \in Partitions, CheckNode(t, p)
      PROVE  KnowsNode'
  BY <1>3, SameOrFewerKnowNode DEF CheckNode
<1>4. ASSUME NEW p \in Partitions, NEW h \in Hosts, MoveLeader(p, h) PROVE KnowsNode'
  BY <1>4, SameOrFewerKnowNode DEF MoveLeader
<1>5. ASSUME NEW h \in Hosts, StopBroker(h) PROVE KnowsNode'
  BY <1>5 DEF StopBroker, KnowsNode
<1>6. ASSUME NEW h \in Hosts, StartBroker(h) PROVE KnowsNode'
  BY <1>6, SameOrFewerKnowNode DEF StartBroker
<1>7. ASSUME NEW t \in Tasks, WriteNode(t) PROVE KnowsNode'
  <2>1. CASE lost
    BY <1>7, <2>1 DEF WriteNode, KnowsNode
  <2> QED BY <1>7, <2>1, WriteNodeKeepsKnowsNode
<1>8. CASE UNCHANGED vars
  BY <1>8, SameOrFewerKnowNode DEF vars
<1> QED
  BY <1>0, <1>1, <1>2, <1>3, <1>4, <1>5, <1>6, <1>7, <1>8,
     ReassignKeepsKnowsNode, OffsetsKeepKnowsNode
     DEF Next, Task, Environment, Refresh, Commit

(* While no broker has gone, a lower offset is saved only by a manager that   *)
(* knows the higher one and was taken back by fail().                       *)
THEOREM NodeGoesBackOnlyRewound == Spec => NodeGoesBackByRewindOnly
<1>1. Init => KnowsNode
  BY DEF Init, KnowsNode
<1>2. IInv /\ OwnedByNumber /\ KnowsNode /\ [Next]_vars
        => [~lost => \A p \in Partitions : zk[p] # NoNode /\ zk'[p] < zk[p] =>
              \E t \in Owners(p) : /\ managers[t][p].saved = zk[p]
                                   /\ managers[t][p].done < managers[t][p].saved]_vars
  <2> SUFFICES ASSUME IInv, OwnedByNumber, KnowsNode, [Next]_vars, ~lost,
                      NEW p \in Partitions, zk[p] # NoNode, zk'[p] < zk[p]
               PROVE  \E t \in Owners(p) : /\ managers[t][p].saved = zk[p]
                                           /\ managers[t][p].done < managers[t][p].saved
    OBVIOUS
  <2>1. CASE \E t \in Tasks : WriteNode(t)
    BY <2>1, WriteNodeKeepsKnowsNode
  <2>2. CASE \A t \in Tasks : ~WriteNode(t)
    <3>1. zk[p] \in Int
      BY Bounds DEF IInv, TypeOK, Offset, NO_OFFSET
    <3> QED BY <2>2, <3>1, OnlyWriteNodeWrites
  <2> QED BY <2>1, <2>2
<1> QED
  BY <1>1, <1>2, NextKeepsKnowsNode, AssignmentInvariant, PartitionKeepsItsTask, PTL
     DEF Spec, NodeGoesBackByRewindOnly

=============================================================================
