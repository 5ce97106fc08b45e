----------------------- MODULE PartitionManagerProofs -----------------------
(***************************************************************************)
(* Proofs about PartitionManager, for every log length, fetch size, number  *)
(* of tuples in flight and of faults, every payload and configuration.      *)
(*                                                                          *)
(* The inductive invariant adds to the properties of the model where every  *)
(* offset points: the log is a prefix of the naturals that only grows, the  *)
(* buffer and the tuples in flight carry the offset of their own message,   *)
(* and no offset the manager or ZooKeeper holds is beyond the log.          *)
(***************************************************************************)
EXTENDS PartitionManager, TLAPS, WellFoundedInduction, FiniteSetTheorems

(* No step of Spec deletes a message or replaces it *)
LogInv ==
  /\ logStart = 0
  /\ epoch = 0
  /\ log = [o \in Offsets |-> 0]
  /\ logEnd \in 0 .. MaxOffset

(* Offsets point into the log or at its end *)
PositionInv ==
  /\ emittedTo <= logEnd
  /\ committedTo <= logEnd
  /\ origin <= logEnd
  /\ zk # NoEntry => zk.offset <= logEnd /\ zk.topology <= topology
  /\ \A p \in pending : p < emittedTo
  /\ \A m \in handled : m.at < logEnd

(* What waits and what is in flight carries its message's own offset *)
TagInv ==
  /\ \A i \in DOMAIN waiting :
       waiting[i].tag < logEnd /\ waiting[i].msg = MessageAt(waiting[i].tag)
  /\ \A r \in RootIds : inflight[r] # NoTuple =>
       inflight[r].tag < logEnd /\ inflight[r].msg = MessageAt(inflight[r].tag)

(* The offset in ZooKeeper, without the bounds that LogInv makes redundant *)
SavedInv ==
  CheckpointValid =>
    \A o \in Offsets : origin <= o /\ o < zk.offset => MessageAt(o) \in handled

IInv == TypeOK /\ LogInv /\ PositionInv /\ TagInv /\ NothingSkipped /\ SavedInv

-----------------------------------------------------------------------------
(* Lemmas about the operators of the model *)

(* The least element of a set of offsets: SortedSet.first() *)
LEMMA MinIsLeast ==
  ASSUME NEW S \in SUBSET Nat, S # {}
  PROVE  Min(S) \in S /\ \A y \in S : Min(S) <= y
<1>1. \E x \in S : \A y \in S : ~ (<<y, x>> \in OpToRel(<, Nat))
  BY NatLessThanWellFounded, WFMin
<1>2. PICK x \in S : \A y \in S : ~ (<<y, x>> \in OpToRel(<, Nat))
  BY <1>1
<1>3. ASSUME NEW y \in S PROVE x <= y
  <2>1. CASE y < x
    <3>1. <<y, x>> \in OpToRel(<, Nat)
      <4>1. <<y, x>> \in Nat \X Nat /\ <<y, x>>[1] < <<y, x>>[2]
        BY <2>1
      <4> QED BY <4>1 DEF OpToRel
    <3> QED BY <3>1, <1>2
  <2>2. CASE x <= y
    BY <2>2
  <2> QED BY <2>1, <2>2
<1> QED
  BY <1>2, <1>3 DEF Min

(* Every message of the log is of the first epoch *)
LEMMA MessageAtValue ==
  ASSUME LogInv, NEW o \in Offsets
  PROVE  MessageAt(o) = [at |-> o, epoch |-> 0] /\ MessageAt(o) \in Message
BY DEF LogInv, MessageAt, Message

(* A fetch from a log that only grows starts at the offset asked for, so     *)
(* fill() gives every message its own offset and reads past exactly n.      *)
LEMMA FetchIsExact ==
  ASSUME TypeOK, LogInv, PositionInv, NEW n \in FetchCounts
  PROVE  /\ n \in Nat
         /\ emittedTo + n <= logEnd
         /\ waiting # <<>> => n = 0
         /\ EmittedToAfterFill(n) = emittedTo + n
         /\ Fetched(n) = [i \in 1 .. n |-> [tag |-> emittedTo + i - 1,
                                            msg |-> MessageAt(emittedTo + i - 1)]]
         /\ PendingAfterFill(n) = pending \cup (emittedTo .. emittedTo + n - 1)
<1>1. emittedTo \in Nat /\ logEnd \in Nat /\ emittedTo <= logEnd /\ logStart = 0
  BY BoundsAssumption DEF TypeOK, PositionInv, LogInv
<1>2. FetchPosition = emittedTo
  BY <1>1 DEF FetchPosition, InRange
<1>3. n \in Nat /\ emittedTo + n <= logEnd /\ (waiting # <<>> => n = 0)
  BY <1>1, <1>2, BoundsAssumption DEF FetchCounts
<1>4. \A i \in 1 .. n : FetchedTag(i) = emittedTo + i - 1
  BY <1>1, <1>2, <1>3 DEF FetchedTag
<1>5. Fetched(n) = [i \in 1 .. n |-> [tag |-> emittedTo + i - 1,
                                      msg |-> MessageAt(emittedTo + i - 1)]]
  BY <1>2, <1>4 DEF Fetched
<1>6. {FetchedTag(i) : i \in 1 .. n} = emittedTo .. emittedTo + n - 1
  <2>1. ASSUME NEW o \in emittedTo .. emittedTo + n - 1
        PROVE  \E i \in 1 .. n : FetchedTag(i) = o
    <3>1. o - emittedTo + 1 \in 1 .. n /\ FetchedTag(o - emittedTo + 1) = o
      BY <1>1, <1>3, <1>4
    <3> QED BY <3>1
  <2>2. ASSUME NEW i \in 1 .. n
        PROVE  FetchedTag(i) \in emittedTo .. emittedTo + n - 1
    BY <1>1, <1>3, <1>4
  <2> QED BY <2>1, <2>2
<1>7. EmittedToAfterFill(n) = emittedTo + n
  BY <1>1, <1>2, <1>3 DEF EmittedToAfterFill
<1> QED
  BY <1>3, <1>5, <1>6, <1>7 DEF PendingAfterFill

(* The buffer next() polls from *)
LEMMA BufferIsTagged ==
  ASSUME TypeOK, LogInv, PositionInv, TagInv, NEW n \in FetchCounts
  PROVE  /\ Buffer(n) \in Seq(Entry)
         /\ Fetched(n) \in Seq(Entry) /\ Len(Fetched(n)) = n
         /\ \A i \in 1 .. Len(Buffer(n)) :
              /\ Buffer(n)[i].tag \in 0 .. MaxOffset
              /\ Buffer(n)[i].tag < logEnd
              /\ Buffer(n)[i].msg = MessageAt(Buffer(n)[i].tag)
<1>1. /\ n \in Nat /\ emittedTo + n <= logEnd
      /\ Fetched(n) = [i \in 1 .. n |-> [tag |-> emittedTo + i - 1,
                                         msg |-> MessageAt(emittedTo + i - 1)]]
  BY FetchIsExact
<1>2. emittedTo \in Nat /\ logEnd \in 0 .. MaxOffset /\ MaxOffset \in Nat
  BY BoundsAssumption DEF TypeOK, LogInv
<1>3. ASSUME NEW i \in 1 .. n
      PROVE  /\ Fetched(n)[i] \in Entry
             /\ Fetched(n)[i].tag < logEnd
             /\ Fetched(n)[i].msg = MessageAt(Fetched(n)[i].tag)
  <2>1. emittedTo + i - 1 \in Offsets /\ emittedTo + i - 1 < logEnd
    BY <1>1, <1>2 DEF Offsets
  <2>2. MessageAt(emittedTo + i - 1) \in Message
    BY <2>1, MessageAtValue
  <2> QED BY <1>1, <1>2, <2>1, <2>2 DEF Entry, Offsets
<1>4. Fetched(n) \in Seq(Entry) /\ Len(Fetched(n)) = n
  BY <1>1, <1>3
<1>5. waiting \in Seq(Entry)
  BY DEF TypeOK, Entry, Message
<1>6. \A i \in 1 .. Len(waiting) :
        waiting[i].tag < logEnd /\ waiting[i].msg = MessageAt(waiting[i].tag)
  BY <1>5 DEF TagInv
<1>7. Buffer(n) \in Seq(Entry)
  BY <1>4, <1>5 DEF Buffer
<1>8. ASSUME NEW i \in 1 .. Len(Buffer(n))
      PROVE  \/ i \in 1 .. Len(waiting) /\ Buffer(n)[i] = waiting[i]
             \/ i - Len(waiting) \in 1 .. n /\ Buffer(n)[i] = Fetched(n)[i - Len(waiting)]
  BY <1>1, <1>4, <1>5 DEF Buffer
<1>9. ASSUME NEW i \in 1 .. Len(Buffer(n))
      PROVE  /\ Buffer(n)[i].tag < logEnd
             /\ Buffer(n)[i].msg = MessageAt(Buffer(n)[i].tag)
  BY <1>3, <1>6, <1>8
<1>10. \A i \in 1 .. Len(Buffer(n)) : Buffer(n)[i] \in Entry
  BY <1>7
<1> QED
  BY <1>4, <1>7, <1>9, <1>10 DEF Entry

(* commit() leaves the node alone or writes the least pending offset, or the *)
(* one the manager has reached.                                             *)
LEMMA CommitIsBelowPending ==
  ASSUME NEW pend \in SUBSET (0 .. MaxOffset),
         NEW emitted \in 0 .. MaxOffset,
         \A p \in pend : p < emitted,
         Commit(pend, emitted)
  PROVE  \/ UNCHANGED <<zk, committedTo>>
         \/ \E c \in 0 .. MaxOffset :
              /\ zk' = [topology |-> topology, offset |-> c]
              /\ committedTo' = c
              /\ c \in pend \cup {emitted}
              /\ c <= emitted
              /\ \A p \in pend : c <= p
<1> DEFINE c == Completed(pend, emitted)
<1>1. MaxOffset \in Nat
  BY BoundsAssumption
<1>2. /\ c \in 0 .. MaxOffset /\ c <= emitted /\ c \in pend \cup {emitted}
      /\ \A p \in pend : c <= p
  <2>1. CASE pend = {}
    BY <1>1, <2>1 DEF Completed
  <2>2. CASE pend # {}
    <3>1. pend \in SUBSET Nat
      BY <1>1
    <3>2. Min(pend) \in pend /\ \A p \in pend : Min(pend) <= p
      BY <2>2, <3>1, MinIsLeast
    <3>3. c = Min(pend)
      BY <2>2 DEF Completed
    <3>4. c \in pend /\ \A p \in pend : c <= p
      BY <3>2, <3>3
    <3> HIDE DEF c
    <3> QED
      BY <1>1, <3>4
  <2> QED BY <2>1, <2>2
<1>3. \/ UNCHANGED <<zk, committedTo>>
      \/ zk' = [topology |-> topology, offset |-> c] /\ committedTo' = c
  BY DEF Commit
<1> QED
  BY <1>2, <1>3

(* What remains of the buffer after next() was there before *)
LEMMA RestOfBuffer ==
  ASSUME NEW buffer \in Seq(Entry), NEW k \in 0 .. Len(buffer)
  PROVE  /\ SubSeq(buffer, k + 2, Len(buffer)) \in Seq(Entry)
         /\ \A i \in DOMAIN SubSeq(buffer, k + 2, Len(buffer)) :
              /\ i \in Nat \ {0}
              /\ i + k + 1 \in 1 .. Len(buffer)
              /\ SubSeq(buffer, k + 2, Len(buffer))[i] = buffer[i + k + 1]
<1> DEFINE rest == SubSeq(buffer, k + 2, Len(buffer))
<1>1. Len(buffer) \in Nat /\ k \in Nat
  OBVIOUS
<1>2. rest = [i \in 1 .. (1 + Len(buffer) - (k + 2)) |-> buffer[i + (k + 2) - 1]]
  OBVIOUS
<1>3. DOMAIN rest = 1 .. (Len(buffer) - k - 1)
  BY <1>1, <1>2
<1>4. ASSUME NEW i \in DOMAIN rest
      PROVE  i \in Nat \ {0} /\ i + k + 1 \in 1 .. Len(buffer) /\ rest[i] = buffer[i + k + 1]
  BY <1>1, <1>2, <1>3
<1>5. rest \in Seq(Entry)
  BY <1>1, <1>3, <1>4
<1> QED
  BY <1>4, <1>5

-----------------------------------------------------------------------------
(* The steps *)

(* Messages do not move while log does not change *)
LEMMA MessageAtUnchanged ==
  ASSUME UNCHANGED log, NEW o
  PROVE  MessageAt(o)' = MessageAt(o)
BY DEF MessageAt

(* next() keeps the invariant, whatever it puts in flight *)
LEMMA PollKeepsIInv ==
  ASSUME IInv, host # NoHost,
         NEW n \in FetchCounts, NEW k \in 0 .. Len(Buffer(n)), NEW commitDue \in BOOLEAN,
         Poll(n, k, commitDue),
         inflight' \in [RootIds -> {NoTuple} \cup Tuple],
         \A r \in RootIds : inflight'[r] # NoTuple =>
           inflight'[r].tag < logEnd /\ inflight'[r].msg = MessageAt(inflight'[r].tag)
  PROVE  IInv'
<1> DEFINE buffer == Buffer(n)
           skipped == {buffer[i].tag : i \in 1 .. k}
           pend == PendingAfterFill(n) \ skipped
           emitted == EmittedToAfterFill(n)
<1> USE BoundsAssumption
<1>1. /\ n \in Nat
      /\ emitted = emittedTo + n
      /\ emittedTo + n <= logEnd
      /\ PendingAfterFill(n) = pending \cup (emittedTo .. emittedTo + n - 1)
  BY FetchIsExact DEF IInv
<1>2. /\ buffer \in Seq(Entry)
      /\ \A i \in 1 .. Len(buffer) :
           /\ buffer[i].tag \in 0 .. MaxOffset
           /\ buffer[i].tag < logEnd
           /\ buffer[i].msg = MessageAt(buffer[i].tag)
  BY BufferIsTagged DEF IInv
<1>3. k \in Nat /\ Len(buffer) \in Nat /\ k <= Len(buffer)
  BY <1>2
<1>4. /\ emittedTo \in 0 .. MaxOffset /\ committedTo \in 0 .. MaxOffset
      /\ logEnd \in 0 .. MaxOffset /\ emittedTo <= logEnd /\ topology \in Nat
      /\ pending \in SUBSET (0 .. MaxOffset) /\ \A p \in pending : p < emittedTo
      /\ origin \in 0 .. MaxOffset
  BY DEF IInv, TypeOK, LogInv, PositionInv
<1>5. emitted \in 0 .. MaxOffset /\ pend \in SUBSET (0 .. MaxOffset)
      /\ \A p \in pend : p < emitted
  <2> DEFINE filled == pending \cup (emittedTo .. emittedTo + n - 1)
  <2>1. filled \in SUBSET (0 .. MaxOffset) /\ \A p \in filled : p < emittedTo + n
    BY <1>1, <1>4
  <2>2. pend \subseteq filled
    BY <1>1
  <2>3. emitted \in 0 .. MaxOffset
    BY <1>1, <1>4
  <2> HIDE DEF filled, pend
  <2> QED BY <1>1, <2>1, <2>2, <2>3
<1>6. /\ emittedTo' = emitted /\ pending' = pend
      /\ waiting' = SubSeq(buffer, k + 2, Len(buffer))
      /\ handled' = handled \cup {buffer[i].msg : i \in 1 .. k}
      /\ UNCHANGED <<logStart, logEnd, log, epoch, leader, topology, config, host,
                     origin, disturbed, faults>>
  BY DEF Poll, brokerVars, deployVars
<1>7. \/ UNCHANGED <<zk, committedTo>>
      \/ \E c \in 0 .. MaxOffset :
           /\ zk' = [topology |-> topology, offset |-> c]
           /\ committedTo' = c
           /\ c \in pend \cup {emitted}
           /\ c <= emitted
           /\ \A p \in pend : c <= p
  <2>1. Commit(pend, emitted) \/ UNCHANGED <<zk, committedTo>>
    BY DEF Poll
  <2> HIDE DEF pend, emitted
  <2> QED BY <2>1, <1>5, CommitIsBelowPending
<1>8. \A o : MessageAt(o)' = MessageAt(o)
  BY <1>6, MessageAtUnchanged
<1>9. \A i \in 1 .. Len(buffer) : buffer[i].msg \in Message /\ buffer[i].msg.at = buffer[i].tag
  <2> SUFFICES ASSUME NEW i \in 1 .. Len(buffer)
               PROVE  buffer[i].msg \in Message /\ buffer[i].msg.at = buffer[i].tag
    OBVIOUS
  <2>1. buffer[i].tag \in Offsets
    BY <1>2, <1>4 DEF Offsets
  <2>2. buffer[i].msg = [at |-> buffer[i].tag, epoch |-> 0] /\ buffer[i].msg \in Message
    BY <1>2, <2>1, MessageAtValue DEF IInv
  <2> QED BY <2>2
<1> HIDE DEF buffer, emitted
<1>10. waiting' \in Seq(Entry)
       /\ \A i \in DOMAIN waiting' :
            waiting'[i].tag < logEnd /\ waiting'[i].msg = MessageAt(waiting'[i].tag)
  <2>1. \A i \in DOMAIN waiting' :
          i + k + 1 \in 1 .. Len(buffer) /\ waiting'[i] = buffer[i + k + 1]
    BY <1>2, <1>3, <1>6, RestOfBuffer
  <2>2. waiting' \in Seq(Entry)
    BY <1>2, <1>3, <1>6, RestOfBuffer
  <2> QED BY <1>2, <2>1, <2>2
<1>11. TypeOK'
  <2>1. handled' \in SUBSET Message
    BY <1>3, <1>6, <1>9 DEF IInv, TypeOK
  <2>2. zk' \in {NoEntry} \cup ZkNode /\ committedTo' \in 0 .. MaxOffset
    BY <1>7, <1>4 DEF IInv, TypeOK, ZkNode
  <2>3. emittedTo' \in 0 .. MaxOffset /\ pending' \in SUBSET (0 .. MaxOffset)
    BY <1>5, <1>6
  <2> QED
    BY <1>6, <1>10, <2>1, <2>2, <2>3 DEF IInv, TypeOK
<1>12. LogInv'
  BY <1>6 DEF IInv, LogInv
<1>13. PositionInv'
  <2>1. \A m \in handled' : m.at < logEnd'
    BY <1>2, <1>3, <1>6, <1>9 DEF IInv, PositionInv
  <2>2. committedTo' <= logEnd' /\ (zk' # NoEntry => zk'.offset <= logEnd' /\ zk'.topology <= topology')
    BY <1>1, <1>4, <1>5, <1>6, <1>7 DEF IInv, PositionInv
  <2>3. emittedTo' <= logEnd' /\ \A p \in pending' : p < emittedTo'
    BY <1>1, <1>5, <1>6
  <2> QED
    BY <1>6, <2>1, <2>2, <2>3 DEF IInv, PositionInv
<1>14. TagInv'
  BY <1>6, <1>8, <1>10 DEF TagInv
<1>15. ASSUME NEW o \in Offsets, origin <= o, o < emitted, o \notin pend
       PROVE  MessageAt(o) \in handled'
  <2>1. CASE o \in skipped
    <3>1. PICK i \in 1 .. k : buffer[i].tag = o
      BY <2>1
    <3>2. buffer[i].msg = MessageAt(o)
      BY <3>1, <1>2, <1>3
    <3> QED BY <3>2, <1>6
  <2>2. CASE o \notin skipped
    <3>1. o \notin pending \cup (emittedTo .. emittedTo + n - 1)
      BY <2>2, <1>1, <1>15
    <3>2. o < emittedTo
      BY <3>1, <1>1, <1>4, <1>15 DEF Offsets
    <3> QED
      BY <3>1, <3>2, <1>6, <1>15 DEF IInv, NothingSkipped
  <2> QED BY <2>1, <2>2
<1>16. NothingSkipped'
  BY <1>6, <1>8, <1>15 DEF NothingSkipped
<1>17. SavedInv'
  <2>1. CASE UNCHANGED <<zk, committedTo>>
    BY <2>1, <1>6, <1>8 DEF IInv, SavedInv, CheckpointValid
  <2>2. ASSUME NEW c \in 0 .. MaxOffset,
               zk' = [topology |-> topology, offset |-> c],
               c <= emitted,
               \A p \in pend : c <= p
        PROVE  SavedInv'
    <3>1. ASSUME NEW o \in Offsets, origin <= o, o < c
          PROVE  MessageAt(o) \in handled'
      <4>1. o < emitted
        BY <2>2, <3>1, <1>5 DEF Offsets
      <4>2. o \notin pend
        BY <2>2, <3>1, <1>5 DEF Offsets
      <4> QED BY <4>1, <4>2, <3>1, <1>15
    <3>2. zk'.offset = c
      BY <2>2
    <3> QED
      BY <3>1, <3>2, <1>6, <1>8 DEF SavedInv
  <2> HIDE DEF pend
  <2> QED BY <2>1, <2>2, <1>7
<1> QED
  BY <1>11, <1>12, <1>13, <1>14, <1>16, <1>17 DEF IInv

(* nextTuple() puts at most one tuple in flight, with its message's offset *)
LEMMA NextTupleKeepsIInv ==
  ASSUME IInv, NEW commitDue \in BOOLEAN, NextTuple(commitDue)
  PROVE  IInv'
<1>1. CASE EmitNothing(commitDue)
  <2>1. PICK n \in FetchCounts : Poll(n, Len(Buffer(n)), commitDue)
    BY <1>1 DEF EmitNothing
  <2>2. Len(Buffer(n)) \in 0 .. Len(Buffer(n))
    BY BufferIsTagged DEF IInv
  <2>3. host # NoHost /\ inflight' = inflight
    BY <1>1 DEF EmitNothing, CanPoll
  <2> QED
    BY <2>1, <2>2, <2>3, PollKeepsIInv DEF IInv, TypeOK, TagInv
<1>2. CASE Emit(commitDue)
  <2>0. PICK n \in FetchCounts, r \in FreeRoots :
          \E k \in 0 .. Len(Buffer(n)) - 1 :
            /\ Poll(n, k, commitDue)
            /\ inflight' = [inflight EXCEPT ![r] = [host |-> host,
                                                    tag |-> Buffer(n)[k + 1].tag,
                                                    msg |-> Buffer(n)[k + 1].msg]]
    BY <1>2 DEF Emit
  <2>1. PICK k \in 0 .. Len(Buffer(n)) - 1 :
          /\ Poll(n, k, commitDue)
          /\ inflight' = [inflight EXCEPT ![r] = [host |-> host,
                                                  tag |-> Buffer(n)[k + 1].tag,
                                                  msg |-> Buffer(n)[k + 1].msg]]
    BY <2>0
  <2>2. /\ Buffer(n) \in Seq(Entry)
        /\ \A i \in 1 .. Len(Buffer(n)) :
             /\ Buffer(n)[i].tag \in 0 .. MaxOffset
             /\ Buffer(n)[i].tag < logEnd
             /\ Buffer(n)[i].msg = MessageAt(Buffer(n)[i].tag)
    BY BufferIsTagged DEF IInv
  <2>3. k \in 0 .. Len(Buffer(n)) /\ k + 1 \in 1 .. Len(Buffer(n))
    BY <2>2
  <2> DEFINE tuple == [host |-> host, tag |-> Buffer(n)[k + 1].tag,
                       msg |-> Buffer(n)[k + 1].msg]
  <2>4. Buffer(n)[k + 1] \in Entry
    BY <2>2, <2>3
  <2>5. host \in Hosts /\ host # NoHost
    BY <1>2 DEF Emit, CanPoll, IInv, TypeOK
  <2>6. /\ tuple \in Tuple
        /\ tuple.tag < logEnd
        /\ tuple.msg = MessageAt(tuple.tag)
    BY <2>2, <2>3, <2>4, <2>5 DEF Entry, Tuple
  <2> HIDE DEF tuple
  <2>7. /\ inflight' = [inflight EXCEPT ![r] = tuple]
        /\ r \in RootIds /\ inflight \in [RootIds -> {NoTuple} \cup Tuple]
    BY <2>1 DEF FreeRoots, IInv, TypeOK, tuple
  <2>8. inflight' \in [RootIds -> {NoTuple} \cup Tuple]
    BY <2>6, <2>7
  <2>9. \A s \in RootIds : inflight'[s] # NoTuple =>
          inflight'[s].tag < logEnd /\ inflight'[s].msg = MessageAt(inflight'[s].tag)
    BY <2>6, <2>7 DEF IInv, TagInv
  <2> QED
    BY <2>1, <2>3, <2>5, <2>8, <2>9, PollKeepsIInv
<1> QED BY <1>1, <1>2 DEF NextTuple

(* A worker that dies takes nothing with it that a new one relies on *)
LEMMA LoseWorkerKeepsIInv ==
  ASSUME IInv, LoseWorker,
         leader' \in Hosts \cup {NoHost}, faults' \in 0 .. MaxFaults,
         config' = config,
         topology' = topology \/ topology' = topology + 1
  PROVE  IInv'
<1> USE BoundsAssumption
<1>1. /\ host' = NoHost /\ emittedTo' = 0 /\ committedTo' = 0
      /\ pending' = {} /\ waiting' = <<>>
      /\ inflight' = [r \in RootIds |-> NoTuple]
      /\ disturbed' = TRUE
      /\ UNCHANGED <<logStart, logEnd, log, epoch, zk, handled, origin>>
  BY DEF LoseWorker, Discard, brokerVars
<1>2. topology \in Nat /\ topology' \in Nat /\ topology <= topology'
  BY DEF IInv, TypeOK
<1>3. <<>> \in Seq(Entry) /\ DOMAIN <<>> = {}
  OBVIOUS
<1>4. TypeOK'
  BY <1>1, <1>2, <1>3 DEF IInv, TypeOK
<1>5. LogInv'
  BY <1>1 DEF IInv, LogInv
<1>6. PositionInv'
  <2>1. zk # NoEntry => zk.topology \in Nat
    BY DEF IInv, TypeOK, ZkNode
  <2>2. 0 <= logEnd
    BY DEF IInv, LogInv
  <2> QED BY <1>1, <1>2, <2>1, <2>2 DEF IInv, PositionInv
<1>7. TagInv'
  BY <1>1, <1>3 DEF TagInv
<1>8. NothingSkipped'
  BY <1>1 DEF NothingSkipped
<1>9. SavedInv'
  <2>1. CheckpointValid' => CheckpointValid
    <3>1. zk # NoEntry => zk.topology \in Nat /\ zk.topology <= topology
      BY DEF IInv, TypeOK, ZkNode, PositionInv
    <3> QED BY <3>1, <1>1, <1>2 DEF CheckpointValid
  <2>2. \A o : MessageAt(o)' = MessageAt(o)
    BY <1>1, MessageAtUnchanged
  <2> QED BY <1>1, <2>1, <2>2 DEF IInv, SavedInv
<1> QED
  BY <1>4, <1>5, <1>6, <1>7, <1>8, <1>9 DEF IInv

(* An ack processes the message it releases, and no other *)
LEMMA AckKeepsIInv ==
  ASSUME IInv, NEW r \in RootIds, Ack(r)
  PROVE  IInv'
<1> USE BoundsAssumption
<1> DEFINE tuple == inflight[r]
<1>1. /\ tuple # NoTuple
      /\ handled' = handled \cup {tuple.msg}
      /\ pending' = PendingAfterAck(tuple)
      /\ inflight' = [inflight EXCEPT ![r] = NoTuple]
      /\ UNCHANGED <<logStart, logEnd, log, epoch, leader, zk, topology, config, host,
                     emittedTo, committedTo, waiting, origin, disturbed, faults>>
  BY DEF Ack, brokerVars, deployVars
<1>2. tuple \in Tuple /\ tuple.tag < logEnd /\ tuple.msg = MessageAt(tuple.tag)
  BY <1>1 DEF IInv, TypeOK, TagInv
<1>3. tuple.msg \in Message /\ tuple.msg.at = tuple.tag
  <2>1. tuple.tag \in Offsets
    BY <1>2 DEF Tuple, Offsets, IInv, LogInv
  <2>2. tuple.msg = [at |-> tuple.tag, epoch |-> 0] /\ tuple.msg \in Message
    BY <1>2, <2>1, MessageAtValue DEF IInv
  <2> QED BY <2>2
<1>4. pending' \subseteq pending /\ \A o \in pending : o # tuple.tag => o \in pending'
  BY <1>1 DEF PendingAfterAck
<1>5. \A o : MessageAt(o)' = MessageAt(o)
  BY <1>1, MessageAtUnchanged
<1> HIDE DEF tuple
<1>6. TypeOK'
  BY <1>1, <1>3, <1>4 DEF IInv, TypeOK
<1>7. LogInv'
  BY <1>1 DEF IInv, LogInv
<1>8. PositionInv'
  BY <1>1, <1>2, <1>3, <1>4 DEF IInv, PositionInv
<1>9. TagInv'
  BY <1>1, <1>5 DEF IInv, TagInv, TypeOK
<1>10. NothingSkipped'
  BY <1>1, <1>2, <1>4, <1>5 DEF IInv, NothingSkipped
<1>11. SavedInv'
  BY <1>1, <1>5 DEF IInv, SavedInv, CheckpointValid
<1> QED
  BY <1>6, <1>7, <1>8, <1>9, <1>10, <1>11 DEF IInv

(* A fail goes back to its own offset: what it drops from pending is read    *)
(* again.                                                                   *)
LEMMA FailKeepsIInv ==
  ASSUME IInv, NEW r \in RootIds, Fail(r)
  PROVE  IInv'
<1> USE BoundsAssumption
<1> DEFINE tuple == inflight[r]
<1>1. /\ tuple # NoTuple
      /\ inflight' = [inflight EXCEPT ![r] = NoTuple]
      /\ disturbed' = TRUE
      /\ UNCHANGED <<logStart, logEnd, log, epoch, leader, zk, topology, config, host,
                     committedTo, waiting, handled, origin, faults>>
  BY DEF Fail, brokerVars, deployVars
<1>2. tuple \in Tuple /\ emittedTo \in 0 .. MaxOffset /\ pending \in SUBSET (0 .. MaxOffset)
  BY <1>1 DEF IInv, TypeOK
<1>3. tuple.tag \in 0 .. MaxOffset
  BY <1>2 DEF Tuple
<1>4. /\ emittedTo' \in 0 .. MaxOffset /\ emittedTo' <= emittedTo
      /\ pending' \subseteq pending
      /\ \A o \in pending : o < emittedTo' => o \in pending'
      /\ \A o \in pending' : o < emittedTo'
  <2>1. CASE Managed(tuple) /\ emittedTo > tuple.tag
    <3>1. emittedTo' = tuple.tag /\ pending' = {p \in pending : p < tuple.tag}
      BY <2>1 DEF Fail, RewoundTo, PendingBelow
    <3> QED BY <3>1, <2>1, <1>2, <1>3
  <2>2. CASE ~(Managed(tuple) /\ emittedTo > tuple.tag)
    <3>1. emittedTo' = emittedTo /\ pending' = pending
      BY <2>2 DEF Fail
    <3> QED BY <3>1, <1>2 DEF IInv, PositionInv
  <2> QED BY <2>1, <2>2
<1>5. \A o : MessageAt(o)' = MessageAt(o)
  BY <1>1, MessageAtUnchanged
<1> HIDE DEF tuple
<1>6. TypeOK'
  BY <1>1, <1>2, <1>4 DEF IInv, TypeOK
<1>7. LogInv'
  BY <1>1 DEF IInv, LogInv
<1>8. PositionInv'
  <2>1. emittedTo' <= logEnd
    BY <1>2, <1>4 DEF IInv, PositionInv, LogInv
  <2> QED BY <2>1, <1>1, <1>4 DEF IInv, PositionInv
<1>9. TagInv'
  BY <1>1, <1>5 DEF IInv, TagInv, TypeOK
<1>10. NothingSkipped'
  <2> SUFFICES ASSUME host # NoHost, NEW o \in Offsets, origin <= o, o < emittedTo'
               PROVE  o \in pending' \/ MessageAt(o) \in handled
    BY <1>1, <1>5 DEF NothingSkipped
  <2>1. o < emittedTo
    BY <1>2, <1>4 DEF Offsets
  <2> QED BY <2>1, <1>4 DEF IInv, NothingSkipped
<1>11. SavedInv'
  BY <1>1, <1>5 DEF IInv, SavedInv, CheckpointValid
<1> QED
  BY <1>6, <1>7, <1>8, <1>9, <1>10, <1>11 DEF IInv

(* deactivate() commits what next() would *)
LEMMA DeactivateKeepsIInv ==
  ASSUME IInv, Deactivate
  PROVE  IInv'
<1> USE BoundsAssumption
<1>1. /\ host # NoHost
      /\ UNCHANGED <<logStart, logEnd, log, epoch, leader, topology, config, host,
                     emittedTo, pending, waiting, inflight, handled, origin,
                     disturbed, faults>>
  BY DEF Deactivate, brokerVars, deployVars, historyVars
<1>2. /\ emittedTo \in 0 .. MaxOffset /\ pending \in SUBSET (0 .. MaxOffset)
      /\ \A p \in pending : p < emittedTo
      /\ emittedTo <= logEnd /\ logEnd \in 0 .. MaxOffset /\ topology \in Nat
  BY DEF IInv, TypeOK, LogInv, PositionInv
<1>3. Commit(pending, emittedTo)
  BY DEF Deactivate
<1>4. \A o : MessageAt(o)' = MessageAt(o)
  BY <1>1, MessageAtUnchanged
<1>5. CASE UNCHANGED <<zk, committedTo>>
  <2>1. TypeOK' /\ LogInv' /\ PositionInv'
    BY <1>1, <1>5 DEF IInv, TypeOK, LogInv, PositionInv
  <2>2. TagInv' /\ NothingSkipped' /\ SavedInv'
    BY <1>1, <1>4, <1>5 DEF IInv, TagInv, NothingSkipped, SavedInv, CheckpointValid
  <2> QED BY <2>1, <2>2 DEF IInv
<1>6. ASSUME NEW c \in 0 .. MaxOffset,
             zk' = [topology |-> topology, offset |-> c],
             committedTo' = c,
             c <= emittedTo,
             \A p \in pending : c <= p
      PROVE  IInv'
  <2>1. TypeOK'
    BY <1>1, <1>2, <1>6 DEF IInv, TypeOK, ZkNode
  <2>2. LogInv' /\ PositionInv'
    BY <1>1, <1>2, <1>6 DEF IInv, LogInv, PositionInv
  <2>3. TagInv' /\ NothingSkipped'
    BY <1>1, <1>4 DEF IInv, TagInv, NothingSkipped
  <2>4. SavedInv'
    <3>1. ASSUME NEW o \in Offsets, origin <= o, o < c
          PROVE  MessageAt(o) \in handled
      <4>1. o < emittedTo /\ o \notin pending
        BY <1>2, <1>6, <3>1 DEF Offsets
      <4> QED BY <4>1, <3>1, <1>1 DEF IInv, NothingSkipped
    <3> QED BY <3>1, <1>1, <1>4, <1>6 DEF SavedInv
  <2> QED BY <2>1, <2>2, <2>3, <2>4 DEF IInv
<1> QED
  BY <1>2, <1>3, <1>5, <1>6, CommitIsBelowPending

(* A manager that is dropped takes its pending offsets with it *)
LEMMA CloseKeepsIInv ==
  ASSUME IInv, Close
  PROVE  IInv'
<1> USE BoundsAssumption
<1>1. /\ host' = NoHost /\ emittedTo' = 0 /\ committedTo' = 0
      /\ pending' = {} /\ waiting' = <<>> /\ disturbed' = TRUE
      /\ UNCHANGED <<logStart, logEnd, log, epoch, leader, zk, topology, config,
                     inflight, handled, origin, faults>>
  BY DEF Close, Discard, brokerVars, deployVars
<1>2. <<>> \in Seq(Entry) /\ DOMAIN <<>> = {}
  OBVIOUS
<1>3. \A o : MessageAt(o)' = MessageAt(o)
  BY <1>1, MessageAtUnchanged
<1>4. TypeOK' /\ LogInv'
  BY <1>1, <1>2 DEF IInv, TypeOK, LogInv
<1>5. PositionInv'
  BY <1>1 DEF IInv, LogInv, PositionInv
<1>6. TagInv' /\ NothingSkipped'
  BY <1>1, <1>2, <1>3 DEF IInv, TagInv, NothingSkipped
<1>7. SavedInv'
  BY <1>1, <1>3 DEF IInv, SavedInv, CheckpointValid
<1> QED
  BY <1>4, <1>5, <1>6, <1>7 DEF IInv

(* A new manager starts at the saved offset, before which everything from    *)
(* the origin on is processed, or makes its own start the origin.           *)
LEMMA OpenKeepsIInv ==
  ASSUME IInv, Open(TRUE)
  PROVE  IInv'
<1> USE BoundsAssumption
<1> DEFINE start == IF CheckpointValid THEN zk.offset ELSE ConfiguredOffset
<1>1. /\ host' = leader /\ leader # NoHost
      /\ emittedTo' = start /\ committedTo' = start
      /\ origin' = IF CheckpointValid THEN origin ELSE start
      /\ pending' = {} /\ waiting' = <<>>
      /\ disturbed' = (disturbed \/ host # NoHost)
      /\ UNCHANGED <<logStart, logEnd, log, epoch, leader, zk, topology, config,
                     inflight, handled, faults>>
  BY DEF Open, brokerVars, deployVars
<1>2. start \in 0 .. MaxOffset /\ start <= logEnd
  <2>1. CASE CheckpointValid
    BY <2>1 DEF CheckpointValid, IInv, TypeOK, ZkNode, PositionInv
  <2>2. CASE ~CheckpointValid
    BY <2>2 DEF ConfiguredOffset, StartOffset, IInv, TypeOK, LogInv
  <2> QED BY <2>1, <2>2
<1>3. CheckpointValid' = CheckpointValid
  BY <1>1 DEF CheckpointValid
<1>4. <<>> \in Seq(Entry) /\ DOMAIN <<>> = {}
  OBVIOUS
<1>5. \A o : MessageAt(o)' = MessageAt(o)
  BY <1>1, MessageAtUnchanged
<1>6. origin' \in 0 .. MaxOffset /\ origin' <= logEnd
  BY <1>1, <1>2 DEF IInv, TypeOK, PositionInv
<1>7. ASSUME NEW o \in Offsets, origin' <= o, o < start
      PROVE  MessageAt(o) \in handled
  <2>1. CASE CheckpointValid
    BY <2>1, <1>1, <1>7 DEF IInv, SavedInv
  <2>2. CASE ~CheckpointValid
    BY <2>2, <1>1, <1>2, <1>7 DEF Offsets
  <2> QED BY <2>1, <2>2
<1>8. SavedInv'
  BY <1>1, <1>3, <1>5, <1>7 DEF SavedInv
<1> HIDE DEF start
<1>9. disturbed' \in BOOLEAN
  BY <1>1
<1>10. TypeOK'
  BY <1>1, <1>2, <1>4, <1>6, <1>9 DEF IInv, TypeOK
<1>11. LogInv' /\ PositionInv'
  BY <1>1, <1>2, <1>6 DEF IInv, LogInv, PositionInv
<1>12. TagInv' /\ NothingSkipped'
  BY <1>1, <1>4, <1>5, <1>7 DEF IInv, TagInv, NothingSkipped
<1> QED
  BY <1>8, <1>10, <1>11, <1>12 DEF IInv

(* The log only grows *)
LEMMA ProduceKeepsIInv ==
  ASSUME IInv, Produce
  PROVE  IInv'
<1> USE BoundsAssumption
<1>1. /\ logEnd' = logEnd + 1 /\ logEnd < MaxOffset
      /\ log' = [log EXCEPT ![logEnd] = epoch]
      /\ UNCHANGED <<logStart, epoch, leader, zk, topology, config, host, emittedTo,
                     committedTo, pending, waiting, inflight, handled, origin,
                     disturbed, faults>>
  BY DEF Produce, deployVars, managerVars, historyVars
<1>2. logEnd \in 0 .. MaxOffset /\ logEnd' \in 0 .. MaxOffset
  BY <1>1 DEF IInv, LogInv
<1>3. log' = log
  BY <1>1 DEF IInv, LogInv
<1>4. \A o : MessageAt(o)' = MessageAt(o)
  BY <1>3, MessageAtUnchanged
<1>5. TypeOK'
  BY <1>1, <1>2, <1>3 DEF IInv, TypeOK
<1>6. LogInv'
  BY <1>1, <1>2, <1>3 DEF IInv, LogInv
<1>7. PositionInv'
  <2>1. /\ emittedTo \in Nat /\ committedTo \in Nat /\ origin \in Nat
        /\ zk # NoEntry => zk.offset \in Nat
    BY DEF IInv, TypeOK, ZkNode
  <2>2. \A m \in handled : m.at \in Nat
    BY DEF IInv, TypeOK, Message, Offsets
  <2> QED BY <1>1, <1>2, <2>1, <2>2 DEF IInv, PositionInv
<1>8. TagInv'
  <2>1. \A i \in DOMAIN waiting : waiting[i].tag \in Nat
    <3>1. waiting \in Seq(Entry)
      BY DEF IInv, TypeOK
    <3>2. \A i \in DOMAIN waiting : waiting[i] \in Entry
      BY <3>1
    <3> QED BY <3>2 DEF Entry
  <2>2. \A r \in RootIds : inflight[r] # NoTuple => inflight[r].tag \in Nat
    BY DEF IInv, TypeOK, Tuple
  <2>3. \A t \in Nat : t < logEnd => t < logEnd'
    BY <1>1, <1>2
  <2> QED BY <1>1, <1>4, <2>1, <2>2, <2>3 DEF IInv, TagInv
<1>9. NothingSkipped' /\ SavedInv'
  BY <1>1, <1>4 DEF IInv, NothingSkipped, SavedInv, CheckpointValid
<1> QED
  BY <1>5, <1>6, <1>7, <1>8, <1>9 DEF IInv

(* Neither a leader that moves nor a step of something else disturbs it *)
LEMMA ElsewhereKeepsIInv ==
  ASSUME IInv,
         leader' \in Hosts \cup {NoHost}, faults' \in 0 .. MaxFaults,
         UNCHANGED <<brokerVars, zk, deployVars, managerVars, inflight, historyVars>>
  PROVE  IInv'
<1>1. UNCHANGED <<logStart, logEnd, log, epoch, zk, topology, config, host, emittedTo,
                  committedTo, pending, waiting, inflight, handled, origin, disturbed>>
  BY DEF brokerVars, deployVars, managerVars, historyVars
<1>2. \A o : MessageAt(o)' = MessageAt(o)
  BY <1>1, MessageAtUnchanged
<1>3. TypeOK' /\ LogInv' /\ PositionInv'
  BY <1>1 DEF IInv, TypeOK, LogInv, PositionInv
<1>4. TagInv' /\ NothingSkipped' /\ SavedInv'
  BY <1>1, <1>2 DEF IInv, TagInv, NothingSkipped, SavedInv, CheckpointValid
<1> QED
  BY <1>3, <1>4 DEF IInv

-----------------------------------------------------------------------------
(* The theorems *)

LEMMA InitEstablishesIInv ==
  ASSUME Init
  PROVE  IInv
<1> USE BoundsAssumption
<1>1. <<>> \in Seq(Entry) /\ DOMAIN <<>> = {}
  OBVIOUS
<1>2. TypeOK
  <2>1. waiting \in Seq(Entry) /\ pending \in SUBSET (0 .. MaxOffset)
    BY <1>1 DEF Init
  <2>2. log \in [Offsets -> Nat] /\ inflight \in [RootIds -> {NoTuple} \cup Tuple]
    BY DEF Init
  <2>3. handled \in SUBSET Message /\ zk \in {NoEntry} \cup ZkNode
    BY DEF Init
  <2>4. /\ logStart \in 0 .. MaxOffset /\ logEnd \in 0 .. MaxOffset /\ epoch \in Nat
        /\ topology \in Nat /\ origin \in 0 .. MaxOffset /\ faults \in 0 .. MaxFaults
        /\ emittedTo \in 0 .. MaxOffset /\ committedTo \in 0 .. MaxOffset
    BY DEF Init
  <2>5. /\ leader \in Hosts \cup {NoHost} /\ host \in Hosts \cup {NoHost}
        /\ config \in Configs /\ disturbed \in BOOLEAN
    BY DEF Init
  <2> QED
    BY <2>1, <2>2, <2>3, <2>4, <2>5 DEF TypeOK
<1>3. LogInv /\ PositionInv
  BY DEF Init, LogInv, PositionInv
<1>4. TagInv /\ NothingSkipped /\ SavedInv
  BY <1>1 DEF Init, TagInv, NothingSkipped, SavedInv, CheckpointValid
<1> QED
  BY <1>2, <1>3, <1>4 DEF IInv

(* Every step of the spout and of what surrounds it *)
LEMMA NextKeepsIInv ==
  ASSUME IInv, [Next]_vars
  PROVE  IInv'
<1>1. leader \in Hosts \cup {NoHost} /\ faults \in 0 .. MaxFaults /\ MaxFaults \in Nat
  BY BoundsAssumption DEF IInv, TypeOK
<1>2. Fault => faults' \in 0 .. MaxFaults
  BY <1>1 DEF Fault
<1>3. ASSUME NEW commitDue \in BOOLEAN, NextTuple(commitDue) PROVE IInv'
  BY <1>3, NextTupleKeepsIInv
<1>4. CASE DeserializeFails
  BY <1>1, <1>4, LoseWorkerKeepsIInv DEF DeserializeFails, deployVars
<1>5. CASE FetchFails
  BY <1>1, <1>5, LoseWorkerKeepsIInv DEF FetchFails, deployVars
<1>6. ASSUME NEW r \in RootIds, Ack(r) PROVE IInv'
  BY <1>6, AckKeepsIInv
<1>7. ASSUME NEW r \in RootIds, Fail(r) PROVE IInv'
  BY <1>7, FailKeepsIInv
<1>8. CASE Deactivate
  BY <1>8, DeactivateKeepsIInv
<1>9. CASE Close
  BY <1>9, CloseKeepsIInv
<1>10. CASE Open(TRUE)
  BY <1>10, OpenKeepsIInv
<1>11. CASE Produce
  BY <1>11, ProduceKeepsIInv
<1>12. ASSUME NEW h \in Hosts \cup {NoHost}, ChangeLeader(h) PROVE IInv'
  BY <1>1, <1>2, <1>12, ElsewhereKeepsIInv DEF ChangeLeader
<1>13. CASE Crash
  BY <1>1, <1>2, <1>13, LoseWorkerKeepsIInv DEF Crash, deployVars
<1>14. CASE Redeploy
  BY <1>1, <1>2, <1>14, LoseWorkerKeepsIInv DEF Redeploy
<1>15. CASE UNCHANGED vars
  BY <1>1, <1>15, ElsewhereKeepsIInv DEF vars
<1> QED
  BY <1>3, <1>4, <1>5, <1>6, <1>7, <1>8, <1>9, <1>10, <1>11, <1>12, <1>13, <1>14, <1>15
     DEF Next, Spout, Environment

(* The inductive invariant holds in every reachable state *)
THEOREM Inductive == Spec => []IInv
<1>1. Init => IInv
  BY InitEstablishesIInv
<1>2. IInv /\ [Next]_vars => IInv'
  BY NextKeepsIInv
<1> QED
  BY <1>1, <1>2, PTL DEF Spec

(* Type correctness *)
THEOREM TypeCorrect == Spec => []TypeOK
<1>1. IInv => TypeOK
  BY DEF IInv
<1> QED
  BY <1>1, Inductive, PTL

(* What a manager has read past is processed or still pending, for any log,  *)
(* any payloads and any interleaving of acks, fails and failovers.          *)
THEOREM NoMessageSkipped == Spec => []NothingSkipped
<1>1. IInv => NothingSkipped
  BY DEF IInv
<1> QED
  BY <1>1, Inductive, PTL

(* At least once: the offset a new manager would resume from has nothing     *)
(* unprocessed before it.                                                   *)
THEOREM CheckpointSafe == Spec => []CommittedIsProcessed
<1>1. IInv => CommittedIsProcessed
  BY DEF IInv, SavedInv, CommittedIsProcessed
<1> QED
  BY <1>1, Inductive, PTL

-----------------------------------------------------------------------------
(* What the saved offset may do in a step, and what holds it back.           *)

(* A manager nothing has happened to is at or past the saved offset, and so  *)
(* is everything it waits for.                                              *)
AheadOfSaved ==
  ~disturbed /\ CheckpointValid /\ host # NoHost =>
    zk.offset <= emittedTo /\ \A p \in pending : zk.offset <= p

(* What NoUncausedRegress says of one step *)
ForwardOrDisturbed ==
  CheckpointValid /\ zk' # zk /\ zk'.offset < zk.offset => disturbed

LEMMA CommitMovesForward ==
  ASSUME IInv, AheadOfSaved, host # NoHost,
         NEW pend \in SUBSET (0 .. MaxOffset),
         NEW emitted \in 0 .. MaxOffset,
         \A p \in pend : p < emitted,
         emittedTo <= emitted,
         \A p \in pend : p \in pending \/ emittedTo <= p,
         Commit(pend, emitted) \/ UNCHANGED <<zk, committedTo>>,
         UNCHANGED <<topology, config, host, disturbed>>,
         emittedTo' = emitted, pending' = pend
  PROVE  AheadOfSaved' /\ ForwardOrDisturbed
<1> USE BoundsAssumption
<1>1. emittedTo \in 0 .. MaxOffset /\ pending \in SUBSET (0 .. MaxOffset)
  BY DEF IInv, TypeOK
<1>2. CheckpointValid => zk.offset \in 0 .. MaxOffset
  BY DEF CheckpointValid, IInv, TypeOK, ZkNode
<1>3. ASSUME ~disturbed, CheckpointValid
      PROVE  zk.offset <= emitted /\ \A p \in pend : zk.offset <= p
  <2>1. zk.offset <= emittedTo /\ \A p \in pending : zk.offset <= p
    BY <1>3 DEF AheadOfSaved
  <2>2. zk.offset \in 0 .. MaxOffset
    BY <1>2, <1>3
  <2> QED BY <2>1, <2>2, <1>1
<1>4. CASE UNCHANGED <<zk, committedTo>>
  <2>1. CheckpointValid' = CheckpointValid
    BY <1>4 DEF CheckpointValid
  <2>2. ForwardOrDisturbed
    BY <1>4 DEF ForwardOrDisturbed
  <2>3. AheadOfSaved'
    BY <2>1, <1>3, <1>4 DEF AheadOfSaved
  <2> QED BY <2>2, <2>3
<1>5. ASSUME NEW c \in 0 .. MaxOffset,
             zk' = [topology |-> topology, offset |-> c],
             c \in pend \cup {emitted}, c <= emitted, \A p \in pend : c <= p
      PROVE  AheadOfSaved' /\ ForwardOrDisturbed
  <2>1. zk'.offset = c
    BY <1>5
  <2>2. AheadOfSaved'
    BY <2>1, <1>5 DEF AheadOfSaved
  <2>3. ~disturbed /\ CheckpointValid => zk.offset <= c
    BY <1>3, <1>5
  <2>4. ForwardOrDisturbed
    BY <2>1, <2>3, <1>2 DEF ForwardOrDisturbed
  <2> QED BY <2>2, <2>4
<1>6. CASE Commit(pend, emitted)
  BY <1>5, <1>4, <1>6, CommitIsBelowPending
<1> QED BY <1>4, <1>6

(* Polling goes on from where the manager is *)
LEMMA PollMovesForward ==
  ASSUME IInv, AheadOfSaved, host # NoHost,
         NEW n \in FetchCounts, NEW k, NEW commitDue \in BOOLEAN,
         Poll(n, k, commitDue)
  PROVE  AheadOfSaved' /\ ForwardOrDisturbed
<1> USE BoundsAssumption
<1> DEFINE filled == pending \cup (emittedTo .. emittedTo + n - 1)
           pend == PendingAfterFill(n) \ {Buffer(n)[i].tag : i \in 1 .. k}
           emitted == EmittedToAfterFill(n)
<1>1. /\ n \in Nat /\ emitted = emittedTo + n /\ emittedTo + n <= logEnd
      /\ pend \subseteq filled
  BY FetchIsExact DEF IInv
<1>2. /\ emittedTo \in 0 .. MaxOffset /\ logEnd \in 0 .. MaxOffset
      /\ pending \in SUBSET (0 .. MaxOffset) /\ \A p \in pending : p < emittedTo
  BY DEF IInv, TypeOK, LogInv, PositionInv
<1>3. /\ filled \in SUBSET (0 .. MaxOffset)
      /\ \A p \in filled : p < emittedTo + n /\ (p \in pending \/ emittedTo <= p)
  BY <1>1, <1>2
<1>4. /\ emittedTo' = emitted /\ pending' = pend
      /\ UNCHANGED <<topology, config, host, disturbed>>
      /\ Commit(pend, emitted) \/ UNCHANGED <<zk, committedTo>>
  BY DEF Poll, deployVars
<1>5. emitted \in 0 .. MaxOffset /\ emittedTo <= emitted
  BY <1>1, <1>2
<1>6. /\ pend \in SUBSET (0 .. MaxOffset)
      /\ \A p \in pend : p < emitted /\ (p \in pending \/ emittedTo <= p)
  <2> HIDE DEF filled, pend
  <2> QED BY <1>1, <1>3
<1> HIDE DEF pend, emitted
<1> QED
  BY <1>4, <1>5, <1>6, CommitMovesForward

(* Steps that leave the node alone, and end or keep what AheadOfSaved is     *)
(* about.                                                                   *)
LEMMA NodeAlone ==
  ASSUME AheadOfSaved, zk' = zk,
         \/ disturbed'
         \/ host' = NoHost
         \/ /\ UNCHANGED <<topology, config, host, emittedTo, disturbed>>
            /\ pending' \subseteq pending
  PROVE  AheadOfSaved' /\ ForwardOrDisturbed
BY DEF AheadOfSaved, ForwardOrDisturbed, CheckpointValid

LEMMA OpenMovesForward ==
  ASSUME IInv, Open(TRUE)
  PROVE  AheadOfSaved' /\ ForwardOrDisturbed
<1>1. zk' = zk /\ pending' = {} /\ CheckpointValid' = CheckpointValid
  BY DEF Open, deployVars, CheckpointValid
<1>2. CheckpointValid => emittedTo' = zk.offset /\ zk.offset \in Nat
  BY BoundsAssumption DEF Open, CheckpointValid, IInv, TypeOK, ZkNode
<1> QED
  BY <1>1, <1>2 DEF AheadOfSaved, ForwardOrDisturbed

LEMMA NextMovesForward ==
  ASSUME IInv, AheadOfSaved, [Next]_vars
  PROVE  AheadOfSaved' /\ ForwardOrDisturbed
<1>1. ASSUME NEW commitDue \in BOOLEAN, NextTuple(commitDue)
      PROVE  AheadOfSaved' /\ ForwardOrDisturbed
  <2>1. \E n \in FetchCounts : \E k : Poll(n, k, commitDue)
    BY <1>1 DEF NextTuple, Emit, EmitNothing
  <2>2. host # NoHost
    BY <1>1 DEF NextTuple, Emit, EmitNothing, CanPoll
  <2> QED BY <2>1, <2>2, PollMovesForward
<1>2. CASE DeserializeFails
  BY <1>2, NodeAlone DEF DeserializeFails, LoseWorker
<1>3. CASE FetchFails
  BY <1>3, NodeAlone DEF FetchFails, LoseWorker
<1>4. ASSUME NEW r \in RootIds, Ack(r)
      PROVE  AheadOfSaved' /\ ForwardOrDisturbed
  <2>1. /\ UNCHANGED <<zk, topology, config, host, emittedTo, disturbed>>
        /\ pending' \subseteq pending
    BY <1>4 DEF Ack, PendingAfterAck, deployVars
  <2> QED BY <2>1, NodeAlone
<1>5. ASSUME NEW r \in RootIds, Fail(r)
      PROVE  AheadOfSaved' /\ ForwardOrDisturbed
  BY <1>5, NodeAlone DEF Fail
<1>6. CASE Deactivate
  <2>1. /\ emittedTo \in 0 .. MaxOffset /\ pending \in SUBSET (0 .. MaxOffset)
        /\ \A p \in pending : p < emittedTo
    BY DEF IInv, TypeOK, PositionInv
  <2>2. /\ host # NoHost /\ Commit(pending, emittedTo)
        /\ UNCHANGED <<topology, config, host, disturbed, emittedTo, pending>>
    BY <1>6 DEF Deactivate, deployVars, historyVars
  <2>3. emittedTo <= emittedTo
    BY <2>1, BoundsAssumption
  <2> QED BY <2>1, <2>2, <2>3, CommitMovesForward
<1>7. CASE Close
  BY <1>7, NodeAlone DEF Close
<1>8. CASE Open(TRUE)
  BY <1>8, OpenMovesForward
<1>9. CASE Produce
  BY <1>9, NodeAlone DEF Produce, deployVars, managerVars, historyVars
<1>10. ASSUME NEW h \in Hosts \cup {NoHost}, ChangeLeader(h)
       PROVE  AheadOfSaved' /\ ForwardOrDisturbed
  BY <1>10, NodeAlone DEF ChangeLeader, deployVars, managerVars, historyVars
<1>11. CASE Crash
  BY <1>11, NodeAlone DEF Crash, LoseWorker
<1>12. CASE Redeploy
  BY <1>12, NodeAlone DEF Redeploy, LoseWorker
<1>13. CASE UNCHANGED vars
  BY <1>13, NodeAlone DEF vars, deployVars, managerVars, historyVars
<1> QED
  BY <1>1, <1>2, <1>3, <1>4, <1>5, <1>6, <1>7, <1>8, <1>9, <1>10, <1>11, <1>12, <1>13
     DEF Next, Spout, Environment

(* As long as nothing fails, the saved offset only goes up *)
THEOREM CommitOnlyForward == Spec => NoUncausedRegress
<1>1. Init => AheadOfSaved
  BY DEF Init, AheadOfSaved
<1>2. IInv /\ AheadOfSaved /\ [Next]_vars => AheadOfSaved' /\ ForwardOrDisturbed
  BY NextMovesForward
<1>3. Spec => [][ForwardOrDisturbed]_vars
  BY <1>1, <1>2, Inductive, PTL DEF Spec
<1> QED
  BY <1>3 DEF NoUncausedRegress, ForwardOrDisturbed

-----------------------------------------------------------------------------
(* A copy of offset p is in flight and answers to the manager *)
Awaited(p) == \E r \in Outstanding : Managed(inflight[r]) /\ inflight[r].tag = p

(* After fill() every pending offset is in the buffer or in flight *)
LEMMA FilledIsHeld ==
  ASSUME IInv, NoOrphanPending, NEW n \in FetchCounts, NEW p \in PendingAfterFill(n)
  PROVE  Awaited(p) \/ \E i \in 1 .. Len(Buffer(n)) : Buffer(n)[i].tag = p
<1>1. /\ n \in Nat
      /\ Fetched(n) = [i \in 1 .. n |-> [tag |-> emittedTo + i - 1,
                                         msg |-> MessageAt(emittedTo + i - 1)]]
      /\ PendingAfterFill(n) = pending \cup (emittedTo .. emittedTo + n - 1)
  BY FetchIsExact DEF IInv
<1>2. emittedTo \in Nat
  BY BoundsAssumption DEF IInv, TypeOK
<1>3. waiting \in Seq(Entry)
  BY DEF IInv, TypeOK
<1>4. Fetched(n) \in Seq(Entry) /\ Len(Fetched(n)) = n
  BY BufferIsTagged DEF IInv
<1>5. /\ Len(Buffer(n)) = Len(waiting) + n
      /\ \A i \in 1 .. Len(waiting) : Buffer(n)[i] = waiting[i]
      /\ \A i \in 1 .. n : Buffer(n)[Len(waiting) + i] = Fetched(n)[i]
  BY <1>1, <1>3, <1>4 DEF Buffer
<1>6. Len(waiting) \in Nat /\ DOMAIN waiting = 1 .. Len(waiting)
  BY <1>3
<1>7. CASE p \in pending
  <2>1. CASE p \in Buffered
    <3>1. PICK i \in 1 .. Len(waiting) : waiting[i].tag = p
      BY <2>1, <1>6 DEF Buffered
    <3>2. i \in 1 .. Len(Buffer(n)) /\ Buffer(n)[i].tag = p
      BY <3>1, <1>1, <1>5, <1>6
    <3> QED BY <3>2
  <2>2. CASE p \notin Buffered
    BY <2>2, <1>7 DEF NoOrphanPending, Awaited
  <2> QED BY <2>1, <2>2
<1>8. CASE p \in emittedTo .. emittedTo + n - 1
  <2> DEFINE i == p - emittedTo + 1
  <2>1. i \in 1 .. n
    BY <1>1, <1>2, <1>8
  <2>2. Fetched(n)[i].tag = p
    BY <2>1, <1>1, <1>2, <1>8
  <2>3. Len(waiting) + i \in 1 .. Len(Buffer(n)) /\ Buffer(n)[Len(waiting) + i].tag = p
    BY <2>1, <2>2, <1>1, <1>5, <1>6
  <2> QED BY <2>3
<1> QED BY <1>1, <1>7, <1>8

(* next() drops from the buffer only what it puts in flight or takes out of  *)
(* pending.                                                                 *)
LEMMA PollKeepsNoOrphan ==
  ASSUME IInv, NoOrphanPending, host # NoHost,
         NEW n \in FetchCounts, NEW k \in 0 .. Len(Buffer(n)), NEW commitDue \in BOOLEAN,
         Poll(n, k, commitDue),
         \A r \in Outstanding : r \in Outstanding' /\ inflight'[r] = inflight[r],
         k < Len(Buffer(n)) => \E r \in Outstanding' :
           inflight'[r].host = host /\ inflight'[r].tag = Buffer(n)[k + 1].tag
  PROVE  NoOrphanPending'
<1> DEFINE buffer == Buffer(n)
<1>1. buffer \in Seq(Entry)
  BY BufferIsTagged DEF IInv
<1>2. k \in Nat /\ Len(buffer) \in Nat /\ k <= Len(buffer)
  BY <1>1
<1>3. /\ pending' = PendingAfterFill(n) \ {buffer[i].tag : i \in 1 .. k}
      /\ waiting' = SubSeq(buffer, k + 2, Len(buffer))
      /\ host' = host
  BY DEF Poll
<1>4. \A i \in k + 2 .. Len(buffer) :
        i - k - 1 \in DOMAIN waiting' /\ waiting'[i - k - 1] = buffer[i]
  BY <1>1, <1>2, <1>3
<1> SUFFICES ASSUME NEW p \in pending'
             PROVE  \/ p \in Buffered'
                    \/ \E r \in Outstanding' : inflight'[r].host = host /\ inflight'[r].tag = p
  BY <1>3 DEF NoOrphanPending, Managed
<1>5. CASE Awaited(p)
  BY <1>5 DEF Awaited, Managed
<1>6. ASSUME NEW i \in 1 .. Len(buffer), buffer[i].tag = p
      PROVE  \/ p \in Buffered'
             \/ \E r \in Outstanding' : inflight'[r].host = host /\ inflight'[r].tag = p
  <2>1. ~(i \in 1 .. k)
    BY <1>3, <1>6
  <2>2. CASE i = k + 1
    <3>1. k < Len(buffer) /\ buffer[k + 1].tag = p
      BY <2>2, <1>2, <1>6
    <3> QED BY <3>1
  <2>3. CASE i \in k + 2 .. Len(buffer)
    <3>1. i - k - 1 \in DOMAIN waiting' /\ waiting'[i - k - 1].tag = p
      BY <2>3, <1>4, <1>6
    <3> QED BY <3>1 DEF Buffered
  <2> QED BY <2>1, <2>2, <2>3, <1>2
<1>7. p \in PendingAfterFill(n)
  BY <1>3
<1> QED BY <1>5, <1>6, <1>7, FilledIsHeld

LEMMA NextTupleKeepsNoOrphan ==
  ASSUME IInv, NoOrphanPending, NEW commitDue \in BOOLEAN, NextTuple(commitDue)
  PROVE  NoOrphanPending'
<1>1. host # NoHost /\ inflight \in [RootIds -> {NoTuple} \cup Tuple]
  BY DEF NextTuple, Emit, EmitNothing, CanPoll, IInv, TypeOK
<1>2. CASE EmitNothing(commitDue)
  <2>1. PICK n \in FetchCounts : Poll(n, Len(Buffer(n)), commitDue)
    BY <1>2 DEF EmitNothing
  <2>2. Len(Buffer(n)) \in Nat
    BY BufferIsTagged DEF IInv
  <2>3. \A r \in Outstanding : r \in Outstanding' /\ inflight'[r] = inflight[r]
    BY <1>2 DEF EmitNothing, Outstanding
  <2>4. Len(Buffer(n)) \in 0 .. Len(Buffer(n)) /\ ~(Len(Buffer(n)) < Len(Buffer(n)))
    BY <2>2
  <2> QED BY <2>1, <2>3, <2>4, <1>1, PollKeepsNoOrphan
<1>3. CASE Emit(commitDue)
  <2>1. PICK n \in FetchCounts, r \in FreeRoots :
          \E k \in 0 .. Len(Buffer(n)) - 1 :
            /\ Poll(n, k, commitDue)
            /\ inflight' = [inflight EXCEPT ![r] = [host |-> host,
                                                    tag |-> Buffer(n)[k + 1].tag,
                                                    msg |-> Buffer(n)[k + 1].msg]]
    BY <1>3 DEF Emit
  <2>2. PICK k \in 0 .. Len(Buffer(n)) - 1 :
          /\ Poll(n, k, commitDue)
          /\ inflight' = [inflight EXCEPT ![r] = [host |-> host,
                                                  tag |-> Buffer(n)[k + 1].tag,
                                                  msg |-> Buffer(n)[k + 1].msg]]
    BY <2>1
  <2> DEFINE tuple == [host |-> host, tag |-> Buffer(n)[k + 1].tag,
                       msg |-> Buffer(n)[k + 1].msg]
  <2>3. Buffer(n) \in Seq(Entry)
    BY BufferIsTagged DEF IInv
  <2>4. k \in 0 .. Len(Buffer(n)) /\ Buffer(n)[k + 1] \in Entry
    BY <2>3
  <2>5. r \in RootIds /\ inflight[r] = NoTuple
    BY DEF FreeRoots
  <2>6. tuple # NoTuple
    <3>1. tuple \in Tuple
      BY <2>4, <1>1 DEF Entry, Tuple, IInv, TypeOK
    <3> QED BY <3>1, NoneAssumption
  <2>7. tuple.host = host /\ tuple.tag = Buffer(n)[k + 1].tag
    OBVIOUS
  <2>8. inflight' = [inflight EXCEPT ![r] = tuple]
    BY <2>2
  <2> HIDE DEF tuple
  <2>9. r \in Outstanding' /\ inflight'[r] = tuple
    BY <2>5, <2>6, <2>8, <1>1 DEF Outstanding
  <2>10. \A s \in Outstanding : s \in Outstanding' /\ inflight'[s] = inflight[s]
    BY <2>5, <2>8, <1>1 DEF Outstanding
  <2>11. \E s \in Outstanding' :
           inflight'[s].host = host /\ inflight'[s].tag = Buffer(n)[k + 1].tag
    BY <2>7, <2>9
  <2> QED BY <2>2, <2>4, <2>10, <2>11, <1>1, PollKeepsNoOrphan
<1> QED BY <1>2, <1>3 DEF NextTuple

LEMMA NextKeepsNoOrphan ==
  ASSUME IInv, NoOrphanPending, [Next]_vars
  PROVE  NoOrphanPending'
<1>1. ASSUME pending' = {} PROVE NoOrphanPending'
  BY <1>1 DEF NoOrphanPending
<1>2. ASSUME UNCHANGED <<host, pending, waiting, inflight>> PROVE NoOrphanPending'
  BY <1>2 DEF NoOrphanPending, Buffered, Outstanding, Managed
<1>3. ASSUME NEW commitDue \in BOOLEAN, NextTuple(commitDue) PROVE NoOrphanPending'
  BY <1>3, NextTupleKeepsNoOrphan
<1>4. CASE DeserializeFails \/ FetchFails \/ Crash \/ Redeploy
  BY <1>1, <1>4 DEF DeserializeFails, FetchFails, Crash, Redeploy, LoseWorker, Discard
<1>5. ASSUME NEW r \in RootIds, inflight[r] # NoTuple,
             inflight' = [inflight EXCEPT ![r] = NoTuple],
             UNCHANGED <<host, waiting>>,
             pending' \subseteq pending,
             Managed(inflight[r]) => inflight[r].tag \notin pending'
      PROVE  NoOrphanPending'
  <2> SUFFICES ASSUME NEW p \in pending', p \notin Buffered
               PROVE  \E s \in Outstanding' : inflight'[s].host = host /\ inflight'[s].tag = p
    BY <1>5 DEF NoOrphanPending, Buffered, Managed
  <2>1. PICK s \in Outstanding : Managed(inflight[s]) /\ inflight[s].tag = p
    BY <1>5 DEF NoOrphanPending
  <2>2. s # r
    BY <1>5, <2>1
  <2>3. s \in Outstanding' /\ inflight'[s] = inflight[s]
    BY <1>5, <2>2 DEF Outstanding, IInv, TypeOK
  <2> QED BY <2>1, <2>3 DEF Managed
<1>6. ASSUME NEW r \in RootIds, Ack(r) PROVE NoOrphanPending'
  <2>1. /\ inflight[r] # NoTuple
        /\ inflight' = [inflight EXCEPT ![r] = NoTuple]
        /\ UNCHANGED <<host, waiting>>
        /\ pending' = PendingAfterAck(inflight[r])
    BY <1>6 DEF Ack
  <2>2. /\ pending' \subseteq pending
        /\ Managed(inflight[r]) => inflight[r].tag \notin pending'
    BY <2>1 DEF PendingAfterAck
  <2> QED BY <2>1, <2>2, <1>5
<1>7. ASSUME NEW r \in RootIds, Fail(r) PROVE NoOrphanPending'
  <2>1. /\ inflight[r] # NoTuple
        /\ inflight' = [inflight EXCEPT ![r] = NoTuple]
        /\ UNCHANGED <<host, waiting>>
    BY <1>7 DEF Fail
  <2>2. /\ inflight[r].tag \in 0 .. MaxOffset /\ emittedTo \in 0 .. MaxOffset
        /\ pending \in SUBSET (0 .. MaxOffset) /\ \A p \in pending : p < emittedTo
    BY <2>1 DEF IInv, TypeOK, PositionInv, Tuple
  <2>3. CASE Managed(inflight[r]) /\ emittedTo > inflight[r].tag
    <3>1. pending' = {p \in pending : p < inflight[r].tag}
      BY <1>7, <2>3 DEF Fail, PendingBelow
    <3>2. pending' \subseteq pending /\ inflight[r].tag \notin pending'
      BY <3>1, <2>2, BoundsAssumption
    <3> QED BY <2>1, <3>2, <1>5
  <2>4. CASE ~(Managed(inflight[r]) /\ emittedTo > inflight[r].tag)
    <3>1. pending' = pending
      BY <1>7, <2>4 DEF Fail
    <3>2. Managed(inflight[r]) => inflight[r].tag \notin pending'
      BY <3>1, <2>2, <2>4, BoundsAssumption
    <3> QED BY <2>1, <3>1, <3>2, <1>5
  <2> QED BY <2>3, <2>4
<1>8. CASE Deactivate
  BY <1>2, <1>8 DEF Deactivate
<1>9. CASE Close \/ Open(TRUE)
  BY <1>1, <1>9 DEF Close, Discard, Open
<1>10. CASE Produce \/ \E h \in Hosts \cup {NoHost} : ChangeLeader(h)
  BY <1>2, <1>10 DEF Produce, ChangeLeader, managerVars
<1>11. CASE UNCHANGED vars
  BY <1>2, <1>11 DEF vars, managerVars
<1> QED
  BY <1>3, <1>4, <1>6, <1>7, <1>8, <1>9, <1>10, <1>11 DEF Next, Spout, Environment

(* No offset holds the commit back without a copy that will be acked or      *)
(* failed to this manager.                                                  *)
THEOREM PendingIsHeld == Spec => []NoOrphanPending
<1>1. Init => NoOrphanPending
  BY DEF Init, NoOrphanPending
<1>2. IInv /\ NoOrphanPending /\ [Next]_vars => NoOrphanPending'
  BY NextKeepsNoOrphan
<1> QED
  BY <1>1, <1>2, Inductive, PTL DEF Spec

-----------------------------------------------------------------------------
(* While nothing has failed and no manager was lost, a message has one       *)
(* place.  What waits in buffer lies below offset to, is not processed, and  *)
(* waits and flies nowhere else ...                                          *)
WaitsAlone(buffer, to) ==
  \A i \in DOMAIN buffer :
    /\ buffer[i].tag < to
    /\ MessageAt(buffer[i].tag) \notin handled
    /\ \A j \in DOMAIN buffer : buffer[i].tag = buffer[j].tag => i = j
    /\ \A r \in Outstanding : inflight[r].tag # buffer[i].tag

(* ... and so does what is in flight.                                        *)
FliesAlone ==
  \A r \in Outstanding :
    /\ inflight[r].tag < emittedTo
    /\ MessageAt(inflight[r].tag) \notin handled
    /\ \A s \in Outstanding : inflight[r].tag = inflight[s].tag => r = s

(* Nothing beyond _emittedToOffset is processed; before the first manager    *)
(* there is nothing at all.                                                  *)
OnePlace ==
  ~disturbed =>
    /\ WaitsAlone(waiting, emittedTo)
    /\ FliesAlone
    /\ \A m \in handled : m.at < emittedTo
    /\ host = NoHost => waiting = <<>> /\ Outstanding = {} /\ handled = {}

(* fill() adds only messages from _emittedToOffset on *)
LEMMA FilledWaitsAlone ==
  ASSUME IInv, OnePlace, ~disturbed, NEW n \in FetchCounts
  PROVE  WaitsAlone(Buffer(n), EmittedToAfterFill(n))
<1> DEFINE buffer == Buffer(n)
           to == EmittedToAfterFill(n)
<1>1. /\ n \in Nat
      /\ to = emittedTo + n
      /\ waiting # <<>> => n = 0
      /\ Fetched(n) = [i \in 1 .. n |-> [tag |-> emittedTo + i - 1,
                                         msg |-> MessageAt(emittedTo + i - 1)]]
  BY FetchIsExact DEF IInv
<1>2. /\ emittedTo \in Nat /\ waiting \in Seq(Entry) /\ handled \in SUBSET Message
      /\ inflight \in [RootIds -> {NoTuple} \cup Tuple]
  BY BoundsAssumption DEF IInv, TypeOK
<1>3. /\ WaitsAlone(waiting, emittedTo) /\ FliesAlone
      /\ \A m \in handled : m.at < emittedTo
  BY DEF OnePlace
<1>4. Fetched(n) \in Seq(Entry) /\ Len(Fetched(n)) = n
  BY BufferIsTagged DEF IInv
<1>5. CASE n = 0
  <2>1. Fetched(n) = <<>>
    BY <1>4, <1>5
  <2>2. buffer = waiting /\ to = emittedTo
    BY <2>1, <1>1, <1>2, <1>5 DEF Buffer
  <2> QED BY <2>2, <1>3
<1>6. CASE waiting = <<>>
  <2>1. buffer = Fetched(n)
    BY <1>4, <1>6 DEF Buffer
  <2>2. DOMAIN buffer = 1 .. n /\ \A i \in 1 .. n : buffer[i].tag = emittedTo + i - 1
    BY <2>1, <1>1
  <2>3. \A r \in Outstanding : inflight[r].tag < emittedTo /\ inflight[r].tag \in Int
    BY <1>2, <1>3, BoundsAssumption DEF FliesAlone, Outstanding, Tuple
  <2> HIDE DEF buffer, to
  <2>4. ASSUME NEW i \in 1 .. n
        PROVE  /\ buffer[i].tag < to
               /\ MessageAt(buffer[i].tag) \notin handled
               /\ \A j \in 1 .. n : buffer[i].tag = buffer[j].tag => i = j
               /\ \A r \in Outstanding : inflight[r].tag # buffer[i].tag
    <3>1. buffer[i].tag = emittedTo + i - 1 /\ i \in Nat /\ 1 <= i /\ i <= n
      BY <2>2, <1>1
    <3>2. MessageAt(buffer[i].tag).at = buffer[i].tag
      BY DEF MessageAt
    <3>3. ~(buffer[i].tag < emittedTo)
      BY <3>1, <1>2
    <3>4. MessageAt(buffer[i].tag) \notin handled
      BY <3>2, <3>3, <1>3
    <3>5. \A j \in 1 .. n : buffer[i].tag = buffer[j].tag => i = j
      BY <3>1, <2>2, <1>1, <1>2
    <3>6. \A r \in Outstanding : inflight[r].tag # buffer[i].tag
      BY <3>3, <2>3
    <3>7. buffer[i].tag < to
      BY <3>1, <1>1, <1>2
    <3> QED BY <3>4, <3>5, <3>6, <3>7
  <2>5. WaitsAlone(buffer, to)
    BY <2>2, <2>4 DEF WaitsAlone
  <2> QED BY <2>5 DEF buffer, to
<1> QED BY <1>1, <1>5, <1>6

(* next() acks the messages that give no tuple, puts the next one in flight  *)
(* under a free root id and leaves the rest waiting.                         *)
LEMMA PollKeepsOnePlace ==
  ASSUME IInv, OnePlace, host # NoHost,
         NEW n \in FetchCounts, NEW k \in 0 .. Len(Buffer(n)), NEW commitDue \in BOOLEAN,
         Poll(n, k, commitDue),
         NEW out,
         \A r \in Outstanding' :
           \/ r \in Outstanding /\ inflight'[r] = inflight[r]
           \/ /\ r = out /\ out \notin Outstanding
              /\ k < Len(Buffer(n)) /\ inflight'[r].tag = Buffer(n)[k + 1].tag
  PROVE  OnePlace'
<1> DEFINE buffer == Buffer(n)
           to == EmittedToAfterFill(n)
<1>1. /\ buffer \in Seq(Entry)
      /\ \A i \in 1 .. Len(buffer) : buffer[i].msg = MessageAt(buffer[i].tag)
  BY BufferIsTagged DEF IInv
<1>2. /\ emittedTo' = to
      /\ waiting' = SubSeq(buffer, k + 2, Len(buffer))
      /\ handled' = handled \cup {buffer[i].msg : i \in 1 .. k}
      /\ host' = host /\ log' = log /\ disturbed' = disturbed
  BY DEF Poll, brokerVars
<1>3. emittedTo \in Nat /\ to \in Nat /\ emittedTo <= to
  BY FetchIsExact, BoundsAssumption DEF IInv, TypeOK
<1>4. inflight \in [RootIds -> {NoTuple} \cup Tuple]
  BY DEF IInv, TypeOK
<1> SUFFICES ASSUME ~disturbed
             PROVE  /\ WaitsAlone(waiting, emittedTo)'
                    /\ FliesAlone'
                    /\ \A m \in handled' : m.at < to
  BY <1>2 DEF OnePlace
<1>5. WaitsAlone(buffer, to)
  BY FilledWaitsAlone
<1>6. FliesAlone /\ \A m \in handled : m.at < emittedTo
  BY DEF OnePlace
<1>7. \A o : MessageAt(o)' = MessageAt(o) /\ MessageAt(o).at = o
  BY <1>2 DEF MessageAt
<1>8. DOMAIN buffer = 1 .. Len(buffer) /\ Len(buffer) \in Nat /\ k \in Nat /\ k <= Len(buffer)
  BY <1>1
<1>9. \A i \in DOMAIN waiting' :
        /\ i \in Nat \ {0} /\ i + k + 1 \in DOMAIN buffer
        /\ waiting'[i] = buffer[i + k + 1]
  BY <1>1, <1>2, <1>8, RestOfBuffer
<1>10. \A i \in DOMAIN buffer : buffer[i] \in Entry
  BY <1>1, <1>8
<1>11. \A r \in Outstanding : inflight[r].tag \in Int
  BY <1>4, BoundsAssumption DEF Outstanding, Tuple
<1> HIDE DEF buffer, to
<1>12. ASSUME NEW i \in DOMAIN buffer, ~(i \in 1 .. k)
       PROVE  MessageAt(buffer[i].tag) \notin handled'
  <2>1. MessageAt(buffer[i].tag) \notin handled
    BY <1>5 DEF WaitsAlone
  <2>2. ASSUME NEW j \in 1 .. k PROVE MessageAt(buffer[i].tag) # buffer[j].msg
    <3>1. j \in DOMAIN buffer /\ j # i
      BY <1>8, <1>12, <2>2
    <3>2. buffer[j].tag # buffer[i].tag
      BY <3>1, <1>5 DEF WaitsAlone
    <3>3. buffer[j].msg = MessageAt(buffer[j].tag)
      BY <3>1, <1>1, <1>8
    <3> QED BY <3>2, <3>3, <1>7
  <2> QED BY <2>1, <2>2, <1>2
<1>13. ASSUME NEW r \in Outstanding
       PROVE  /\ inflight[r].tag < to
              /\ MessageAt(inflight[r].tag) \notin handled'
  <2>1. inflight[r].tag < emittedTo /\ MessageAt(inflight[r].tag) \notin handled
    BY <1>6 DEF FliesAlone
  <2>2. ASSUME NEW j \in 1 .. k PROVE MessageAt(inflight[r].tag) # buffer[j].msg
    <3>1. j \in DOMAIN buffer
      BY <1>8, <2>2
    <3>2. buffer[j].tag # inflight[r].tag
      BY <3>1, <1>5 DEF WaitsAlone
    <3>3. buffer[j].msg = MessageAt(buffer[j].tag)
      BY <3>1, <1>1, <1>8
    <3> QED BY <3>2, <3>3, <1>7
  <2>3. inflight[r].tag < to
    BY <2>1, <1>3, <1>11
  <2> QED BY <2>1, <2>2, <2>3, <1>2
<1>14. ASSUME NEW r \in Outstanding', ~(r \in Outstanding /\ inflight'[r] = inflight[r])
       PROVE  /\ r = out /\ out \notin Outstanding
              /\ k + 1 \in DOMAIN buffer /\ inflight'[r].tag = buffer[k + 1].tag
  <2>1. k < Len(buffer) /\ inflight'[r].tag = buffer[k + 1].tag /\ r = out /\ out \notin Outstanding
    BY <1>14 DEF buffer
  <2> QED BY <2>1, <1>8
<1>15. WaitsAlone(waiting, emittedTo)'
  <2> SUFFICES ASSUME NEW i \in DOMAIN waiting'
               PROVE  /\ waiting'[i].tag < to
                      /\ MessageAt(waiting'[i].tag) \notin handled'
                      /\ \A j \in DOMAIN waiting' : waiting'[i].tag = waiting'[j].tag => i = j
                      /\ \A r \in Outstanding' : inflight'[r].tag # waiting'[i].tag
    BY <1>2, <1>7 DEF WaitsAlone
  <2>1. /\ i \in Nat \ {0} /\ i + k + 1 \in DOMAIN buffer
        /\ waiting'[i] = buffer[i + k + 1]
    BY <1>9
  <2>2. ~(i + k + 1 \in 1 .. k) /\ i + k + 1 # k + 1
    BY <2>1, <1>8
  <2>3. MessageAt(waiting'[i].tag) \notin handled' /\ waiting'[i].tag < to
    BY <2>1, <2>2, <1>5, <1>12 DEF WaitsAlone
  <2>4. ASSUME NEW j \in DOMAIN waiting', waiting'[i].tag = waiting'[j].tag PROVE i = j
    <3>1. j \in Nat \ {0} /\ j + k + 1 \in DOMAIN buffer /\ waiting'[j] = buffer[j + k + 1]
      BY <1>9
    <3>2. i + k + 1 = j + k + 1
      BY <2>1, <2>4, <3>1, <1>5 DEF WaitsAlone
    <3> QED BY <3>1, <3>2, <2>1, <1>8
  <2>5. ASSUME NEW r \in Outstanding' PROVE inflight'[r].tag # waiting'[i].tag
    <3>1. CASE r \in Outstanding /\ inflight'[r] = inflight[r]
      BY <3>1, <2>1, <1>5 DEF WaitsAlone
    <3>2. CASE ~(r \in Outstanding /\ inflight'[r] = inflight[r])
      <4>1. k + 1 \in DOMAIN buffer /\ inflight'[r].tag = buffer[k + 1].tag
        BY <3>2, <1>14
      <4>2. buffer[k + 1].tag # buffer[i + k + 1].tag
        BY <4>1, <2>1, <2>2, <1>5 DEF WaitsAlone
      <4> QED BY <4>1, <4>2, <2>1
    <3> QED BY <3>1, <3>2
  <2> QED BY <2>3, <2>4, <2>5
<1>16. FliesAlone'
  <2> SUFFICES ASSUME NEW r \in Outstanding'
               PROVE  /\ inflight'[r].tag < to
                      /\ MessageAt(inflight'[r].tag) \notin handled'
                      /\ \A s \in Outstanding' : inflight'[r].tag = inflight'[s].tag => r = s
    BY <1>2, <1>7 DEF FliesAlone
  <2>1. CASE r \in Outstanding /\ inflight'[r] = inflight[r]
    <3>1. inflight'[r].tag < to /\ MessageAt(inflight'[r].tag) \notin handled'
      BY <2>1, <1>13
    <3>2. ASSUME NEW s \in Outstanding', inflight'[r].tag = inflight'[s].tag PROVE r = s
      <4>1. CASE s \in Outstanding /\ inflight'[s] = inflight[s]
        BY <4>1, <2>1, <3>2, <1>6 DEF FliesAlone
      <4>2. CASE ~(s \in Outstanding /\ inflight'[s] = inflight[s])
        BY <4>2, <2>1, <3>2, <1>14, <1>5 DEF WaitsAlone
      <4> QED BY <4>1, <4>2
    <3> QED BY <3>1, <3>2
  <2>2. CASE ~(r \in Outstanding /\ inflight'[r] = inflight[r])
    <3>1. /\ r = out /\ k + 1 \in DOMAIN buffer /\ inflight'[r].tag = buffer[k + 1].tag
      BY <2>2, <1>14
    <3>2. ~(k + 1 \in 1 .. k)
      BY <1>8
    <3>3. inflight'[r].tag < to /\ MessageAt(inflight'[r].tag) \notin handled'
      BY <3>1, <3>2, <1>5, <1>12 DEF WaitsAlone
    <3>4. ASSUME NEW s \in Outstanding', inflight'[r].tag = inflight'[s].tag PROVE r = s
      <4>1. CASE s \in Outstanding /\ inflight'[s] = inflight[s]
        BY <4>1, <3>1, <3>4, <1>5, ZenonT(60) DEF WaitsAlone
      <4>2. CASE ~(s \in Outstanding /\ inflight'[s] = inflight[s])
        BY <4>2, <3>1, <1>14
      <4> QED BY <4>1, <4>2
    <3> QED BY <3>3, <3>4
  <2> QED BY <2>1, <2>2
<1>17. ASSUME NEW m \in handled' PROVE m.at < to
  <2>1. CASE m \in handled
    <3>1. m.at < emittedTo /\ m.at \in Int
      BY <2>1, <1>6, BoundsAssumption DEF IInv, TypeOK, Message, Offsets
    <3> QED BY <3>1, <1>3
  <2>2. CASE m \in {buffer[i].msg : i \in 1 .. k}
    <3>1. PICK i \in 1 .. k : m = buffer[i].msg
      BY <2>2
    <3>2. i \in DOMAIN buffer /\ m.at = buffer[i].tag
      BY <3>1, <1>1, <1>7, <1>8
    <3> QED BY <3>2, <1>5 DEF WaitsAlone
  <2> QED BY <2>1, <2>2, <1>2
<1> QED BY <1>15, <1>16, <1>17

LEMMA NextTupleKeepsOnePlace ==
  ASSUME IInv, OnePlace, NEW commitDue \in BOOLEAN, NextTuple(commitDue)
  PROVE  OnePlace'
<1>1. host # NoHost /\ inflight \in [RootIds -> {NoTuple} \cup Tuple]
  BY DEF NextTuple, Emit, EmitNothing, CanPoll, IInv, TypeOK
<1>2. CASE EmitNothing(commitDue)
  <2>1. PICK n \in FetchCounts : Poll(n, Len(Buffer(n)), commitDue)
    BY <1>2 DEF EmitNothing
  <2>2. Len(Buffer(n)) \in 0 .. Len(Buffer(n))
    <3>1. Len(Buffer(n)) \in Nat
      BY BufferIsTagged DEF IInv
    <3> QED BY <3>1
  <2>3. \A r \in Outstanding' : r \in Outstanding /\ inflight'[r] = inflight[r]
    BY <1>2 DEF EmitNothing, Outstanding
  <2> QED BY <2>1, <2>2, <2>3, <1>1, PollKeepsOnePlace
<1>3. CASE Emit(commitDue)
  <2>1. PICK n \in FetchCounts, out \in FreeRoots :
          \E k \in 0 .. Len(Buffer(n)) - 1 :
            /\ Poll(n, k, commitDue)
            /\ inflight' = [inflight EXCEPT ![out] = [host |-> host,
                                                      tag |-> Buffer(n)[k + 1].tag,
                                                      msg |-> Buffer(n)[k + 1].msg]]
    BY <1>3 DEF Emit
  <2>2. PICK k \in 0 .. Len(Buffer(n)) - 1 :
          /\ Poll(n, k, commitDue)
          /\ inflight' = [inflight EXCEPT ![out] = [host |-> host,
                                                    tag |-> Buffer(n)[k + 1].tag,
                                                    msg |-> Buffer(n)[k + 1].msg]]
    BY <2>1
  <2>3. k \in 0 .. Len(Buffer(n)) /\ k < Len(Buffer(n))
    <3>1. Len(Buffer(n)) \in Nat
      BY BufferIsTagged DEF IInv
    <3> QED BY <3>1
  <2>4. out \in RootIds /\ out \notin Outstanding
    BY DEF FreeRoots, Outstanding
  <2>5. inflight'[out].tag = Buffer(n)[k + 1].tag
    BY <2>2, <2>4, <1>1
  <2>6. \A r \in Outstanding' :
          \/ r \in Outstanding /\ inflight'[r] = inflight[r]
          \/ r = out
    BY <2>2, <2>4, <1>1 DEF Outstanding
  <2> QED BY <2>2, <2>3, <2>4, <2>5, <2>6, <1>1, PollKeepsOnePlace
<1> QED BY <1>2, <1>3 DEF NextTuple

LEMMA NextKeepsOnePlace ==
  ASSUME IInv, OnePlace, [Next]_vars
  PROVE  OnePlace'
<1>1. ASSUME disturbed' = TRUE PROVE OnePlace'
  BY <1>1 DEF OnePlace
<1>2. ASSUME UNCHANGED <<host, emittedTo, waiting, inflight, handled, disturbed>>,
             \A o \in Offsets : o < logEnd => MessageAt(o)' = MessageAt(o)
      PROVE  OnePlace'
  <2> USE BoundsAssumption
  <2>1. \A i \in DOMAIN waiting : waiting[i].tag \in Offsets /\ waiting[i].tag < logEnd
    <3>1. \A i \in DOMAIN waiting : waiting[i].tag \in 0 .. MaxOffset
      <4>1. waiting \in Seq(Entry)
        BY DEF IInv, TypeOK
      <4>2. \A i \in DOMAIN waiting : waiting[i] \in Entry
        BY <4>1
      <4> QED BY <4>2 DEF Entry
    <3> QED BY <3>1 DEF IInv, TagInv, LogInv, Offsets
  <2>2. \A r \in Outstanding : inflight[r].tag \in Offsets /\ inflight[r].tag < logEnd
    <3>1. \A r \in Outstanding : inflight[r] \in Tuple
      BY DEF IInv, TypeOK, Outstanding
    <3> QED BY <3>1 DEF IInv, TagInv, LogInv, Offsets, Tuple, Outstanding
  <2>3. /\ \A i \in DOMAIN waiting : MessageAt(waiting[i].tag)' = MessageAt(waiting[i].tag)
        /\ \A r \in Outstanding : MessageAt(inflight[r].tag)' = MessageAt(inflight[r].tag)
    BY <1>2, <2>1, <2>2 DEF MessageAt, Outstanding
  <2>4. Outstanding' = Outstanding
    BY <1>2 DEF Outstanding
  <2>5. WaitsAlone(waiting, emittedTo) => WaitsAlone(waiting, emittedTo)'
    BY <1>2, <2>3, <2>4 DEF WaitsAlone
  <2>6. FliesAlone => FliesAlone'
    BY <1>2, <2>3, <2>4 DEF FliesAlone
  <2> QED BY <1>2, <2>4, <2>5, <2>6 DEF OnePlace
<1>3. ASSUME NEW commitDue \in BOOLEAN, NextTuple(commitDue) PROVE OnePlace'
  BY <1>3, NextTupleKeepsOnePlace
<1>4. CASE DeserializeFails \/ FetchFails \/ Crash \/ Redeploy \/ Close
  BY <1>1, <1>4 DEF DeserializeFails, FetchFails, Crash, Redeploy, LoseWorker, Close
<1>5. ASSUME NEW r \in RootIds, Fail(r) PROVE OnePlace'
  BY <1>1, <1>5 DEF Fail
<1>6. ASSUME NEW r \in RootIds, Ack(r) PROVE OnePlace'
  <2>1. /\ r \in Outstanding
        /\ handled' = handled \cup {MessageAt(inflight[r].tag)}
        /\ inflight' = [inflight EXCEPT ![r] = NoTuple]
        /\ host' = host /\ emittedTo' = emittedTo /\ waiting' = waiting
        /\ log' = log /\ disturbed' = disturbed
    BY <1>6 DEF Ack, Outstanding, brokerVars, IInv, TagInv
  <2>2. /\ Outstanding' = Outstanding \ {r}
        /\ \A s \in Outstanding' : inflight'[s] = inflight[s]
    BY <2>1 DEF Outstanding, IInv, TypeOK
  <2>3. \A o : MessageAt(o)' = MessageAt(o) /\ MessageAt(o).at = o
    BY <2>1 DEF MessageAt
  <2> SUFFICES ASSUME ~disturbed
               PROVE  /\ WaitsAlone(waiting, emittedTo)'
                      /\ FliesAlone'
                      /\ \A m \in handled' : m.at < emittedTo
                      /\ host # NoHost
    BY <2>1 DEF OnePlace
  <2>4. /\ WaitsAlone(waiting, emittedTo) /\ FliesAlone
        /\ \A m \in handled : m.at < emittedTo
        /\ host # NoHost
    BY <2>1 DEF OnePlace
  <2>5. WaitsAlone(waiting, emittedTo)'
    BY <2>1, <2>2, <2>3, <2>4 DEF WaitsAlone
  <2>6. FliesAlone'
    <3> SUFFICES ASSUME NEW s \in Outstanding'
                 PROVE  /\ inflight[s].tag < emittedTo
                        /\ MessageAt(inflight[s].tag) \notin handled'
                        /\ \A t \in Outstanding' : inflight[s].tag = inflight[t].tag => s = t
      BY <2>1, <2>2, <2>3 DEF FliesAlone
    <3>1. s \in Outstanding /\ s # r
      BY <2>2
    <3>2. inflight[s].tag # inflight[r].tag
      BY <3>1, <2>1, <2>4 DEF FliesAlone
    <3>3. MessageAt(inflight[s].tag) # MessageAt(inflight[r].tag)
      BY <3>2, <2>3
    <3> QED BY <3>1, <3>3, <2>1, <2>2, <2>4 DEF FliesAlone
  <2>7. ASSUME NEW m \in handled' PROVE m.at < emittedTo
    <3>1. CASE m \in handled
      BY <3>1, <2>4
    <3>2. CASE m = MessageAt(inflight[r].tag)
      BY <3>2, <2>1, <2>3, <2>4 DEF FliesAlone
    <3> QED BY <3>1, <3>2, <2>1
  <2> QED BY <2>4, <2>5, <2>6, <2>7
<1>7. CASE Deactivate
  BY <1>2, <1>7 DEF Deactivate, brokerVars, historyVars, MessageAt
<1>8. CASE Open(TRUE)
  <2>1. CASE host # NoHost
    BY <1>1, <1>8, <2>1 DEF Open
  <2>2. CASE host = NoHost
    <3>1. /\ inflight' = inflight /\ handled' = handled /\ waiting' = <<>>
          /\ disturbed' = disturbed /\ host' # NoHost
      BY <1>8, <2>2 DEF Open, IInv, TypeOK
    <3> SUFFICES ASSUME ~disturbed PROVE OnePlace'
      BY <3>1 DEF OnePlace
    <3>2. Outstanding = {} /\ handled = {}
      BY <2>2 DEF OnePlace
    <3>3. Outstanding' = {} /\ handled' = {}
      BY <3>1, <3>2 DEF Outstanding
    <3> QED BY <3>1, <3>3 DEF OnePlace, WaitsAlone, FliesAlone
  <2> QED BY <2>1, <2>2
<1>9. CASE Produce
  <2>1. \A o \in Offsets : o < logEnd => log'[o] = log[o]
    BY <1>9, BoundsAssumption DEF Produce, IInv, LogInv, Offsets
  <2> QED BY <1>2, <1>9, <2>1 DEF Produce, managerVars, historyVars, MessageAt
<1>10. CASE \E h \in Hosts \cup {NoHost} : ChangeLeader(h)
  BY <1>2, <1>10 DEF ChangeLeader, brokerVars, managerVars, historyVars, MessageAt
<1>11. CASE UNCHANGED vars
  BY <1>2, <1>11 DEF vars, brokerVars, managerVars, historyVars, MessageAt
<1> QED
  BY <1>3, <1>4, <1>5, <1>6, <1>7, <1>8, <1>9, <1>10, <1>11 DEF Next, Spout, Environment

(* From one place each to the count of places *)
LEMMA OnePlaceCounts ==
  ASSUME IInv, NoOrphanPending, OnePlace
  PROVE  NoDuplicateUndisturbed
<1> SUFFICES ASSUME ~disturbed, host # NoHost,
                    NEW o \in Offsets, origin <= o, o < emittedTo
             PROVE  Cardinality({i \in DOMAIN waiting : waiting[i].msg.at = o})
                      + Cardinality({r \in Outstanding : inflight[r].msg.at = o})
                      + (IF MessageAt(o) \in handled THEN 1 ELSE 0) = 1
  BY DEF NoDuplicateUndisturbed
<1> DEFINE W == {i \in DOMAIN waiting : waiting[i].msg.at = o}
           F == {r \in Outstanding : inflight[r].msg.at = o}
<1>1. WaitsAlone(waiting, emittedTo) /\ FliesAlone
  BY DEF OnePlace
<1>2. \A p : MessageAt(p).at = p
  BY DEF MessageAt
<1>3. W = {i \in DOMAIN waiting : waiting[i].tag = o}
  BY <1>2 DEF IInv, TagInv
<1>4. F = {r \in Outstanding : inflight[r].tag = o}
  BY <1>2 DEF IInv, TagInv, Outstanding
<1>5. o \in pending \/ MessageAt(o) \in handled
  BY DEF IInv, NothingSkipped
<1> HIDE DEF W, F
<1>6. CASE MessageAt(o) \in handled
  <2>1. W = {} /\ F = {}
    BY <1>1, <1>3, <1>4, <1>6 DEF WaitsAlone, FliesAlone
  <2>2. Cardinality(W) = 0 /\ Cardinality(F) = 0
    BY <2>1, FS_EmptySet
  <2> QED BY <2>2, <1>6 DEF W, F
<1>7. CASE o \in Buffered
  <2>1. PICK i \in DOMAIN waiting : waiting[i].tag = o
    BY <1>7 DEF Buffered
  <2>2. W = {i} /\ F = {} /\ MessageAt(o) \notin handled
    BY <2>1, <1>1, <1>3, <1>4 DEF WaitsAlone
  <2>3. Cardinality(W) = 1 /\ Cardinality(F) = 0
    BY <2>2, FS_EmptySet, FS_Singleton
  <2> QED BY <2>2, <2>3 DEF W, F
<1>8. CASE Awaited(o)
  <2>1. PICK r \in Outstanding : inflight[r].tag = o
    BY <1>8 DEF Awaited
  <2>2. F = {r} /\ W = {} /\ MessageAt(o) \notin handled
    BY <2>1, <1>1, <1>3, <1>4 DEF WaitsAlone, FliesAlone
  <2>3. Cardinality(W) = 0 /\ Cardinality(F) = 1
    BY <2>2, FS_EmptySet, FS_Singleton
  <2> QED BY <2>2, <2>3 DEF W, F
<1> QED
  BY <1>5, <1>6, <1>7, <1>8 DEF NoOrphanPending, Awaited

(* A message is emitted at most once, and lost nowhere between the fetch and *)
(* the ack, as long as nothing fails and no manager is lost.                 *)
THEOREM NoneTwice == Spec => []NoDuplicateUndisturbed
<1>1. Init => OnePlace
  BY DEF Init, OnePlace, WaitsAlone, FliesAlone, Outstanding
<1>2. IInv /\ OnePlace /\ [Next]_vars => OnePlace'
  BY NextKeepsOnePlace
<1>3. IInv /\ NoOrphanPending /\ OnePlace => NoDuplicateUndisturbed
  BY OnePlaceCounts
<1> QED
  BY <1>1, <1>2, <1>3, Inductive, PendingIsHeld, PTL DEF Spec

-----------------------------------------------------------------------------
(* The manager, its log and ZooKeeper implement AtLeastOnce: each step is a *)
(* step of the abstract reader, or changes nothing it can see.              *)

(* The abstract reader's state, as ReaderSpec maps it *)
Processed == {m.at : m \in handled}
Saved     == IF CheckpointValid THEN zk.offset ELSE NoEntry

(* The saved position is what it was, is a new one with nothing unprocessed  *)
(* below it, or is given up.                                                *)
LEMMA ReaderProcesses ==
  ASSUME IInv, IInv', UNCHANGED <<logEnd, origin>>,
         handled \subseteq handled',
         Saved' = Saved \/ CheckpointValid'
  PROVE  ReaderSpec!Next
<1> USE BoundsAssumption
<1>1. logEnd \in 0 .. MaxOffset /\ origin \in 0 .. MaxOffset
  BY DEF IInv, TypeOK
<1>2. PICK offsets : offsets = Processed'
  OBVIOUS
<1>3. offsets \in SUBSET (0 .. logEnd - 1) /\ \A o \in offsets : o < logEnd
  <2>1. ASSUME NEW m \in handled' PROVE m.at \in 0 .. logEnd - 1 /\ m.at < logEnd
    BY <1>1 DEF IInv, TypeOK, Message, Offsets, PositionInv
  <2> QED BY <2>1, <1>2 DEF Processed
<1>4. Processed' = Processed \cup offsets
  BY <1>2 DEF Processed
<1>5. ASSUME Saved' = Saved PROVE ReaderSpec!Process(offsets)
  BY <1>3, <1>4, <1>5 DEF ReaderSpec!Process, Processed, Saved
<1>6. ASSUME CheckpointValid' PROVE ReaderSpec!Process(offsets)
  <2>1. zk'.offset \in 0 .. logEnd /\ Saved' = zk'.offset
    BY <1>6, <1>1 DEF IInv, TypeOK, ZkNode, PositionInv, CheckpointValid, Saved
  <2>2. ASSUME NEW p \in origin .. zk'.offset - 1 PROVE p \in Processed'
    <3>1. p \in Offsets /\ origin <= p /\ p < zk'.offset
      BY <2>1, <1>1 DEF Offsets
    <3>2. MessageAt(p)' \in handled'
      BY <3>1, <1>6 DEF IInv, SavedInv
    <3>3. MessageAt(p)'.at = p
      BY DEF MessageAt
    <3> QED BY <3>2, <3>3 DEF Processed
  <2> QED
    BY <2>1, <2>2, <1>3, <1>4 DEF ReaderSpec!Process, Processed, Saved
<1>7. ReaderSpec!Process(offsets)
  BY <1>5, <1>6
<1> QED BY <1>3, <1>7 DEF ReaderSpec!Next

LEMMA SavedUnchanged ==
  ASSUME UNCHANGED <<zk, topology, config>>
  PROVE  Saved' = Saved /\ CheckpointValid' = CheckpointValid
BY DEF Saved, CheckpointValid

(* What is saved after a commit is the offset committed *)
LEMMA CommitSaves ==
  ASSUME IInv, IInv', UNCHANGED topology,
         NEW pend, NEW emitted, pending' = pend, emittedTo' = emitted,
         Commit(pend, emitted) \/ UNCHANGED <<zk, committedTo>>
  PROVE  zk' = zk \/ CheckpointValid'
<1>1. /\ pend \in SUBSET (0 .. MaxOffset) /\ emitted \in 0 .. MaxOffset
      /\ \A p \in pend : p < emitted
  BY DEF IInv, TypeOK, PositionInv
<1>2. CASE Commit(pend, emitted)
  <2>1. ASSUME NEW c \in 0 .. MaxOffset, zk' = [topology |-> topology, offset |-> c]
        PROVE  CheckpointValid'
    <3>1. [topology |-> topology, offset |-> c] \in ZkNode
      BY <2>1 DEF ZkNode, IInv, TypeOK
    <3> QED BY <3>1, <2>1, NoneAssumption DEF CheckpointValid
  <2> QED BY <2>1, <1>1, <1>2, CommitIsBelowPending
<1> QED BY <1>2

LEMMA NextTupleProcesses ==
  ASSUME IInv, IInv', NEW commitDue \in BOOLEAN, NextTuple(commitDue)
  PROVE  ReaderSpec!Next
<1>1. PICK n \in FetchCounts : \E k : Poll(n, k, commitDue)
  BY DEF NextTuple, Emit, EmitNothing
<1>2. PICK k : Poll(n, k, commitDue)
  BY <1>1
<1> DEFINE pend == PendingAfterFill(n) \ {Buffer(n)[i].tag : i \in 1 .. k}
           emitted == EmittedToAfterFill(n)
<1>3. /\ UNCHANGED <<logEnd, origin, topology, config>> /\ handled \subseteq handled'
      /\ pending' = pend /\ emittedTo' = emitted
      /\ Commit(pend, emitted) \/ UNCHANGED <<zk, committedTo>>
  BY <1>2 DEF Poll, brokerVars, deployVars
<1> HIDE DEF pend, emitted
<1>4. zk' = zk \/ CheckpointValid'
  BY <1>3, CommitSaves
<1> QED
  BY <1>3, <1>4, SavedUnchanged, ReaderProcesses

(* A new manager with nothing to resume from is told where to start *)
LEMMA OpenSubscribes ==
  ASSUME IInv, IInv', Open(TRUE)
  PROVE  ReaderSpec!Next
<1>1. UNCHANGED <<logEnd, zk, topology, config, handled>>
  BY DEF Open, brokerVars, deployVars
<1>2. CASE CheckpointValid
  <2>1. origin' = origin
    BY <1>2 DEF Open
  <2> QED BY <2>1, <1>1, SavedUnchanged, ReaderProcesses
<1>3. CASE ~CheckpointValid
  <2>1. PICK o : o = origin'
    OBVIOUS
  <2>2. o \in 0 .. logEnd /\ o <= logEnd
    BY <2>1, <1>1, BoundsAssumption DEF IInv, TypeOK, PositionInv
  <2>3. Saved = NoEntry /\ Saved' = Saved /\ Processed' = Processed
    BY <1>1, <1>3, SavedUnchanged DEF Saved, Processed
  <2>4. ReaderSpec!Subscribe(o)
    BY <2>1, <2>2, <2>3, <1>1 DEF ReaderSpec!Subscribe, Saved, Processed
  <2> QED BY <2>2, <2>4 DEF ReaderSpec!Next
<1> QED BY <1>2, <1>3

(* Another deployment starts from the saved offset too, unless it is forced  *)
(* to start anew.                                                           *)
LEMMA RedeployForgets ==
  ASSUME IInv, IInv', Redeploy
  PROVE  ReaderSpec!Next
<1>1. /\ UNCHANGED <<logEnd, origin, handled, zk, config>>
      /\ topology' = topology + 1
  BY DEF Redeploy, LoseWorker, brokerVars
<1>2. CASE CheckpointValid'
  BY <1>1, <1>2, ReaderProcesses
<1>3. CASE ~CheckpointValid'
  <2>1. Saved' = NoEntry /\ Processed' = Processed
    BY <1>1, <1>3 DEF Saved, Processed
  <2> QED
    BY <2>1, <1>1 DEF ReaderSpec!Next, ReaderSpec!Forget, Saved, Processed
<1> QED BY <1>2, <1>3

LEMMA ProducePublishes ==
  ASSUME Produce
  PROVE  ReaderSpec!Next
<1>1. /\ logEnd' = logEnd + 1
      /\ UNCHANGED <<handled, origin, zk, topology, config>>
  BY DEF Produce, deployVars, historyVars
<1>2. Saved' = Saved /\ Processed' = Processed
  BY <1>1, SavedUnchanged DEF Processed
<1> QED
  BY <1>1, <1>2 DEF ReaderSpec!Next, ReaderSpec!Publish, Saved, Processed

(* Every step is one of the abstract reader's *)
LEMMA NextImplements ==
  ASSUME IInv, IInv', [Next]_vars
  PROVE  ReaderSpec!Next
<1>1. ASSUME UNCHANGED <<logEnd, origin, zk, topology, config>>,
             handled \subseteq handled'
      PROVE  ReaderSpec!Next
  BY <1>1, SavedUnchanged, ReaderProcesses
<1>2. ASSUME NEW commitDue \in BOOLEAN, NextTuple(commitDue) PROVE ReaderSpec!Next
  BY <1>2, NextTupleProcesses
<1>3. CASE DeserializeFails \/ FetchFails \/ Crash
  BY <1>1, <1>3 DEF DeserializeFails, FetchFails, Crash, LoseWorker, brokerVars, deployVars
<1>4. ASSUME NEW r \in RootIds, Ack(r) PROVE ReaderSpec!Next
  BY <1>1, <1>4 DEF Ack, brokerVars, deployVars
<1>5. ASSUME NEW r \in RootIds, Fail(r) PROVE ReaderSpec!Next
  BY <1>1, <1>5 DEF Fail, brokerVars, deployVars
<1>6. CASE Deactivate
  <2>1. /\ UNCHANGED <<logEnd, origin, topology, config, handled, pending, emittedTo>>
        /\ Commit(pending, emittedTo)
    BY <1>6 DEF Deactivate, brokerVars, deployVars, historyVars
  <2>2. zk' = zk \/ CheckpointValid'
    BY <2>1, CommitSaves
  <2> QED BY <2>1, <2>2, SavedUnchanged, ReaderProcesses
<1>7. CASE Close
  BY <1>1, <1>7 DEF Close, brokerVars, deployVars
<1>8. CASE Open(TRUE)
  BY <1>8, OpenSubscribes
<1>9. CASE Produce
  BY <1>9, ProducePublishes
<1>10. ASSUME NEW h \in Hosts \cup {NoHost}, ChangeLeader(h) PROVE ReaderSpec!Next
  BY <1>1, <1>10 DEF ChangeLeader, brokerVars, deployVars, historyVars
<1>11. CASE Redeploy
  BY <1>11, RedeployForgets
<1>12. CASE UNCHANGED vars
  BY <1>1, <1>12 DEF vars, brokerVars, deployVars, historyVars
<1> QED
  BY <1>2, <1>3, <1>4, <1>5, <1>6, <1>7, <1>8, <1>9, <1>10, <1>11, <1>12
     DEF Next, Spout, Environment

(* The spout, its log and ZooKeeper implement the at-least-once reader *)
THEOREM Refinement == Spec => ImplementsAtLeastOnce
<1>1. Init => ReaderSpec!Init
  BY DEF Init, ReaderSpec!Init, CheckpointValid
<1>2. IInv /\ IInv' /\ [Next]_vars => [ReaderSpec!Next]_ReaderSpec!abstractVars
  BY NextImplements
<1> QED
  BY <1>1, <1>2, Inductive, PTL DEF Spec, ImplementsAtLeastOnce, ReaderSpec!Spec
=============================================================================
