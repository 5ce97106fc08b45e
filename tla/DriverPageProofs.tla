--------------------------- MODULE DriverPageProofs ---------------------------
(***************************************************************************)
(* For every set of drivers and every bound, with batches and first pictures *)
(* of every length: what rows, circles and notifications tell of the frames  *)
(* received, and that no interval of the STOMP client is left running.       *)
(***************************************************************************)
EXTENDS DriverPage, FiniteSetTheorems, SequenceTheorems, WellFoundedInduction, TLAPS

(* A page after n frames                                                    *)
Circles(n) == [shown : BOOLEAN, size : 0 .. MaxSteps + 1, color : {"green", "orange", "red"},
               count : 0 .. n, streak : 0 .. n]
Pages(n) == [map : BOOLEAN, rows : Seq(Row), lookup : [Drivers -> Nat],
             timers : [Drivers -> 0 .. n], circles : [Drivers -> Circles(n)],
             stopped : BOOLEAN, notes : Seq(0 .. n), told : 0 .. n, threw : BOOLEAN]
Snaps == {"awaited", "handled", "lost"}
Logs == [Drivers -> Seq(Event)]

(* The row that is looked up is the last one of its driver, and a row that is *)
(* lit has a timer, or a later row took it.                                 *)
LooksUp(x, t, rs, d) ==
  /\ x = None => t = 0 /\ \A j \in 1 .. Len(rs) : rs[j].driver # d
  /\ x # None => /\ x \in 1 .. Len(rs) /\ rs[x].driver = d
                 /\ \A j \in 1 .. Len(rs) : rs[j].driver = d => j <= x
LitUntil(x, t, rs, d, sn) ==
  \A i \in 1 .. Len(rs) :
    rs[i].driver = d /\ rs[i].lit => (t > 0 /\ x = i) \/ (sn = "handled" /\ i < x)
Listed(pg, sn) ==
  \A d \in Drivers :
    /\ LooksUp(pg.lookup[d], pg.timers[d], pg.rows, d)
    /\ LitUntil(pg.lookup[d], pg.timers[d], pg.rows, d, sn)

(* The notifications are numbered up to the last one                         *)
Noted(pg) ==
  /\ Len(pg.notes) = IF pg.told < MaxNotes THEN pg.told + 1 ELSE MaxNotes
  /\ \A i \in 1 .. Len(pg.notes) : pg.notes[i] = pg.told - Len(pg.notes) + i

(* A circle against the events of its driver: the streak below the threshold  *)
(* is the number of violations the history ends with.                       *)
UnsafeIn(l) == {i \in 1 .. Len(l) : l[i].unsafe}
AlertsIn(l) == {i \in 1 .. Len(l) : l[i].alert}
ThreeIn(l) == \E i \in 1 .. Len(l) - 2 : \A j \in i .. i + 2 : l[j].unsafe
EndsWith(l, s) ==
  /\ s <= Len(l) /\ \A j \in Len(l) - s + 1 .. Len(l) : l[j].unsafe
  /\ s < Len(l) => ~l[Len(l) - s].unsafe
Streak(c, l) ==
  /\ c.streak >= Threshold => ThreeIn(l) /\ c.color = "red"
  /\ c.streak < Threshold => ~ThreeIn(l) /\ EndsWith(l, c.streak)
  /\ 0 < c.streak /\ c.streak < Threshold => c.color = "orange"
  /\ c.streak = 0 => c.color = "green"
Tells(c, stop, l) ==
  /\ ~c.shown => c = NoCircle /\ l = <<>>
  /\ kind # "drools" /\ ~stop => c.size = Cardinality(UnsafeIn(l))
  /\ kind = "drools" => /\ c.count = Cardinality(AlertsIn(l))
                        /\ c.color = IF c.count > 0 THEN "red" ELSE "green"
  /\ kind = "pred" => c.count = Cardinality(UnsafeIn(l)) /\ Streak(c, l)
Drawn(pg, lg) ==
  \A d \in Drivers :
    /\ Tells(pg.circles[d], pg.stopped, lg[d])
    /\ pg.circles[d].shown => pg.map

Told(pg, sn, lg, n) ==
  /\ pg \in Pages(n) /\ sn \in Snaps /\ lg \in Logs
  /\ Listed(pg, sn) /\ Noted(pg) /\ Drawn(pg, lg)

Shows == kind \in Kinds /\ events \in 0 .. MaxEvents /\ Told(page, snap, log, events)

(* The inductive invariant                                                  *)
IInv == StompTypeOK /\ IntervalsEnd /\ Shows

-----------------------------------------------------------------------------
LEMMA LogGrows ==
  ASSUME NEW l \in Seq(Event), NEW e \in Event
  PROVE  /\ Append(l, e) \in Seq(Event) /\ Len(Append(l, e)) = Len(l) + 1 /\ Len(l) \in Nat
         /\ Append(l, e)[Len(l) + 1] = e
         /\ \A i \in 1 .. Len(l) : Append(l, e)[i] = l[i]
         /\ \A i \in 1 .. Len(l) : l[i] \in Event
<1>1. \A i \in 1 .. Len(l) : l[i] \in Event
  BY ElementOfSeq
<1>2. QED
  BY <1>1, AppendProperties, LenProperties

LEMMA CountsFinite ==
  ASSUME NEW l \in Seq(Event)
  PROVE  /\ IsFiniteSet(UnsafeIn(l)) /\ Cardinality(UnsafeIn(l)) \in Nat
         /\ IsFiniteSet(AlertsIn(l)) /\ Cardinality(AlertsIn(l)) \in Nat
<1>1. Len(l) \in Nat
  BY LenProperties
<1>2. IsFiniteSet(1 .. Len(l))
  BY <1>1, FS_Interval
<1>3. UnsafeIn(l) \subseteq 1 .. Len(l) /\ AlertsIn(l) \subseteq 1 .. Len(l)
  BY DEF UnsafeIn, AlertsIn
<1>4. IsFiniteSet(UnsafeIn(l)) /\ IsFiniteSet(AlertsIn(l))
  BY <1>2, <1>3, FS_Subset
<1>5. QED
  BY <1>4, FS_CardinalityType

LEMMA CountsGrow ==
  ASSUME NEW l \in Seq(Event), NEW e \in Event
  PROVE  /\ e.unsafe => Cardinality(UnsafeIn(Append(l, e))) = Cardinality(UnsafeIn(l)) + 1
         /\ ~e.unsafe => Cardinality(UnsafeIn(Append(l, e))) = Cardinality(UnsafeIn(l))
         /\ e.alert => Cardinality(AlertsIn(Append(l, e))) = Cardinality(AlertsIn(l)) + 1
         /\ ~e.alert => Cardinality(AlertsIn(Append(l, e))) = Cardinality(AlertsIn(l))
<1> DEFINE m == Append(l, e)
           k == Len(l) + 1
<1>1. /\ Len(m) = k /\ Len(l) \in Nat /\ m[k] = e
      /\ \A i \in 1 .. Len(l) : m[i] = l[i]
  BY LogGrows
<1>2. k \notin UnsafeIn(l) /\ k \notin AlertsIn(l)
  BY <1>1 DEF UnsafeIn, AlertsIn
<1> HIDE DEF m, k
<1>3. 1 .. k = (1 .. Len(l)) \cup {k} /\ k = Len(l) + 1
  BY <1>1 DEF k
<1>4. /\ e.unsafe => UnsafeIn(m) = UnsafeIn(l) \cup {k}
      /\ ~e.unsafe => UnsafeIn(m) = UnsafeIn(l)
  BY <1>1, <1>3 DEF UnsafeIn
<1>5. /\ e.alert => AlertsIn(m) = AlertsIn(l) \cup {k}
      /\ ~e.alert => AlertsIn(m) = AlertsIn(l)
  BY <1>1, <1>3 DEF AlertsIn
<1>6. QED
  BY <1>2, <1>4, <1>5, CountsFinite, FS_AddElement DEF m

(* Three violations in a row, or the streak they are counted by               *)
LEMMA StreakGrows ==
  ASSUME NEW l \in Seq(Event), NEW e \in Event
  PROVE  /\ ThreeIn(l) => ThreeIn(Append(l, e))
         /\ \A s \in 0 .. 2 : ~ThreeIn(l) /\ EndsWith(l, s) /\ e.unsafe =>
              IF s = 2 THEN ThreeIn(Append(l, e))
              ELSE ~ThreeIn(Append(l, e)) /\ EndsWith(Append(l, e), s + 1)
         /\ ~ThreeIn(l) /\ ~e.unsafe => ~ThreeIn(Append(l, e)) /\ EndsWith(Append(l, e), 0)
<1> DEFINE m == Append(l, e)
           n == Len(l)
<1>1. /\ Len(m) = n + 1 /\ n \in Nat /\ m[n + 1] = e
      /\ \A i \in 1 .. n : m[i] = l[i]
  BY LogGrows
<1> HIDE DEF m
<1>2. ThreeIn(l) => ThreeIn(m)
  <2> SUFFICES ASSUME ThreeIn(l) PROVE ThreeIn(m)
    OBVIOUS
  <2>1. PICK i \in 1 .. n - 2 : \A j \in i .. i + 2 : l[j].unsafe
    BY DEF ThreeIn
  <2>2. i \in 1 .. Len(m) - 2 /\ \A j \in i .. i + 2 : j \in 1 .. n
    BY <1>1
  <2>3. \A j \in i .. i + 2 : m[j].unsafe
    BY <1>1, <2>1, <2>2
  <2>4. QED
    BY <2>2, <2>3 DEF ThreeIn
<1>3. ThreeIn(m) /\ ~ThreeIn(l) => n >= 2 /\ m[n - 1].unsafe /\ m[n].unsafe /\ m[n + 1].unsafe
  <2> SUFFICES ASSUME ThreeIn(m), ~ThreeIn(l)
               PROVE  n >= 2 /\ m[n - 1].unsafe /\ m[n].unsafe /\ m[n + 1].unsafe
    OBVIOUS
  <2>1. PICK i \in 1 .. n - 1 : \A j \in i .. i + 2 : m[j].unsafe
    BY <1>1 DEF ThreeIn
  <2>2. i \notin 1 .. n - 2
    <3> SUFFICES ASSUME i \in 1 .. n - 2
                 PROVE  \A j \in i .. i + 2 : l[j].unsafe
      BY DEF ThreeIn
    <3>1. \A j \in i .. i + 2 : j \in 1 .. n /\ m[j] = l[j]
      BY <1>1
    <3>2. QED
      BY <2>1, <3>1
  <2>3. i = n - 1
    BY <1>1, <2>2
  <2>4. QED
    BY <1>1, <2>1, <2>3
<1>4. ASSUME NEW s \in 0 .. 2, ~ThreeIn(l), EndsWith(l, s), e.unsafe
      PROVE  IF s = 2 THEN ThreeIn(m) ELSE ~ThreeIn(m) /\ EndsWith(m, s + 1)
  <2>1. CASE s = 2
    <3>1. n >= 2 /\ l[n - 1].unsafe /\ l[n].unsafe
      BY <1>1, <1>4, <2>1 DEF EndsWith
    <3>2. \A j \in n - 1 .. n - 1 + 2 : m[j].unsafe
      BY <1>1, <1>4, <3>1
    <3>3. n - 1 \in 1 .. Len(m) - 2
      BY <1>1, <3>1
    <3>4. QED
      BY <2>1, <3>2, <3>3 DEF ThreeIn
  <2>2. CASE s # 2
    <3>1. EndsWith(m, s + 1)
      BY <1>1, <1>4 DEF EndsWith
    <3>2. ~ThreeIn(m)
      BY <1>1, <1>3, <1>4, <2>2 DEF EndsWith
    <3>3. QED
      BY <2>2, <3>1, <3>2
  <2>3. QED
    BY <2>1, <2>2
<1>5. ~ThreeIn(l) /\ ~e.unsafe => ~ThreeIn(m) /\ EndsWith(m, 0)
  BY <1>1, <1>3 DEF EndsWith
<1>6. QED
  BY <1>2, <1>4, <1>5 DEF m

-----------------------------------------------------------------------------
(* Frames that come later leave room for more                               *)
LEMMA RoomGrows ==
  ASSUME NEW n \in Nat, NEW m \in Nat, n <= m
  PROVE  /\ Pages(n) \subseteq Pages(m) /\ Circles(n) \subseteq Circles(m)
<1>1. 0 .. n \subseteq 0 .. m /\ Seq(0 .. n) \subseteq Seq(0 .. m)
  <2>1. 0 .. n \subseteq 0 .. m
    OBVIOUS
  <2>2. QED
    BY <2>1
<1>2. Circles(n) \subseteq Circles(m)
  BY <1>1 DEF Circles
<1>3. QED
  BY <1>1, <1>2 DEF Pages

(* What the list of a page and its notes keep, when the rest changes          *)
SameList(q, pg) == q.rows = pg.rows /\ q.lookup = pg.lookup /\ q.timers = pg.timers
SameNotes(q, pg) == q.notes = pg.notes /\ q.told = pg.told
SameDrawing(q, pg) == q.circles = pg.circles /\ q.stopped = pg.stopped

(* A highlight, at the row that is looked up, and its timer                  *)
Lit(row) == [row EXCEPT !.lit = TRUE]
Dark(row) == [row EXCEPT !.lit = FALSE]
LEMMA LightTurns ==
  ASSUME NEW rs \in Seq(Row), NEW x \in 1 .. Len(rs),
         NEW r, NEW q, q = [rs EXCEPT ![x] = r],
         r = Lit(rs[x]) \/ r = Dark(rs[x])
  PROVE  /\ q \in Seq(Row) /\ Len(q) = Len(rs) /\ q[x] = r /\ r \in Row
         /\ \A i \in 1 .. Len(rs) : q[i].driver = rs[i].driver
         /\ \A i \in 1 .. Len(rs) : i # x => q[i] = rs[i]
<1>1. \A i \in 1 .. Len(rs) : rs[i] \in Row
  BY ElementOfSeq
<1>2. r \in Row /\ r.driver = rs[x].driver
  BY <1>1 DEF Row, Lit, Dark
<1>3. /\ q \in Seq(Row) /\ Len(q) = Len(rs)
      /\ \A i \in 1 .. Len(rs) : q[i] = IF i = x THEN r ELSE rs[i]
  BY <1>2, ExceptSeq
<1>4. QED
  BY <1>2, <1>3

LEMMA RowComes ==
  ASSUME NEW rs \in Seq(Row), NEW d \in Drivers
  PROVE  LET q == Append(rs, [driver |-> d, lit |-> FALSE]) IN
         /\ q \in Seq(Row) /\ Len(q) = Len(rs) + 1 /\ Len(rs) \in Nat
         /\ \A i \in 1 .. Len(rs) : q[i] = rs[i]
         /\ q[Len(rs) + 1].driver = d /\ ~q[Len(rs) + 1].lit
<1> DEFINE r == [driver |-> d, lit |-> FALSE]
<1>1. r \in Row /\ r.driver = d /\ ~r.lit
  BY DEF Row
<1> HIDE DEF r
<1>2. QED
  BY <1>1, AppendProperties, LenProperties DEF r

LEMMA ProcessListed ==
  ASSUME NEW n \in Nat, NEW pg \in Pages(n + 1), pg.timers \in [Drivers -> 0 .. n],
         NEW sn, NEW e \in Event, Listed(pg, sn)
  PROVE  /\ Process(pg, e) \in Pages(n + 1) /\ Listed(Process(pg, e), sn)
         /\ SameNotes(Process(pg, e), pg) /\ SameDrawing(Process(pg, e), pg)
         /\ Process(pg, e).map = pg.map /\ Process(pg, e).threw = pg.threw
<1> DEFINE d == e.driver
           x == pg.lookup[d]
           q == Process(pg, e)
<1>1. /\ d \in Drivers /\ pg.rows \in Seq(Row) /\ pg.lookup \in [Drivers -> Nat]
      /\ pg.timers \in [Drivers -> 0 .. n] /\ x \in Nat /\ pg \in Pages(n + 1)
  BY DEF Event, Pages
<1>2. CASE x = None
  <2>1. q = AddRow(pg, d)
    BY <1>2 DEF Process
  <2>2. /\ q.rows = Append(pg.rows, [driver |-> d, lit |-> FALSE])
        /\ q.lookup = [pg.lookup EXCEPT ![d] = Len(pg.rows) + 1]
        /\ q.timers = pg.timers
        /\ SameNotes(q, pg) /\ SameDrawing(q, pg) /\ q.map = pg.map /\ q.threw = pg.threw
    BY <1>1, <2>1 DEF AddRow, Pages, SameNotes, SameDrawing
  <2>3. /\ q.rows \in Seq(Row) /\ Len(q.rows) = Len(pg.rows) + 1 /\ Len(pg.rows) \in Nat
        /\ \A i \in 1 .. Len(pg.rows) : q.rows[i] = pg.rows[i]
        /\ q.rows[Len(pg.rows) + 1].driver = d /\ ~q.rows[Len(pg.rows) + 1].lit
    BY <1>1, <2>2, RowComes
  <2>4. q \in Pages(n + 1)
    <3> DEFINE r == Append(pg.rows, [driver |-> d, lit |-> FALSE])
               l == [pg.lookup EXCEPT ![d] = Len(pg.rows) + 1]
    <3>1. q = [pg EXCEPT !.rows = r, !.lookup = l]
      BY <1>1, <2>1 DEF AddRow, Pages
    <3>2. r \in Seq(Row) /\ l \in [Drivers -> Nat]
      BY <1>1, <2>2, <2>3
    <3> HIDE DEF r, l, q
    <3>3. QED
      BY <1>1, <3>1, <3>2 DEF Pages
  <2>5. ASSUME NEW b \in Drivers
        PROVE  /\ LooksUp(q.lookup[b], q.timers[b], q.rows, b)
               /\ LitUntil(q.lookup[b], q.timers[b], q.rows, b, sn)
    <3>1. CASE b = d
      <4>1. q.lookup[b] = Len(pg.rows) + 1 /\ q.timers[b] = 0
        BY <1>1, <1>2, <2>2, <3>1 DEF Listed, LooksUp
      <4>2. \A i \in 1 .. Len(pg.rows) : q.rows[i].driver # b
        BY <1>1, <1>2, <2>3, <3>1 DEF Listed, LooksUp
      <4>3. QED
        BY <2>3, <3>1, <4>1, <4>2 DEF LooksUp, LitUntil, None
    <3>2. CASE b # d
      <4>1. q.lookup[b] = pg.lookup[b] /\ q.timers[b] = pg.timers[b]
        BY <1>1, <2>2, <3>2
      <4>2. LooksUp(pg.lookup[b], pg.timers[b], pg.rows, b)
        BY DEF Listed
      <4>3. LitUntil(pg.lookup[b], pg.timers[b], pg.rows, b, sn)
        BY DEF Listed
      <4> HIDE DEF q
      <4>4. \A j \in 1 .. Len(q.rows) : q.rows[j].driver = b =>
              j \in 1 .. Len(pg.rows) /\ q.rows[j] = pg.rows[j]
        BY <2>3, <3>2
      <4>5. q.lookup[b] = None => LooksUp(q.lookup[b], q.timers[b], q.rows, b)
        BY <4>1, <4>2, <4>4 DEF LooksUp
      <4>6. q.lookup[b] # None => LooksUp(q.lookup[b], q.timers[b], q.rows, b)
        <5>1. \A j \in 1 .. Len(pg.rows) : j \in 1 .. Len(q.rows) /\ q.rows[j] = pg.rows[j]
          BY <2>3
        <5>2. QED
          BY <4>1, <4>2, <4>4, <5>1 DEF LooksUp
      <4>7. LooksUp(q.lookup[b], q.timers[b], q.rows, b)
        BY <4>5, <4>6
      <4>8. LitUntil(q.lookup[b], q.timers[b], q.rows, b, sn)
        BY <4>1, <4>3, <4>4 DEF LitUntil
      <4>9. QED
        BY <4>7, <4>8
    <3>3. QED
      BY <3>1, <3>2
  <2>6. QED
    BY <2>2, <2>4, <2>5 DEF Listed
<1>3. CASE x # None /\ kind # "truck" /\ ~e.unsafe
  BY <1>1, <1>3 DEF Process, SameNotes, SameDrawing
<1>4. CASE x # None /\ ~(kind # "truck" /\ ~e.unsafe)
  <2>1. q = [pg EXCEPT !.rows[x].lit = TRUE, !.timers[d] = @ + 1]
    BY <1>4 DEF Process
  <2>2. x \in 1 .. Len(pg.rows) /\ pg.rows[x].driver = d
    BY <1>1, <1>4 DEF Listed, LooksUp
  <2> HIDE DEF x, q
  <2>3. /\ q.rows = [pg.rows EXCEPT ![x].lit = TRUE]
        /\ q.timers = [pg.timers EXCEPT ![d] = @ + 1]
        /\ q.lookup = pg.lookup
        /\ SameNotes(q, pg) /\ SameDrawing(q, pg) /\ q.map = pg.map /\ q.threw = pg.threw
    BY <1>1, <2>1 DEF Pages, SameNotes, SameDrawing
  <2>4. /\ q.rows \in Seq(Row) /\ Len(q.rows) = Len(pg.rows)
        /\ \A i \in 1 .. Len(pg.rows) : q.rows[i].driver = pg.rows[i].driver
        /\ \A i \in 1 .. Len(pg.rows) : i # x => q.rows[i].lit = pg.rows[i].lit
    <3> DEFINE rs == pg.rows
               qs == q.rows
               r == Lit(rs[x])
    <3>1. rs \in Seq(Row) /\ x \in 1 .. Len(rs) /\ qs = [rs EXCEPT ![x] = r]
      BY <1>1, <2>2, <2>3 DEF Lit
    <3> HIDE DEF rs, qs, r
    <3>2. r = Lit(rs[x])
      BY DEF r
    <3>3. /\ qs \in Seq(Row) /\ Len(qs) = Len(rs) /\ qs[x] = r /\ r \in Row
          /\ \A i \in 1 .. Len(rs) : qs[i].driver = rs[i].driver
          /\ \A i \in 1 .. Len(rs) : i # x => qs[i] = rs[i]
      <4>1. r = Lit(rs[x]) \/ r = Dark(rs[x])
        BY <3>2
      <4>2. QED
        BY <3>1, <4>1, LightTurns
    <3>4. QED
      BY <3>3 DEF rs, qs
  <2>5. q.timers \in [Drivers -> 0 .. n + 1] /\ q.timers[d] > 0
    BY <1>1, <2>3
  <2>6. q \in Pages(n + 1)
    BY <1>1, <2>1, <2>3, <2>4, <2>5 DEF Pages
  <2>7. ASSUME NEW b \in Drivers
        PROVE  /\ LooksUp(q.lookup[b], q.timers[b], q.rows, b)
               /\ LitUntil(q.lookup[b], q.timers[b], q.rows, b, sn)
    <3>1. LooksUp(pg.lookup[b], pg.timers[b], pg.rows, b)
      BY DEF Listed
    <3>2. LitUntil(pg.lookup[b], pg.timers[b], pg.rows, b, sn)
      BY DEF Listed
    <3>3. q.lookup[b] = pg.lookup[b] /\ (b # d => q.timers[b] = pg.timers[b])
      BY <1>1, <2>3
    <3>4. b = d => pg.lookup[b] = x /\ x # None
      BY <1>4 DEF x
    <3>5. LooksUp(q.lookup[b], q.timers[b], q.rows, b)
      BY <2>4, <3>1, <3>3, <3>4 DEF LooksUp
    <3>6. LitUntil(q.lookup[b], q.timers[b], q.rows, b, sn)
      BY <2>2, <2>4, <2>5, <3>2, <3>3, <3>4 DEF LitUntil
    <3>7. QED
      BY <3>5, <3>6
  <2>8. QED
    BY <2>3, <2>6, <2>7 DEF Listed, q
<1>5. QED
  BY <1>2, <1>3, <1>4

(* The last row that a first picture makes for a driver                      *)
LEMMA HasLeast ==
  ASSUME NEW S \in SUBSET Nat, S # {}
  PROVE  \E x \in S : \A y \in S : x <= y
<1>1. PICK x \in S : \A y \in S : ~ (<<y, x>> \in OpToRel(<, Nat))
  BY NatLessThanWellFounded, WFMin
<1>2. ASSUME NEW y \in S, y < x PROVE FALSE
  <2>1. <<y, x>> \in Nat \X Nat /\ <<y, x>>[1] < <<y, x>>[2]
    BY <1>2
  <2>2. QED
    BY <1>1, <2>1 DEF OpToRel
<1>3. \A y \in S : x <= y
  BY <1>2
<1>4. QED
  BY <1>3

LastOf(ds, d) ==
  CHOOSE i \in 1 .. Len(ds) : ds[i] = d /\ \A j \in i + 1 .. Len(ds) : ds[j] # d
LEMMA LastExists ==
  ASSUME NEW ds \in Seq(Drivers), NEW d, \E i \in 1 .. Len(ds) : ds[i] = d
  PROVE  /\ LastOf(ds, d) \in 1 .. Len(ds) /\ ds[LastOf(ds, d)] = d
         /\ \A j \in LastOf(ds, d) + 1 .. Len(ds) : ds[j] # d
<1> DEFINE n == Len(ds)
           S == {k \in 0 .. n : k < n /\ ds[n - k] = d}
<1>1. n \in Nat
  BY LenProperties
<1>2. S \in SUBSET Nat /\ S # {}
  <2>1. PICK i \in 1 .. n : ds[i] = d
    OBVIOUS
  <2>2. n - i \in 0 .. n /\ n - i < n /\ n - (n - i) = i
    BY <1>1
  <2>3. n - i \in S
    BY <2>1, <2>2
  <2>4. QED
    BY <1>1, <2>3
<1>3. PICK k \in S : \A y \in S : k <= y
  BY <1>2, HasLeast
<1>4. n - k \in 1 .. n /\ ds[n - k] = d
  BY <1>1, <1>3
<1>5. ASSUME NEW j \in n - k + 1 .. n, ds[j] = d PROVE FALSE
  <2>1. n - j \in 0 .. n /\ n - j < n /\ n - (n - j) = j /\ n - j < k
    BY <1>1, <1>3
  <2>2. n - j \in S
    BY <1>5, <2>1
  <2>3. QED
    BY <1>1, <1>3, <2>1, <2>2
<1>6. \E i \in 1 .. Len(ds) : ds[i] = d /\ \A j \in i + 1 .. Len(ds) : ds[j] # d
  BY <1>4, <1>5
<1>7. QED
  BY <1>6 DEF LastOf

LEMMA RowsJoined ==
  ASSUME NEW a \in Seq(Row), NEW b \in Seq(Row)
  PROVE  /\ a \o b \in Seq(Row) /\ Len(a \o b) = Len(a) + Len(b)
         /\ \A i \in 1 .. Len(a) : (a \o b)[i] = a[i]
         /\ \A i \in 1 .. Len(b) : (a \o b)[Len(a) + i] = b[i]
<1>1. /\ Len(a) \in Nat /\ Len(b) \in Nat
      /\ a \o b \in Seq(Row) /\ Len(a \o b) = Len(a) + Len(b)
      /\ \A i \in 1 .. Len(a) + Len(b) :
           (a \o b)[i] = IF i <= Len(a) THEN a[i] ELSE b[i - Len(a)]
  BY ConcatProperties, LenProperties
<1>2. \A i \in 1 .. Len(a) : i \in 1 .. Len(a) + Len(b) /\ i <= Len(a)
  BY <1>1
<1>3. \A i \in 1 .. Len(b) : /\ Len(a) + i \in 1 .. Len(a) + Len(b)
                             /\ ~(Len(a) + i <= Len(a)) /\ Len(a) + i - Len(a) = i
  BY <1>1
<1>4. QED
  BY <1>1, <1>2, <1>3

LEMMA LoadListed ==
  ASSUME NEW n \in Nat, NEW pg \in Pages(n), NEW sn \in Snaps, NEW ds \in Seq(Drivers),
         Listed(pg, sn)
  PROVE  /\ AddRows(pg, ds) \in Pages(n) /\ Listed(AddRows(pg, ds), "handled")
         /\ SameNotes(AddRows(pg, ds), pg) /\ SameDrawing(AddRows(pg, ds), pg)
         /\ AddRows(pg, ds).map = pg.map /\ AddRows(pg, ds).threw = pg.threw
<1> DEFINE q == AddRows(pg, ds)
           m == Len(pg.rows)
           more == [i \in 1 .. Len(ds) |-> [driver |-> ds[i], lit |-> FALSE]]
           rs == pg.rows \o more
           lk == [d \in Drivers |-> IF \E i \in 1 .. Len(ds) : ds[i] = d
                                    THEN m + LastOf(ds, d) ELSE pg.lookup[d]]
<1>1. /\ pg.rows \in Seq(Row) /\ pg.lookup \in [Drivers -> Nat] /\ m \in Nat
      /\ pg.timers \in [Drivers -> 0 .. n] /\ Len(ds) \in Nat
  BY LenProperties DEF Pages
<1>2. q = [pg EXCEPT !.rows = rs, !.lookup = lk]
  BY <1>1 DEF AddRows, LastOf, Pages
<1>3. /\ more \in Seq(Row) /\ Len(more) = Len(ds)
      /\ \A i \in 1 .. Len(ds) : more[i].driver = ds[i] /\ ~more[i].lit
  <2>1. \A i \in 1 .. Len(ds) : ds[i] \in Drivers
    BY ElementOfSeq
  <2>2. more \in [1 .. Len(ds) -> Row]
    BY <2>1 DEF Row
  <2>3. QED
    BY <1>1, <2>2
<1> HIDE DEF more
<1>4. /\ rs \in Seq(Row) /\ Len(rs) = m + Len(ds)
      /\ \A i \in 1 .. m : rs[i] = pg.rows[i]
      /\ \A i \in 1 .. Len(ds) : rs[m + i].driver = ds[i] /\ ~rs[m + i].lit
  <2>1. /\ rs \in Seq(Row) /\ Len(rs) = m + Len(more)
        /\ \A i \in 1 .. m : rs[i] = pg.rows[i]
        /\ \A i \in 1 .. Len(more) : rs[m + i] = more[i]
    BY <1>1, <1>3, RowsJoined
  <2>2. QED
    BY <1>3, <2>1
<1>5. ASSUME NEW d \in Drivers
      PROVE  /\ (\E i \in 1 .. Len(ds) : ds[i] = d) =>
                  /\ lk[d] \in m + 1 .. m + Len(ds) /\ rs[lk[d]].driver = d
                  /\ \A j \in 1 .. Len(rs) : rs[j].driver = d => j <= lk[d]
             /\ (\A i \in 1 .. Len(ds) : ds[i] # d) =>
                  /\ lk[d] = pg.lookup[d]
                  /\ \A j \in m + 1 .. Len(rs) : rs[j].driver # d
  <2>1. \A j \in m + 1 .. Len(rs) : j - m \in 1 .. Len(ds) /\ rs[j].driver = ds[j - m]
    <3>1. \A j \in m + 1 .. Len(rs) : j - m \in 1 .. Len(ds) /\ m + (j - m) = j
      BY <1>1, <1>4
    <3>2. QED
      BY <1>4, <3>1
  <2>2. CASE \E i \in 1 .. Len(ds) : ds[i] = d
    <3>1. lk[d] = m + LastOf(ds, d) /\ LastOf(ds, d) \in 1 .. Len(ds)
      BY <2>2, LastExists
    <3>2. rs[lk[d]].driver = d
      BY <1>4, <2>2, <3>1, LastExists, ZenonT(60)
    <3>3. \A j \in LastOf(ds, d) + 1 .. Len(ds) : ds[j] # d
      BY <2>2, LastExists
    <3>4. ASSUME NEW j \in 1 .. Len(rs), rs[j].driver = d, j > lk[d] PROVE FALSE
      <4>1. j \in m + 1 .. Len(rs) /\ j - m \in LastOf(ds, d) + 1 .. Len(ds)
        <5>1. j > m + LastOf(ds, d) /\ j <= Len(rs) /\ j \in Nat
          BY <3>1, <3>4
        <5>2. LastOf(ds, d) \in 1 .. Len(ds) /\ Len(rs) = m + Len(ds) /\ m \in Nat /\ Len(ds) \in Nat
          BY <1>1, <1>4, <3>1
        <5>3. QED
          BY <5>1, <5>2
      <4>2. QED
        BY <2>1, <3>3, <3>4, <4>1
    <3>5. lk[d] \in m + 1 .. m + Len(ds)
      <4>1. m \in Nat /\ Len(ds) \in Nat
        BY <1>1
      <4>2. QED
        BY <3>1, <4>1
    <3>6. \A j \in 1 .. Len(rs) : rs[j].driver = d => j <= lk[d]
      BY <1>1, <1>4, <3>4, <3>5
    <3>7. QED
      BY <2>2, <3>2, <3>5, <3>6
  <2>3. CASE \A i \in 1 .. Len(ds) : ds[i] # d
    BY <2>1, <2>3
  <2>4. QED
    BY <2>2, <2>3
<1>6. lk \in [Drivers -> Nat]
  <2>1. \A d \in Drivers : lk[d] \in Nat
    <3> SUFFICES ASSUME NEW d \in Drivers PROVE lk[d] \in Nat
      OBVIOUS
    <3>1. CASE \E i \in 1 .. Len(ds) : ds[i] = d
      BY <1>1, <1>5, <3>1
    <3>2. CASE \A i \in 1 .. Len(ds) : ds[i] # d
      BY <1>1, <1>5, <3>2
    <3>3. QED
      BY <3>1, <3>2
  <2>2. QED
    BY <2>1
<1> HIDE DEF lk, rs, q
<1>7. /\ q.rows = rs /\ q.lookup = lk /\ q.timers = pg.timers /\ q \in Pages(n)
      /\ SameNotes(q, pg) /\ SameDrawing(q, pg) /\ q.map = pg.map /\ q.threw = pg.threw
  BY <1>1, <1>2, <1>4, <1>6 DEF Pages, SameNotes, SameDrawing
<1>8. ASSUME NEW d \in Drivers
      PROVE  LooksUp(lk[d], pg.timers[d], rs, d) /\ LitUntil(lk[d], pg.timers[d], rs, d, "handled")
  <2>1. LooksUp(pg.lookup[d], pg.timers[d], pg.rows, d)
    BY DEF Listed
  <2>2. LitUntil(pg.lookup[d], pg.timers[d], pg.rows, d, sn)
    BY DEF Listed
  <2>3. CASE \E i \in 1 .. Len(ds) : ds[i] = d
    <3>1. /\ lk[d] \in m + 1 .. Len(rs) /\ rs[lk[d]].driver = d
          /\ \A j \in 1 .. Len(rs) : rs[j].driver = d => j <= lk[d]
      BY <1>4, <1>5, <2>3
    <3>2. LooksUp(lk[d], pg.timers[d], rs, d)
      BY <1>1, <1>4, <3>1 DEF LooksUp, None
    <3>3. \A i \in m + 1 .. Len(rs) : ~rs[i].lit
      <4>1. \A i \in m + 1 .. Len(rs) : i - m \in 1 .. Len(ds) /\ m + (i - m) = i
        BY <1>1, <1>4
      <4>2. QED
        BY <1>4, <4>1
    <3>4. \A i \in 1 .. Len(rs) : rs[i].lit => i < lk[d]
      BY <1>1, <1>4, <3>1, <3>3
    <3>5. QED
      BY <3>2, <3>4 DEF LitUntil
  <2>4. CASE \A i \in 1 .. Len(ds) : ds[i] # d
    <3>1. lk[d] = pg.lookup[d] /\ \A j \in m + 1 .. Len(rs) : rs[j].driver # d
      BY <1>5, <2>4
    <3>2. \A j \in 1 .. Len(rs) : rs[j].driver = d => j \in 1 .. m /\ rs[j] = pg.rows[j]
      BY <1>1, <1>4, <3>1
    <3>3. \A j \in 1 .. m : j \in 1 .. Len(rs) /\ rs[j] = pg.rows[j]
      BY <1>1, <1>4
    <3>5. lk[d] = None => LooksUp(lk[d], pg.timers[d], rs, d)
      BY <2>1, <3>1, <3>2 DEF LooksUp
    <3>6. lk[d] # None => LooksUp(lk[d], pg.timers[d], rs, d)
      BY <2>1, <3>1, <3>2, <3>3 DEF LooksUp
    <3>4. LitUntil(lk[d], pg.timers[d], rs, d, "handled")
      BY <1>1, <1>4, <2>2, <3>1, <3>2 DEF LitUntil
    <3>7. QED
      BY <3>4, <3>5, <3>6
  <2>5. QED
    BY <2>3, <2>4
<1>9. QED
  BY <1>7, <1>8 DEF Listed, q

-----------------------------------------------------------------------------
(* A notification takes the place of the oldest                              *)
NumberedTo(l, t) == \A i \in 1 .. Len(l) : l[i] = t - Len(l) + i
LEMMA TailNumbered ==
  ASSUME NEW S, NEW l \in Seq(S), NEW t \in Nat, l # <<>>, t + 1 \in S, NumberedTo(l, t)
  PROVE  LET m == Append(Tail(l), t + 1) IN
         m \in Seq(S) /\ Len(m) = Len(l) /\ NumberedTo(m, t + 1)
<1> DEFINE m == Append(Tail(l), t + 1)
           k == Len(l)
<1>1. k \in Nat /\ k > 0
  BY LenProperties, EmptySeq
<1>2. /\ Tail(l) \in Seq(S) /\ Len(Tail(l)) = k - 1
      /\ \A i \in 1 .. k - 1 : Tail(l)[i] = l[i + 1]
  BY <1>1, HeadTailProperties
<1>3. /\ m \in Seq(S) /\ Len(m) = k /\ m[k] = t + 1
      /\ \A i \in 1 .. k - 1 : m[i] = l[i + 1]
  BY <1>1, <1>2, AppendProperties
<1> HIDE DEF m
<1>4. ASSUME NEW i \in 1 .. k PROVE m[i] = t + 1 - k + i
  <2>1. CASE i = k
    BY <1>1, <1>3, <2>1
  <2>2. CASE i \in 1 .. k - 1
    <3>1. i + 1 \in 1 .. k
      BY <1>1, <2>2
    <3>2. l[i + 1] = t - k + (i + 1)
      BY <3>1 DEF NumberedTo
    <3>3. t - k + (i + 1) = t + 1 - k + i
      BY <1>1
    <3>4. QED
      BY <1>3, <2>2, <3>2, <3>3
  <2>3. QED
    BY <1>1, <2>1, <2>2
<1>5. NumberedTo(m, t + 1)
  BY <1>3, <1>4 DEF NumberedTo
<1>6. QED
  BY <1>3, <1>5 DEF m

LEMMA NextNumbered ==
  ASSUME NEW S, NEW l \in Seq(S), NEW t \in Nat, t + 1 \in S, NumberedTo(l, t)
  PROVE  LET m == Append(l, t + 1) IN
         m \in Seq(S) /\ Len(m) = Len(l) + 1 /\ NumberedTo(m, t + 1)
<1> DEFINE m == Append(l, t + 1)
           k == Len(l)
<1>1. k \in Nat
  BY LenProperties
<1>2. /\ m \in Seq(S) /\ Len(m) = k + 1 /\ m[k + 1] = t + 1
      /\ \A i \in 1 .. k : m[i] = l[i]
  BY <1>1, AppendProperties
<1> HIDE DEF m
<1>3. ASSUME NEW i \in 1 .. k + 1 PROVE m[i] = t + 1 - (k + 1) + i
  <2>1. CASE i = k + 1
    BY <1>1, <1>2, <2>1
  <2>2. CASE i \in 1 .. k
    <3>1. l[i] = t - k + i
      BY <2>2 DEF NumberedTo
    <3>2. t - k + i = t + 1 - (k + 1) + i
      BY <1>1
    <3>3. QED
      BY <1>2, <2>2, <3>1, <3>2
  <2>3. QED
    BY <1>1, <2>1, <2>2
<1>4. QED
  BY <1>2, <1>3 DEF NumberedTo, m

LEMMA PushNoted ==
  ASSUME NEW n \in Nat, NEW pg \in Pages(n), Noted(pg)
  PROVE  LET q == Push(pg, pg.told + 1) IN
         /\ q \in Pages(n + 1) /\ Noted(q) /\ SameList(q, pg) /\ SameDrawing(q, pg)
         /\ q.map = pg.map /\ q.threw = pg.threw
<1> DEFINE q == Push(pg, pg.told + 1)
           old == pg.notes
           new == IF Len(old) = MaxNotes THEN Append(Tail(old), pg.told + 1)
                  ELSE Append(old, pg.told + 1)
<1>1. /\ pg \in Pages(n + 1) /\ pg.told \in Nat /\ pg.told + 1 \in 0 .. n + 1
      /\ old \in Seq(0 .. n + 1) /\ MaxNotes \in Nat /\ MaxNotes > 0
  <2>1. pg \in Pages(n + 1) /\ pg.told \in 0 .. n
    BY RoomGrows DEF Pages
  <2>2. old \in Seq(0 .. n + 1)
    BY <2>1 DEF Pages
  <2>3. QED
    BY <2>1, <2>2, PageAssumption
<1>2. q = [pg EXCEPT !.notes = new, !.told = pg.told + 1]
  BY <1>1 DEF Push, Pages
<1>3. Len(old) = (IF pg.told < MaxNotes THEN pg.told + 1 ELSE MaxNotes) /\ NumberedTo(old, pg.told)
  BY DEF Noted, NumberedTo
<1>4. /\ new \in Seq(0 .. n + 1) /\ NumberedTo(new, pg.told + 1)
      /\ Len(new) = IF pg.told + 1 < MaxNotes THEN pg.told + 1 + 1 ELSE MaxNotes
  <2>1. CASE Len(old) = MaxNotes
    <3>1. new = Append(Tail(old), pg.told + 1) /\ old # <<>>
      BY <1>1, <2>1, EmptySeq
    <3> HIDE DEF new, old
    <3>2. new \in Seq(0 .. n + 1) /\ Len(new) = Len(old) /\ NumberedTo(new, pg.told + 1)
      BY <1>1, <1>3, <3>1, TailNumbered
    <3>3. pg.told + 1 >= MaxNotes
      BY <1>1, <1>3, <2>1
    <3>4. QED
      BY <1>1, <2>1, <3>2, <3>3
  <2>2. CASE Len(old) # MaxNotes
    <3>1. new = Append(old, pg.told + 1)
      BY <2>2
    <3> HIDE DEF new, old
    <3>2. new \in Seq(0 .. n + 1) /\ Len(new) = Len(old) + 1 /\ NumberedTo(new, pg.told + 1)
      BY <1>1, <1>3, <3>1, NextNumbered
    <3>3. Len(old) = pg.told + 1 /\ pg.told + 1 < MaxNotes
      BY <1>1, <1>3, <2>2
    <3>4. QED
      BY <1>1, <3>2, <3>3
  <2>3. QED
    BY <2>1, <2>2
<1> HIDE DEF new, q
<1>5. q \in Pages(n + 1) /\ q.notes = new /\ q.told = pg.told + 1
  BY <1>1, <1>2, <1>4 DEF Pages
<1>6. SameList(q, pg) /\ SameDrawing(q, pg) /\ q.map = pg.map /\ q.threw = pg.threw
  BY <1>1, <1>2 DEF Pages, SameList, SameDrawing
<1>7. Noted(q)
  BY <1>4, <1>5 DEF Noted, NumberedTo
<1>8. QED
  BY <1>5, <1>6, <1>7 DEF q

-----------------------------------------------------------------------------
(* One circle drawn anew, perhaps the last that grows                        *)
With(pg, d, c, s) == [pg EXCEPT !.circles = [pg.circles EXCEPT ![d] = c], !.stopped = s]
Draws(q, pg, n, lg) ==
  /\ q \in Pages(n) /\ SameList(q, pg) /\ SameNotes(q, pg) /\ q.map = pg.map
  /\ Drawn(q, lg)

LEMMA WithDrawn ==
  ASSUME NEW n \in Nat, NEW pg \in Pages(n), NEW d \in Drivers, NEW c \in Circles(n),
         NEW s \in BOOLEAN, NEW lg \in Logs, NEW l, Drawn(pg, lg),
         pg.stopped => s, Tells(c, s, l), c.shown => pg.map
  PROVE  Draws(With(pg, d, c, s), pg, n, [lg EXCEPT ![d] = l])
<1> DEFINE cs == [pg.circles EXCEPT ![d] = c]
           q == With(pg, d, c, s)
           m == [lg EXCEPT ![d] = l]
<1>1. pg.circles \in [Drivers -> Circles(n)] /\ lg \in [Drivers -> Seq(Event)]
  BY DEF Pages, Logs
<1>2. cs \in [Drivers -> Circles(n)] /\ cs[d] = c /\ \A b \in Drivers : b # d => cs[b] = pg.circles[b]
  BY <1>1
<1>3. m[d] = l /\ \A b \in Drivers : b # d => m[b] = lg[b]
  BY <1>1
<1>4. q = [pg EXCEPT !.circles = cs, !.stopped = s]
  BY DEF With
<1> HIDE DEF cs, q, m
<1>5. /\ q \in Pages(n) /\ SameList(q, pg) /\ SameNotes(q, pg) /\ q.map = pg.map
      /\ q.circles = cs /\ q.stopped = s
  BY <1>2, <1>4 DEF Pages, SameList, SameNotes
<1>6. ASSUME NEW b \in Drivers
      PROVE  Tells(q.circles[b], q.stopped, m[b]) /\ (q.circles[b].shown => q.map)
  <2>1. CASE b = d
    BY <1>2, <1>3, <1>5, <2>1
  <2>2. CASE b # d
    <3>1. Tells(pg.circles[b], pg.stopped, lg[b]) /\ (pg.circles[b].shown => pg.map)
      BY DEF Drawn
    <3>2. Tells(pg.circles[b], s, lg[b])
      BY <3>1 DEF Tells
    <3>3. QED
      BY <1>2, <1>3, <1>5, <2>2, <3>1, <3>2
  <2>3. QED
    BY <2>1, <2>2
<1>7. QED
  BY <1>5, <1>6 DEF Draws, Drawn, q, m

(* A circle that was not shown is as new, and one just shown has no history    *)
LEMMA NothingYet ==
  /\ <<>> \in Seq(Event) /\ Len(<<>>) = 0
  /\ Cardinality(UnsafeIn(<<>>)) = 0 /\ Cardinality(AlertsIn(<<>>)) = 0
  /\ ~ThreeIn(<<>>) /\ EndsWith(<<>>, 0)
<1>1. <<>> \in Seq(Event) /\ Len(<<>>) = 0
  BY EmptySeq
<1>2. UnsafeIn(<<>>) = {} /\ AlertsIn(<<>>) = {}
  BY <1>1 DEF UnsafeIn, AlertsIn
<1>3. ~ThreeIn(<<>>) /\ EndsWith(<<>>, 0)
  BY <1>1 DEF ThreeIn, EndsWith
<1>4. QED
  BY <1>1, <1>2, <1>3, FS_EmptySet

Shown == [NoCircle EXCEPT !.shown = TRUE]
LEMMA ShownTells ==
  ASSUME NEW n \in Nat, NEW s \in BOOLEAN
  PROVE  Shown \in Circles(n) /\ Tells(Shown, s, <<>>)
<1>1. /\ NoCircle \in Circles(n) /\ NoCircle.size = 0 /\ NoCircle.color = "green"
      /\ NoCircle.count = 0 /\ NoCircle.streak = 0
  BY PageAssumption DEF NoCircle, Circles
<1>2. /\ Shown \in Circles(n) /\ Shown.shown = TRUE /\ Shown.size = 0 /\ Shown.color = "green"
      /\ Shown.count = 0 /\ Shown.streak = 0
  BY <1>1 DEF Shown, Circles
<1>3. Streak(Shown, <<>>)
  BY <1>2, NothingYet DEF Streak, Threshold
<1>4. QED
  BY <1>2, <1>3, NothingYet DEF Tells

(* The first event of a driver only shows its circle, if there is a map        *)
LEMMA ShowDraws ==
  ASSUME NEW n \in Nat, NEW pg \in Pages(n), NEW d \in Drivers, NEW lg \in Logs,
         Drawn(pg, lg), ~pg.circles[d].shown
  PROVE  Draws(Show(pg, d), pg, n + 1, lg)
<1>1. /\ pg \in Pages(n + 1) /\ n + 1 \in Nat /\ pg.stopped \in BOOLEAN
      /\ pg.circles \in [Drivers -> Circles(n + 1)] /\ lg \in [Drivers -> Seq(Event)]
  <2>1. pg \in Pages(n + 1)
    BY RoomGrows
  <2>2. QED
    BY <2>1 DEF Pages, Logs
<1>2. pg.circles[d] = NoCircle /\ lg[d] = <<>>
  BY DEF Drawn, Tells
<1>3. CASE pg.map
  <2>1. Show(pg, d) = With(pg, d, Shown, pg.stopped)
    <3>1. Show(pg, d) = [pg EXCEPT !.circles = [pg.circles EXCEPT ![d] = Shown]]
      BY <1>2, <1>3 DEF Show, Shown
    <3>2. QED
      BY <1>1, <3>1 DEF With, Pages
  <2>2. [lg EXCEPT ![d] = <<>>] = lg
    BY <1>1, <1>2
  <2>3. Draws(With(pg, d, Shown, pg.stopped), pg, n + 1, [lg EXCEPT ![d] = <<>>])
    BY <1>1, <1>3, ShownTells, WithDrawn
  <2>4. QED
    BY <2>1, <2>2, <2>3
<1>4. CASE ~pg.map
  <2>1. Show(pg, d) = [pg EXCEPT !.threw = TRUE]
    BY <1>4 DEF Show
  <2>2. /\ Show(pg, d) \in Pages(n + 1) /\ SameList(Show(pg, d), pg)
        /\ SameNotes(Show(pg, d), pg) /\ SameDrawing(Show(pg, d), pg)
        /\ Show(pg, d).map = pg.map
    BY <1>1, <2>1 DEF Pages, SameList, SameNotes, SameDrawing
  <2>3. QED
    BY <2>2 DEF Draws, Drawn, SameDrawing
<1>5. QED
  BY <1>3, <1>4

-----------------------------------------------------------------------------
(* What the history of a driver becomes                                      *)
Logged(pg, lg, e) ==
  IF pg.circles[e.driver].shown THEN [lg EXCEPT ![e.driver] = Append(@, e)] ELSE lg

LEMMA EventSeen ==
  ASSUME NEW n \in Nat, NEW pg \in Pages(n), NEW e \in Event, NEW lg \in Logs, Drawn(pg, lg)
  PROVE  /\ e.driver \in Drivers /\ e.unsafe \in BOOLEAN /\ e.alert \in BOOLEAN
         /\ pg \in Pages(n + 1) /\ pg.stopped \in BOOLEAN
         /\ pg.circles \in [Drivers -> Circles(n)] /\ pg.circles[e.driver] \in Circles(n)
         /\ pg.circles[e.driver] \in Circles(n + 1)
         /\ lg[e.driver] \in Seq(Event) /\ Append(lg[e.driver], e) \in Seq(Event)
         /\ Logged(pg, lg, e) \in Logs
         /\ Tells(pg.circles[e.driver], pg.stopped, lg[e.driver])
         /\ pg.circles[e.driver].shown => pg.map
<1>1. e.driver \in Drivers /\ e.unsafe \in BOOLEAN /\ e.alert \in BOOLEAN
  BY DEF Event
<1>2. pg \in Pages(n + 1) /\ Circles(n) \subseteq Circles(n + 1)
  BY RoomGrows
<1>3. lg[e.driver] \in Seq(Event) /\ Append(lg[e.driver], e) \in Seq(Event)
  BY <1>1, LogGrows DEF Logs
<1>4. Logged(pg, lg, e) \in Logs
  BY <1>1, <1>3 DEF Logs, Logged
<1>5. pg.stopped \in BOOLEAN /\ pg.circles \in [Drivers -> Circles(n)]
  BY DEF Pages
<1>6. QED
  BY <1>1, <1>2, <1>3, <1>4, <1>5 DEF Drawn

(* An event that draws a circle anew, or leaves it                           *)
LEMMA Redrawn ==
  ASSUME NEW n \in Nat, NEW pg \in Pages(n), NEW e \in Event, NEW lg \in Logs, Drawn(pg, lg),
         pg.circles[e.driver].shown, NEW c \in Circles(n + 1), NEW s \in BOOLEAN,
         pg.stopped => s, Tells(c, s, Append(lg[e.driver], e))
  PROVE  Draws(With(pg, e.driver, c, s), pg, n + 1, Logged(pg, lg, e))
<1>1. /\ e.driver \in Drivers /\ pg \in Pages(n + 1) /\ n + 1 \in Nat
      /\ c.shown => pg.map
  BY EventSeen
<1>2. Logged(pg, lg, e) = [lg EXCEPT ![e.driver] = Append(lg[e.driver], e)]
  BY DEF Logged
<1>3. Draws(With(pg, e.driver, c, s), pg, n + 1,
            [lg EXCEPT ![e.driver] = Append(lg[e.driver], e)])
  BY <1>1, WithDrawn, Zenon
<1>4. QED
  BY <1>2, <1>3

LEMMA LeftAlone ==
  ASSUME NEW n \in Nat, NEW pg \in Pages(n), NEW e \in Event, NEW lg \in Logs, Drawn(pg, lg),
         pg.circles[e.driver].shown,
         Tells(pg.circles[e.driver], pg.stopped, Append(lg[e.driver], e))
  PROVE  Draws(pg, pg, n + 1, Logged(pg, lg, e))
<1>1. /\ e.driver \in Drivers /\ pg.stopped \in BOOLEAN /\ pg.circles[e.driver] \in Circles(n + 1)
      /\ pg \in Pages(n + 1) /\ pg.circles \in [Drivers -> Circles(n)]
  BY EventSeen
<1>2. With(pg, e.driver, pg.circles[e.driver], pg.stopped) = pg
  BY <1>1 DEF With, Pages
<1>3. QED
  BY <1>1, <1>2, Redrawn

Stops(pg, d) == pg.stopped \/ pg.circles[d].size > MaxSteps
Grown(c, s) == [c EXCEPT !.size = IF s THEN @ ELSE @ + 1]
LEMMA GrowWith ==
  ASSUME NEW n \in Nat, NEW pg \in Pages(n), NEW d \in Drivers
  PROVE  LET c == pg.circles[d]
             s == Stops(pg, d)
         IN  /\ Grow(pg, d) = With(pg, d, Grown(c, s), s)
             /\ Grown(c, s) \in Circles(n) /\ s \in BOOLEAN /\ (pg.stopped => s)
             /\ Grown(c, s).shown = c.shown /\ Grown(c, s).color = c.color
             /\ Grown(c, s).count = c.count /\ Grown(c, s).streak = c.streak
             /\ s => Grown(c, s).size = c.size
             /\ ~s => Grown(c, s).size = c.size + 1
<1> DEFINE c == pg.circles[d]
           s == Stops(pg, d)
<1>1. pg.circles \in [Drivers -> Circles(n)] /\ c \in Circles(n) /\ pg.stopped \in BOOLEAN
  BY DEF Pages
<1>2. s \in BOOLEAN /\ (pg.stopped => s) /\ (~s => c.size <= MaxSteps)
  BY <1>1, PageAssumption DEF Stops, Circles
<1>3. Grow(pg, d) = With(pg, d, Grown(c, s), s)
  BY <1>1 DEF Grow, With, Grown, Stops, Pages
<1> HIDE DEF s, c
<1>4. /\ Grown(c, s).shown = c.shown /\ Grown(c, s).color = c.color
      /\ Grown(c, s).count = c.count /\ Grown(c, s).streak = c.streak
      /\ s => Grown(c, s).size = c.size
      /\ ~s => Grown(c, s).size = c.size + 1
  BY <1>1 DEF Grown, Circles
<1>5. Grown(c, s) \in Circles(n)
  BY <1>1, <1>2, PageAssumption DEF Grown, Circles
<1>6. QED
  BY <1>2, <1>3, <1>4, <1>5 DEF s, c

LEMMA TruckDraws ==
  ASSUME NEW n \in Nat, NEW pg \in Pages(n), NEW e \in Event, NEW lg \in Logs, Drawn(pg, lg),
         kind = "truck"
  PROVE  Draws(RenderTruck(pg, e), pg, n + 1, Logged(pg, lg, e))
<1> DEFINE d == e.driver
           c == pg.circles[d]
           s == Stops(pg, d)
<1>1. /\ d \in Drivers /\ lg[d] \in Seq(Event) /\ Circles(n) \subseteq Circles(n + 1)
      /\ Tells(c, pg.stopped, lg[d])
  BY EventSeen, RoomGrows
<1>2. CASE ~c.shown
  BY <1>1, <1>2, ShowDraws DEF RenderTruck, Logged
<1>3. CASE c.shown /\ e.unsafe
  <2>1. Cardinality(UnsafeIn(Append(lg[d], e))) = Cardinality(UnsafeIn(lg[d])) + 1
    BY <1>1, <1>3, CountsGrow
  <2>2. Tells(Grown(c, s), s, Append(lg[d], e))
    BY <1>1, <1>3, <2>1, GrowWith DEF Tells
  <2>3. RenderTruck(pg, e) = With(pg, d, Grown(c, s), s)
    BY <1>1, <1>3, GrowWith DEF RenderTruck
  <2>4. Grown(c, s) \in Circles(n + 1) /\ s \in BOOLEAN /\ (pg.stopped => s)
    BY <1>1, GrowWith
  <2>5. QED
    BY <1>3, <2>2, <2>3, <2>4, Redrawn
<1>4. CASE c.shown /\ ~e.unsafe
  <2>1. Cardinality(UnsafeIn(Append(lg[d], e))) = Cardinality(UnsafeIn(lg[d]))
    BY <1>1, <1>4, CountsGrow
  <2>2. Tells(c, pg.stopped, Append(lg[d], e))
    BY <1>1, <1>4, <2>1 DEF Tells
  <2>3. RenderTruck(pg, e) = pg
    BY <1>4 DEF RenderTruck
  <2>4. QED
    BY <1>4, <2>2, <2>3, LeftAlone
<1>5. QED
  BY <1>2, <1>3, <1>4

Alarmed(c) ==
  [c EXCEPT !.count = @ + 1, !.color = "red", !.size = IF @ < MaxSteps THEN @ + 1 ELSE @]
LEMMA CircleAlarmed ==
  ASSUME NEW n \in Nat, NEW c \in Circles(n)
  PROVE  /\ Alarmed(c) \in Circles(n + 1) /\ Alarmed(c).shown = c.shown
         /\ Alarmed(c).color = "red" /\ Alarmed(c).count = c.count + 1 /\ c.count \in Nat
<1> DEFINE k == c.count + 1
           z == IF c.size < MaxSteps THEN c.size + 1 ELSE c.size
<1>1. c.count \in Nat /\ k \in 0 .. n + 1 /\ z \in 0 .. MaxSteps + 1
  BY PageAssumption DEF Circles
<1>2. Alarmed(c) = [c EXCEPT !.count = k, !.color = "red", !.size = z]
  BY DEF Alarmed, Circles
<1> HIDE DEF k, z
<1>3. Alarmed(c) \in Circles(n + 1)
  <2>1. c \in Circles(n + 1)
    BY RoomGrows
  <2>2. QED
    BY <1>1, <1>2, <2>1 DEF Circles
<1>4. Alarmed(c).shown = c.shown /\ Alarmed(c).color = "red" /\ Alarmed(c).count = k
  BY <1>2 DEF Circles
<1>5. QED
  BY <1>1, <1>3, <1>4 DEF k

LEMMA DroolsDraws ==
  ASSUME NEW n \in Nat, NEW pg \in Pages(n), NEW e \in Event, NEW lg \in Logs, Drawn(pg, lg),
         kind = "drools"
  PROVE  Draws(RenderDrools(pg, e), pg, n + 1, Logged(pg, lg, e))
<1> DEFINE d == e.driver
           c == pg.circles[d]
<1>1. /\ d \in Drivers /\ lg[d] \in Seq(Event) /\ c \in Circles(n)
      /\ pg.circles \in [Drivers -> Circles(n)] /\ pg.stopped \in BOOLEAN
      /\ Tells(c, pg.stopped, lg[d])
  BY EventSeen
<1>2. CASE ~c.shown
  <2>1. [c EXCEPT !.count = 0] = c
    BY <1>1, <1>2 DEF Tells, Circles, NoCircle
  <2>2. [pg EXCEPT !.circles[d].count = 0] = pg
    BY <1>1, <2>1 DEF Pages
  <2>3. RenderDrools(pg, e) = Show(pg, d)
    BY <1>2, <2>2 DEF RenderDrools
  <2>4. QED
    BY <1>1, <1>2, <2>3, ShowDraws DEF Logged
<1>3. CASE c.shown /\ e.alert
  <2>1. Cardinality(AlertsIn(Append(lg[d], e))) = Cardinality(AlertsIn(lg[d])) + 1
    BY <1>1, <1>3, CountsGrow
  <2>2. /\ Alarmed(c) \in Circles(n + 1) /\ Alarmed(c).shown /\ Alarmed(c).color = "red"
        /\ Alarmed(c).count = c.count + 1 /\ c.count \in Nat
    BY <1>1, <1>3, CircleAlarmed
  <2>3. Tells(Alarmed(c), pg.stopped, Append(lg[d], e))
    BY <1>1, <1>3, <2>1, <2>2 DEF Tells
  <2>4. RenderDrools(pg, e) = With(pg, d, Alarmed(c), pg.stopped)
    <3>1. RenderDrools(pg, e) = [pg EXCEPT !.circles = [pg.circles EXCEPT ![d] = Alarmed(c)]]
      BY <1>3 DEF RenderDrools, Alarmed
    <3>2. QED
      BY <1>1, <3>1 DEF With, Pages
  <2>5. QED
    BY <1>1, <1>3, <2>2, <2>3, <2>4, Redrawn
<1>4. CASE c.shown /\ ~e.alert
  <2>1. Cardinality(AlertsIn(Append(lg[d], e))) = Cardinality(AlertsIn(lg[d]))
    BY <1>1, <1>4, CountsGrow
  <2>2. Tells(c, pg.stopped, Append(lg[d], e))
    BY <1>1, <1>4, <2>1 DEF Tells
  <2>3. RenderDrools(pg, e) = pg
    BY <1>4 DEF RenderDrools
  <2>4. QED
    BY <1>4, <2>2, <2>3, LeftAlone
<1>5. QED
  BY <1>2, <1>3, <1>4

Broken(c) == [c EXCEPT !.streak = 0, !.color = "green"]
LEMMA CircleBroken ==
  ASSUME NEW n \in Nat, NEW c \in Circles(n)
  PROVE  /\ Broken(c) \in Circles(n + 1) /\ Broken(c).shown = c.shown
         /\ Broken(c).size = c.size /\ Broken(c).count = c.count
         /\ Broken(c).streak = 0 /\ Broken(c).color = "green"
<1>1. c \in Circles(n + 1)
  BY RoomGrows
<1>2. 0 \in 0 .. n + 1 /\ "green" \in {"green", "orange", "red"}
  OBVIOUS
<1>3. Broken(c) \in Circles(n + 1)
  BY <1>1, <1>2 DEF Broken, Circles
<1>4. QED
  BY <1>3 DEF Broken, Circles

LEMMA CircleViolated ==
  ASSUME NEW n \in Nat, NEW c \in Circles(n)
  PROVE  /\ Violated(c) \in Circles(n + 1) /\ Violated(c).shown = c.shown
         /\ Violated(c).size = c.size /\ Violated(c).count = c.count + 1
         /\ Violated(c).streak = c.streak + 1
         /\ c.streak + 1 >= Threshold => Violated(c).color = "red"
         /\ c.streak + 1 < Threshold => Violated(c).color = "orange"
<1> DEFINE k == c.count + 1
           t == c.streak + 1
           h == IF c.streak + 1 >= Threshold THEN "red" ELSE "orange"
<1>1. /\ k \in 0 .. n + 1 /\ t \in 0 .. n + 1 /\ h \in {"green", "orange", "red"}
      /\ t >= Threshold => h = "red"
      /\ t < Threshold => h = "orange"
  BY DEF Circles, Threshold
<1>2. Violated(c) = [c EXCEPT !.streak = t, !.count = k, !.color = h]
  BY DEF Violated, Circles
<1> HIDE DEF k, t, h
<1>3. Violated(c) \in Circles(n + 1)
  BY <1>1, <1>2 DEF Circles
<1>4. /\ Violated(c).shown = c.shown /\ Violated(c).size = c.size
      /\ Violated(c).count = k /\ Violated(c).streak = t /\ Violated(c).color = h
  BY <1>2 DEF Circles
<1>5. QED
  BY <1>1, <1>3, <1>4 DEF k, t

Painted(pg, d, c) == [pg EXCEPT !.circles = [pg.circles EXCEPT ![d] = c]]
LEMMA PredPaints ==
  ASSUME NEW n \in Nat, NEW pg \in Pages(n), NEW e \in Event,
         pg.circles[e.driver].shown, e.unsafe
  PROVE  LET d == e.driver
             s == Stops(pg, d)
         IN  RenderPred(pg, e) = With(pg, d, Violated(Grown(pg.circles[d], s)), s)
<1> DEFINE d == e.driver
           s == Stops(pg, d)
           g == Grown(pg.circles[d], s)
           w == With(pg, d, g, s)
           v == Violated(g)
<1>1. d \in Drivers /\ pg.circles \in [Drivers -> Circles(n)]
  BY DEF Event, Pages
<1>2. Grow(pg, d) = w /\ g \in Circles(n) /\ s \in BOOLEAN
  BY <1>1, GrowWith
<1> HIDE DEF g, s
<1>3. w.circles = [pg.circles EXCEPT ![d] = g] /\ w.circles[d] = g
  BY <1>1, <1>2 DEF With, Pages
<1>4. RenderPred(pg, e) = Painted(w, d, Violated(w.circles[d]))
  BY <1>2 DEF RenderPred, Painted
<1>5. RenderPred(pg, e) = Painted(w, d, v)
  BY <1>3, <1>4
<1> HIDE DEF v
<1>6. Painted(w, d, v) = With(pg, d, v, s)
  BY <1>1, <1>2, <1>3 DEF Painted, With, Pages
<1>7. QED
  BY <1>5, <1>6 DEF g, s, v

LEMMA PredDraws ==
  ASSUME NEW n \in Nat, NEW pg \in Pages(n), NEW e \in Event, NEW lg \in Logs, Drawn(pg, lg),
         kind = "pred"
  PROVE  Draws(RenderPred(pg, e), pg, n + 1, Logged(pg, lg, e))
<1> DEFINE d == e.driver
           c == pg.circles[d]
           s == Stops(pg, d)
           g == Grown(c, s)
           l == lg[d]
           m == Append(l, e)
<1>1. /\ d \in Drivers /\ l \in Seq(Event) /\ c \in Circles(n) /\ c \in Circles(n + 1)
      /\ pg.circles \in [Drivers -> Circles(n)] /\ pg.stopped \in BOOLEAN
      /\ Tells(c, pg.stopped, l) /\ c.count \in Nat /\ c.streak \in Nat
  BY EventSeen DEF Circles
<1>2. CASE ~c.shown
  BY <1>1, <1>2, ShowDraws DEF RenderPred, Logged
<1>3. CASE c.shown /\ e.unsafe
  <2> DEFINE v == Violated(g)
  <2>1. Cardinality(UnsafeIn(m)) = Cardinality(UnsafeIn(l)) + 1
    BY <1>1, <1>3, CountsGrow
  <2>2. /\ Grow(pg, d) = With(pg, d, g, s) /\ g \in Circles(n)
        /\ s \in BOOLEAN /\ (pg.stopped => s)
        /\ g.shown = c.shown /\ g.count = c.count /\ g.streak = c.streak
        /\ s => g.size = c.size
        /\ ~s => g.size = c.size + 1
    BY <1>1, GrowWith
  <2> HIDE DEF g, s
  <2>3. /\ v \in Circles(n + 1) /\ v.shown = g.shown /\ v.size = g.size /\ v.count = g.count + 1
        /\ v.streak = c.streak + 1
        /\ c.streak + 1 >= Threshold => v.color = "red"
        /\ c.streak + 1 < Threshold => v.color = "orange"
    <3>1. /\ v \in Circles(n + 1) /\ v.shown = g.shown /\ v.size = g.size
          /\ v.count = g.count + 1 /\ v.streak = g.streak + 1
          /\ g.streak + 1 >= Threshold => v.color = "red"
          /\ g.streak + 1 < Threshold => v.color = "orange"
      BY <2>2, CircleViolated
    <3>2. QED
      BY <2>2, <3>1
  <2>4. RenderPred(pg, e) = With(pg, d, v, s)
    BY <1>3, PredPaints DEF g, s
  <2> HIDE DEF v, m
  <2>5. Streak(v, m)
    <3>1. ThreeIn(l) => ThreeIn(m)
      BY <1>1, StreakGrows DEF m
    <3>2. CASE c.streak >= Threshold
      BY <1>1, <1>3, <2>3, <3>1, <3>2 DEF Tells, Streak, Threshold
    <3>3. CASE c.streak < Threshold
      <4>1. c.streak \in 0 .. 2 /\ ~ThreeIn(l) /\ EndsWith(l, c.streak)
        BY <1>1, <3>3 DEF Tells, Streak, Threshold
      <4>2. IF c.streak = 2 THEN ThreeIn(m) ELSE ~ThreeIn(m) /\ EndsWith(m, c.streak + 1)
        BY <1>1, <1>3, <4>1, StreakGrows DEF m
      <4>3. CASE c.streak = 2
        BY <2>3, <4>2, <4>3 DEF Streak, Threshold
      <4>4. CASE c.streak # 2
        BY <2>3, <4>1, <4>2, <4>4 DEF Streak, Threshold
      <4>5. QED
        BY <4>3, <4>4
    <3>4. QED
      BY <1>1, <3>2, <3>3 DEF Threshold
  <2>6. Tells(v, s, m)
    BY <1>1, <1>3, <2>1, <2>2, <2>3, <2>5 DEF Tells
  <2>7. QED
    BY <1>3, <2>2, <2>3, <2>4, <2>6, Redrawn DEF m
<1>4. CASE c.shown /\ ~e.unsafe
  <2>1. Cardinality(UnsafeIn(m)) = Cardinality(UnsafeIn(l))
    BY <1>1, <1>4, CountsGrow
  <2>2. CASE c.streak < Threshold
    <3>1. /\ Broken(c) \in Circles(n + 1) /\ Broken(c).shown /\ Broken(c).streak = 0
          /\ Broken(c).color = "green" /\ Broken(c).count = c.count /\ Broken(c).size = c.size
      BY <1>1, <1>4, CircleBroken
    <3>2. ~ThreeIn(m) /\ EndsWith(m, 0)
      BY <1>1, <1>4, <2>2, StreakGrows DEF Tells, Streak
    <3>3. Tells(Broken(c), pg.stopped, m)
      BY <1>1, <1>4, <2>1, <3>1, <3>2 DEF Tells, Streak, Threshold
    <3>4. RenderPred(pg, e) = With(pg, d, Broken(c), pg.stopped)
      <4>1. RenderPred(pg, e) = [pg EXCEPT !.circles = [pg.circles EXCEPT ![d] = Broken(c)]]
        BY <1>1, <1>4, <2>2 DEF RenderPred, Broken, Pages
      <4>2. QED
        BY <1>1, <4>1 DEF With, Pages
    <3>5. QED
      BY <1>1, <1>4, <3>1, <3>3, <3>4, Redrawn
  <2>3. CASE c.streak >= Threshold
    <3>1. Tells(c, pg.stopped, m)
      BY <1>1, <1>4, <2>1, <2>3, StreakGrows DEF Tells, Streak, Threshold
    <3>2. RenderPred(pg, e) = pg
      BY <1>1, <1>4, <2>3 DEF RenderPred, Threshold
    <3>3. QED
      BY <1>4, <3>1, <3>2, LeftAlone
  <2>4. QED
    BY <1>1, <2>2, <2>3 DEF Threshold
<1>5. QED
  BY <1>2, <1>3, <1>4

-----------------------------------------------------------------------------
(* Any event leaves a page that tells what it received                        *)
LEMMA RenderTold ==
  ASSUME NEW n \in Nat, NEW pg \in Pages(n), NEW sn \in Snaps, NEW e \in Event, NEW lg \in Logs,
         kind \in Kinds, Listed(pg, sn), Noted(pg), Drawn(pg, lg)
  PROVE  Told(Render(pg, e), sn, Logged(pg, lg, e), n + 1)
<1> DEFINE r == IF kind = "truck" THEN RenderTruck(pg, e)
                ELSE IF kind = "drools" THEN RenderDrools(pg, e) ELSE RenderPred(pg, e)
           q == Process(r, e)
           l == Logged(pg, lg, e)
<1>1. Draws(r, pg, n + 1, l)
  BY TruckDraws, DroolsDraws, PredDraws DEF Kinds
<1>2. l \in Logs
  BY EventSeen
<1>3. Render(pg, e) = r \/ Render(pg, e) = q
  BY DEF Render
<1> HIDE DEF r, l
<1>4. /\ r \in Pages(n + 1) /\ r.timers \in [Drivers -> 0 .. n]
      /\ Listed(r, sn) /\ Noted(r) /\ Drawn(r, l)
  <2>1. r \in Pages(n + 1) /\ r.rows = pg.rows /\ r.lookup = pg.lookup /\ r.timers = pg.timers
        /\ r.notes = pg.notes /\ r.told = pg.told /\ Drawn(r, l)
    BY <1>1 DEF Draws, SameList, SameNotes
  <2>2. r.timers \in [Drivers -> 0 .. n]
    BY <2>1 DEF Pages
  <2>3. Listed(r, sn)
    BY <2>1 DEF Listed
  <2>4. Noted(r)
    BY <2>1 DEF Noted
  <2>5. QED
    BY <2>1, <2>2, <2>3, <2>4
<1>5. Told(r, sn, l, n + 1)
  BY <1>2, <1>4 DEF Told
<1>6. Told(q, sn, l, n + 1)
  <2>1. /\ q \in Pages(n + 1) /\ Listed(q, sn)
        /\ SameNotes(q, r) /\ SameDrawing(q, r) /\ q.map = r.map
    BY <1>4, ProcessListed
  <2> HIDE DEF q
  <2>2. Noted(q)
    BY <1>4, <2>1 DEF Noted, SameNotes
  <2>3. Drawn(q, l)
    BY <1>4, <2>1 DEF Drawn, SameDrawing
  <2>4. QED
    BY <1>2, <2>1, <2>2, <2>3 DEF Told
<1>7. QED
  BY <1>3, <1>5, <1>6 DEF l

LEMMA FrameKinds ==
  ASSUME NEW f \in Frames
  PROVE  \/ f[1] = "load" /\ f[2] \in Seq(Drivers)
         \/ f[1] = "event" /\ f[2] \in Event
         \/ f[1] = "infraction" /\ f[2] \in Drivers
         \/ f[1] = "note"
<1>1. CASE f \in {<<"load", ds>> : ds \in UNION {[1 .. n -> Drivers] : n \in 0 .. MaxLoad}}
  <2>1. PICK ds \in UNION {[1 .. n -> Drivers] : n \in 0 .. MaxLoad} : f = <<"load", ds>>
    BY <1>1
  <2>2. PICK k \in 0 .. MaxLoad : ds \in [1 .. k -> Drivers]
    OBVIOUS
  <2>3. ds \in Seq(Drivers)
    BY <2>2, PageAssumption
  <2>4. QED
    BY <2>1, <2>3
<1>2. CASE f \in {<<"event", e>> : e \in {x \in Event : x.alert => kind = "drools"}}
  BY <1>2
<1>3. CASE f \in (IF kind = "truck" THEN {<<"infraction", d>> : d \in Drivers} ELSE {})
  BY <1>3
<1>4. CASE f = <<"note", 0>>
  BY <1>4
<1>5. QED
  BY <1>1, <1>2, <1>3, <1>4 DEF Frames

(* Whatever arrives, the page tells it                                       *)
LEMMA HandleTold ==
  ASSUME NEW n \in Nat, NEW st, kind \in Kinds, NEW f \in Frames,
         st = [page |-> st.page, snap |-> st.snap, log |-> st.log],
         Told(st.page, st.snap, st.log, n), f[1] = "load" => st.snap # "handled"
  PROVE  LET r == Handle(st, f) IN
         /\ r = [page |-> r.page, snap |-> r.snap, log |-> r.log]
         /\ Told(r.page, r.snap, r.log, n + 1)
         /\ r.snap = "handled" => st.snap = "handled" \/ f[1] = "load"
<1> DEFINE pg == st.page
           sn == st.snap
           lg == st.log
           r == Handle(st, f)
<1>1. /\ pg \in Pages(n) /\ pg \in Pages(n + 1) /\ sn \in Snaps /\ lg \in Logs
      /\ Listed(pg, sn) /\ Noted(pg) /\ Drawn(pg, lg) /\ pg.timers \in [Drivers -> 0 .. n]
  <2>1. pg \in Pages(n)
    BY DEF Told
  <2>2. pg \in Pages(n + 1)
    BY <2>1, RoomGrows
  <2>3. QED
    BY <2>1, <2>2 DEF Told, Pages
<1>2. CASE pg.threw /\ f[1] = "load"
  <2>1. r = [page |-> pg, snap |-> "lost", log |-> lg]
    BY <1>2 DEF Handle
  <2>2. \A d \in Drivers : LitUntil(pg.lookup[d], pg.timers[d], pg.rows, d, "lost")
    BY <1>1, <1>2 DEF Listed, LitUntil
  <2>3. Listed(pg, "lost")
    BY <1>1, <2>2 DEF Listed
  <2>4. Told(pg, "lost", lg, n + 1)
    BY <1>1, <2>3 DEF Told, Snaps
  <2>5. QED
    BY <2>1, <2>4
<1>3. CASE pg.threw /\ f[1] # "load"
  <2>1. r = st
    BY <1>3 DEF Handle
  <2>2. Told(pg, sn, lg, n + 1)
    BY <1>1 DEF Told
  <2>3. QED
    BY <2>1, <2>2
<1>4. CASE ~pg.threw /\ f[1] = "load"
  <2> DEFINE ds == IF kind = "truck" THEN f[2] ELSE <<>>
             a == AddRows(pg, ds)
  <2>1. r = [page |-> Loaded(pg, f[2]), snap |-> "handled", log |-> lg]
    BY <1>4 DEF Handle
  <2>2. ds \in Seq(Drivers)
    BY <1>4, FrameKinds, EmptySeq
  <2>3. /\ a \in Pages(n + 1) /\ Listed(a, "handled") /\ SameNotes(a, pg) /\ SameDrawing(a, pg)
    <3> HIDE DEF ds
    <3>1. QED
      BY <1>1, <2>2, LoadListed
  <2>4. Loaded(pg, f[2]) = [a EXCEPT !.map = TRUE]
    BY DEF Loaded
  <2> HIDE DEF a, ds
  <2> DEFINE b == Loaded(pg, f[2])
  <2>5. /\ b \in Pages(n + 1) /\ b.rows = a.rows /\ b.lookup = a.lookup /\ b.timers = a.timers
        /\ b.notes = pg.notes /\ b.told = pg.told /\ b.circles = pg.circles
        /\ b.stopped = pg.stopped /\ b.map
    BY <2>3, <2>4 DEF Pages, SameNotes, SameDrawing
  <2> HIDE DEF b
  <2>6. Listed(b, "handled")
    BY <2>3, <2>5 DEF Listed
  <2>7. Noted(b)
    BY <1>1, <2>5 DEF Noted
  <2>8. Drawn(b, lg)
    BY <1>1, <2>5 DEF Drawn
  <2>9. Told(b, "handled", lg, n + 1)
    BY <1>1, <2>5, <2>6, <2>7, <2>8 DEF Told, Snaps
  <2>10. QED
    BY <1>4, <2>1, <2>9 DEF b
<1>5. CASE ~pg.threw /\ f[1] = "event" /\ f[2] \in Event
  <2>1. r = [page |-> Render(pg, f[2]), snap |-> sn, log |-> Logged(pg, lg, f[2])]
    BY <1>5 DEF Handle, Logged
  <2>2. Told(Render(pg, f[2]), sn, Logged(pg, lg, f[2]), n + 1)
    BY <1>1, <1>5, RenderTold
  <2>3. QED
    BY <2>1, <2>2
<1>6. CASE ~pg.threw /\ f[1] = "infraction" /\ f[2] \in Drivers
  <2> DEFINE e == [driver |-> f[2], unsafe |-> TRUE, alert |-> FALSE]
             q == Process(pg, e)
  <2>1. r = [page |-> q, snap |-> sn, log |-> lg]
    BY <1>6 DEF Handle
  <2>2. e \in Event
    BY <1>6 DEF Event
  <2> HIDE DEF e
  <2>3. /\ q \in Pages(n + 1) /\ Listed(q, sn) /\ SameNotes(q, pg) /\ SameDrawing(q, pg)
        /\ q.map = pg.map
    BY <1>1, <2>2, ProcessListed
  <2> HIDE DEF q
  <2>4. Noted(q)
    BY <1>1, <2>3 DEF Noted, SameNotes
  <2>5. Drawn(q, lg)
    BY <1>1, <2>3 DEF Drawn, SameDrawing
  <2>6. Told(q, sn, lg, n + 1)
    BY <1>1, <2>3, <2>4, <2>5 DEF Told
  <2>7. QED
    BY <2>1, <2>6
<1>7. CASE ~pg.threw /\ f[1] = "note"
  <2> DEFINE q == Push(pg, pg.told + 1)
  <2>1. r = [page |-> q, snap |-> sn, log |-> lg]
    BY <1>7 DEF Handle
  <2>2. /\ q \in Pages(n + 1) /\ Noted(q) /\ SameList(q, pg) /\ SameDrawing(q, pg)
        /\ q.map = pg.map
    BY <1>1, PushNoted
  <2> HIDE DEF q
  <2>3. Listed(q, sn)
    BY <1>1, <2>2 DEF Listed, SameList
  <2>4. Drawn(q, lg)
    BY <1>1, <2>2 DEF Drawn, SameDrawing
  <2>5. Told(q, sn, lg, n + 1)
    BY <1>1, <2>2, <2>3, <2>4 DEF Told
  <2>6. QED
    BY <2>1, <2>5
<1>8. QED
  BY <1>2, <1>3, <1>4, <1>5, <1>6, <1>7, FrameKinds

-----------------------------------------------------------------------------
(* What stands after each frame of a batch                                   *)
Stands(f, st, fs, k) ==
  f = [i \in 0 .. k |-> IF i = 0 THEN st ELSE Handle(f[i - 1], fs[i])]

LEMMA StandsExists ==
  ASSUME NEW st, NEW fs, NEW n \in Nat
  PROVE  \E f : Stands(f, st, fs, n)
<1> DEFINE S == {k \in 0 .. n : ~ \E f : Stands(f, st, fs, k)}
<1>1. SUFFICES ASSUME S # {} PROVE FALSE
  OBVIOUS
<1>2. PICK k \in S : \A y \in S : k <= y
  <2>1. S \in SUBSET Nat
    OBVIOUS
  <2>2. QED
    BY <1>1, <2>1, HasLeast
<1>3. CASE k = 0
  <2> DEFINE f == [i \in 0 .. 0 |-> st]
  <2>1. f = [i \in 0 .. 0 |-> IF i = 0 THEN st ELSE Handle(f[i - 1], fs[i])]
    <3>1. \A i \in 0 .. 0 : i = 0
      OBVIOUS
    <3>2. QED
      BY <3>1
  <2> HIDE DEF f
  <2>2. Stands(f, st, fs, 0)
    BY <2>1 DEF Stands
  <2>3. QED
    BY <1>2, <1>3, <2>2
<1>4. CASE k # 0
  <2>1. k - 1 \in 0 .. n /\ k - 1 \notin S /\ k \in 1 .. n
    BY <1>2, <1>4
  <2>2. PICK g : Stands(g, st, fs, k - 1)
    BY <2>1
  <2> DEFINE f == [i \in 0 .. k |-> IF i <= k - 1 THEN g[i] ELSE Handle(g[k - 1], fs[k])]
  <2>3. \A i \in 0 .. k - 1 : f[i] = g[i] /\ g[i] = IF i = 0 THEN st ELSE Handle(g[i - 1], fs[i])
    BY <2>1, <2>2 DEF Stands
  <2>4. f[k] = Handle(g[k - 1], fs[k])
    BY <2>1
  <2>5. f = [i \in 0 .. k |-> f[i]]
    OBVIOUS
  <2> HIDE DEF f
  <2>6. \A i \in 0 .. k : f[i] = IF i = 0 THEN st ELSE Handle(f[i - 1], fs[i])
    <3> SUFFICES ASSUME NEW i \in 0 .. k
                 PROVE  f[i] = IF i = 0 THEN st ELSE Handle(f[i - 1], fs[i])
      OBVIOUS
    <3>1. CASE i = k
      <4>1. k - 1 \in 0 .. k - 1 /\ i # 0
        BY <2>1, <3>1
      <4>2. f[i - 1] = g[k - 1]
        BY <2>3, <3>1, <4>1
      <4>3. QED
        BY <2>4, <3>1, <4>1, <4>2
    <3>2. CASE i = 0
      BY <2>1, <2>3, <3>2
    <3>3. CASE i # k /\ i # 0
      <4>1. i \in 0 .. k - 1 /\ i - 1 \in 0 .. k - 1
        BY <2>1, <3>3
      <4>2. f[i] = g[i] /\ f[i - 1] = g[i - 1] /\ g[i] = Handle(g[i - 1], fs[i])
        BY <2>3, <3>3, <4>1
      <4>3. QED
        BY <3>3, <4>2
    <3>4. QED
      BY <3>1, <3>2, <3>3
  <2>7. Stands(f, st, fs, k)
    BY <2>5, <2>6 DEF Stands
  <2>8. QED
    BY <1>2, <2>7
<1>5. QED
  BY <1>3, <1>4

LEMMA HandledStands ==
  ASSUME NEW st, NEW fs, Len(fs) \in Nat
  PROVE  \E f : Stands(f, st, fs, Len(fs)) /\ Handled(st, fs) = f[Len(fs)]
<1> DEFINE f == CHOOSE f : Stands(f, st, fs, Len(fs))
<1>1. Stands(f, st, fs, Len(fs))
  BY StandsExists
<1>2. Handled(st, fs) = f[Len(fs)]
  BY DEF Handled, Stands
<1>3. QED
  BY <1>1, <1>2

(* A batch with at most one first picture, which has not come before           *)
LEMMA HandledTold ==
  ASSUME NEW n \in Nat, NEW st, NEW fs \in Batches, kind \in Kinds, Len(fs) \in Nat,
         \A i \in 1 .. Len(fs) : fs[i] \in Frames,
         st = [page |-> st.page, snap |-> st.snap, log |-> st.log],
         Told(st.page, st.snap, st.log, n),
         st.snap = "awaited" \/ \A i \in 1 .. Len(fs) : fs[i][1] # "load"
  PROVE  LET r == Handled(st, fs) IN Told(r.page, r.snap, r.log, n + Len(fs))
<1>1. PICK f : Stands(f, st, fs, Len(fs)) /\ Handled(st, fs) = f[Len(fs)]
  BY HandledStands
<1> DEFINE Good(i) ==
             /\ f[i] = [page |-> f[i].page, snap |-> f[i].snap, log |-> f[i].log]
             /\ Told(f[i].page, f[i].snap, f[i].log, n + i)
             /\ f[i].snap = "handled" =>
                  st.snap = "handled" \/ \E j \in 1 .. i : fs[j][1] = "load"
<1>2. f[0] = st /\ \A i \in 1 .. Len(fs) : f[i] = Handle(f[i - 1], fs[i])
  <2>1. f = [i \in 0 .. Len(fs) |-> IF i = 0 THEN st ELSE Handle(f[i - 1], fs[i])]
    BY <1>1 DEF Stands
  <2>2. 0 \in 0 .. Len(fs) /\ \A i \in 1 .. Len(fs) : i \in 0 .. Len(fs) /\ i # 0
    OBVIOUS
  <2>3. QED
    BY <2>1, <2>2
<1>3. Good(0)
  <2>1. n + 0 = n
    OBVIOUS
  <2>2. QED
    BY <1>2, <2>1
<1>4. ASSUME NEW i \in 1 .. Len(fs), Good(i - 1) PROVE Good(i)
  <2> DEFINE s == f[i - 1]
             m == n + (i - 1)
  <2>1. m \in Nat /\ m + 1 = n + i /\ fs[i] \in Frames
    OBVIOUS
  <2>2. /\ s = [page |-> s.page, snap |-> s.snap, log |-> s.log]
        /\ Told(s.page, s.snap, s.log, m)
        /\ s.snap = "handled" =>
             st.snap = "handled" \/ \E j \in 1 .. i - 1 : fs[j][1] = "load"
    BY <1>4
  <2>3. fs[i][1] = "load" => s.snap # "handled"
    <3> SUFFICES ASSUME fs[i][1] = "load", s.snap = "handled" PROVE FALSE
      OBVIOUS
    <3>1. st.snap = "awaited"
      OBVIOUS
    <3>2. PICK j \in 1 .. i - 1 : fs[j][1] = "load"
      BY <2>2, <3>1
    <3>3. j \in 1 .. Len(fs) /\ j # i
      OBVIOUS
    <3>4. QED
      BY <3>2, <3>3 DEF Batches
  <2>4. f[i] = Handle(s, fs[i])
    BY <1>2
  <2> HIDE DEF s, m
  <2>5. LET r == Handle(s, fs[i]) IN
        /\ r = [page |-> r.page, snap |-> r.snap, log |-> r.log]
        /\ Told(r.page, r.snap, r.log, m + 1)
        /\ r.snap = "handled" => s.snap = "handled" \/ fs[i][1] = "load"
    BY <2>1, <2>2, <2>3, HandleTold
  <2>6. f[i].snap = "handled" =>
          st.snap = "handled" \/ \E j \in 1 .. i : fs[j][1] = "load"
    BY <2>2, <2>4, <2>5
  <2>7. QED
    BY <2>1, <2>4, <2>5, <2>6
<1> HIDE DEF Good
<1>5. \A i \in 0 .. Len(fs) : Good(i)
  <2> DEFINE S == {i \in 0 .. Len(fs) : ~Good(i)}
  <2>1. SUFFICES ASSUME S # {} PROVE FALSE
    OBVIOUS
  <2>2. PICK i \in S : \A y \in S : i <= y
    <3>1. S \in SUBSET Nat
      OBVIOUS
    <3>2. QED
      BY <2>1, <3>1, HasLeast
  <2>3. i # 0
    BY <1>3, <2>2
  <2>4. i \in 1 .. Len(fs) /\ i - 1 \in 0 .. Len(fs) /\ i - 1 \notin S
    BY <2>2, <2>3
  <2>5. QED
    BY <1>4, <2>2, <2>4
<1>6. Good(Len(fs))
  BY <1>5
<1>7. QED
  BY <1>1, <1>6 DEF Good

-----------------------------------------------------------------------------
LEMMA FramesIn ==
  ASSUME NEW b \in Batches
  PROVE  Len(b) \in Nat /\ \A i \in 1 .. Len(b) : b[i] \in Frames
<1>1. b \in UNION {[1 .. n -> Frames] : n \in 1 .. MaxBatch}
  BY DEF Batches
<1>2. PICK n \in 1 .. MaxBatch : b \in [1 .. n -> Frames]
  BY <1>1
<1>3. b \in Seq(Frames) /\ Len(b) = n /\ n \in Nat
  BY <1>2, PageAssumption
<1>4. QED
  BY <1>2, <1>3

LEMMA DeliverShows ==
  ASSUME Shows, NEW b \in Batches, Deliver(b)
  PROVE  Shows'
<1> DEFINE pg == [page EXCEPT !.threw = FALSE]
           st == [page |-> pg, snap |-> snap, log |-> log]
           r == Handled(st, b)
<1>1. Len(b) \in Nat /\ \A i \in 1 .. Len(b) : b[i] \in Frames
  BY FramesIn
<1>2. events \in Nat /\ kind \in Kinds /\ Told(page, snap, log, events)
  BY PageAssumption DEF Shows
<1>3. Told(pg, snap, log, events)
  <2>1. /\ pg \in Pages(events) /\ SameList(pg, page) /\ SameNotes(pg, page)
        /\ SameDrawing(pg, page) /\ pg.map = page.map
    BY <1>2 DEF Told, Pages, SameList, SameNotes, SameDrawing
  <2> HIDE DEF pg
  <2>2. Listed(pg, snap)
    BY <1>2, <2>1 DEF Told, Listed, SameList
  <2>3. Noted(pg)
    BY <1>2, <2>1 DEF Told, Noted, SameNotes
  <2>4. Drawn(pg, log)
    BY <1>2, <2>1 DEF Told, Drawn, SameDrawing
  <2>5. QED
    BY <1>2, <2>1, <2>2, <2>3, <2>4 DEF Told
<1>4. /\ events' = events + Len(b) /\ events + Len(b) <= MaxEvents /\ kind' = kind
      /\ snap = "awaited" \/ \A i \in 1 .. Len(b) : b[i][1] # "load"
      /\ page' = r.page /\ snap' = r.snap /\ log' = r.log
  BY DEF Deliver
<1>5. st = [page |-> st.page, snap |-> st.snap, log |-> st.log]
      /\ st.page = pg /\ st.snap = snap /\ st.log = log
  OBVIOUS
<1> HIDE DEF st, pg
<1>6. Told(r.page, r.snap, r.log, events + Len(b))
  BY <1>1, <1>2, <1>3, <1>4, <1>5, HandledTold
<1>7. events + Len(b) \in 0 .. MaxEvents
  BY <1>1, <1>2, <1>4, PageAssumption
<1> HIDE DEF r
<1>8. Told(page', snap', log', events') /\ events' \in 0 .. MaxEvents /\ kind' = kind
  BY <1>4, <1>6, <1>7
<1>9. QED
  BY <1>2, <1>8 DEF Shows, Told, Drawn, Tells, Listed, Noted, Pages, Circles

LEMMA UnHighlightShows ==
  ASSUME Shows, NEW d \in Drivers, UnHighlight(d)
  PROVE  Shows'
<1> DEFINE n == events
           x == page.lookup[d]
           q == [page EXCEPT !.timers[d] = @ - 1, !.rows[x].lit = FALSE]
<1>1. /\ n \in Nat /\ page \in Pages(n) /\ page.rows \in Seq(Row) /\ x \in Nat
      /\ page.lookup \in [Drivers -> Nat] /\ page.timers \in [Drivers -> 0 .. n]
      /\ Listed(page, snap) /\ Noted(page) /\ Drawn(page, log) /\ page.timers[d] > 0
      /\ page' = q /\ snap' = snap /\ log' = log /\ events' = events /\ kind' = kind
  BY PageAssumption DEF Shows, Told, Pages, UnHighlight
<1>2. x # None /\ x \in 1 .. Len(page.rows)
  BY <1>1 DEF Listed, LooksUp
<1> HIDE DEF n, x
<1>3. /\ q.rows = [page.rows EXCEPT ![x] = Dark(page.rows[x])]
      /\ q.timers = [page.timers EXCEPT ![d] = @ - 1]
      /\ q.lookup = page.lookup
      /\ SameNotes(q, page) /\ SameDrawing(q, page) /\ q.map = page.map
  BY <1>1 DEF Pages, SameNotes, SameDrawing, Dark
<1>4. /\ q.rows \in Seq(Row) /\ Len(q.rows) = Len(page.rows) /\ ~q.rows[x].lit
      /\ \A i \in 1 .. Len(page.rows) : q.rows[i].driver = page.rows[i].driver
      /\ \A i \in 1 .. Len(page.rows) : i # x => q.rows[i].lit = page.rows[i].lit
  <2> DEFINE rs == page.rows
             qs == q.rows
             r == Dark(rs[x])
  <2>1. rs \in Seq(Row) /\ x \in 1 .. Len(rs) /\ qs = [rs EXCEPT ![x] = r]
    BY <1>1, <1>2, <1>3
  <2>2. rs[x] \in Row
    BY <2>1, ElementOfSeq
  <2>3. ~r.lit
    BY <2>2 DEF Dark, Row
  <2> HIDE DEF rs, qs, r
  <2>4. r = Dark(rs[x])
    BY DEF r
  <2>5. /\ qs \in Seq(Row) /\ Len(qs) = Len(rs) /\ qs[x] = r
        /\ \A i \in 1 .. Len(rs) : qs[i].driver = rs[i].driver
        /\ \A i \in 1 .. Len(rs) : i # x => qs[i] = rs[i]
    BY <2>1, <2>4, LightTurns
  <2>6. QED
    BY <2>3, <2>5 DEF rs, qs
<1>5. q.timers \in [Drivers -> 0 .. n]
  BY <1>1, <1>3
<1>6. q \in Pages(n)
  <2> DEFINE rs == q.rows
             ts == q.timers
  <2>1. q = [page EXCEPT !.timers = ts, !.rows = rs]
    BY <1>1, <1>3 DEF Pages, Dark
  <2> HIDE DEF q, rs, ts
  <2>2. rs \in Seq(Row) /\ ts \in [Drivers -> 0 .. n]
    BY <1>4, <1>5 DEF rs, ts
  <2>3. QED
    BY <1>1, <2>1, <2>2 DEF Pages
<1> HIDE DEF q
<1>7. ASSUME NEW b \in Drivers
      PROVE  /\ LooksUp(q.lookup[b], q.timers[b], q.rows, b)
             /\ LitUntil(q.lookup[b], q.timers[b], q.rows, b, snap)
  <2>1. LooksUp(page.lookup[b], page.timers[b], page.rows, b)
    BY <1>1 DEF Listed
  <2>2. LitUntil(page.lookup[b], page.timers[b], page.rows, b, snap)
    BY <1>1 DEF Listed
  <2>3. q.lookup[b] = page.lookup[b] /\ (b # d => q.timers[b] = page.timers[b])
    BY <1>1, <1>3
  <2>4. b = d => page.lookup[b] = x
    BY DEF x
  <2>5. LooksUp(q.lookup[b], q.timers[b], q.rows, b)
    BY <1>2, <1>4, <2>1, <2>3, <2>4 DEF LooksUp
  <2>6. LitUntil(q.lookup[b], q.timers[b], q.rows, b, snap)
    <3>1. \A i \in 1 .. Len(q.rows) : q.rows[i].lit => i # x /\ page.rows[i].lit
      BY <1>4
    <3>2. QED
      BY <1>4, <2>2, <2>3, <2>4, <3>1 DEF LitUntil
  <2>7. QED
    BY <2>5, <2>6
<1>8. Listed(q, snap)
  BY <1>7 DEF Listed
<1>9. Noted(q)
  BY <1>1, <1>3 DEF Noted, SameNotes
<1>10. Drawn(q, log)
  BY <1>1, <1>3 DEF Drawn, SameDrawing
<1>11. Told(q, snap, log, n)
  BY <1>6, <1>8, <1>9, <1>10 DEF Told, Shows
<1>12. Told(page', snap', log', events') /\ events' \in 0 .. MaxEvents /\ kind' = kind
  BY <1>1, <1>11 DEF n, Shows
<1>13. QED
  BY <1>12 DEF Shows, Told, Drawn, Tells, Listed, Noted, Pages, Circles

-----------------------------------------------------------------------------
Apart == StompTypeOK /\ IntervalsEnd
LEMMA StompApart ==
  ASSUME Apart, SocketOpens \/ SocketEnds \/ SocketClosed \/ ServerConnects \/ Hears
                \/ PongerTicks \/ Disconnects
  PROVE  Apart'
<1>1. /\ socket \in Sockets /\ client \in Clients /\ session \in {"none", "asked", "up"}
      /\ client.pinger \/ client.ponger => client.connected
  BY DEF Apart, StompTypeOK, IntervalsEnd
<1>2. Ended(socket) \in Sockets
  BY <1>1 DEF Ended, Sockets
<1>3. /\ CleanedUp(client) \in Clients
      /\ CleanedUp(client).pinger \/ CleanedUp(client).ponger => CleanedUp(client).connected
  BY <1>1 DEF CleanedUp, Clients
<1>4. /\ Heard(client) \in Clients
      /\ Heard(client).pinger \/ Heard(client).ponger => Heard(client).connected
  BY <1>1 DEF Heard, Clients
<1>5. SUFFICES /\ socket' \in Sockets /\ client' \in Clients /\ session' \in {"none", "asked", "up"}
               /\ client'.pinger \/ client'.ponger => client'.connected
  BY DEF Apart, StompTypeOK, IntervalsEnd
<1>6. CASE SocketOpens
  BY <1>1, <1>6 DEF SocketOpens, Sockets
<1>7. CASE SocketEnds
  BY <1>1, <1>2, <1>7 DEF SocketEnds
<1>8. CASE SocketClosed
  BY <1>1, <1>8 DEF SocketClosed, Sockets
<1>9. CASE ServerConnects
  <2>1. client' \in Clients
    BY <1>9 DEF ServerConnects, Connected, Clients
  <2>2. client'.connected
    BY <1>9 DEF ServerConnects, Connected
  <2>3. QED
    BY <1>1, <1>9, <2>1, <2>2 DEF ServerConnects
<1>10. CASE Hears
  BY <1>1, <1>4, <1>10 DEF Hears
<1>11. CASE PongerTicks
  <2>1. CASE client.quiet < 2
    BY <1>1, <1>2, <1>11, <2>1 DEF PongerTicks, Ticked, Clients
  <2>2. CASE ~(client.quiet < 2)
    BY <1>1, <1>2, <1>3, <1>11, <2>2 DEF PongerTicks, Ticked
  <2>3. QED
    BY <2>1, <2>2
<1>12. CASE Disconnects
  <2>1. socket' = [Ended(socket) EXCEPT !.onclose = FALSE]
    BY <1>12 DEF Disconnects
  <2>2. socket' \in Sockets
    BY <1>2, <2>1 DEF Sockets
  <2>3. QED
    BY <1>3, <1>12, <2>2 DEF Disconnects
<1>13. QED
  BY <1>6, <1>7, <1>8, <1>9, <1>10, <1>11, <1>12

LEMMA InitHolds == Init => IInv
<1> SUFFICES ASSUME Init PROVE IInv
  OBVIOUS
<1>1. /\ socket = Socket0 /\ client = Client0 /\ session = "none" /\ kind \in Kinds
      /\ page = Page0 /\ snap = "awaited" /\ events = 0 /\ log = [d \in Drivers |-> <<>>]
  BY DEF Init, StompInit
<1>2. StompTypeOK /\ IntervalsEnd
  BY <1>1 DEF StompTypeOK, IntervalsEnd, Sockets, Clients, Socket0, Client0
<1>3. NoCircle \in Circles(0) /\ NoCircle.shown = FALSE /\ NoCircle.size = 0
      /\ NoCircle.color = "green" /\ NoCircle.count = 0 /\ NoCircle.streak = 0
  BY PageAssumption DEF NoCircle, Circles
<1>4. /\ <<>> \in Seq(Row) /\ <<0>> \in Seq(0 .. 0) /\ Len(<<0>>) = 1 /\ <<0>>[1] = 0
      /\ log \in Logs
  BY <1>1, NothingYet DEF Logs
<1>5. /\ page.map = FALSE /\ page.rows = <<>> /\ page.lookup = [d \in Drivers |-> None]
      /\ page.timers = [d \in Drivers |-> 0] /\ page.circles = [d \in Drivers |-> NoCircle]
      /\ page.notes = <<0>> /\ page.told = 0
  BY <1>1 DEF Page0
<1>6. page \in Pages(0)
  <2> HIDE DEF NoCircle
  <2>1. QED
    BY <1>1, <1>3, <1>4 DEF Pages, Page0, None
<1>7. Listed(page, snap)
  <2>1. \A j \in 1 .. Len(page.rows) : FALSE
    BY <1>5, NothingYet
  <2>2. QED
    BY <1>5, <2>1 DEF Listed, LooksUp, LitUntil
<1>8. Noted(page)
  BY <1>4, <1>5, PageAssumption DEF Noted
<1>9. Drawn(page, log)
  <2>1. Streak(NoCircle, <<>>)
    BY <1>3, NothingYet DEF Streak, Threshold
  <2>2. \A s \in {page.stopped} : Tells(NoCircle, s, <<>>)
    BY <1>3, <2>1, NothingYet DEF Tells
  <2>3. QED
    BY <1>1, <1>3, <1>5, <2>2 DEF Drawn
<1>10. QED
  BY <1>1, <1>2, <1>4, <1>6, <1>7, <1>8, <1>9, PageAssumption DEF IInv, Shows, Told, Snaps

LEMMA NextHolds == IInv /\ [Next]_vars => IInv'
<1> SUFFICES ASSUME IInv, [Next]_vars PROVE IInv'
  OBVIOUS
<1>1. Apart /\ Shows
  BY DEF IInv, Apart
<1>2. SUFFICES Apart' /\ Shows'
  BY DEF IInv, Apart
<1>3. UNCHANGED stomp => Apart'
  BY <1>1 DEF stomp, Apart, StompTypeOK, IntervalsEnd
<1>4. UNCHANGED <<kind, page, snap, events, log>> => Shows'
  <2> SUFFICES ASSUME UNCHANGED <<kind, page, snap, events, log>> PROVE Shows'
    OBVIOUS
  <2>1. Drawn(page, log)'
    BY <1>1 DEF Shows, Told, Drawn, Tells
  <2>2. QED
    BY <1>1, <2>1 DEF Shows, Told
<1>5. CASE \E b \in Batches : Deliver(b)
  <2>1. PICK b \in Batches : Deliver(b)
    BY <1>5
  <2>2. Hears
    BY <2>1 DEF Deliver
  <2>3. QED
    BY <1>1, <2>1, <2>2, DeliverShows, StompApart
<1>6. CASE \E d \in Drivers : UnHighlight(d)
  <2>1. PICK d \in Drivers : UnHighlight(d)
    BY <1>6
  <2>2. UNCHANGED stomp
    BY <2>1 DEF UnHighlight
  <2>3. QED
    BY <1>1, <1>3, <2>1, <2>2, UnHighlightShows
<1>7. CASE Network \/ Ponger \/ Logout
  BY <1>1, <1>4, <1>7, StompApart DEF Network, Ponger, Logout
<1>8. CASE UNCHANGED vars
  BY <1>3, <1>4, <1>8 DEF vars
<1>9. QED
  BY <1>5, <1>6, <1>7, <1>8 DEF Next

THEOREM Inductive == Spec => []IInv
BY InitHolds, NextHolds, PTL DEF Spec

(* TypeOK for every bound: in particular no circle grows further than one step *)
(* above the size renderOnMap checks, and nothing counts more than it was sent. *)
THEOREM PageTyped == Spec => []TypeOK
<1>1. IInv => TypeOK
  <2> SUFFICES ASSUME IInv PROVE TypeOK
    OBVIOUS
  <2>1. /\ events \in 0 .. MaxEvents /\ kind \in Kinds /\ snap \in Snaps /\ log \in Logs
        /\ page \in Pages(events) /\ StompTypeOK
    BY DEF IInv, Shows, Told
  <2>2. page \in Pages(MaxEvents)
    BY <2>1, RoomGrows, PageAssumption
  <2>3. page \in Page
    BY <2>2 DEF Pages, Page, Circles, Circle
  <2>4. QED
    BY <2>1, <2>3 DEF TypeOK, Snaps, Logs
<1>2. QED
  BY <1>1, Inductive, PTL

(* IntervalsEnd: whatever way the connection goes, _cleanUp leaves no interval *)
(* running on a client that is not connected.                               *)
THEOREM IntervalsStop == Spec => []IntervalsEnd
<1>1. IInv => IntervalsEnd
  BY DEF IInv
<1>2. QED
  BY <1>1, Inductive, PTL

(* CirclesDrawn: renderNewDriverOnMap remembers no circle it could not draw    *)
THEOREM CirclesOnMap == Spec => []CirclesDrawn
<1>1. IInv => CirclesDrawn
  BY DEF IInv, Shows, Told, Drawn, CirclesDrawn
<1>2. QED
  BY <1>1, Inductive, PTL

(* LatestNotifications: pushNotification keeps the latest, in their order      *)
THEOREM NotesAreLatest == Spec => []LatestNotifications
<1>1. IInv => LatestNotifications
  BY DEF IInv, Shows, Told, Noted, LatestNotifications
<1>2. QED
  BY <1>1, Inductive, PTL

(* HighlightEnds: a row that processDangerousEvent highlighted has a timer that *)
(* will find it, or a later row of its driver took the timer.               *)
THEOREM HighlightsEnd == Spec => []HighlightEnds
<1>1. IInv => HighlightEnds
  <2> SUFFICES ASSUME IInv, NEW i \in 1 .. Len(page.rows), page.rows[i].lit
               PROVE  \/ page.timers[page.rows[i].driver] > 0
                           /\ page.lookup[page.rows[i].driver] = i
                      \/ snap = "handled" /\ \E j \in i + 1 .. Len(page.rows) :
                           page.rows[j].driver = page.rows[i].driver
    BY DEF HighlightEnds
  <2> DEFINE d == page.rows[i].driver
             x == page.lookup[d]
  <2>1. page.rows \in Seq(Row) /\ page.lookup \in [Drivers -> Nat] /\ Listed(page, snap)
    BY DEF IInv, Shows, Told, Pages
  <2>2. d \in Drivers
    <3>1. page.rows[i] \in Row
      BY <2>1, ElementOfSeq
    <3>2. QED
      BY <3>1 DEF Row
  <2>3. (page.timers[d] > 0 /\ x = i) \/ (snap = "handled" /\ i < x)
    BY <2>1, <2>2 DEF Listed, LitUntil
  <2>4. CASE snap = "handled" /\ i < x
    <3>1. x \in 1 .. Len(page.rows) /\ page.rows[x].driver = d
      BY <2>1, <2>2, <2>4 DEF Listed, LooksUp, None
    <3>2. x \in i + 1 .. Len(page.rows)
      BY <2>1, <2>4, <3>1
    <3>3. QED
      BY <2>4, <3>1, <3>2
  <2>5. QED
    BY <2>3, <2>4
<1>2. QED
  BY <1>1, Inductive, PTL

(* CircleShowsEvents: size, count and colour of a circle tell the events of its *)
(* driver since it is shown, in every interleaving of the topics.            *)
THEOREM CirclesTell == Spec => []CircleShowsEvents
<1>1. IInv => CircleShowsEvents
  <2> SUFFICES ASSUME IInv, NEW d \in Drivers
               PROVE  LET c == page.circles[d] IN
                      /\ kind # "drools" /\ ~page.stopped => c.size = Cardinality(Unsafe(d))
                      /\ kind = "drools" => /\ c.count = Cardinality(Alerts(d))
                                            /\ c.color = IF c.count > 0 THEN "red" ELSE "green"
                      /\ kind = "pred" =>
                           /\ c.count = Cardinality(Unsafe(d))
                           /\ c.color = IF ThreeInARow(d) THEN "red"
                                        ELSE IF log[d] # <<>> /\ Last(log[d]).unsafe
                                        THEN "orange" ELSE "green"
    BY DEF CircleShowsEvents
  <2> DEFINE c == page.circles[d]
             l == log[d]
  <2>1. Tells(c, page.stopped, l) /\ l \in Seq(Event) /\ c.streak \in Nat
    BY PageAssumption DEF IInv, Shows, Told, Drawn, Logs, Pages, Circles
  <2>2. UnsafeIn(l) = Unsafe(d) /\ AlertsIn(l) = Alerts(d) /\ ThreeIn(l) = ThreeInARow(d)
    BY DEF UnsafeIn, Unsafe, AlertsIn, Alerts, ThreeIn, ThreeInARow
  <2>3. Len(l) \in Nat /\ (l = <<>> <=> Len(l) = 0) /\ Last(l) = l[Len(l)]
    BY <2>1, EmptySeq, LenProperties DEF Last
  <2>4. ASSUME kind = "pred"
        PROVE  c.color = IF ThreeIn(l) THEN "red"
                         ELSE IF l # <<>> /\ Last(l).unsafe THEN "orange" ELSE "green"
    <3>1. Streak(c, l)
      BY <2>1, <2>4 DEF Tells
    <3>2. CASE c.streak >= Threshold
      BY <3>1, <3>2 DEF Streak
    <3>3. CASE 0 < c.streak /\ c.streak < Threshold
      <4>1. ~ThreeIn(l) /\ EndsWith(l, c.streak) /\ c.color = "orange"
        BY <3>1, <3>3 DEF Streak
      <4>2. Len(l) > 0 /\ l[Len(l)].unsafe
        BY <2>1, <2>3, <3>3, <4>1 DEF EndsWith
      <4>3. QED
        BY <2>3, <4>1, <4>2
    <3>4. CASE c.streak = 0
      <4>1. ~ThreeIn(l) /\ EndsWith(l, 0) /\ c.color = "green"
        BY <3>1, <3>4 DEF Streak, Threshold
      <4>2. Len(l) > 0 => ~l[Len(l)].unsafe
        BY <2>3, <4>1 DEF EndsWith
      <4>3. QED
        BY <2>3, <4>1, <4>2
    <3>5. QED
      BY <2>1, <3>2, <3>3, <3>4 DEF Threshold
  <2>5. QED
    BY <2>1, <2>2, <2>4 DEF Tells
<1>2. QED
  BY <1>1, Inductive, PTL

=============================================================================
