----------------------------- MODULE LibraryProofs -----------------------------
(***************************************************************************)
(* Libraries of the pages, each for any number of what a page has of it: the  *)
(* guard and the poll of when; the callbacks of curl's domReady, the scripts   *)
(* of its plugin js and the sheets of its plugin css; setImmediate of poly;    *)
(* and the receivers of SockJS.  Each module is instantiated by name, its      *)
(* variables are declared here, and each theorem is about one of the modules   *)
(* alone.                                                                    *)
(***************************************************************************)
EXTENDS ListLemmas

CONSTANTS Callers, Allowed, MaxVotes, Files, MaxCalls, MaxTasks, MaxCallbacks, MaxRequests,
          MaxText, MaxSheets, ieMaxCollectorSheets

VARIABLES at, count, waiting, settled, outcome, timer,
          chain, canceled, told, votes, late,
          way, nextHandle, tasksByHandle, running, notices, ran, cleared, nested,
          readyState, body, completed, listening, callbacks, given, called, threw,
          supportsAsyncFalse, cache, callers, calls, def, loading, polled, queue,
          waitForOrderedScript, early, broken,
          kind, closing, current, requests, heard, failures, limit,
          browser, hasEvent, complete, loads, load, network, pool, made, importing,
          finalized, watched, fires

-----------------------------------------------------------------------------
(* Stylesheets.  A load of curl's css plugin is answered when all its sheets are *)
(* loaded.                                                                    *)
Css == INSTANCE Stylesheets
SheetsAssumed == MaxSheets \in Nat /\ ieMaxCollectorSheets \in Nat
Sheets == 1 .. MaxSheets
Collectors == 1 .. ieMaxCollectorSheets

Asked == [of : Nat, left : Int, called : Nat, rejected : BOOLEAN]
Browsers == [imports : BOOLEAN, events : SUBSET {"load", "error"}, always : BOOLEAN]
Styles ==
  [browser : Browsers, hasEvent : BOOLEAN, complete : BOOLEAN, loads : Seq(Asked),
   load : [Sheets -> Nat], network : [Sheets -> {"none", "fetching", "there", "missing"}],
   queue : Seq(Sheets), pool : Seq(Collectors), made : 0 .. ieMaxCollectorSheets,
   importing : [Collectors -> 0 .. MaxSheets], finalized : SUBSET Sheets,
   watched : SUBSET Sheets, fires : [Sheets -> {"none", "load", "error"}],
   waiting : SUBSET Sheets]
SameLoads(k, h) == k.loads = h.loads /\ k.load = h.load
SameLinks(k, h) ==
  /\ k.hasEvent = h.hasEvent /\ k.complete = h.complete /\ k.finalized = h.finalized
  /\ k.watched = h.watched /\ k.fires = h.fires /\ k.waiting = h.waiting
SameCollectors(k, h) ==
  k.queue = h.queue /\ k.pool = h.pool /\ k.made = h.made /\ k.importing = h.importing

(* A load misses those of its sheets that are not done; one that is rejected has  *)
(* lost one of them for good.                                                  *)
OfLoad(h, l) == {s \in Sheets : h.load[s] = l}
Lost(h, done, s) ==
  /\ s \notin done
  /\ IF h.browser.imports THEN h.network[s] = "missing" ELSE s \in h.finalized \ h.waiting
Owes(h, done, l) ==
  /\ h.loads[l].of = Cardinality(OfLoad(h, l))
  /\ h.loads[l].left = Cardinality(OfLoad(h, l) \ done)
  /\ h.loads[l].called = IF h.loads[l].left = 0 THEN 1 ELSE 0
  /\ h.loads[l].rejected => \E s \in OfLoad(h, l) : Lost(h, done, s)
Answered(h, done) == \A l \in 1 .. Len(h.loads) : Owes(h, done, l)

(* A sheet nothing has been done about, and what may have been done about one.  *)
Rests(h, s) ==
  /\ h.network[s] = "none" /\ s \notin h.finalized /\ s \notin h.watched
  /\ s \notin h.waiting /\ h.fires[s] = "none"
Anyhow(h, done, s) ==
  /\ h.load[s] \in 0 .. Len(h.loads) /\ (h.load[s] = 0 => h.network[s] = "none")
  /\ h.network[s] = "none" => Rests(h, s)
  /\ s \in h.waiting => s \in h.finalized /\ s \notin done
  /\ s \in done => s \in h.finalized \/ (h.browser.imports /\ h.network[s] = "there")
  /\ h.fires[s] # "none" => h.fires[s] \in h.browser.events
  /\ h.fires[s] = "error" => h.network[s] = "missing"
ByImport(h, done, s) ==
  /\ s \notin h.watched /\ s \notin h.waiting /\ h.fires[s] = "none"
  /\ h.network[s] = "there" \/ s \in h.finalized => s \in done
ByLink(h, done, s) ==
  /\ h.network[s] \in {"fetching", "there"} /\ s \in h.finalized /\ s \notin h.waiting =>
       s \in done
  /\ h.network[s] \in {"fetching", "there"} /\ s \notin h.finalized /\ ~h.hasEvent =>
       s \in h.watched
  /\ h.network[s] = "there" /\ s \notin h.finalized /\ h.fires[s] = "none" =>
       h.browser.events = {}
SheetIs(h, done, s) ==
  /\ Anyhow(h, done, s)
  /\ h.browser.imports => ByImport(h, done, s)
  /\ ~h.browser.imports => ByLink(h, done, s)
FirstNamed(h, n) == \A s \in Sheets : h.load[s] # 0 <=> s <= n
Fits(h, done) ==
  /\ \E n \in 0 .. MaxSheets : FirstNamed(h, n)
  /\ h.browser.events = {} => ~h.hasEvent
  /\ h.browser.events # {} => "load" \in h.browser.events
  /\ \A s \in Sheets : SheetIs(h, done, s)

(* Each collector imports a sheet of its own or is in the pool, but for those      *)
(* that are free, which are about to take the next.                               *)
Sharing(h, free) ==
  /\ Distinct(h.queue) /\ Distinct(h.pool)
  /\ \A s \in Elements(h.queue) : h.load[s] # 0 /\ h.network[s] = "none"
  /\ \A c \in Elements(h.pool) : c <= h.made /\ h.importing[c] = 0 /\ c \notin free
  /\ \A c \in free : c \in Collectors /\ c <= h.made
  /\ ~h.browser.imports => h.queue = <<>> /\ \A c \in Collectors : h.importing[c] = 0
Collects(h, done, free) ==
  /\ \A c \in Collectors :
       /\ h.importing[c] # 0 => c <= h.made
       /\ c <= h.made => h.importing[c] # 0 \/ c \in Elements(h.pool) \/ c \in free
       /\ h.importing[c] # 0 /\ c \notin free =>
            h.network[h.importing[c]] = "fetching" /\ h.importing[c] \notin done
  /\ \A c, d \in Collectors \ free :
       h.importing[c] = h.importing[d] /\ h.importing[c] # 0 => c = d
Pressed(h) == h.queue # <<>> => h.pool = <<>> /\ h.made = ieMaxCollectorSheets
Kept(h, done, free) ==
  /\ h \in Styles /\ Answered(h, done) /\ Fits(h, done) /\ Sharing(h, free) /\ Collects(h, done, free)

Heap == Css!Heap
SheetsInv == Pressed(Heap) /\ \E done \in SUBSET Sheets : Kept(Heap, done, {})

(* What the calls do to the fields of the heap.                                *)
LEMMA HeapBecomes ==
  ASSUME NEW k \in Styles, Css!Become(k)
  PROVE  Heap' = k
BY DEF Heap, Css!Heap, Css!Become, Styles

SameBut(k, h) ==
  /\ k.browser = h.browser /\ k.load = h.load /\ k.network = h.network
  /\ SameLinks(k, h) /\ SameCollectors(k, h) /\ Len(k.loads) = Len(h.loads)
LEMMA LoadedIs ==
  ASSUME NEW h \in Styles, NEW s \in Sheets, h.load[s] \in 1 .. Len(h.loads)
  PROVE  LET k == Css!Loaded(h, s)
             l == h.load[s]
         IN  /\ k \in Styles /\ SameBut(k, h)
             /\ \A i \in 1 .. Len(h.loads) : i # l => k.loads[i] = h.loads[i]
             /\ k.loads[l].of = h.loads[l].of /\ k.loads[l].rejected = h.loads[l].rejected
             /\ k.loads[l].left = h.loads[l].left - 1
             /\ k.loads[l].called = IF k.loads[l].left = 0 THEN h.loads[l].called + 1
                                    ELSE h.loads[l].called
<1> DEFINE l == h.load[s]
           left == h.loads[l].left - 1
           x == [h.loads[l] EXCEPT !.left = left]
           q == [h.loads EXCEPT ![l] = x]
           g == [h EXCEPT !.loads = q]
           y == [g.loads[l] EXCEPT !.called = IF left = 0 THEN g.loads[l].called + 1 ELSE g.loads[l].called]
           r == [g.loads EXCEPT ![l] = y]
           k == [g EXCEPT !.loads = r]
<1>1. /\ h.loads \in Seq(Asked) /\ Len(h.loads) \in Nat /\ h.loads[l] \in Asked /\ left \in Int
      /\ l \in 1 .. Len(h.loads)
  <2>1. h.loads \in Seq(Asked) /\ l \in 1 .. Len(h.loads)
    BY DEF Styles
  <2> HIDE DEF l
  <2>2. Len(h.loads) \in Nat /\ h.loads[l] \in Asked
    BY <2>1, ElementOfSeq, LenProperties
  <2>3. h.loads[l].left \in Int
    BY <2>2 DEF Asked
  <2>4. QED
    BY <2>1, <2>2, <2>3 DEF l
<1>2. Css!Loaded(h, s) = k
  BY DEF Css!Loaded
<1>3. /\ x \in Asked /\ x.left = left /\ x.of = h.loads[l].of /\ x.rejected = h.loads[l].rejected
      /\ x.called = h.loads[l].called
  <2> HIDE DEF left, l
  <2>1. QED
    BY <1>1 DEF Asked
<1> HIDE DEF x
<1>4. q \in Seq(Asked) /\ Len(q) = Len(h.loads) /\ q[l] = x
      /\ \A i \in 1 .. Len(h.loads) : i # l => q[i] = h.loads[i]
  <2> HIDE DEF l
  <2>1. QED
    BY <1>1, <1>3, ExceptSeq
<1> HIDE DEF q
<1>5. g \in Styles /\ SameBut(g, h) /\ g.loads = q
  BY <1>4 DEF Styles, SameBut, SameLinks, SameCollectors
<1> HIDE DEF g
<1>6. /\ y \in Asked /\ y.left = left /\ y.of = x.of /\ y.rejected = x.rejected
      /\ y.called = IF left = 0 THEN x.called + 1 ELSE x.called
  <2> DEFINE times == IF left = 0 THEN g.loads[l].called + 1 ELSE g.loads[l].called
  <2>1. g.loads[l] = x
    BY <1>4, <1>5
  <2> HIDE DEF left, l
  <2>2. times \in Nat /\ times = IF left = 0 THEN x.called + 1 ELSE x.called
    <3>1. x.called \in Nat
      BY <1>3 DEF Asked
    <3>2. QED
      BY <2>1, <3>1
  <2> HIDE DEF times
  <2>3. y = [x EXCEPT !.called = times]
    BY <2>1 DEF times
  <2> HIDE DEF y
  <2>4. QED
    BY <1>3, <2>2, <2>3 DEF Asked
<1> HIDE DEF y
<1>7. r \in Seq(Asked) /\ Len(r) = Len(h.loads) /\ r[l] = y
      /\ \A i \in 1 .. Len(h.loads) : i # l => r[i] = h.loads[i]
  <2> HIDE DEF l
  <2>1. QED
    BY <1>1, <1>4, <1>5, <1>6, ExceptSeq
<1> HIDE DEF r
<1>8. k \in Styles /\ SameBut(k, h) /\ k.loads = r
  BY <1>5, <1>7 DEF Styles, SameBut, SameLinks, SameCollectors
<1> HIDE DEF k
<1>9. QED
  BY <1>1, <1>2, <1>3, <1>6, <1>7, <1>8
LEMMA FailedIs ==
  ASSUME NEW h \in Styles, NEW s \in Sheets, h.load[s] \in 1 .. Len(h.loads)
  PROVE  LET k == Css!Failed(h, s)
             l == h.load[s]
         IN  /\ k \in Styles /\ SameBut(k, h)
             /\ \A i \in 1 .. Len(h.loads) : i # l => k.loads[i] = h.loads[i]
             /\ k.loads[l].of = h.loads[l].of /\ k.loads[l].rejected
             /\ k.loads[l].left = h.loads[l].left /\ k.loads[l].called = h.loads[l].called
<1> DEFINE l == h.load[s]
           x == [h.loads[l] EXCEPT !.rejected = TRUE]
           q == [h.loads EXCEPT ![l] = x]
           k == [h EXCEPT !.loads = q]
<1>1. /\ h.loads \in Seq(Asked) /\ Len(h.loads) \in Nat /\ h.loads[l] \in Asked
      /\ l \in 1 .. Len(h.loads)
  <2>1. h.loads \in Seq(Asked) /\ l \in 1 .. Len(h.loads)
    BY DEF Styles
  <2> HIDE DEF l
  <2>2. Len(h.loads) \in Nat /\ h.loads[l] \in Asked
    BY <2>1, ElementOfSeq, LenProperties
  <2>3. QED
    BY <2>1, <2>2
<1>2. Css!Failed(h, s) = k
  BY DEF Css!Failed
<1>3. /\ x \in Asked /\ x.left = h.loads[l].left /\ x.of = h.loads[l].of /\ x.rejected
      /\ x.called = h.loads[l].called
  <2> HIDE DEF l
  <2>1. QED
    BY <1>1 DEF Asked
<1> HIDE DEF x
<1>4. q \in Seq(Asked) /\ Len(q) = Len(h.loads) /\ q[l] = x
      /\ \A i \in 1 .. Len(h.loads) : i # l => q[i] = h.loads[i]
  <2> HIDE DEF l
  <2>1. QED
    BY <1>1, <1>3, ExceptSeq
<1> HIDE DEF q
<1>5. k \in Styles /\ SameBut(k, h) /\ k.loads = q
  BY <1>4 DEF Styles, SameBut, SameLinks, SameCollectors
<1> HIDE DEF k
<1>6. QED
  BY <1>1, <1>2, <1>3, <1>4, <1>5

(* What the answers of the loads are kept by.                                  *)
LEMMA SheetsFinite ==
  ASSUME SheetsAssumed, NEW T \in SUBSET Sheets
  PROVE  IsFiniteSet(T) /\ Cardinality(T) \in Nat
<1>1. IsFiniteSet(Sheets)
  BY FS_Interval DEF Sheets, SheetsAssumed
<1>2. IsFiniteSet(T)
  BY <1>1, FS_Subset
<1>3. QED
  BY <1>2, FS_CardinalityType

LEMMA AnsweredStays ==
  ASSUME NEW h, NEW k, NEW done, Answered(h, done), SameLoads(k, h),
         \A s \in Sheets : Lost(h, done, s) => Lost(k, done, s)
  PROVE  Answered(k, done)
<1>1. \A l : OfLoad(k, l) = OfLoad(h, l) /\ OfLoad(h, l) \in SUBSET Sheets
  BY DEF OfLoad, SameLoads
<1>2. QED
  <2> SUFFICES ASSUME NEW l \in 1 .. Len(h.loads) PROVE Owes(k, done, l)
    BY DEF Answered, SameLoads
  <2>1. Owes(h, done, l)
    BY DEF Answered
  <2>2. QED
    BY <1>1, <2>1 DEF Owes, SameLoads

LEMMA LoadedAnswers ==
  ASSUME SheetsAssumed, NEW g, NEW done, Answered(g, done), NEW h \in Styles, SameLoads(h, g),
         NEW s \in Sheets, s \notin done, h.load[s] \in 1 .. Len(h.loads),
         \A t \in Sheets : Lost(g, done, t) => t # s /\ Lost(h, done, t)
  PROVE  Answered(Css!Loaded(h, s), done \cup {s})
<1> DEFINE k == Css!Loaded(h, s)
           l == h.load[s]
           d == done \cup {s}
<1>1. /\ SameBut(k, h) /\ \A i \in 1 .. Len(h.loads) : i # l => k.loads[i] = h.loads[i]
      /\ k.loads[l].of = h.loads[l].of /\ k.loads[l].rejected = h.loads[l].rejected
      /\ k.loads[l].left = h.loads[l].left - 1
      /\ k.loads[l].called = IF k.loads[l].left = 0 THEN h.loads[l].called + 1 ELSE h.loads[l].called
  BY LoadedIs
<1> HIDE DEF k
<1>2. \A i : OfLoad(k, i) = OfLoad(h, i) /\ OfLoad(h, i) \in SUBSET Sheets
  BY <1>1 DEF OfLoad, SameBut
<1>3. \A t \in Sheets : Lost(g, done, t) => Lost(k, d, t)
  BY <1>1 DEF Lost, SameBut, SameLinks
<1>4. \A i \in 1 .. Len(h.loads) :
        /\ Owes(g, done, i) /\ OfLoad(g, i) = OfLoad(h, i) /\ g.loads[i] = h.loads[i]
  BY DEF Answered, SameLoads, OfLoad
<1>5. ASSUME NEW i \in 1 .. Len(h.loads), i # l PROVE Owes(k, d, i)
  <2>1. OfLoad(h, i) \ d = OfLoad(h, i) \ done
    BY <1>5 DEF OfLoad
  <2>2. Owes(g, done, i) /\ OfLoad(g, i) = OfLoad(h, i) /\ k.loads[i] = g.loads[i]
    BY <1>1, <1>5, <1>4
  <2>3. QED
    BY <1>2, <1>3, <2>1, <2>2 DEF Owes
<1>6. Owes(k, d, l)
  <2> DEFINE T == OfLoad(h, l) \ done
  <2>1. s \in T /\ OfLoad(h, l) \ d = T \ {s} /\ T \in SUBSET Sheets /\ T \ {s} \in SUBSET Sheets
    BY DEF OfLoad
  <2>2. Owes(g, done, l) /\ OfLoad(g, l) = OfLoad(h, l) /\ g.loads[l] = h.loads[l]
    BY <1>4
  <2> HIDE DEF T
  <2>3. IsFiniteSet(T) /\ Cardinality(T) \in Nat /\ Cardinality(T \ {s}) \in Nat
    BY <2>1, SheetsFinite
  <2>4. Cardinality(T \ {s}) = Cardinality(T) - 1
    BY <2>1, <2>3, FS_RemoveElement
  <2>5. h.loads[l].left = Cardinality(T)
    BY <2>2 DEF Owes, T
  <2>6. k.loads[l].left = Cardinality(OfLoad(k, l) \ d)
    BY <1>1, <1>2, <2>1, <2>4, <2>5
  <2>7. h.loads[l].called = 0
    BY <2>2, <2>3, <2>4, <2>5 DEF Owes
  <2>8. k.loads[l].called = IF k.loads[l].left = 0 THEN 1 ELSE 0
    BY <1>1, <2>7
  <2>9. k.loads[l].rejected => \E t \in OfLoad(k, l) : Lost(k, d, t)
    BY <1>1, <1>2, <1>3, <2>2 DEF Owes
  <2>10. QED
    BY <1>1, <1>2, <2>2, <2>6, <2>8, <2>9 DEF Owes
<1>7. QED
  BY <1>1, <1>5, <1>6 DEF Answered, SameBut, k

LEMMA FailedAnswers ==
  ASSUME NEW h \in Styles, NEW done, Answered(h, done), NEW s \in Sheets,
         Lost(h, done, s), h.load[s] \in 1 .. Len(h.loads)
  PROVE  Answered(Css!Failed(h, s), done)
<1> DEFINE k == Css!Failed(h, s)
           l == h.load[s]
<1>1. /\ SameBut(k, h) /\ \A i \in 1 .. Len(h.loads) : i # l => k.loads[i] = h.loads[i]
      /\ k.loads[l].of = h.loads[l].of /\ k.loads[l].rejected
      /\ k.loads[l].left = h.loads[l].left /\ k.loads[l].called = h.loads[l].called
  BY FailedIs
<1> HIDE DEF k
<1>2. \A i : OfLoad(k, i) = OfLoad(h, i) /\ OfLoad(h, i) \in SUBSET Sheets
  BY <1>1 DEF OfLoad, SameBut
<1>3. \A t \in Sheets : Lost(h, done, t) => Lost(k, done, t)
  BY <1>1 DEF Lost, SameBut, SameLinks
<1>4. s \in OfLoad(k, l) /\ Lost(k, done, s)
  BY <1>2, <1>3 DEF OfLoad
<1>5. ASSUME NEW i \in 1 .. Len(h.loads) PROVE Owes(k, done, i)
  <2>1. Owes(h, done, i)
    BY DEF Answered
  <2>2. CASE i # l
    BY <1>1, <1>2, <1>3, <2>1, <2>2 DEF Owes
  <2>3. CASE i = l
    BY <1>1, <1>2, <1>4, <2>1, <2>3 DEF Owes
  <2>4. QED
    BY <2>2, <2>3
<1>6. QED
  BY <1>1, <1>5 DEF Answered, SameBut, k
(* A collector that is free takes the next sheet, or is put in the pool.         *)
Eases(h) == h.queue # <<>> => Tail(h.queue) = <<>> \/ (h.pool = <<>> /\ h.made = ieMaxCollectorSheets)
Idle(h, s) == Rests(h, s) /\ s \notin Elements(h.queue)
LEMMA GivenBack ==
  ASSUME SheetsAssumed, NEW h, NEW done, NEW free, Kept(h, done, free), NEW c \in free,
         h.queue = <<>>
  PROVE  LET k == Css!LoadNextImport(h, c)
         IN  /\ Kept(k, done, free \ {c}) /\ Pressed(k) /\ SameLoads(k, h) /\ k.browser = h.browser
             /\ \A d \in Collectors : d # c => k.importing[d] = h.importing[d]
             /\ \A s \in Sheets : Idle(h, s) => Idle(k, s)
<1> DEFINE p == Append(h.pool, c)
           m == [h.importing EXCEPT ![c] = 0]
           k == [h EXCEPT !.pool = p, !.importing = m]
<1>1. /\ h \in Styles /\ c \in Collectors /\ c <= h.made /\ c \notin Elements(h.pool)
      /\ h.pool \in Seq(Collectors) /\ h.importing \in [Collectors -> 0 .. MaxSheets]
      /\ Distinct(h.pool)
  BY DEF Kept, Sharing, Styles
<1>2. Css!LoadNextImport(h, c) = k
  BY DEF Css!LoadNextImport
<1>3. p \in Seq(Collectors) /\ Elements(p) = Elements(h.pool) \cup {c} /\ Distinct(p)
  BY <1>1, Appended
<1> HIDE DEF p
<1>4. /\ m \in [Collectors -> 0 .. MaxSheets] /\ m[c] = 0
      /\ \A d \in Collectors : d # c => m[d] = h.importing[d]
  <2>1. 0 \in 0 .. MaxSheets
    BY SMT DEF SheetsAssumed
  <2>2. QED
    BY <1>1, <2>1
<1> HIDE DEF m
<1>5. k \in Styles
  BY <1>1, <1>3, <1>4 DEF Styles
<1>6. /\ SameLoads(k, h) /\ SameLinks(k, h) /\ k.browser = h.browser /\ k.network = h.network
      /\ k.queue = h.queue /\ k.made = h.made /\ k.pool = p /\ k.importing = m
  BY <1>1 DEF Styles, SameLoads, SameLinks
<1> HIDE DEF k
<1>7. Answered(k, done)
  <2>1. \A s \in Sheets : Lost(h, done, s) => Lost(k, done, s)
    BY <1>6 DEF Lost, SameLinks
  <2>2. QED
    BY <1>6, <2>1, AnsweredStays DEF Kept
<1>8. Fits(k, done)
  <2>1. \A s \in Sheets : SheetIs(k, done, s)
    BY <1>6 DEF Kept, Fits, SheetIs, Anyhow, Rests, ByImport, ByLink, SameLoads, SameLinks
  <2>2. QED
    BY <1>6, <2>1 DEF Kept, Fits, FirstNamed, SameLoads, SameLinks
<1>9. Sharing(k, free \ {c})
  <2>1. \A d \in Elements(h.pool) : d \in Collectors /\ d # c
    BY <1>1, Listed
  <2>2. \A d \in Elements(k.pool) : d <= k.made /\ k.importing[d] = 0 /\ d \notin free \ {c}
    BY <1>1, <1>3, <1>4, <1>6, <2>1 DEF Kept, Sharing
  <2>3. ~k.browser.imports => \A d \in Collectors : k.importing[d] = 0
    BY <1>4, <1>6 DEF Kept, Sharing
  <2>4. QED
    BY <1>3, <1>6, <2>2, <2>3 DEF Kept, Sharing, SameLoads
<1>10. Collects(k, done, free \ {c})
  <2>1. Collects(h, done, free)
    BY DEF Kept
  <2>2. ASSUME NEW d \in Collectors
        PROVE  /\ k.importing[d] # 0 => d <= k.made
               /\ d <= k.made => k.importing[d] # 0 \/ d \in Elements(k.pool) \/ d \in free \ {c}
               /\ k.importing[d] # 0 /\ d \notin free \ {c} =>
                    k.network[k.importing[d]] = "fetching" /\ k.importing[d] \notin done
    BY <1>3, <1>4, <1>6, <2>1 DEF Collects
  <2>3. ASSUME NEW d \in Collectors \ (free \ {c}), NEW e \in Collectors \ (free \ {c}),
               k.importing[d] = k.importing[e], k.importing[d] # 0
        PROVE  d = e
    BY <1>4, <1>6, <2>1, <2>3 DEF Collects
  <2>4. QED
    BY <2>2, <2>3 DEF Collects
<1>11. Pressed(k) /\ \A s \in Sheets : Idle(h, s) => Idle(k, s)
  BY <1>6 DEF Pressed, Idle, Rests, SameLinks
<1>12. QED
  BY <1>2, <1>4, <1>5, <1>6, <1>7, <1>8, <1>9, <1>10, <1>11 DEF Kept

LEMMA TakesNext ==
  ASSUME NEW h, NEW done, NEW free, Kept(h, done, free), NEW c \in free, h.queue # <<>>, Eases(h)
  PROVE  LET k == Css!LoadNextImport(h, c)
         IN  /\ Kept(k, done, free \ {c}) /\ Pressed(k) /\ SameLoads(k, h) /\ k.browser = h.browser
             /\ \A d \in Collectors : d # c => k.importing[d] = h.importing[d]
             /\ \A s \in Sheets : Idle(h, s) => Idle(k, s)
<1> DEFINE x == Head(h.queue)
           r == Tail(h.queue)
           m == [h.importing EXCEPT ![c] = x]
           n == [h.network EXCEPT ![x] = "fetching"]
           k == [h EXCEPT !.queue = r, !.importing = m, !.network = n]
<1>1. /\ h \in Styles /\ c \in Collectors /\ c <= h.made /\ c \notin Elements(h.pool)
      /\ h.queue \in Seq(Sheets) /\ h.importing \in [Collectors -> 0 .. MaxSheets]
      /\ h.network \in [Sheets -> {"none", "fetching", "there", "missing"}]
      /\ Distinct(h.queue) /\ h.browser.imports
  BY DEF Kept, Sharing, Styles
<1>2. Css!LoadNextImport(h, c) = k
  BY DEF Css!LoadNextImport
<1>3. /\ x \in Sheets /\ r \in Seq(Sheets) /\ Elements(h.queue) = {x} \cup Elements(r)
      /\ Distinct(r) /\ x \notin Elements(r)
  BY <1>1, Shifted
<1> HIDE DEF x, r
<1>4. /\ m \in [Collectors -> 0 .. MaxSheets] /\ m[c] = x /\ x # 0
      /\ \A d \in Collectors : d # c => m[d] = h.importing[d]
  <2>1. x \in 0 .. MaxSheets /\ x # 0
    BY <1>3 DEF Sheets
  <2>2. QED
    BY <1>1, <2>1
<1> HIDE DEF m
<1>5. /\ n \in [Sheets -> {"none", "fetching", "there", "missing"}] /\ n[x] = "fetching"
      /\ \A s \in Sheets : s # x => n[s] = h.network[s]
  BY <1>1, <1>3
<1> HIDE DEF n
<1>6. k \in Styles
  BY <1>1, <1>3, <1>4, <1>5 DEF Styles
<1>7. /\ SameLoads(k, h) /\ SameLinks(k, h) /\ k.browser = h.browser /\ k.network = n
      /\ k.queue = r /\ k.made = h.made /\ k.pool = h.pool /\ k.importing = m
  BY <1>1 DEF Styles, SameLoads, SameLinks
<1> HIDE DEF k
<1>8. h.load[x] # 0 /\ h.network[x] = "none" /\ SheetIs(h, done, x) /\ x \notin done
  <2>1. h.load[x] # 0 /\ h.network[x] = "none"
    BY <1>3 DEF Kept, Sharing
  <2>2. SheetIs(h, done, x)
    BY <1>3 DEF Kept, Fits
  <2>3. QED
    BY <2>1, <2>2 DEF SheetIs, Anyhow, Rests
<1>9. Answered(k, done)
  <2>1. \A s \in Sheets : Lost(h, done, s) => Lost(k, done, s)
    BY <1>1, <1>5, <1>7, <1>8 DEF Lost
  <2>2. QED
    BY <1>7, <2>1, AnsweredStays DEF Kept
<1>10. Fits(k, done)
  <2>1. ASSUME NEW s \in Sheets, s # x PROVE SheetIs(k, done, s)
    <3>1. SheetIs(h, done, s) /\ k.network[s] = h.network[s]
      BY <1>5, <1>7, <2>1 DEF Kept, Fits
    <3>2. QED
      BY <1>7, <3>1 DEF SheetIs, Anyhow, Rests, ByImport, ByLink, SameLoads, SameLinks
  <2>2. SheetIs(k, done, x)
    <3>1. k.network[x] = "fetching"
      BY <1>5, <1>7
    <3>2. QED
      BY <1>1, <1>7, <1>8, <3>1 DEF SheetIs, Anyhow, Rests, ByImport, SameLoads, SameLinks
  <2>3. \A s \in Sheets : SheetIs(k, done, s)
    BY <2>1, <2>2
  <2>4. QED
    BY <1>7, <2>3 DEF Kept, Fits, FirstNamed, SameLoads, SameLinks
<1>11. Sharing(k, free \ {c})
  <2>1. Elements(h.queue) \in SUBSET Sheets
    BY <1>1, Listed
  <2>2. \A s \in Elements(r) : s \in Sheets /\ s # x /\ s \in Elements(h.queue)
    BY <1>3, <2>1
  <2>3. \A s \in Elements(r) : k.load[s] # 0 /\ k.network[s] = "none"
    BY <1>5, <1>7, <2>2 DEF Kept, Sharing, SameLoads
  <2>4. \A d \in Elements(h.pool) : d \in Collectors /\ d # c
    BY <1>1, Listed DEF Styles
  <2>5. \A d \in Elements(k.pool) : d <= k.made /\ k.importing[d] = 0 /\ d \notin free \ {c}
    BY <1>4, <1>7, <2>4 DEF Kept, Sharing
  <2>6. QED
    BY <1>1, <1>3, <1>7, <2>3, <2>5 DEF Kept, Sharing
<1>12. Collects(k, done, free \ {c})
  <2>1. Collects(h, done, free)
    BY DEF Kept
  <2>2. \A d \in Collectors \ free : h.importing[d] # 0 => h.importing[d] # x /\ h.importing[d] \in Sheets
    <3>1. \A d \in Collectors : h.importing[d] # 0 => h.importing[d] \in Sheets
      BY <1>1, SMT DEF Sheets
    <3>2. QED
      BY <1>8, <2>1, <3>1 DEF Collects
  <2>3. ASSUME NEW d \in Collectors
        PROVE  /\ k.importing[d] # 0 => d <= k.made
               /\ d <= k.made => k.importing[d] # 0 \/ d \in Elements(k.pool) \/ d \in free \ {c}
               /\ k.importing[d] # 0 /\ d \notin free \ {c} =>
                    k.network[k.importing[d]] = "fetching" /\ k.importing[d] \notin done
    <3>1. CASE d = c
      BY <1>1, <1>4, <1>5, <1>7, <1>8, <3>1
    <3>2. CASE d # c
      <4>1. k.importing[d] = h.importing[d]
        BY <1>4, <1>7, <3>2
      <4>2. k.importing[d] # 0 /\ d \notin free => k.network[k.importing[d]] = h.network[h.importing[d]]
        BY <1>5, <1>7, <2>2, <4>1
      <4>3. QED
        BY <1>7, <2>1, <3>2, <4>1, <4>2 DEF Collects
    <3>3. QED
      BY <3>1, <3>2
  <2>4. ASSUME NEW d \in Collectors \ (free \ {c}), NEW e \in Collectors \ (free \ {c}),
               k.importing[d] = k.importing[e], k.importing[d] # 0
        PROVE  d = e
    <3>1. \A b \in Collectors \ free : b # c /\ k.importing[b] = h.importing[b]
      BY <1>4, <1>7
    <3>2. d \in free => d = c
      OBVIOUS
    <3>3. e \in free => e = c
      OBVIOUS
    <3>4. k.importing[c] = x
      BY <1>4, <1>7
    <3>5. QED
      BY <2>1, <2>2, <2>4, <3>1, <3>2, <3>3, <3>4 DEF Collects
  <2>5. QED
    BY <2>3, <2>4 DEF Collects
<1>13. Pressed(k)
  <2>1. r # <<>> => h.pool = <<>> /\ h.made = ieMaxCollectorSheets
    BY DEF Eases, r
  <2>2. QED
    BY <1>7, <2>1 DEF Pressed
<1>14. \A s \in Sheets : Idle(h, s) => Idle(k, s)
  <2>1. \A s \in Sheets : s \notin Elements(h.queue) => s # x /\ s \notin Elements(r)
    BY <1>3
  <2>2. QED
    BY <1>5, <1>7, <2>1 DEF Idle, Rests, SameLinks
<1>15. QED
  BY <1>2, <1>4, <1>6, <1>7, <1>9, <1>10, <1>11, <1>12, <1>13, <1>14 DEF Kept
(* What one sheet goes through, the others kept as they are.                     *)
Touched(k, h, s) ==
  /\ k.browser = h.browser /\ k.load = h.load /\ Len(k.loads) = Len(h.loads)
  /\ SameCollectors(k, h)
  /\ h.hasEvent => k.hasEvent
  /\ k.hasEvent => h.hasEvent \/ h.browser.events # {}
  /\ \A t \in Sheets : t # s =>
       /\ k.network[t] = h.network[t] /\ k.fires[t] = h.fires[t]
       /\ t \in k.finalized <=> t \in h.finalized
       /\ t \in k.watched <=> t \in h.watched
       /\ t \in k.waiting <=> t \in h.waiting
Alone(h, free, s) ==
  /\ s \notin Elements(h.queue)
  /\ \A c \in Collectors : c \notin free => h.importing[c] # s
LEMMA OneTouched ==
  ASSUME NEW h \in Styles, NEW k, NEW done, NEW free, NEW s \in Sheets, NEW new,
         Fits(h, done), Sharing(h, free), Collects(h, done, free), Touched(k, h, s),
         new = done \/ new = done \cup {s}, SheetIs(k, new, s), Alone(h, free, s)
  PROVE  /\ Fits(k, new) /\ Sharing(k, free) /\ Collects(k, new, free)
         /\ Pressed(h) => Pressed(k)
         /\ \A t \in Sheets : t # s /\ Idle(h, t) => Idle(k, t)
<1>1. /\ h.queue \in Seq(Sheets) /\ h.importing \in [Collectors -> 0 .. MaxSheets]
      /\ Elements(h.queue) \in SUBSET Sheets
  BY Listed DEF Styles
<1>2. ASSUME NEW t \in Sheets, t # s PROVE SheetIs(k, new, t)
  <2>1. SheetIs(h, done, t) /\ (t \in new <=> t \in done)
    BY <1>2 DEF Fits
  <2>2. /\ k.browser = h.browser /\ k.load = h.load /\ Len(k.loads) = Len(h.loads)
        /\ k.network[t] = h.network[t] /\ k.fires[t] = h.fires[t] /\ (h.hasEvent => k.hasEvent)
        /\ t \in k.finalized <=> t \in h.finalized
        /\ t \in k.watched <=> t \in h.watched
        /\ t \in k.waiting <=> t \in h.waiting
    BY <1>2 DEF Touched
  <2>3. Anyhow(k, new, t)
    BY <2>1, <2>2 DEF SheetIs, Anyhow, Rests
  <2>4. k.browser.imports => ByImport(k, new, t)
    BY <2>1, <2>2 DEF SheetIs, ByImport
  <2>5. ~k.browser.imports => ByLink(k, new, t)
    BY <2>1, <2>2 DEF SheetIs, ByLink
  <2>6. QED
    BY <2>3, <2>4, <2>5 DEF SheetIs
<1>3. Fits(k, new)
  <2>1. \A t \in Sheets : SheetIs(k, new, t)
    BY <1>2
  <2>2. /\ k.browser.events = {} => ~k.hasEvent
        /\ k.browser.events # {} => "load" \in k.browser.events
        /\ \E n \in 0 .. MaxSheets : FirstNamed(k, n)
    BY DEF Fits, Touched, FirstNamed
  <2>3. QED
    BY <2>1, <2>2 DEF Fits
<1>4. Sharing(k, free)
  <2>1. \A t \in Elements(k.queue) : k.load[t] # 0 /\ k.network[t] = "none"
    BY <1>1 DEF Sharing, Touched, SameCollectors, Alone
  <2>2. QED
    BY <2>1 DEF Sharing, Touched, SameCollectors
<1>5. Collects(k, new, free)
  <2>1. \A c \in Collectors : h.importing[c] # 0 => h.importing[c] \in Sheets
    BY <1>1, SMT DEF Sheets
  <2>2. ASSUME NEW c \in Collectors, h.importing[c] # 0, c \notin free
        PROVE  k.network[h.importing[c]] = "fetching" /\ h.importing[c] \notin new
    <3>1. h.importing[c] # s /\ h.importing[c] \in Sheets
      BY <2>1, <2>2 DEF Alone
    <3>2. k.network[h.importing[c]] = h.network[h.importing[c]]
      BY <3>1 DEF Touched
    <3>3. h.network[h.importing[c]] = "fetching" /\ h.importing[c] \notin done
      BY <2>2 DEF Collects
    <3>4. QED
      BY <3>1, <3>2, <3>3
  <2>3. QED
    BY <2>2 DEF Collects, Touched, SameCollectors
<1>6. /\ Pressed(h) => Pressed(k)
      /\ \A t \in Sheets : t # s /\ Idle(h, t) => Idle(k, t)
  BY DEF Pressed, Idle, Rests, Touched, SameCollectors
<1>7. QED
  BY <1>3, <1>4, <1>5, <1>6

(* A sheet is asked for: of a collector, by a link, or without waiting for it.      *)
Asks(k, h, done, free, s) ==
  /\ \E new \in SUBSET Sheets : Kept(k, new, free)
  /\ Pressed(k) /\ k.load = h.load /\ Len(k.loads) = Len(h.loads) /\ k.browser = h.browser
  /\ \A c \in free : k.importing[c] = h.importing[c]
  /\ \A t \in Sheets : t # s /\ Idle(h, t) => Idle(k, t)
LEMMA Resting ==
  ASSUME NEW h, NEW done, NEW free, Kept(h, done, free), NEW s \in Sheets, Idle(h, s)
  PROVE  /\ s \notin done /\ Alone(h, free, s) /\ SheetIs(h, done, s) /\ Rests(h, s)
         /\ ~Lost(h, done, s)
<1>1. SheetIs(h, done, s) /\ Rests(h, s)
  BY DEF Kept, Fits, Idle
<1>2. s \notin done /\ ~Lost(h, done, s)
  BY <1>1 DEF SheetIs, Anyhow, Rests, Lost
<1>3. Alone(h, free, s)
  <2>1. \A c \in Collectors : c \notin free /\ h.importing[c] = s => h.importing[c] # 0
    BY DEF Sheets
  <2>2. QED
    BY <1>1, <2>1 DEF Alone, Idle, Kept, Collects, Rests
<1>4. QED
  BY <1>1, <1>2, <1>3

LEMMA LinkAsked ==
  ASSUME NEW h, NEW done \in SUBSET Sheets, NEW free, Kept(h, done, free), Pressed(h),
         ~h.browser.imports, NEW s \in Sheets, h.load[s] # 0, Idle(h, s)
  PROVE  Asks(Css!LoadLink(h, s), h, done, free, s)
<1> DEFINE n == [h.network EXCEPT ![s] = "fetching"]
           w == IF h.hasEvent THEN h.watched ELSE h.watched \cup {s}
           k == [h EXCEPT !.network = n, !.watched = w]
<1>1. h \in Styles
  BY DEF Kept
<1>2. Css!LoadLink(h, s) = k
  BY DEF Css!LoadLink
<1>3. /\ n \in [Sheets -> {"none", "fetching", "there", "missing"}] /\ n[s] = "fetching"
      /\ \A t \in Sheets : t # s => n[t] = h.network[t]
  BY <1>1 DEF Styles
<1>4. /\ w \in SUBSET Sheets /\ (~h.hasEvent => s \in w)
      /\ \A t \in Sheets : t # s => (t \in w <=> t \in h.watched)
  BY <1>1 DEF Styles
<1> HIDE DEF n, w
<1>5. /\ k \in Styles /\ k.loads = h.loads /\ k.load = h.load /\ k.browser = h.browser
      /\ SameCollectors(k, h) /\ k.hasEvent = h.hasEvent /\ k.finalized = h.finalized
      /\ k.fires = h.fires /\ k.waiting = h.waiting /\ k.network = n /\ k.watched = w
  BY <1>1, <1>3, <1>4 DEF Styles, SameCollectors
<1> HIDE DEF k
<1>6. Touched(k, h, s)
  BY <1>3, <1>4, <1>5 DEF Touched
<1>7. /\ s \notin done /\ Alone(h, free, s) /\ SheetIs(h, done, s) /\ Rests(h, s)
      /\ ~Lost(h, done, s)
  BY Resting
<1>8. SheetIs(k, done, s)
  BY <1>3, <1>4, <1>5, <1>7 DEF SheetIs, Anyhow, Rests, ByLink
<1>9. Answered(k, done)
  <2>1. \A t \in Sheets : Lost(h, done, t) => Lost(k, done, t)
    BY <1>5, <1>7 DEF Lost
  <2>2. QED
    BY <1>5, <2>1, AnsweredStays DEF Kept, SameLoads
<1>10. /\ Fits(k, done) /\ Sharing(k, free) /\ Collects(k, done, free) /\ Pressed(k)
       /\ \A t \in Sheets : t # s /\ Idle(h, t) => Idle(k, t)
  BY <1>1, <1>6, <1>7, <1>8, OneTouched DEF Kept
<1>11. Kept(k, done, free)
  BY <1>5, <1>9, <1>10 DEF Kept
<1>12. QED
  BY <1>2, <1>5, <1>10, <1>11 DEF Asks, SameCollectors

LEMMA NotWaitedFor ==
  ASSUME SheetsAssumed, NEW h, NEW done \in SUBSET Sheets, NEW free, Kept(h, done, free),
         Pressed(h), NEW s \in Sheets, h.load[s] # 0, Idle(h, s)
  PROVE  Asks(Css!NoWait(h, s), h, done, free, s)
<1> DEFINE n == [h.network EXCEPT ![s] = "fetching"]
           f == h.finalized \cup {s}
           g == [h EXCEPT !.network = n, !.finalized = f]
           k == Css!Loaded(g, s)
           new == done \cup {s}
<1>1. h \in Styles
  BY DEF Kept
<1>2. Css!NoWait(h, s) = k
  BY DEF Css!NoWait
<1>3. /\ n \in [Sheets -> {"none", "fetching", "there", "missing"}] /\ n[s] = "fetching"
      /\ \A t \in Sheets : t # s => n[t] = h.network[t]
  BY <1>1 DEF Styles
<1>4. f \in SUBSET Sheets /\ s \in f /\ \A t \in Sheets : t # s => (t \in f <=> t \in h.finalized)
  BY <1>1 DEF Styles
<1> HIDE DEF n, f
<1>5. /\ g \in Styles /\ g.loads = h.loads /\ g.load = h.load /\ g.browser = h.browser
      /\ SameCollectors(g, h) /\ g.hasEvent = h.hasEvent /\ g.watched = h.watched
      /\ g.fires = h.fires /\ g.waiting = h.waiting /\ g.network = n /\ g.finalized = f
  BY <1>1, <1>3, <1>4 DEF Styles, SameCollectors
<1> HIDE DEF g
<1>6. /\ s \notin done /\ Alone(h, free, s) /\ SheetIs(h, done, s) /\ Rests(h, s)
      /\ ~Lost(h, done, s)
  BY Resting
<1>7. Answered(k, new)
  <2>1. \A t \in Sheets : Lost(h, done, t) => t # s /\ Lost(g, done, t)
    BY <1>3, <1>4, <1>5, <1>6 DEF Lost
  <2>2. g.load[s] \in 1 .. Len(g.loads)
    <3>1. h.load[s] \in 0 .. Len(h.loads)
      BY <1>6 DEF SheetIs, Anyhow
    <3>2. Len(h.loads) \in Nat
      BY <1>1, LenProperties DEF Styles
    <3>3. QED
      BY <1>5, <3>1, <3>2
  <2>3. QED
    BY <1>5, <1>6, <2>1, <2>2, LoadedAnswers DEF Kept, SameLoads
<1>8. /\ k \in Styles /\ SameBut(k, g)
  <2>1. g.load[s] \in 1 .. Len(g.loads)
    <3>1. h.load[s] \in 0 .. Len(h.loads)
      BY <1>6 DEF SheetIs, Anyhow
    <3>2. Len(h.loads) \in Nat
      BY <1>1, LenProperties DEF Styles
    <3>3. QED
      BY <1>5, <3>1, <3>2
  <2>2. QED
    BY <1>5, <2>1, LoadedIs
<1> HIDE DEF k
<1>9. Touched(k, h, s)
  BY <1>3, <1>4, <1>5, <1>8 DEF Touched, SameBut, SameLinks, SameCollectors
<1>10. SheetIs(k, new, s)
  BY <1>3, <1>4, <1>5, <1>6, <1>8
     DEF SheetIs, Anyhow, Rests, ByImport, ByLink, SameBut, SameLinks
<1>11. /\ Fits(k, new) /\ Sharing(k, free) /\ Collects(k, new, free) /\ Pressed(k)
       /\ \A t \in Sheets : t # s /\ Idle(h, t) => Idle(k, t)
  BY <1>1, <1>6, <1>9, <1>10, OneTouched DEF Kept
<1>12. Kept(k, new, free) /\ new \in SUBSET Sheets
  BY <1>7, <1>8, <1>11 DEF Kept
<1>13. QED
  BY <1>2, <1>5, <1>8, <1>11, <1>12 DEF Asks, SameBut, SameCollectors, k
(* A sheet is put in the queue, and what becomes of it there.                     *)
LEMMA Queued ==
  ASSUME NEW h, NEW done \in SUBSET Sheets, NEW free, Kept(h, done, free), h.browser.imports,
         NEW s \in Sheets, h.load[s] # 0, Idle(h, s)
  PROVE  LET g == [h EXCEPT !.queue = Append(@, s)]
         IN  /\ Kept(g, done, free) /\ SameLoads(g, h) /\ g.browser = h.browser
             /\ g.pool = h.pool /\ g.made = h.made /\ g.importing = h.importing
             /\ \A t \in Sheets : t # s /\ Idle(h, t) => Idle(g, t)
             /\ g.queue # <<>> /\ (h.queue = <<>> => Tail(g.queue) = <<>>)
<1> DEFINE q == Append(h.queue, s)
           g == [h EXCEPT !.queue = q]
<1>1. /\ h \in Styles /\ h.queue \in Seq(Sheets) /\ s \notin Elements(h.queue)
      /\ Distinct(h.queue) /\ h.network[s] = "none"
  BY DEF Kept, Styles, Sharing, Idle, Rests
<1>2. /\ q \in Seq(Sheets) /\ Elements(q) = Elements(h.queue) \cup {s} /\ Distinct(q)
      /\ Len(q) = Len(h.queue) + 1
  BY <1>1, Appended
<1>3. q # <<>> /\ (h.queue = <<>> => Tail(q) = <<>>)
  <2>1. q # <<>>
    BY <1>1, AppendProperties
  <2>2. ASSUME h.queue = <<>> PROVE Tail(q) = <<>>
    <3>1. Len(h.queue) = 0
      BY <2>2, EmptySeq
    <3>2. Tail(q) \in Seq(Sheets) /\ Len(Tail(q)) = 0
      BY <1>2, <2>1, <3>1, HeadTailProperties
    <3>3. QED
      BY <3>2, EmptySeq
  <2>3. QED
    BY <2>1, <2>2
<1> HIDE DEF q
<1>4. /\ g \in Styles /\ g.queue = q /\ SameLoads(g, h) /\ SameLinks(g, h) /\ g.browser = h.browser
      /\ g.network = h.network /\ g.pool = h.pool /\ g.made = h.made /\ g.importing = h.importing
  BY <1>1, <1>2 DEF Styles, SameLoads, SameLinks
<1> HIDE DEF g
<1>5. Answered(g, done)
  <2>1. \A t \in Sheets : Lost(h, done, t) => Lost(g, done, t)
    BY <1>4 DEF Lost, SameLinks
  <2>2. QED
    BY <1>4, <2>1, AnsweredStays DEF Kept
<1>6. Fits(g, done)
  <2>1. \A t \in Sheets : SheetIs(g, done, t)
    BY <1>4 DEF Kept, Fits, SheetIs, Anyhow, Rests, ByImport, ByLink, SameLoads, SameLinks
  <2>2. QED
    BY <1>4, <2>1 DEF Kept, Fits, FirstNamed, SameLoads, SameLinks
<1>7. Sharing(g, free)
  BY <1>1, <1>2, <1>4 DEF Kept, Sharing, SameLoads
<1>8. Collects(g, done, free)
  BY <1>4 DEF Kept, Collects
<1>9. \A t \in Sheets : t # s /\ Idle(h, t) => Idle(g, t)
  BY <1>2, <1>4 DEF Idle, Rests, SameLinks
<1>10. QED
  BY <1>3, <1>4, <1>5, <1>6, <1>7, <1>8, <1>9 DEF Kept, q, g

(* A collector is freed: one from the pool, or a new one.                          *)
LEMMA FreedFromPool ==
  ASSUME NEW h, NEW done, NEW free, Kept(h, done, free), h.pool # <<>>
  PROVE  LET c == Head(h.pool)
             k == [h EXCEPT !.pool = Tail(@)]
         IN  /\ Kept(k, done, free \cup {c}) /\ c \in Collectors /\ c \notin free
             /\ SameLoads(k, h) /\ k.browser = h.browser /\ k.queue = h.queue
             /\ k.importing = h.importing /\ \A t \in Sheets : Idle(h, t) => Idle(k, t)
<1> DEFINE c == Head(h.pool)
           p == Tail(h.pool)
           k == [h EXCEPT !.pool = p]
<1>1. /\ h \in Styles /\ h.pool \in Seq(Collectors) /\ Distinct(h.pool)
  BY DEF Kept, Styles, Sharing
<1>2. /\ c \in Collectors /\ p \in Seq(Collectors) /\ Elements(h.pool) = {c} \cup Elements(p)
      /\ Distinct(p) /\ c \notin Elements(p)
  BY <1>1, Shifted
<1> HIDE DEF c, p
<1>3. /\ k \in Styles /\ k.pool = p /\ SameLoads(k, h) /\ SameLinks(k, h) /\ k.browser = h.browser
      /\ k.network = h.network /\ k.queue = h.queue /\ k.made = h.made /\ k.importing = h.importing
  BY <1>1, <1>2 DEF Styles, SameLoads, SameLinks
<1> HIDE DEF k
<1>4. Answered(k, done)
  <2>1. \A t \in Sheets : Lost(h, done, t) => Lost(k, done, t)
    BY <1>3 DEF Lost, SameLinks
  <2>2. QED
    BY <1>3, <2>1, AnsweredStays DEF Kept
<1>5. Fits(k, done)
  <2>1. \A t \in Sheets : SheetIs(k, done, t)
    BY <1>3 DEF Kept, Fits, SheetIs, Anyhow, Rests, ByImport, ByLink, SameLoads, SameLinks
  <2>2. QED
    BY <1>3, <2>1 DEF Kept, Fits, FirstNamed, SameLoads, SameLinks
<1>6. Sharing(k, free \cup {c}) /\ c \notin free
  BY <1>2, <1>3 DEF Kept, Sharing, SameLoads
<1>7. Collects(k, done, free \cup {c})
  BY <1>2, <1>3 DEF Kept, Collects
<1>8. \A t \in Sheets : Idle(h, t) => Idle(k, t)
  BY <1>3 DEF Idle, Rests, SameLinks
<1>9. QED
  BY <1>2, <1>3, <1>4, <1>5, <1>6, <1>7, <1>8 DEF Kept, c, p, k

LEMMA FreedByMaking ==
  ASSUME SheetsAssumed, NEW h, NEW done, NEW free, Kept(h, done, free),
         h.made < ieMaxCollectorSheets
  PROVE  LET c == h.made + 1
             k == [h EXCEPT !.made = @ + 1]
         IN  /\ Kept(k, done, free \cup {c}) /\ c \in Collectors /\ c \notin free
             /\ SameLoads(k, h) /\ k.browser = h.browser /\ k.queue = h.queue
             /\ k.importing = h.importing /\ \A t \in Sheets : Idle(h, t) => Idle(k, t)
<1> DEFINE c == h.made + 1
           k == [h EXCEPT !.made = c]
<1>1. h \in Styles /\ h.made \in 0 .. ieMaxCollectorSheets /\ h.pool \in Seq(Collectors)
  BY DEF Kept, Styles
<1>2. /\ c \in 0 .. ieMaxCollectorSheets /\ c \in Collectors /\ ~(c <= h.made)
      /\ \A d \in Collectors : (d <= c <=> d <= h.made \/ d = c)
  BY <1>1 DEF Collectors, SheetsAssumed
<1> HIDE DEF c
<1>3. /\ k \in Styles /\ k.pool = h.pool /\ SameLoads(k, h) /\ SameLinks(k, h) /\ k.browser = h.browser
      /\ k.network = h.network /\ k.queue = h.queue /\ k.made = c /\ k.importing = h.importing
  BY <1>1, <1>2 DEF Styles, SameLoads, SameLinks
<1> HIDE DEF k
<1>4. Answered(k, done)
  <2>1. \A t \in Sheets : Lost(h, done, t) => Lost(k, done, t)
    BY <1>3 DEF Lost, SameLinks
  <2>2. QED
    BY <1>3, <2>1, AnsweredStays DEF Kept
<1>5. Fits(k, done)
  <2>1. \A t \in Sheets : SheetIs(k, done, t)
    BY <1>3 DEF Kept, Fits, SheetIs, Anyhow, Rests, ByImport, ByLink, SameLoads, SameLinks
  <2>2. QED
    BY <1>3, <2>1 DEF Kept, Fits, FirstNamed, SameLoads, SameLinks
<1>6. Sharing(k, free \cup {c}) /\ c \notin free
  <2>1. \A d \in Elements(h.pool) : d \in Collectors /\ d <= h.made
    BY <1>1, Listed DEF Kept, Sharing
  <2>2. c \notin free /\ c \notin Elements(h.pool)
    BY <1>2, <2>1 DEF Kept, Sharing
  <2>3. \A d \in Elements(h.pool) : d <= k.made /\ k.importing[d] = 0 /\ d \notin free \cup {c}
    BY <1>2, <1>3, <2>1, <2>2 DEF Kept, Sharing
  <2>4. \A d \in free \cup {c} : d \in Collectors /\ d <= k.made
    <3>1. \A d \in free : d \in Collectors /\ d <= h.made
      BY DEF Kept, Sharing
    <3>2. QED
      BY <1>2, <1>3, <3>1
  <2>5. /\ Distinct(k.queue) /\ Distinct(k.pool)
        /\ \A t \in Elements(k.queue) : k.load[t] # 0 /\ k.network[t] = "none"
        /\ ~k.browser.imports => k.queue = <<>> /\ \A d \in Collectors : k.importing[d] = 0
    BY <1>3 DEF Kept, Sharing, SameLoads
  <2>6. QED
    BY <1>3, <2>2, <2>3, <2>4, <2>5 DEF Sharing
<1>7. Collects(k, done, free \cup {c})
  BY <1>2, <1>3 DEF Kept, Collects
<1>8. \A t \in Sheets : Idle(h, t) => Idle(k, t)
  BY <1>3 DEF Idle, Rests, SameLinks
<1>9. QED
  BY <1>2, <1>3, <1>4, <1>5, <1>6, <1>7, <1>8 DEF Kept, c, k

LEMMA ImportAsked ==
  ASSUME SheetsAssumed, NEW h, NEW done \in SUBSET Sheets, NEW free, Kept(h, done, free),
         Pressed(h), h.browser.imports, NEW s \in Sheets, h.load[s] # 0, Idle(h, s)
  PROVE  Asks(Css!LoadImport(h, s), h, done, free, s)
<1> DEFINE g == [h EXCEPT !.queue = Append(@, s)]
           k == Css!LoadImport(h, s)
<1>1. /\ Kept(g, done, free) /\ SameLoads(g, h) /\ g.browser = h.browser
      /\ g.pool = h.pool /\ g.made = h.made /\ g.importing = h.importing
      /\ \A t \in Sheets : t # s /\ Idle(h, t) => Idle(g, t)
      /\ g.queue # <<>> /\ (h.queue = <<>> => Tail(g.queue) = <<>>)
  BY Queued
<1>2. k = IF g.pool # <<>> THEN Css!LoadNextImport([g EXCEPT !.pool = Tail(@)], Head(g.pool))
          ELSE IF g.made < ieMaxCollectorSheets
          THEN Css!LoadNextImport([g EXCEPT !.made = @ + 1], g.made + 1)
          ELSE g
  BY DEF Css!LoadImport
<1> SUFFICES Asks(k, h, done, free, s)
  OBVIOUS
<1> HIDE DEF g, k
<1>3. ASSUME NEW c \in Collectors, NEW m, Kept(m, done, free \cup {c}), c \notin free,
             SameLoads(m, g), m.browser = g.browser, m.queue = g.queue,
             m.importing = g.importing, \A t \in Sheets : Idle(g, t) => Idle(m, t),
             h.queue = <<>>, k = Css!LoadNextImport(m, c)
      PROVE  Asks(k, h, done, free, s)
  <2>1. m.queue # <<>> /\ Eases(m) /\ c \in free \cup {c}
    BY <1>1, <1>3 DEF Eases
  <2>2. /\ Kept(k, done, (free \cup {c}) \ {c}) /\ Pressed(k) /\ SameLoads(k, m)
        /\ k.browser = m.browser
        /\ \A d \in Collectors : d # c => k.importing[d] = m.importing[d]
        /\ \A t \in Sheets : Idle(m, t) => Idle(k, t)
    BY <1>3, <2>1, TakesNext
  <2>3. (free \cup {c}) \ {c} = free /\ \A d \in free : d \in Collectors /\ d # c
    BY <1>3 DEF Kept, Sharing
  <2>4. Kept(k, done, free) /\ Pressed(k)
    BY <2>2, <2>3
  <2>5. k.load = h.load /\ Len(k.loads) = Len(h.loads) /\ k.browser = h.browser
    BY <1>1, <1>3, <2>2 DEF SameLoads
  <2>6. \A d \in free : k.importing[d] = h.importing[d]
    BY <1>1, <1>3, <2>2, <2>3
  <2>7. \A t \in Sheets : t # s /\ Idle(h, t) => Idle(k, t)
    BY <1>1, <1>3, <2>2
  <2>8. QED
    BY <2>4, <2>5, <2>6, <2>7 DEF Asks
<1>4. CASE g.pool # <<>>
  <2> DEFINE c == Head(g.pool)
             m == [g EXCEPT !.pool = Tail(@)]
  <2>1. /\ Kept(m, done, free \cup {c}) /\ c \in Collectors /\ c \notin free
        /\ SameLoads(m, g) /\ m.browser = g.browser /\ m.queue = g.queue
        /\ m.importing = g.importing /\ \A t \in Sheets : Idle(g, t) => Idle(m, t)
    BY <1>1, <1>4, FreedFromPool
  <2>2. h.queue = <<>> /\ k = Css!LoadNextImport(m, c)
    BY <1>1, <1>2, <1>4 DEF Pressed
  <2> HIDE DEF c, m
  <2>3. QED
    BY <1>3, <2>1, <2>2
<1>5. CASE g.pool = <<>> /\ g.made < ieMaxCollectorSheets
  <2> DEFINE c == g.made + 1
             m == [g EXCEPT !.made = @ + 1]
  <2>1. /\ Kept(m, done, free \cup {c}) /\ c \in Collectors /\ c \notin free
        /\ SameLoads(m, g) /\ m.browser = g.browser /\ m.queue = g.queue
        /\ m.importing = g.importing /\ \A t \in Sheets : Idle(g, t) => Idle(m, t)
    BY <1>1, <1>5, FreedByMaking
  <2>2. h.queue = <<>>
    <3>1. g.made # ieMaxCollectorSheets
      <4>1. g.made \in Int
        BY <1>1 DEF Kept, Styles
      <4>2. QED
        BY <1>5, <4>1 DEF SheetsAssumed
    <3>2. QED
      BY <1>1, <3>1 DEF Pressed
  <2>3. k = Css!LoadNextImport(m, c)
    BY <1>2, <1>5
  <2> HIDE DEF c, m
  <2>4. QED
    BY <1>3, <2>1, <2>2, <2>3
<1>6. CASE g.pool = <<>> /\ ~(g.made < ieMaxCollectorSheets)
  <2>1. k = g
    BY <1>2, <1>6
  <2>2. g.made = ieMaxCollectorSheets
    <3>1. g.made \in 0 .. ieMaxCollectorSheets
      BY <1>1 DEF Kept, Styles
    <3>2. QED
      BY <1>6, <3>1 DEF SheetsAssumed
  <2>3. QED
    BY <1>1, <1>6, <2>1, <2>2 DEF Asks, Pressed, SameLoads
<1>7. QED
  BY <1>4, <1>5, <1>6

(* Whatever way it is asked for.                                               *)
Step(h, s, cssNoWait) == IF cssNoWait THEN Css!NoWait(h, s) ELSE Css!LoadSheet(h, s)
LEMMA SheetAsked ==
  ASSUME SheetsAssumed, NEW h, NEW done \in SUBSET Sheets, NEW free, Kept(h, done, free),
         Pressed(h), NEW s \in Sheets, h.load[s] # 0, Idle(h, s), NEW cssNoWait \in BOOLEAN
  PROVE  Asks(Step(h, s, cssNoWait), h, done, free, s)
<1>1. CASE cssNoWait
  BY <1>1, NotWaitedFor DEF Step
<1>2. CASE ~cssNoWait /\ h.browser.imports
  BY <1>2, ImportAsked DEF Step, Css!LoadSheet
<1>3. CASE ~cssNoWait /\ ~h.browser.imports
  BY <1>3, LinkAsked DEF Step, Css!LoadSheet
<1>4. QED
  BY <1>1, <1>2, <1>3
(* A load: its sheets are named, then each of them is asked for.                  *)
LEMMA StepTyped ==
  ASSUME SheetsAssumed, NEW h \in Styles, NEW s \in Sheets, h.load[s] \in 1 .. Len(h.loads),
         NEW cssNoWait \in BOOLEAN
  PROVE  LET k == Step(h, s, cssNoWait)
         IN  k \in Styles /\ k.load = h.load /\ Len(k.loads) = Len(h.loads)
<1>1. CASE cssNoWait
  <2> DEFINE g == [h EXCEPT !.network[s] = "fetching", !.finalized = @ \cup {s}]
  <2>1. g \in Styles /\ g.load = h.load /\ g.loads = h.loads
    BY DEF Styles
  <2>2. Step(h, s, cssNoWait) = Css!Loaded(g, s)
    BY <1>1 DEF Step, Css!NoWait
  <2> HIDE DEF g
  <2>3. QED
    BY <2>1, <2>2, LoadedIs DEF SameBut
<1>2. CASE ~cssNoWait /\ ~h.browser.imports
  <2> DEFINE k == Css!LoadLink(h, s)
  <2>1. k \in Styles /\ k.load = h.load /\ k.loads = h.loads
    BY DEF Styles, Css!LoadLink
  <2>2. Step(h, s, cssNoWait) = k
    BY <1>2 DEF Step, Css!LoadSheet
  <2> HIDE DEF k
  <2>3. QED
    BY <2>1, <2>2
<1>3. CASE ~cssNoWait /\ h.browser.imports
  <2> DEFINE q == Append(h.queue, s)
             g == [h EXCEPT !.queue = q]
             k == Css!LoadImport(h, s)
  <2>1. q \in Seq(Sheets) /\ q # <<>>
    <3>1. h.queue \in Seq(Sheets)
      BY DEF Styles
    <3>2. QED
      BY <3>1, AppendProperties
  <2> HIDE DEF q
  <2>2. g \in Styles /\ g.load = h.load /\ g.loads = h.loads /\ g.queue = q
    BY <2>1 DEF Styles
  <2>3. k = IF g.pool # <<>> THEN Css!LoadNextImport([g EXCEPT !.pool = Tail(@)], Head(g.pool))
            ELSE IF g.made < ieMaxCollectorSheets
            THEN Css!LoadNextImport([g EXCEPT !.made = @ + 1], g.made + 1)
            ELSE g
    BY DEF Css!LoadImport, q
  <2> HIDE DEF g, k
  <2>4. ASSUME NEW m \in Styles, NEW c \in Collectors, m.queue # <<>>
        PROVE  LET n == Css!LoadNextImport(m, c)
               IN  n \in Styles /\ n.load = m.load /\ n.loads = m.loads
    <3> DEFINE x == Head(m.queue)
               r == Tail(m.queue)
               n == [m EXCEPT !.queue = r, !.importing[c] = x, !.network[x] = "fetching"]
    <3>1. Css!LoadNextImport(m, c) = n
      BY <2>4 DEF Css!LoadNextImport
    <3>2. x \in Sheets /\ x \in 0 .. MaxSheets /\ r \in Seq(Sheets)
      <4>1. m.queue \in Seq(Sheets)
        BY DEF Styles
      <4>2. x \in Sheets /\ r \in Seq(Sheets)
        BY <2>4, <4>1, HeadTailProperties
      <4>3. QED
        BY <4>2 DEF Sheets
    <3> HIDE DEF x, r
    <3>3. n \in Styles /\ n.load = m.load /\ n.loads = m.loads
      BY <3>2 DEF Styles
    <3>4. QED
      BY <3>1, <3>3
  <2>5. CASE g.pool # <<>>
    <3> DEFINE c == Head(g.pool)
               p == Tail(g.pool)
               m == [g EXCEPT !.pool = p]
    <3>1. c \in Collectors /\ p \in Seq(Collectors)
      <4>1. g.pool \in Seq(Collectors)
        BY <2>2 DEF Styles
      <4>2. QED
        BY <2>5, <4>1, HeadTailProperties
    <3>2. k = Css!LoadNextImport(m, c)
      BY <2>3, <2>5
    <3> HIDE DEF c, p
    <3>3. m \in Styles /\ m.load = g.load /\ m.loads = g.loads /\ m.queue = g.queue
      BY <2>2, <3>1 DEF Styles
    <3> HIDE DEF m
    <3>4. k \in Styles /\ k.load = m.load /\ k.loads = m.loads
      BY <2>1, <2>2, <2>4, <3>1, <3>2, <3>3
    <3>5. QED
      BY <1>3, <2>2, <3>3, <3>4 DEF k, Step, Css!LoadSheet
  <2>6. CASE g.pool = <<>> /\ g.made < ieMaxCollectorSheets
    <3> DEFINE c == g.made + 1
               m == [g EXCEPT !.made = c]
    <3>1. c \in Collectors /\ c \in 0 .. ieMaxCollectorSheets
      <4>1. g.made \in 0 .. ieMaxCollectorSheets
        BY <2>2 DEF Styles
      <4>2. QED
        BY <2>6, <4>1 DEF SheetsAssumed, Collectors
    <3>2. k = Css!LoadNextImport(m, c)
      BY <2>3, <2>6
    <3> HIDE DEF c
    <3>3. m \in Styles /\ m.load = g.load /\ m.loads = g.loads /\ m.queue = g.queue
      BY <2>2, <3>1 DEF Styles
    <3> HIDE DEF m
    <3>4. k \in Styles /\ k.load = m.load /\ k.loads = m.loads
      BY <2>1, <2>2, <2>4, <3>1, <3>2, <3>3
    <3>5. QED
      BY <1>3, <2>2, <3>3, <3>4 DEF k, Step, Css!LoadSheet
  <2>7. CASE g.pool = <<>> /\ ~(g.made < ieMaxCollectorSheets)
    <3>1. k = g
      BY <2>3, <2>7
    <3>2. QED
      BY <1>3, <2>2, <3>1 DEF k, Step, Css!LoadSheet
  <2>8. QED
    BY <2>5, <2>6, <2>7
<1>4. QED
  BY <1>1, <1>2, <1>3

Begun(h, n) ==
  LET l == Len(h.loads) + 1
      new == Css!Named(h) + 1 .. Css!Named(h) + n
  IN  [h EXCEPT !.loads = Append(@, [of |-> n, left |-> n, called |-> 0, rejected |-> FALSE]),
                !.load = [s \in Sheets |-> IF s \in new THEN l ELSE @[s]]]
AllStay(S, T, cssNoWait) == \A x \in S, s \in T : Step(x, s, cssNoWait) \in S
SheetBySheet(b, h, n, cssNoWait, m, S) ==
  /\ b[0] = Begun(h, n) /\ Css!Load(h, n, cssNoWait) = b[n]
  /\ \A k \in 1 .. n : b[k - 1] \in S => b[k] = Step(b[k - 1], m + k, cssNoWait)
LEMMA LoadGoes ==
  ASSUME NEW h, NEW n \in Nat, NEW cssNoWait \in BOOLEAN, NEW m \in Nat, m = Css!Named(h),
         NEW S, NEW T, AllStay(S, T, cssNoWait), \A k \in 1 .. n : m + k \in T,
         NEW g \in S, g = Begun(h, n)
  PROVE  \E b : SheetBySheet(b, h, n, cssNoWait, m, S)
<1> DEFINE w == [i \in 1 .. n |-> m + i]
           op == [x \in S \X T |-> Step(x[1], x[2], cssNoWait)]
           each(f) == f = [s \in SUBSET (DOMAIN w) |->
                             IF s = {} THEN g ELSE Step(f[s \ {MaxOf(s)}], w[MaxOf(s)], cssNoWait)]
           it == CHOOSE f : each(f)
           b == [k \in 0 .. n |-> it[1 .. k]]
<1>1. Css!Load(h, n, cssNoWait) = it[DOMAIN w]
  BY DEF Css!Load, Begun, Step, Css!Sheets, Sheets, Css!FoldLeft, Css!MapThenFoldSet, MaxOf, Css!Max
<1>2. \A x \in S, s \in T : Step(x, s, cssNoWait) \in S
  BY DEF AllStay
<1>3. w \in Seq(T) /\ Len(w) = n /\ DOMAIN w = 1 .. n /\ \A i \in 1 .. n : w[i] = m + i /\ w[i] \in T
  <2>1. w \in [1 .. n -> T]
    OBVIOUS
  <2>2. w \in Seq(T)
    BY <2>1, SeqDef
  <2>3. DOMAIN w = 1 .. n /\ \A i \in 1 .. n : w[i] = m + i /\ w[i] \in T
    OBVIOUS
  <2> HIDE DEF w
  <2>4. QED
    BY <2>2, <2>3, LenProperties
<1> HIDE DEF w
<1>4. op \in [S \X T -> S] /\ \A x \in S, s \in T : op[<<x, s>>] = Step(x, s, cssNoWait)
  BY <1>2
<1> HIDE DEF op
<1>5. PICK f \in [SUBSET (1 .. n) -> S] : Results(op, g, w, n, f)
  <2>1. n <= Len(w) /\ w \in Seq(T) /\ op \in [S \X T -> S]
    BY <1>3, <1>4
  <2>2. QED
    BY <2>1, ResultsExist
<1>6. each(f)
  <2>1. ASSUME NEW s \in SUBSET (1 .. n), s # {}
        PROVE  op[<<f[s \ {MaxOf(s)}], w[MaxOf(s)]>>] = Step(f[s \ {MaxOf(s)}], w[MaxOf(s)], cssNoWait)
    <3>1. MaxOf(s) \in 1 .. n
      BY <2>1, MaxOfPart
    <3>2. s \ {MaxOf(s)} \in SUBSET (1 .. n)
      OBVIOUS
    <3>3. QED
      BY <1>3, <1>4, <1>5, <3>1, <3>2
  <2>2. QED
    BY <1>3, <1>5, <2>1 DEF Results
<1>7. each(it)
  BY <1>6
<1> HIDE DEF it
<1>8. it[1 .. 0] = g
  BY <1>3, <1>7
<1>9. ASSUME NEW k \in 1 .. n, it[1 .. k - 1] \in S
      PROVE  it[1 .. k] = Step(it[1 .. k - 1], m + k, cssNoWait)
  <2>1. /\ MaxOf(1 .. k) = k /\ (1 .. k) \ {k} = 1 .. k - 1
        /\ 1 .. k # {} /\ 1 .. k \in SUBSET (DOMAIN w)
    BY <1>3, MaxUpTo
  <2>2. it[1 .. k] = Step(it[(1 .. k) \ {MaxOf(1 .. k)}], w[MaxOf(1 .. k)], cssNoWait)
    BY <1>7, <2>1
  <2>3. w[k] = m + k
    BY <1>3
  <2>4. QED
    BY <2>1, <2>2, <2>3
<1>10. \A k \in 0 .. n : b[k] = it[1 .. k]
  OBVIOUS
<1>11. \A k \in 1 .. n : k - 1 \in 0 .. n /\ k \in 0 .. n
  OBVIOUS
<1>12. b[0] = g /\ it[DOMAIN w] = b[n]
  BY <1>3, <1>8, <1>10
<1> HIDE DEF b
<1>13. \A k \in 1 .. n : b[k - 1] \in S => b[k] = Step(b[k - 1], m + k, cssNoWait)
  BY <1>9, <1>10, <1>11
<1>14. QED
  BY <1>1, <1>12, <1>13 DEF SheetBySheet

LEMMA CountUpTo ==
  ASSUME SheetsAssumed, NEW m \in Nat, NEW n \in Nat
  PROVE  Cardinality(m + 1 .. m + n) = n
<1>1. m + 1 \in Int /\ m + n \in Int
  OBVIOUS
<1>2. Cardinality(m + 1 .. m + n) = IF m + 1 > m + n THEN 0 ELSE (m + n) - (m + 1) + 1
  BY <1>1, FS_Interval
<1>3. QED
  BY <1>2

LEMMA BegunKeeps ==
  ASSUME SheetsAssumed, NEW h, NEW done \in SUBSET Sheets, NEW free, Kept(h, done, free),
         Pressed(h), NEW n \in Nat \ {0}, Css!Named(h) + n <= MaxSheets
  PROVE  LET g == Begun(h, n)
             m == Css!Named(h)
         IN  /\ m \in Nat /\ Kept(g, done, free) /\ Pressed(g) /\ g.browser = h.browser
             /\ g.importing = h.importing
             /\ \A i \in 1 .. n : /\ m + i \in Sheets /\ Idle(g, m + i)
                                  /\ g.load[m + i] \in 1 .. Len(g.loads)
<1> DEFINE L == Len(h.loads)
           l == L + 1
           m == Css!Named(h)
           new == m + 1 .. m + n
           x == [of |-> n, left |-> n, called |-> 0, rejected |-> FALSE]
           q == Append(h.loads, x)
           d == [s \in Sheets |-> IF s \in new THEN l ELSE h.load[s]]
           g == [h EXCEPT !.loads = q, !.load = d]
<1>1. /\ h \in Styles /\ h.loads \in Seq(Asked) /\ L \in Nat
      /\ h.load \in [Sheets -> Nat] /\ h.queue \in Seq(Sheets)
  <2>1. h \in Styles /\ h.loads \in Seq(Asked) /\ h.load \in [Sheets -> Nat] /\ h.queue \in Seq(Sheets)
    BY DEF Kept, Styles
  <2>2. QED
    BY <2>1, LenProperties
<1>2. m \in Nat /\ m + n <= MaxSheets /\ FirstNamed(h, m)
  <2>1. PICK k \in 0 .. MaxSheets : FirstNamed(h, k)
    BY DEF Kept, Fits
  <2>2. k \in Nat /\ {s \in Sheets : h.load[s] # 0} = 0 + 1 .. 0 + k
    BY <2>1 DEF FirstNamed, Sheets, SheetsAssumed
  <2>3. Cardinality(0 + 1 .. 0 + k) = k
    BY <2>2, CountUpTo
  <2>4. m = k
    <3>1. \A S : Css!Cardinality(S) = Cardinality(S)
      BY DEF Css!Cardinality, Cardinality
    <3>2. m = Css!Cardinality({s \in Sheets : h.load[s] # 0})
      BY DEF Css!Named, Css!Sheets, Sheets
    <3>3. QED
      BY <2>2, <2>3, <3>1, <3>2
  <2>5. QED
    BY <2>1, <2>2, <2>4
<1> HIDE DEF m
<1>3. g = Begun(h, n)
  BY DEF Begun, m
<1>4. /\ x \in Asked /\ x.of = n /\ x.left = n /\ x.called = 0 /\ ~x.rejected
  BY DEF Asked
<1> HIDE DEF x
<1>5. /\ q \in Seq(Asked) /\ Len(q) = l /\ q[l] = x
      /\ \A i \in 1 .. L : q[i] = h.loads[i] /\ i # l
  BY <1>1, <1>4, AppendProperties
<1> HIDE DEF q
<1>6. new \in SUBSET Sheets /\ \A s \in Sheets : s \in new <=> s > m /\ s <= m + n
  BY <1>2 DEF Sheets, SheetsAssumed
<1>7. /\ d \in [Sheets -> Nat] /\ l \in Nat /\ l # 0 /\ \A s \in new : d[s] = l
      /\ \A s \in Sheets : s \notin new => d[s] = h.load[s]
  BY <1>1, <1>6
<1> HIDE DEF d
<1>8. \A s \in new : h.load[s] = 0
  <2>1. \A s \in new : s \in Sheets /\ ~(s <= m)
    BY <1>2, <1>6 DEF Sheets
  <2>2. QED
    BY <1>2, <2>1 DEF FirstNamed
<1> HIDE DEF l, L
<1>9. g \in Styles /\ g.loads = q /\ g.load = d /\ g.browser = h.browser /\ g.network = h.network
      /\ SameLinks(g, h) /\ SameCollectors(g, h)
  BY <1>1, <1>5, <1>7 DEF Styles, SameLinks, SameCollectors
<1> HIDE DEF g
<1>10. \A s \in Sheets : SheetIs(h, done, s)
  BY DEF Kept, Fits
<1>11. \A s \in new : s \in Sheets /\ h.network[s] = "none" /\ Rests(h, s) /\ s \notin done
  <2>1. \A s \in new : s \in Sheets /\ h.network[s] = "none" /\ Rests(h, s)
    BY <1>6, <1>8, <1>10 DEF SheetIs, Anyhow
  <2>2. QED
    BY <1>10, <2>1 DEF SheetIs, Anyhow, Rests
<1>12. Answered(g, done)
  <2>1. \A s \in Sheets : Lost(h, done, s) => Lost(g, done, s)
    BY <1>9 DEF Lost, SameLinks
  <2>2. \A s \in Sheets : s \notin new => h.load[s] \in 0 .. L
    BY <1>10 DEF SheetIs, Anyhow, L
  <2>3. OfLoad(g, l) = new
    <3>1. \A s \in Sheets : d[s] = l => s \in new
      BY <1>1, <1>7, <2>2 DEF l
    <3>2. QED
      BY <1>6, <1>7, <1>9, <3>1 DEF OfLoad
  <2>4. Cardinality(new) = n
    BY <1>2, CountUpTo
  <2>5. new \ done = new
    BY <1>11
  <2>6. Owes(g, done, l)
    BY <1>4, <1>5, <1>9, <2>3, <2>4, <2>5 DEF Owes
  <2>7. ASSUME NEW i \in 1 .. L PROVE Owes(g, done, i)
    <3>1. i # l /\ i # 0 /\ g.loads[i] = h.loads[i]
      BY <1>1, <1>5, <1>9
    <3>2. OfLoad(g, i) = OfLoad(h, i) /\ OfLoad(h, i) \in SUBSET Sheets
      <4>1. \A s \in Sheets : d[s] = i <=> h.load[s] = i
        BY <1>7, <1>8, <3>1
      <4>2. QED
        BY <1>9, <4>1 DEF OfLoad
    <3>3. Owes(h, done, i)
      BY DEF Kept, Answered, L
    <3>4. QED
      BY <2>1, <3>1, <3>2, <3>3 DEF Owes
  <2>8. \A i \in 1 .. Len(g.loads) : i \in 1 .. L \/ i = l
    BY <1>1, <1>5, <1>9 DEF l
  <2>9. QED
    BY <2>6, <2>7, <2>8 DEF Answered
<1>13. Fits(g, done)
  <2>1. ASSUME NEW s \in Sheets PROVE SheetIs(g, done, s)
    <3>1. SheetIs(h, done, s)
      BY <1>10
    <3>2. g.load[s] \in 0 .. Len(g.loads) /\ (g.load[s] = 0 => h.load[s] = 0)
      <4>1. CASE s \in new
        BY <1>1, <1>5, <1>7, <1>9, <4>1 DEF l
      <4>2. CASE s \notin new
        <5>1. g.load[s] = h.load[s] /\ h.load[s] \in 0 .. L
          BY <1>7, <1>9, <3>1, <4>2 DEF SheetIs, Anyhow, L
        <5>2. QED
          BY <1>1, <1>5, <1>9, <5>1 DEF l
      <4>3. QED
        BY <4>1, <4>2
    <3>3. QED
      BY <1>9, <3>1, <3>2 DEF SheetIs, Anyhow, Rests, ByImport, ByLink, SameLinks
  <2>2. FirstNamed(g, m + n)
    <3> SUFFICES ASSUME NEW s \in Sheets PROVE d[s] # 0 <=> s <= m + n
      BY <1>9 DEF FirstNamed
    <3>1. CASE s \in new
      BY <1>6, <1>7, <3>1
    <3>2. CASE s \notin new
      <4>1. d[s] # 0 <=> s <= m
        BY <1>2, <1>7, <3>2 DEF FirstNamed
      <4>2. s <= m + n <=> s <= m
        <5>1. ~(s > m /\ s <= m + n)
          BY <1>6, <3>2
        <5>2. QED
          BY <1>2, <5>1 DEF Sheets
      <4>3. QED
        BY <4>1, <4>2
    <3>3. QED
      BY <3>1, <3>2
  <2>3. m + n \in 0 .. MaxSheets
    BY <1>2 DEF SheetsAssumed
  <2>4. /\ g.browser.events = {} => ~g.hasEvent
        /\ g.browser.events # {} => "load" \in g.browser.events
    BY <1>9 DEF Kept, Fits, SameLinks
  <2>5. QED
    BY <2>1, <2>2, <2>3, <2>4 DEF Fits
<1>14. Elements(h.queue) \in SUBSET Sheets /\ \A s \in Elements(h.queue) : h.load[s] # 0
  BY <1>1, Listed DEF Kept, Sharing
<1>15. Sharing(g, free)
  <2>1. \A s \in Elements(h.queue) : d[s] # 0
    BY <1>7, <1>14
  <2>2. QED
    BY <1>9, <2>1 DEF Kept, Sharing, SameCollectors
<1>16. Collects(g, done, free)
  BY <1>9 DEF Kept, Collects, SameCollectors
<1>17. Pressed(g)
  BY <1>9 DEF Pressed, SameCollectors
<1>18. \A s \in new : s \in Sheets /\ Idle(g, s) /\ g.load[s] \in 1 .. Len(g.loads)
  <2>1. \A s \in new : s \in Sheets /\ Idle(g, s)
    BY <1>8, <1>9, <1>11, <1>14 DEF Idle, Rests, SameLinks, SameCollectors
  <2>2. \A s \in new : g.load[s] \in 1 .. Len(g.loads)
    BY <1>1, <1>5, <1>7, <1>9 DEF l
  <2>3. QED
    BY <2>1, <2>2
<1>19. \A i \in 1 .. n : m + i \in new
  BY <1>2
<1>20. Kept(g, done, free)
  BY <1>9, <1>12, <1>13, <1>15, <1>16 DEF Kept
<1>21. QED
  <2> HIDE DEF new
  <2>1. QED
    BY <1>2, <1>3, <1>9, <1>17, <1>18, <1>19, <1>20 DEF m, SameCollectors

LEMMA LoadKeeps ==
  ASSUME SheetsAssumed, NEW h, NEW done \in SUBSET Sheets, NEW free, Kept(h, done, free),
         Pressed(h), NEW n \in Nat \ {0}, Css!Named(h) + n <= MaxSheets, NEW cssNoWait \in BOOLEAN,
         free \in SUBSET Collectors
  PROVE  LET k == Css!Load(h, n, cssNoWait)
         IN  /\ \E new \in SUBSET Sheets : Kept(k, new, free)
             /\ Pressed(k) /\ k.browser = h.browser
             /\ \A c \in free : k.importing[c] = h.importing[c]
<1> DEFINE m == Css!Named(h)
           g == Begun(h, n)
           T == {s \in Sheets : g.load[s] \in 1 .. Len(g.loads)}
           S == {x \in Styles : x.load = g.load /\ Len(x.loads) = Len(g.loads)}
           Part(x, i) == /\ x \in S /\ x.browser = g.browser /\ Pressed(x)
                         /\ \E new \in SUBSET Sheets : Kept(x, new, free)
                         /\ \A c \in free : x.importing[c] = g.importing[c]
                         /\ \A j \in i + 1 .. n : Idle(x, m + j)
<1>1. /\ m \in Nat /\ Kept(g, done, free) /\ Pressed(g) /\ g.browser = h.browser
      /\ g.importing = h.importing
      /\ \A i \in 1 .. n : /\ m + i \in Sheets /\ Idle(g, m + i)
                           /\ g.load[m + i] \in 1 .. Len(g.loads)
  BY BegunKeeps
<1> HIDE DEF m, g
<1>2. AllStay(S, T, cssNoWait)
  <2> SUFFICES ASSUME NEW x \in S, NEW s \in T PROVE Step(x, s, cssNoWait) \in S
    BY DEF AllStay
  <2>1. x \in Styles /\ s \in Sheets /\ x.load[s] \in 1 .. Len(x.loads)
    OBVIOUS
  <2>2. LET k == Step(x, s, cssNoWait)
        IN  k \in Styles /\ k.load = x.load /\ Len(k.loads) = Len(x.loads)
    BY <2>1, StepTyped
  <2>3. QED
    BY <2>2
<1>3. g \in S /\ Part(g, 0)
  <2>1. g \in Styles
    BY <1>1 DEF Kept
  <2>2. \A j \in 0 + 1 .. n : Idle(g, m + j)
    BY <1>1
  <2>3. QED
    BY <1>1, <2>1, <2>2
<1>4. PICK b : SheetBySheet(b, h, n, cssNoWait, m, S)
  <2>1. \A k \in 1 .. n : m + k \in T
    BY <1>1
  <2> HIDE DEF S, T
  <2>2. \E b : SheetBySheet(b, h, n, cssNoWait, m, S)
    BY <1>1, <1>2, <1>3, <2>1, LoadGoes DEF m, g
  <2>3. QED
    BY <2>2
<1>5. /\ b[0] = g /\ Css!Load(h, n, cssNoWait) = b[n]
      /\ \A k \in 1 .. n : b[k - 1] \in S => b[k] = Step(b[k - 1], m + k, cssNoWait)
  BY <1>4 DEF SheetBySheet, g
<1>6. ASSUME NEW i \in 1 .. n, NEW x, Part(x, i - 1)
      PROVE  Part(Step(x, m + i, cssNoWait), i)
  <2> DEFINE k == Step(x, m + i, cssNoWait)
             s == m + i
  <2>1. PICK old \in SUBSET Sheets : Kept(x, old, free)
    BY <1>6
  <2>2. s \in Sheets /\ g.load[s] \in 1 .. Len(g.loads) /\ s \in T
    BY <1>1
  <2>3. Idle(x, s) /\ x.load[s] # 0 /\ x \in S
    BY <1>6, <2>2
  <2> HIDE DEF s
  <2>4. Asks(Step(x, s, cssNoWait), x, old, free, s)
    BY <1>6, <2>1, <2>2, <2>3, SheetAsked
  <2>5. Asks(k, x, old, free, s)
    BY <2>4 DEF s
  <2> HIDE DEF k
  <2>6. /\ \E new \in SUBSET Sheets : Kept(k, new, free)
        /\ Pressed(k) /\ k.load = x.load /\ Len(k.loads) = Len(x.loads) /\ k.browser = x.browser
        /\ \A c \in free : k.importing[c] = x.importing[c]
        /\ \A t \in Sheets : t # s /\ Idle(x, t) => Idle(k, t)
    BY <2>5 DEF Asks
  <2>7. k \in S
    <3>1. k \in Styles
      BY <2>6 DEF Kept
    <3>2. QED
      BY <2>3, <2>6, <3>1
  <2>8. \A j \in i + 1 .. n : Idle(k, m + j)
    <3> SUFFICES ASSUME NEW j \in i + 1 .. n PROVE Idle(k, m + j)
      OBVIOUS
    <3>1. j \in 1 .. n /\ j \in (i - 1) + 1 .. n /\ m + j # s
      BY <1>1 DEF s
    <3>2. m + j \in Sheets /\ Idle(x, m + j)
      BY <1>1, <1>6, <3>1
    <3>3. QED
      BY <2>6, <3>1, <3>2
  <2>9. Part(k, i)
    BY <1>6, <2>6, <2>7, <2>8
  <2>10. QED
    BY <2>9 DEF k
<1>7. Part(b[n], n)
  <2> DEFINE good == {i \in 0 .. n : Part(b[i], i)}
  <2>1. 0 \in good
    BY <1>3, <1>5
  <2>2. \A i \in 1 .. n : i - 1 \in good => i \in good
    <3> SUFFICES ASSUME NEW i \in 1 .. n, i - 1 \in good PROVE i \in good
      OBVIOUS
    <3>1. Part(b[i - 1], i - 1)
      OBVIOUS
    <3>2. b[i] = Step(b[i - 1], m + i, cssNoWait)
      BY <1>5, <3>1
    <3>3. Part(b[i], i)
      <4> HIDE DEF Part
      <4>1. QED
        BY <1>6, <3>1, <3>2
    <3>4. QED
      BY <3>3
  <2>3. \A i \in 0 .. n : i \in good
    <3> HIDE DEF good
    <3>1. QED
      BY <2>1, <2>2, Climbs
  <2>4. QED
    BY <2>3
<1>8. QED
  BY <1>1, <1>5, <1>7

(* A link has come one step further, or its sheet is loaded by it.               *)
Holds(k) == Pressed(k) /\ \E done \in SUBSET Sheets : Kept(k, done, {})
LEMMA LinkTouched ==
  ASSUME NEW h, NEW done \in SUBSET Sheets, Kept(h, done, {}), Pressed(h), ~h.browser.imports,
         NEW s \in Sheets, NEW k \in Styles, Touched(k, h, s), NEW new,
         new = done \/ new = done \cup {s}, SheetIs(k, new, s), Answered(k, new)
  PROVE  Holds(k)
<1>1. Alone(h, {}, s)
  <2>1. h.queue = <<>> /\ \A c \in Collectors : h.importing[c] = 0
    BY DEF Kept, Sharing
  <2>2. s # 0
    BY DEF Sheets
  <2>3. Elements(<<>>) = {}
    BY DEF Elements
  <2>4. QED
    BY <2>1, <2>2, <2>3 DEF Alone
<1>2. Fits(k, new) /\ Sharing(k, {}) /\ Collects(k, new, {}) /\ Pressed(k)
  BY <1>1, OneTouched DEF Kept
<1>3. new \in SUBSET Sheets
  OBVIOUS
<1>4. QED
  BY <1>2, <1>3 DEF Holds, Kept

Named(h, s) ==
  h.network[s] # "none" /\ h.load[s] \in 1 .. Len(h.loads) /\ h.load[s] # 0
LEMMA HasLoad ==
  ASSUME NEW h \in Styles, NEW done, NEW s \in Sheets, Anyhow(h, done, s), ~Rests(h, s)
  PROVE  Named(h, s)
<1>1. h.load[s] \in 0 .. Len(h.loads) /\ h.load[s] # 0 /\ h.network[s] # "none"
  BY DEF Anyhow
<1>2. Len(h.loads) \in Nat
  BY LenProperties DEF Styles
<1>3. QED
  BY <1>1, <1>2 DEF Named

LEMMA LinkIsLoaded ==
  ASSUME SheetsAssumed, NEW h, NEW done \in SUBSET Sheets, Kept(h, done, {}), Pressed(h),
         ~h.browser.imports, NEW s \in Sheets, s \notin done, Named(h, s),
         \A t \in Sheets : Lost(h, done, t) => t # s,
         NEW g \in Styles, SameLoads(g, h), Touched(g, h, s), s \in g.finalized, s \notin g.waiting,
         g.network[s] = h.network[s], g.fires[s] = h.fires[s] \/ g.fires[s] = "none"
  PROVE  Holds(Css!Loaded(g, s))
<1> DEFINE k == Css!Loaded(g, s)
           new == done \cup {s}
<1>1. g.load[s] \in 1 .. Len(g.loads) /\ SheetIs(h, done, s)
  BY DEF Named, SameLoads, Kept, Fits
<1>2. k \in Styles /\ SameBut(k, g)
  BY <1>1, LoadedIs
<1>3. Answered(k, new)
  <2>1. \A t \in Sheets : Lost(h, done, t) => t # s /\ Lost(g, done, t)
    BY DEF Lost, Touched
  <2>2. QED
    BY <1>1, <2>1, LoadedAnswers DEF Kept
<1> HIDE DEF k
<1>4. Touched(k, h, s)
  BY <1>2 DEF Touched, SameBut, SameLinks, SameCollectors
<1>5. SheetIs(k, new, s)
  <2>1. /\ k.network[s] = h.network[s] /\ s \in k.finalized /\ s \notin k.waiting
        /\ k.fires[s] = h.fires[s] \/ k.fires[s] = "none"
        /\ k.load = h.load /\ Len(k.loads) = Len(h.loads) /\ k.browser = h.browser
    BY <1>2, <1>4 DEF SameBut, SameLinks, Touched
  <2>2. Anyhow(k, new, s)
    BY <1>1, <2>1 DEF SheetIs, Anyhow, Named
  <2>3. ByLink(k, new, s)
    BY <2>1 DEF ByLink
  <2>4. QED
    BY <2>1, <2>2, <2>3 DEF SheetIs
<1>6. Holds(k)
  BY <1>2, <1>3, <1>4, <1>5, LinkTouched
<1>7. QED
  BY <1>6 DEF k

LEMMA Becomes ==
  ASSUME NEW k, Css!Become(k), Holds(k)
  PROVE  SheetsInv'
<1>1. k \in Styles
  BY DEF Holds, Kept
<1>2. Heap' = k
  BY <1>1, HeapBecomes
<1>3. QED
  BY <1>2 DEF SheetsInv, Holds

(* The document is complete.                                                   *)
LEMMA CompleteKeeps ==
  ASSUME SheetsInv, Css!DocumentComplete PROVE SheetsInv'
<1> DEFINE h == Heap
           k == [Heap EXCEPT !.complete = TRUE]
<1>1. PICK done \in SUBSET Sheets : Kept(h, done, {})
  BY DEF SheetsInv
<1>2. Css!Become(k) /\ h \in Styles /\ Pressed(h)
  BY <1>1 DEF Css!DocumentComplete, Heap, SheetsInv, Kept
<1> HIDE DEF h
<1>3. /\ k \in Styles /\ SameLoads(k, h) /\ SameCollectors(k, h) /\ k.browser = h.browser
      /\ k.network = h.network /\ k.finalized = h.finalized /\ k.watched = h.watched
      /\ k.fires = h.fires /\ k.waiting = h.waiting /\ k.hasEvent = h.hasEvent
  BY <1>2 DEF h, Styles, SameLoads, SameCollectors
<1> HIDE DEF k
<1>4. Answered(k, done)
  <2>1. \A t \in Sheets : Lost(h, done, t) => Lost(k, done, t)
    BY <1>3 DEF Lost
  <2>2. QED
    BY <1>1, <1>3, <2>1, AnsweredStays DEF Kept
<1>5. Fits(k, done)
  <2>1. \A t \in Sheets : SheetIs(k, done, t)
    BY <1>1, <1>3 DEF Kept, Fits, SheetIs, Anyhow, Rests, ByImport, ByLink, SameLoads
  <2>2. QED
    BY <1>1, <1>3, <2>1 DEF Kept, Fits, FirstNamed, SameLoads
<1>6. Sharing(k, {}) /\ Collects(k, done, {}) /\ Pressed(k)
  BY <1>1, <1>2, <1>3 DEF Kept, Sharing, Collects, Pressed, SameLoads, SameCollectors
<1>7. Holds(k)
  BY <1>3, <1>4, <1>5, <1>6 DEF Holds, Kept
<1>8. QED
  BY <1>2, <1>7, Becomes

(* Sheets are required.                                                       *)
LEMMA RequireKeeps ==
  ASSUME SheetsAssumed, SheetsInv, NEW n \in 1 .. 2, NEW cssNoWait \in BOOLEAN,
         Css!Require(n, cssNoWait)
  PROVE  SheetsInv'
<1> DEFINE k == Css!Load(Heap, n, cssNoWait)
<1>1. PICK done \in SUBSET Sheets : Kept(Heap, done, {})
  BY DEF SheetsInv
<1>2. Css!Become(k) /\ Css!Named(Heap) + n <= MaxSheets /\ Pressed(Heap)
  BY DEF Css!Require, Css!Fits, Heap, SheetsInv
<1>3. n \in Nat \ {0} /\ {} \in SUBSET Collectors
  OBVIOUS
<1> HIDE DEF k
<1>4. Pressed(k) /\ \E new \in SUBSET Sheets : Kept(k, new, {})
  BY <1>1, <1>2, <1>3, LoadKeeps DEF k
<1>5. Holds(k)
  BY <1>4 DEF Holds
<1>6. QED
  BY <1>2, <1>5, Becomes

(* An import ends: whoever waited for the sheet may load more, then the collector  *)
(* takes the next one.                                                         *)
LEMMA ImportEnded ==
  ASSUME SheetsAssumed, NEW h, NEW done \in SUBSET Sheets, Kept(h, done, {}), Pressed(h),
         NEW c \in Collectors, NEW s, s = h.importing[c], s # 0, NEW good \in BOOLEAN
  PROVE  LET g == [h EXCEPT !.network[s] = IF good THEN "there" ELSE "missing"]
             k == IF good THEN Css!Loaded(g, s) ELSE Css!Failed(g, s)
         IN  /\ \E new \in SUBSET Sheets : Kept(k, new, {c})
             /\ Pressed(k) /\ k.browser = h.browser /\ k.load = h.load
<1> DEFINE e == IF good THEN "there" ELSE "missing"
           n == [h.network EXCEPT ![s] = e]
           g == [h EXCEPT !.network = n]
           k == IF good THEN Css!Loaded(g, s) ELSE Css!Failed(g, s)
           new == IF good THEN done \cup {s} ELSE done
<1>1. /\ h \in Styles /\ s \in Sheets /\ h.network \in [Sheets -> {"none", "fetching", "there", "missing"}]
  <2>1. h \in Styles /\ h.importing[c] \in 0 .. MaxSheets
    BY DEF Kept, Styles
  <2>2. s \in Sheets
    BY <2>1 DEF Sheets, SheetsAssumed
  <2>3. QED
    BY <2>1, <2>2 DEF Styles
<1>2. /\ h.browser.imports /\ h.network[s] = "fetching" /\ s \notin done /\ c <= h.made
      /\ SheetIs(h, done, s)
  BY <1>1 DEF Kept, Sharing, Collects, Fits
<1>3. Named(h, s) /\ h.fires[s] = "none" /\ s \notin h.watched /\ s \notin h.waiting
      /\ s \notin h.finalized
  <2>1. Anyhow(h, done, s) /\ ByImport(h, done, s) /\ ~Rests(h, s)
    BY <1>2 DEF SheetIs, Rests
  <2>2. QED
    BY <1>1, <1>2, <2>1, HasLoad DEF ByImport
<1>4. Sharing(h, {c}) /\ Collects(h, done, {c}) /\ Alone(h, {c}, s)
  <2>1. Sharing(h, {c})
    BY <1>2 DEF Kept, Sharing
  <2>2. Collects(h, done, {c})
    BY DEF Kept, Collects
  <2>3. s \notin Elements(h.queue)
    BY <1>2 DEF Kept, Sharing
  <2>4. \A d \in Collectors : d \notin {c} => h.importing[d] # s
    BY DEF Kept, Collects
  <2>5. QED
    BY <2>1, <2>2, <2>3, <2>4 DEF Alone
<1>5. e \in {"there", "missing"} /\ (good => e = "there") /\ (~good => e = "missing")
  OBVIOUS
<1> HIDE DEF e
<1>6. /\ n \in [Sheets -> {"none", "fetching", "there", "missing"}] /\ n[s] = e
      /\ \A t \in Sheets : t # s => n[t] = h.network[t]
  BY <1>1, <1>5
<1> HIDE DEF n
<1>7. /\ g \in Styles /\ SameLoads(g, h) /\ SameLinks(g, h) /\ SameCollectors(g, h)
      /\ g.browser = h.browser /\ g.network = n
  BY <1>1, <1>6 DEF Styles, SameLoads, SameLinks, SameCollectors
<1>8. g = [h EXCEPT !.network[s] = e]
  BY DEF n
<1> HIDE DEF g
<1>9. g.load[s] \in 1 .. Len(g.loads)
  BY <1>3, <1>7 DEF Named, SameLoads
<1>10. \A t \in Sheets : Lost(h, done, t) => t # s /\ Lost(g, done, t)
  BY <1>2, <1>6, <1>7 DEF Lost
<1>11. k \in Styles /\ SameBut(k, g) /\ Answered(k, new)
  <2>1. CASE good
    BY <1>1, <1>2, <1>7, <1>9, <1>10, <2>1, LoadedIs, LoadedAnswers DEF Kept
  <2>2. CASE ~good
    <3>1. Lost(g, done, s)
      BY <1>2, <1>5, <1>6, <1>7, <2>2 DEF Lost
    <3>2. Answered(g, done)
      BY <1>7, <1>10, AnsweredStays DEF Kept
    <3>3. QED
      BY <1>1, <1>7, <1>9, <2>2, <3>1, <3>2, FailedIs, FailedAnswers
  <2>3. QED
    BY <2>1, <2>2
<1> HIDE DEF k
<1>12. Touched(k, h, s)
  BY <1>6, <1>7, <1>11 DEF Touched, SameBut, SameLoads, SameLinks, SameCollectors
<1>13. SheetIs(k, new, s)
  <2>1. /\ k.network[s] = e /\ s \notin k.finalized /\ s \notin k.watched /\ s \notin k.waiting
        /\ k.fires[s] = "none" /\ k.load = h.load /\ Len(k.loads) = Len(h.loads)
        /\ k.browser = h.browser
    BY <1>3, <1>6, <1>7, <1>11 DEF SameBut, SameLinks, SameLoads
  <2>2. (s \in new <=> good) /\ (e = "there" <=> good) /\ e # "none"
    BY <1>2, <1>5
  <2> HIDE DEF new
  <2>3. Anyhow(k, new, s)
    BY <1>2, <1>3, <2>1, <2>2 DEF SheetIs, Anyhow, Named
  <2>4. ByImport(k, new, s)
    BY <2>1, <2>2 DEF ByImport
  <2>5. QED
    BY <1>2, <2>1, <2>3, <2>4 DEF SheetIs
<1>14. new = done \/ new = done \cup {s}
  OBVIOUS
<1>15. new \in SUBSET Sheets
  BY <1>1
<1> HIDE DEF new
<1>16. Fits(k, new) /\ Sharing(k, {c}) /\ Collects(k, new, {c}) /\ Pressed(k)
  <2>1. h \in Styles /\ Fits(h, done)
    BY <1>1 DEF Kept
  <2> DEFINE F == {c}
  <2>2. Sharing(h, F) /\ Collects(h, done, F) /\ Alone(h, F, s)
    BY <1>4
  <2> HIDE DEF F
  <2>3. Fits(k, new) /\ Sharing(k, F) /\ Collects(k, new, F) /\ (Pressed(h) => Pressed(k))
    BY ONLY <1>1, <1>12, <1>13, <1>14, <2>1, <2>2, OneTouched
  <2>4. QED
    BY <2>3 DEF F
<1>17. Kept(k, new, {c})
  BY <1>11, <1>16 DEF Kept
<1>18. k.browser = h.browser /\ k.load = h.load
  BY <1>12 DEF Touched
<1>19. QED
  BY <1>8, <1>15, <1>16, <1>17, <1>18 DEF k, e

LEMMA ImportedKeeps ==
  ASSUME SheetsAssumed, SheetsInv, NEW c \in Collectors, NEW good \in BOOLEAN, NEW more \in 0 .. 2,
         Css!Imported(c, good, more)
  PROVE  SheetsInv'
<1> DEFINE h == Heap
           s == importing[c]
           g == [h EXCEPT !.network[s] = IF good THEN "there" ELSE "missing"]
           k == IF good THEN Css!Loaded(g, s) ELSE Css!Failed(g, s)
           m == IF more = 0 THEN k ELSE Css!Load(k, more, FALSE)
           r == Css!LoadNextImport(m, c)
<1>1. PICK done \in SUBSET Sheets : Kept(h, done, {})
  BY DEF SheetsInv
<1>2. /\ Css!Become(r) /\ Css!Named(h) + more <= MaxSheets /\ Pressed(h) /\ s # 0
      /\ h.importing[c] = s
  BY DEF Css!Imported, Css!Fits, Heap, Css!Heap, SheetsInv
<1> HIDE DEF h, s
<1>3. /\ \E new \in SUBSET Sheets : Kept(k, new, {c})
      /\ Pressed(k) /\ k.browser = h.browser /\ k.load = h.load
  BY <1>1, <1>2, ImportEnded
<1> HIDE DEF k
<1>4. Pressed(m) /\ \E new \in SUBSET Sheets : Kept(m, new, {c})
  <2>1. CASE more = 0
    BY <1>3, <2>1
  <2>2. CASE more # 0
    <3>1. m = Css!Load(k, more, FALSE)
      BY <2>2
    <3>2. Css!Named(k) = Css!Named(h)
      BY <1>3 DEF Css!Named
    <3>3. more \in Nat \ {0} /\ {c} \in SUBSET Collectors
      BY <2>2
    <3>4. PICK new \in SUBSET Sheets : Kept(k, new, {c})
      BY <1>3
    <3>5. FALSE \in BOOLEAN /\ Css!Named(k) + more <= MaxSheets
      BY <1>2, <3>2
    <3> HIDE DEF m
    <3>6. QED
      BY <1>3, <3>1, <3>3, <3>4, <3>5, LoadKeeps
  <2>3. QED
    BY <2>1, <2>2
<1> HIDE DEF m
<1>5. PICK new \in SUBSET Sheets : Kept(m, new, {c})
  BY <1>4
<1>6. {c} \ {c} = {} /\ c \in {c}
  OBVIOUS
<1>7. Kept(r, new, {}) /\ Pressed(r)
  <2>1. CASE m.queue = <<>>
    BY <1>5, <1>6, <2>1, GivenBack
  <2>2. CASE m.queue # <<>>
    <3>1. Eases(m)
      BY <1>4 DEF Eases, Pressed
    <3>2. QED
      BY <1>5, <1>6, <2>2, <3>1, TakesNext
  <2>3. QED
    BY <2>1, <2>2
<1>8. Holds(r)
  BY <1>7 DEF Holds
<1>9. QED
  BY <1>2, <1>8, Becomes

(* The sheet of a link is there, or will not be.                                *)
LEMMA FetchedKeeps ==
  ASSUME SheetsAssumed, SheetsInv, NEW s \in Sheets, NEW good \in BOOLEAN, Css!Fetched(s, good)
  PROVE  SheetsInv'
<1> DEFINE h == Heap
           e == IF good THEN "there" ELSE "missing"
           f == Css!EventOf(good)
           n == [h.network EXCEPT ![s] = e]
           w == [h.fires EXCEPT ![s] = f]
           k == [h EXCEPT !.network = n, !.fires = w]
<1>1. PICK done \in SUBSET Sheets : Kept(h, done, {})
  BY DEF SheetsInv
<1>2. /\ Pressed(h) /\ h \in Styles /\ ~h.browser.imports /\ h.network[s] = "fetching" /\ Css!Become(k)
      /\ f = IF (IF good \/ h.browser.always THEN "load" ELSE "error") \in h.browser.events
             THEN IF good \/ h.browser.always THEN "load" ELSE "error" ELSE "none"
  BY <1>1 DEF Css!Fetched, Heap, Css!Heap, SheetsInv, Kept, Css!EventOf
<1>3. SheetIs(h, done, s) /\ (h.browser.events # {} => "load" \in h.browser.events)
  BY <1>1 DEF Kept, Fits
<1>4. /\ f \in {"none", "load", "error"} /\ (f # "none" => f \in h.browser.events)
      /\ f = "error" => ~good
      /\ good /\ f = "none" => h.browser.events = {}
  BY <1>2, <1>3
<1> HIDE DEF f
<1>5. e \in {"there", "missing"} /\ (good <=> e = "there")
  OBVIOUS
<1> HIDE DEF e
<1> HIDE DEF h
<1>6. /\ n \in [Sheets -> {"none", "fetching", "there", "missing"}] /\ n[s] = e
      /\ \A t \in Sheets : t # s => n[t] = h.network[t]
  BY <1>2, <1>5 DEF Styles
<1>7. /\ w \in [Sheets -> {"none", "load", "error"}] /\ w[s] = f
      /\ \A t \in Sheets : t # s => w[t] = h.fires[t]
  BY <1>2, <1>4 DEF Styles
<1> HIDE DEF n, w
<1>8. /\ k \in Styles /\ SameLoads(k, h) /\ SameCollectors(k, h) /\ k.browser = h.browser
      /\ k.network = n /\ k.finalized = h.finalized /\ k.watched = h.watched
      /\ k.fires = w /\ k.waiting = h.waiting /\ k.hasEvent = h.hasEvent
  BY <1>2, <1>6, <1>7 DEF Styles, SameLoads, SameCollectors
<1> HIDE DEF k
<1>9. Answered(k, done)
  <2>1. \A t \in Sheets : Lost(h, done, t) => Lost(k, done, t)
    BY <1>2, <1>8 DEF Lost
  <2>2. QED
    BY <1>1, <1>8, <2>1, AnsweredStays DEF Kept
<1>10. Touched(k, h, s)
  BY <1>6, <1>7, <1>8 DEF Touched, SameLoads
<1>11. SheetIs(k, done, s)
  <2>1. /\ k.network[s] = e /\ k.fires[s] = f /\ k.load = h.load /\ Len(k.loads) = Len(h.loads)
    BY <1>6, <1>7, <1>8 DEF SameLoads
  <2>2. Anyhow(k, done, s)
    BY <1>2, <1>3, <1>4, <1>5, <1>8, <2>1 DEF SheetIs, Anyhow
  <2>3. ByLink(k, done, s)
    BY <1>2, <1>3, <1>4, <1>5, <1>8, <2>1 DEF SheetIs, ByLink
  <2>4. QED
    BY <1>2, <1>8, <2>2, <2>3 DEF SheetIs
<1>12. Holds(k)
  BY <1>1, <1>2, <1>8, <1>9, <1>10, <1>11, LinkTouched
<1>13. QED
  BY <1>2, <1>12, Becomes

(* An event of a link fires: on a sheet that is finalized it tells nothing.       *)
LEMMA FireKeeps ==
  ASSUME SheetsAssumed, SheetsInv, NEW s \in Sheets, Css!Fire(s)
  PROVE  SheetsInv'
<1> DEFINE h == Heap
           w == [h.fires EXCEPT ![s] = "none"]
           f == h.finalized \cup {s}
           x == h.waiting \cup {s}
           k == [h EXCEPT !.fires = w]
           m == [k EXCEPT !.hasEvent = TRUE]
           g == [m EXCEPT !.finalized = f]
           v == [g EXCEPT !.waiting = x]
           q == [k EXCEPT !.finalized = f]
<1>1. PICK done \in SUBSET Sheets : Kept(h, done, {})
  BY DEF SheetsInv
<1>2. /\ Pressed(h) /\ h \in Styles /\ h.fires[s] # "none"
      /\ \/ s \in h.finalized /\ Css!Become(k)
         \/ h.fires[s] = "load" /\ s \notin h.finalized /\ Css!Become(Css!LinkLoaded(m, s))
         \/ h.fires[s] = "error" /\ s \notin h.finalized /\ Css!Become(Css!LinkErrored(k, s))
  BY <1>1 DEF Css!Fire, Heap, Css!Heap, SheetsInv, Kept
<1> HIDE DEF h
<1>3. SheetIs(h, done, s) /\ Answered(h, done) /\ ~Rests(h, s)
  BY <1>1, <1>2 DEF Kept, Fits, Rests
<1>4. /\ ~h.browser.imports /\ Named(h, s) /\ h.browser.events # {}
      /\ s \notin h.finalized => s \notin done /\ s \notin h.waiting
  <2>1. ~h.browser.imports
    BY <1>2, <1>3 DEF SheetIs, ByImport
  <2>2. QED
    BY <1>2, <1>3, <2>1, HasLoad DEF SheetIs, Anyhow
<1>5. /\ w \in [Sheets -> {"none", "load", "error"}] /\ w[s] = "none"
      /\ \A t \in Sheets : t # s => w[t] = h.fires[t]
  BY <1>2 DEF Styles
<1>6. f \in SUBSET Sheets /\ s \in f /\ \A t \in Sheets : t # s => (t \in f <=> t \in h.finalized)
  BY <1>2 DEF Styles
<1>7. x \in SUBSET Sheets /\ s \in x /\ \A t \in Sheets : t # s => (t \in x <=> t \in h.waiting)
  BY <1>2 DEF Styles
<1> HIDE DEF w, f, x
<1>8. /\ k \in Styles /\ SameLoads(k, h) /\ SameCollectors(k, h) /\ k.browser = h.browser
      /\ k.network = h.network /\ k.finalized = h.finalized /\ k.watched = h.watched
      /\ k.fires = w /\ k.waiting = h.waiting /\ k.hasEvent = h.hasEvent /\ k.complete = h.complete
  BY <1>2, <1>5 DEF Styles, SameLoads, SameCollectors
<1> HIDE DEF k
<1>9. CASE s \in h.finalized /\ Css!Become(k)
  <2>1. Answered(k, done)
    <3>1. \A t \in Sheets : Lost(h, done, t) => Lost(k, done, t)
      BY <1>8 DEF Lost
    <3>2. QED
      BY <1>3, <1>8, <3>1, AnsweredStays
  <2>2. Touched(k, h, s)
    BY <1>5, <1>8 DEF Touched, SameLoads
  <2>3. SheetIs(k, done, s)
    <3>1. k.fires[s] = "none" /\ k.load = h.load /\ Len(k.loads) = Len(h.loads)
      BY <1>5, <1>8 DEF SameLoads
    <3>2. QED
      BY <1>3, <1>4, <1>8, <1>9, <3>1 DEF SheetIs, Anyhow, Rests, ByLink, Named
  <2>4. Holds(k)
    BY <1>1, <1>2, <1>4, <1>8, <2>1, <2>2, <2>3, LinkTouched
  <2>5. QED
    BY <1>9, <2>4, Becomes
<1>10. CASE h.fires[s] = "load" /\ s \notin h.finalized /\ Css!Become(Css!LinkLoaded(m, s))
  <2>1. /\ m \in Styles /\ SameLoads(m, h) /\ SameCollectors(m, h) /\ m.browser = h.browser
        /\ m.network = h.network /\ m.finalized = h.finalized /\ m.watched = h.watched
        /\ m.fires = w /\ m.waiting = h.waiting /\ m.hasEvent /\ m.complete = h.complete
    BY <1>8 DEF Styles, SameLoads, SameCollectors
  <2>2. g = Css!Finalize(m, s)
    BY <2>1 DEF Css!Finalize, f
  <2> HIDE DEF m
  <2>3. /\ g \in Styles /\ SameLoads(g, h) /\ SameCollectors(g, h) /\ g.browser = h.browser
        /\ g.network = h.network /\ g.finalized = f /\ g.watched = h.watched
        /\ g.fires = w /\ g.waiting = h.waiting /\ g.hasEvent /\ g.complete = h.complete
    BY <1>6, <2>1 DEF Styles, SameLoads, SameCollectors
  <2>4. v = [g EXCEPT !.waiting = @ \cup {s}]
    BY <2>3 DEF x
  <2> HIDE DEF g
  <2>5. Css!LinkLoaded(m, s) = IF h.complete THEN Css!Loaded(g, s) ELSE v
    BY <1>10, <2>1, <2>2, <2>3, <2>4 DEF Css!LinkLoaded, Css!WaitForDocumentComplete
  <2>6. \A t \in Sheets : Lost(h, done, t) => t # s
    BY <1>4, <1>10 DEF Lost
  <2>7. CASE h.complete
    <3>1. Touched(g, h, s)
      BY <1>4, <1>5, <1>6, <2>3 DEF Touched, SameLoads
    <3>2. /\ s \in g.finalized /\ s \notin g.waiting /\ g.network[s] = h.network[s]
          /\ g.fires[s] = "none" /\ s \notin done
      BY <1>4, <1>5, <1>6, <1>10, <2>3
    <3>3. Holds(Css!Loaded(g, s))
      BY <1>1, <1>2, <1>4, <2>3, <2>6, <3>1, <3>2, LinkIsLoaded
    <3>4. QED
      BY <1>10, <2>5, <2>7, <3>3, Becomes
  <2>8. CASE ~h.complete
    <3>1. /\ v \in Styles /\ SameLoads(v, h) /\ SameCollectors(v, h) /\ v.browser = h.browser
          /\ v.network = h.network /\ v.finalized = f /\ v.watched = h.watched
          /\ v.fires = w /\ v.waiting = x /\ v.hasEvent
      BY <1>7, <2>3 DEF Styles, SameLoads, SameCollectors
    <3> HIDE DEF v
    <3>2. Touched(v, h, s)
      BY <1>4, <1>5, <1>6, <1>7, <3>1 DEF Touched, SameLoads
    <3>3. Answered(v, done)
      <4>1. \A t \in Sheets : Lost(h, done, t) => Lost(v, done, t)
        BY <1>6, <1>7, <2>6, <3>1 DEF Lost
      <4>2. QED
        BY <1>3, <3>1, <4>1, AnsweredStays
    <3>4. SheetIs(v, done, s)
      <4>1. /\ v.fires[s] = "none" /\ v.load = h.load /\ Len(v.loads) = Len(h.loads)
            /\ s \in v.waiting /\ s \in v.finalized /\ s \notin done
        BY <1>4, <1>5, <1>6, <1>7, <1>10, <3>1 DEF SameLoads
      <4>2. QED
        BY <1>3, <1>4, <3>1, <4>1 DEF SheetIs, Anyhow, ByLink, Named
    <3>5. Holds(v)
      BY <1>1, <1>2, <1>4, <3>1, <3>2, <3>3, <3>4, LinkTouched
    <3>6. QED
      BY <1>10, <2>5, <2>8, <3>5, Becomes
  <2>9. QED
    BY <2>7, <2>8
<1>11. CASE h.fires[s] = "error" /\ s \notin h.finalized /\ Css!Become(Css!LinkErrored(k, s))
  <2> DEFINE r == Css!Failed(q, s)
  <2>1. /\ q \in Styles /\ SameLoads(q, h) /\ SameCollectors(q, h) /\ q.browser = h.browser
        /\ q.network = h.network /\ q.finalized = f /\ q.watched = h.watched
        /\ q.fires = w /\ q.waiting = h.waiting /\ q.hasEvent = h.hasEvent
    BY <1>6, <1>8 DEF Styles, SameLoads, SameCollectors
  <2>2. q = Css!Finalize(k, s)
    BY <1>8 DEF Css!Finalize, f
  <2> HIDE DEF q
  <2>3. Css!LinkErrored(k, s) = r
    BY <1>8, <1>11, <2>2 DEF Css!LinkErrored
  <2>4. \A t \in Sheets : Lost(h, done, t) => Lost(q, done, t)
    BY <1>6, <2>1 DEF Lost
  <2>5. Lost(q, done, s)
    BY <1>4, <1>6, <1>11, <2>1 DEF Lost
  <2>6. q.load[s] \in 1 .. Len(q.loads)
    BY <1>4, <2>1 DEF Named, SameLoads
  <2>7. Answered(r, done) /\ r \in Styles /\ SameBut(r, q)
    <3>1. Answered(q, done)
      BY <1>3, <2>1, <2>4, AnsweredStays
    <3>2. QED
      BY <2>1, <2>5, <2>6, <3>1, FailedAnswers, FailedIs
  <2> HIDE DEF r
  <2>8. Touched(r, h, s)
    BY <1>5, <1>6, <2>1, <2>7 DEF Touched, SameBut, SameLoads, SameLinks, SameCollectors
  <2>9. SheetIs(r, done, s)
    <3>1. /\ r.fires[s] = "none" /\ r.load = h.load /\ Len(r.loads) = Len(h.loads)
          /\ s \notin r.waiting /\ s \in r.finalized /\ s \notin done /\ r.browser = h.browser
          /\ r.network[s] = h.network[s]
      BY <1>4, <1>5, <1>6, <1>11, <2>1, <2>7 DEF SameLoads, SameBut, SameLinks
    <3>2. h.network[s] = "missing"
      BY <1>3, <1>11 DEF SheetIs, Anyhow
    <3>3. QED
      BY <1>3, <1>4, <3>1, <3>2 DEF SheetIs, Anyhow, ByLink, Named
  <2>10. Holds(r)
    BY <1>1, <1>2, <1>4, <2>7, <2>8, <2>9, LinkTouched
  <2>11. QED
    BY <1>11, <2>3, <2>10, Becomes
<1>12. QED
  BY <1>2, <1>9, <1>10, <1>11

(* The timer of a link looks at it.                                            *)
LEMMA WatcherKeeps ==
  ASSUME SheetsAssumed, SheetsInv, NEW s \in Sheets, Css!LoadWatcher(s)
  PROVE  SheetsInv'
<1> DEFINE h == Heap
           w == h.watched \ {s}
           f == h.finalized \cup {s}
           k == [h EXCEPT !.watched = w]
           g == [k EXCEPT !.finalized = f]
<1>1. PICK done \in SUBSET Sheets : Kept(h, done, {})
  BY DEF SheetsInv
<1>2. /\ Pressed(h) /\ h \in Styles /\ s \in h.watched
      /\ \/ /\ h.complete /\ h.network[s] = "there"
            /\ Css!Become(Css!LinkLoaded(k, s))
         \/ (h.hasEvent \/ s \in h.finalized) /\ Css!Become(k)
  BY <1>1 DEF Css!LoadWatcher, Css!IsLinkReady, Heap, Css!Heap, SheetsInv, Kept
<1> HIDE DEF h
<1>3. SheetIs(h, done, s) /\ Answered(h, done) /\ ~Rests(h, s)
  BY <1>1, <1>2 DEF Kept, Fits, Rests
<1>4. /\ ~h.browser.imports /\ Named(h, s)
      /\ s \notin h.finalized => s \notin done /\ s \notin h.waiting
  <2>1. ~h.browser.imports
    BY <1>2, <1>3 DEF SheetIs, ByImport
  <2>2. QED
    BY <1>2, <1>3, <2>1, HasLoad DEF SheetIs, Anyhow
<1>5. w \in SUBSET Sheets /\ \A t \in Sheets : t # s => (t \in w <=> t \in h.watched)
  BY <1>2 DEF Styles
<1>6. f \in SUBSET Sheets /\ s \in f /\ \A t \in Sheets : t # s => (t \in f <=> t \in h.finalized)
  BY <1>2 DEF Styles
<1> HIDE DEF w, f
<1>7. /\ k \in Styles /\ SameLoads(k, h) /\ SameCollectors(k, h) /\ k.browser = h.browser
      /\ k.network = h.network /\ k.finalized = h.finalized /\ k.watched = w
      /\ k.fires = h.fires /\ k.waiting = h.waiting /\ k.hasEvent = h.hasEvent
      /\ k.complete = h.complete
  BY <1>2, <1>5 DEF Styles, SameLoads, SameCollectors
<1> HIDE DEF k
<1>8. ASSUME h.hasEvent \/ s \in h.finalized PROVE Holds(k)
  <2>1. Answered(k, done)
    <3>1. \A t \in Sheets : Lost(h, done, t) => Lost(k, done, t)
      BY <1>7 DEF Lost
    <3>2. QED
      BY <1>3, <1>7, <3>1, AnsweredStays
  <2>2. Touched(k, h, s)
    BY <1>5, <1>7 DEF Touched, SameLoads
  <2>3. SheetIs(k, done, s)
    <3>1. k.load = h.load /\ Len(k.loads) = Len(h.loads)
      BY <1>7 DEF SameLoads
    <3>2. QED
      BY <1>3, <1>4, <1>7, <1>8, <3>1 DEF SheetIs, Anyhow, ByLink, Named
  <2>4. QED
    BY <1>1, <1>2, <1>4, <1>7, <2>1, <2>2, <2>3, LinkTouched
<1>9. CASE (h.hasEvent \/ s \in h.finalized) /\ Css!Become(k)
  BY <1>8, <1>9, Becomes
<1>10. CASE h.complete /\ h.network[s] = "there" /\ Css!Become(Css!LinkLoaded(k, s))
  <2>1. CASE s \in h.finalized
    <3>1. Css!LinkLoaded(k, s) = k
      BY <1>7, <2>1 DEF Css!LinkLoaded
    <3>2. QED
      BY <1>8, <1>10, <2>1, <3>1, Becomes
  <2>2. CASE s \notin h.finalized
    <3>1. /\ g \in Styles /\ SameLoads(g, h) /\ SameCollectors(g, h) /\ g.browser = h.browser
          /\ g.network = h.network /\ g.finalized = f /\ g.watched = w
          /\ g.fires = h.fires /\ g.waiting = h.waiting /\ g.hasEvent = h.hasEvent
          /\ g.complete = h.complete
      BY <1>6, <1>7 DEF Styles, SameLoads, SameCollectors
    <3>2. g = Css!Finalize(k, s)
      BY <1>7 DEF Css!Finalize, f
    <3> HIDE DEF g
    <3>3. Css!LinkLoaded(k, s) = Css!Loaded(g, s)
      BY <1>7, <1>10, <2>2, <3>1, <3>2 DEF Css!LinkLoaded, Css!WaitForDocumentComplete
    <3>4. \A t \in Sheets : Lost(h, done, t) => t # s
      BY <1>4, <2>2 DEF Lost
    <3>5. Touched(g, h, s)
      BY <1>5, <1>6, <3>1 DEF Touched, SameLoads
    <3>6. /\ s \in g.finalized /\ s \notin g.waiting /\ g.network[s] = h.network[s]
          /\ g.fires[s] = h.fires[s] /\ s \notin done
      BY <1>4, <1>6, <2>2, <3>1
    <3>7. Holds(Css!Loaded(g, s))
      BY <1>1, <1>2, <1>4, <3>1, <3>4, <3>5, <3>6, LinkIsLoaded
    <3>8. QED
      BY <1>10, <3>3, <3>7, Becomes
  <2>3. QED
    BY <2>1, <2>2
<1>11. QED
  BY <1>2, <1>9, <1>10

(* The wait of a link for the document is over.                                  *)
LEMMA WaitKeeps ==
  ASSUME SheetsAssumed, SheetsInv, NEW s \in Sheets, Css!WaitEnds(s)
  PROVE  SheetsInv'
<1> DEFINE h == Heap
           x == h.waiting \ {s}
           g == [h EXCEPT !.waiting = x]
<1>1. PICK done \in SUBSET Sheets : Kept(h, done, {})
  BY DEF SheetsInv
<1>2. Pressed(h) /\ h \in Styles /\ s \in h.waiting /\ Css!Become(Css!Loaded(g, s))
  BY <1>1 DEF Css!WaitEnds, Heap, Css!Heap, SheetsInv, Kept
<1> HIDE DEF h
<1>3. SheetIs(h, done, s) /\ ~Rests(h, s)
  BY <1>1, <1>2 DEF Kept, Fits, Rests
<1>4. ~h.browser.imports /\ Named(h, s) /\ s \notin done /\ s \in h.finalized
  <2>1. ~h.browser.imports
    BY <1>2, <1>3 DEF SheetIs, ByImport
  <2>2. QED
    BY <1>2, <1>3, <2>1, HasLoad DEF SheetIs, Anyhow
<1>5. /\ x \in SUBSET Sheets /\ s \notin x
      /\ \A t \in Sheets : t # s => (t \in x <=> t \in h.waiting)
  BY <1>2 DEF Styles
<1> HIDE DEF x
<1>6. /\ g \in Styles /\ SameLoads(g, h) /\ SameCollectors(g, h) /\ g.browser = h.browser
      /\ g.network = h.network /\ g.finalized = h.finalized /\ g.watched = h.watched
      /\ g.fires = h.fires /\ g.waiting = x /\ g.hasEvent = h.hasEvent
  BY <1>2, <1>5 DEF Styles, SameLoads, SameCollectors
<1> HIDE DEF g
<1>7. \A t \in Sheets : Lost(h, done, t) => t # s
  BY <1>2, <1>4 DEF Lost
<1>8. Touched(g, h, s)
  BY <1>5, <1>6 DEF Touched, SameLoads
<1>9. Holds(Css!Loaded(g, s))
  <2>1. /\ s \in g.finalized /\ s \notin g.waiting /\ g.network[s] = h.network[s]
        /\ g.fires[s] = h.fires[s]
    BY <1>4, <1>5, <1>6
  <2>2. QED
    BY <1>1, <1>2, <1>4, <1>6, <1>7, <1>8, <2>1, LinkIsLoaded
<1>10. QED
  BY <1>2, <1>9, Becomes

(* The start, every step, and what the invariant says.                           *)
LEMMA SheetsStart ==
  ASSUME SheetsAssumed, Css!Init PROVE SheetsInv
<1> DEFINE h == Heap
<1>1. /\ h.browser = browser /\ h.hasEvent = FALSE /\ h.complete \in BOOLEAN /\ h.loads = <<>>
      /\ h.load = [s \in Sheets |-> 0] /\ h.network = [s \in Sheets |-> "none"]
      /\ h.queue = <<>> /\ h.pool = <<>> /\ h.made = 0
      /\ h.importing = [c \in Collectors |-> 0] /\ h.finalized = {} /\ h.watched = {}
      /\ h.fires = [s \in Sheets |-> "none"] /\ h.waiting = {}
  BY DEF Css!Init, Heap, Css!Heap, Css!Sheets, Sheets, Collectors
<1>2. /\ browser \in Browsers
      /\ browser.events # {} => "load" \in browser.events
  <2>1. CASE browser = Css!Imports
    <3>1. TRUE \in BOOLEAN /\ FALSE \in BOOLEAN /\ {} \in SUBSET {"load", "error"}
      OBVIOUS
    <3>2. QED
      BY <2>1, <3>1 DEF Css!Imports, Browsers
  <2>2. CASE browser \in Css!Linking
    <3>1. /\ browser \in [imports : {FALSE}, events : {{}, {"load"}, {"load", "error"}}, always : BOOLEAN]
          /\ {{}, {"load"}, {"load", "error"}} \subseteq SUBSET {"load", "error"}
      BY <2>2 DEF Css!Linking
    <3>2. browser.events \in {{}, {"load"}, {"load", "error"}}
      BY <3>1
    <3>3. browser \in Browsers
      BY <3>1 DEF Browsers
    <3>4. QED
      BY <3>2, <3>3
  <2>3. QED
    BY <2>1, <2>2 DEF Css!Init
<1>3. h \in Styles
  <2>1. 0 \in 0 .. MaxSheets /\ 0 \in 0 .. ieMaxCollectorSheets
    BY DEF SheetsAssumed
  <2>2. <<>> \in Seq(Asked) /\ <<>> \in Seq(Sheets) /\ <<>> \in Seq(Collectors)
    BY EmptySeq
  <2>3. h = [browser |-> h.browser, hasEvent |-> h.hasEvent, complete |-> h.complete,
             loads |-> h.loads, load |-> h.load, network |-> h.network, queue |-> h.queue,
             pool |-> h.pool, made |-> h.made, importing |-> h.importing,
             finalized |-> h.finalized, watched |-> h.watched, fires |-> h.fires,
             waiting |-> h.waiting]
    BY DEF Heap, Css!Heap
  <2> HIDE DEF h
  <2>4. /\ h.browser \in Browsers /\ h.hasEvent \in BOOLEAN /\ h.complete \in BOOLEAN
        /\ h.loads \in Seq(Asked) /\ h.queue \in Seq(Sheets) /\ h.pool \in Seq(Collectors)
        /\ h.made \in 0 .. ieMaxCollectorSheets
    BY <1>1, <1>2, <2>1, <2>2
  <2>5. /\ h.load \in [Sheets -> Nat] /\ h.importing \in [Collectors -> 0 .. MaxSheets]
        /\ h.network \in [Sheets -> {"none", "fetching", "there", "missing"}]
        /\ h.fires \in [Sheets -> {"none", "load", "error"}]
    BY <1>1, <2>1
  <2>6. h.finalized \in SUBSET Sheets /\ h.watched \in SUBSET Sheets /\ h.waiting \in SUBSET Sheets
    BY <1>1
  <2>7. QED
    BY <2>3, <2>4, <2>5, <2>6, Zenon DEF Styles
<1> HIDE DEF h
<1>4. Len(h.loads) = 0
  BY <1>1, EmptySeq
<1>5. Answered(h, {})
  BY <1>4 DEF Answered
<1>6. \A s \in Sheets : SheetIs(h, {}, s)
  BY <1>1, <1>4 DEF SheetIs, Anyhow, Rests, ByImport, ByLink
<1>7. FirstNamed(h, 0) /\ 0 \in 0 .. MaxSheets
  BY <1>1 DEF FirstNamed, Sheets, SheetsAssumed
<1>8. Fits(h, {})
  BY <1>1, <1>2, <1>6, <1>7 DEF Fits
<1>9. Sharing(h, {}) /\ Collects(h, {}, {}) /\ Pressed(h)
  <2>1. Elements(<<>>) = {} /\ Distinct(<<>>)
    BY DEF Elements, Distinct
  <2>2. \A c \in Collectors : ~(c <= 0)
    BY DEF Collectors
  <2>3. QED
    BY <1>1, <2>1, <2>2 DEF Sharing, Collects, Pressed
<1>10. QED
  BY <1>3, <1>5, <1>8, <1>9 DEF SheetsInv, Kept, h

LEMMA SheetsStep ==
  ASSUME SheetsAssumed, SheetsInv, [Css!Next]_Css!vars PROVE SheetsInv'
<1>1. CASE Css!DocumentComplete
  BY <1>1, CompleteKeeps
<1>2. CASE \E n \in 1 .. 2, cssNoWait \in BOOLEAN : Css!Require(n, cssNoWait)
  BY <1>2, RequireKeeps
<1>3. CASE \E c \in 1 .. ieMaxCollectorSheets, good \in BOOLEAN, more \in 0 .. 2 :
             Css!Imported(c, good, more)
  BY <1>3, ImportedKeeps DEF Collectors
<1>4. CASE \E s \in Sheets : (\E good \in BOOLEAN : Css!Fetched(s, good)) \/ Css!Fire(s)
                             \/ Css!LoadWatcher(s) \/ Css!WaitEnds(s)
  BY <1>4, FetchedKeeps, FireKeeps, WatcherKeeps, WaitKeeps
<1>5. CASE UNCHANGED Css!vars
  <2>1. Heap' = Heap
    BY <1>5 DEF Css!vars, Heap, Css!Heap
  <2>2. QED
    BY <2>1 DEF SheetsInv
<1>6. QED
  BY <1>1, <1>2, <1>3, <1>4, <1>5 DEF Css!Next, Css!Sheets, Sheets

LEMMA SheetsSaid ==
  ASSUME SheetsAssumed, SheetsInv PROVE Css!SheetsTold
<1> DEFINE h == Heap
<1>1. PICK done \in SUBSET Sheets : Kept(h, done, {})
  BY DEF SheetsInv
<1>2. /\ h.loads = loads /\ h.load = load /\ h.network = network /\ h.queue = queue
      /\ h.pool = pool /\ h.importing = importing /\ h.browser = browser
      /\ h.finalized = finalized /\ h.fires = fires /\ h.watched = watched
      /\ h.hasEvent = hasEvent /\ h.waiting = waiting
  BY DEF Heap, Css!Heap
<1>3. h \in Styles /\ Pressed(h) /\ Sharing(h, {}) /\ Collects(h, done, {})
  BY <1>1 DEF SheetsInv, Kept
<1> HIDE DEF h
<1>4. \A s \in Sheets : SheetIs(h, done, s)
  BY <1>1 DEF Kept, Fits
<1>5. ASSUME NEW l \in 1 .. Len(loads)
      PROVE  /\ loads[l].left \in 0 .. loads[l].of
             /\ loads[l].called = IF loads[l].left = 0 THEN 1 ELSE 0
             /\ loads[l].rejected => loads[l].called = 0
             /\ loads[l].left = 0 <=> OfLoad(h, l) \subseteq done
  <2> DEFINE T == OfLoad(h, l)
             U == T \ done
  <2>1. Owes(h, done, l)
    BY <1>1, <1>2 DEF Kept, Answered
  <2>2. T \in SUBSET Sheets /\ U \in SUBSET Sheets /\ U \in SUBSET T
    BY DEF OfLoad
  <2> HIDE DEF U, T
  <2>3. IsFiniteSet(T) /\ Cardinality(T) \in Nat /\ IsFiniteSet(U) /\ Cardinality(U) \in Nat
    BY <2>2, SheetsFinite
  <2>4. Cardinality(U) <= Cardinality(T)
    BY <2>2, <2>3, FS_Subset
  <2>5. Cardinality(U) = 0 <=> U = {}
    BY <2>3, FS_EmptySet
  <2>6. /\ loads[l].of = Cardinality(T) /\ loads[l].left = Cardinality(U)
        /\ loads[l].called = IF loads[l].left = 0 THEN 1 ELSE 0
        /\ loads[l].rejected => \E s \in T : Lost(h, done, s)
    BY <1>2, <2>1 DEF Owes, T, U
  <2>7. loads[l].rejected => U # {}
    BY <2>6 DEF Lost, U
  <2>8. loads[l].left \in 0 .. loads[l].of
    BY <2>3, <2>4, <2>6
  <2>9. loads[l].rejected => loads[l].called = 0
    BY <2>5, <2>6, <2>7
  <2>10. loads[l].left = 0 <=> T \subseteq done
    BY <2>5, <2>6 DEF U
  <2>11. QED
    BY <2>6, <2>8, <2>9, <2>10 DEF T
<1>6. queue # <<>> => pool = <<>> /\ \A c \in 1 .. ieMaxCollectorSheets : importing[c] # 0
  <2>1. Elements(<<>>) = {}
    BY DEF Elements
  <2>2. \A c \in Collectors : c <= ieMaxCollectorSheets
    BY DEF Collectors, SheetsAssumed
  <2>3. QED
    BY <1>2, <1>3, <2>1, <2>2 DEF Pressed, Collects, Collectors
<1>7. ~browser.imports => \A s \in Sheets : network[s] = "there" => Css!Told(s)
  BY <1>1, <1>2, <1>4 DEF Kept, Fits, SheetIs, ByLink, Css!Told
<1>8. ASSUME NEW l \in 1 .. Len(loads),
             \A s \in Css!Of(l) : network[s] = "there" /\ (browser.imports \/ s \in finalized),
             Css!Of(l) \cap waiting = {}
      PROVE  loads[l].called = 1
  <2>1. Css!Of(l) = OfLoad(h, l) /\ OfLoad(h, l) \in SUBSET Sheets
    BY <1>2 DEF Css!Of, Css!Sheets, Sheets, OfLoad
  <2>2. \A s \in OfLoad(h, l) : s \in done
    BY <1>2, <1>4, <1>8, <2>1 DEF SheetIs, ByImport, ByLink
  <2>3. QED
    BY <1>5, <2>2
<1>9. QED
  BY <1>5, <1>6, <1>7, <1>8 DEF Css!SheetsTold, Css!Sheets, Sheets

(* css.js: a load is answered once and not before it has all its sheets, none that   *)
(* lost a sheet is answered, no sheet waits for a collector while one is idle, and a  *)
(* sheet that is there is told about.                                          *)
THEOREM SheetsAreTold == ASSUME SheetsAssumed PROVE Css!Spec => []Css!SheetsTold
<1>1. Css!Init => SheetsInv
  BY SheetsStart
<1>2. SheetsInv /\ [Css!Next]_Css!vars => SheetsInv'
  BY SheetsStep
<1>3. SheetsInv => Css!SheetsTold
  BY SheetsSaid
<1>4. QED
  BY <1>1, <1>2, <1>3, PTL DEF Css!Spec

-----------------------------------------------------------------------------
(* Receivers.  Requests and responses without bound.                               *)
Receive == INSTANCE Receivers

Kinds == {"xhr", "eventsource", "htmlfile", "jsonp"}
Requests ==
  [phase : {"delayed", "loading", "open", "ending", "done"}, hears : BOOLEAN, text : Nat, pos : Nat,
   nuked : BOOLEAN, reason : {"none", "user", "network", "permanent"}, hooked : BOOLEAN]
Lines == Nat \X Nat
Transports ==
  [closing : BOOLEAN, current : Nat, requests : Seq(Requests), heard : Seq(Lines), failures : Nat,
   limit : Nat]

(* What was heard, and the last of it: line n of request r, or none of r if that is 0.  *)
Has(s, x) == \E i \in 1 .. Len(s) : s[i] = x
InSequence(s) ==
  \A i \in 1 .. Len(s) :
    IF i = 1 \/ s[i - 1][1] # s[i][1]
    THEN s[i][2] = 1 /\ (i > 1 => s[i - 1][1] < s[i][1])
    ELSE s[i][2] = s[i - 1][2] + 1
UpTo(s, r, n) ==
  IF n = 0 THEN Len(s) = 0 \/ s[Len(s)][1] < r ELSE Len(s) > 0 /\ s[Len(s)] = <<r, n>>

(* Each kind of receiver has its phases, and its hook until it ends.               *)
Shaped(x) ==
  /\ x.phase = "delayed" => kind = "xhr"
  /\ x.phase = "loading" => kind = "htmlfile"
  /\ x.phase = "ending" => kind = "eventsource"
  /\ x.hooked => \/ kind = "htmlfile" /\ x.phase # "done"
                 \/ kind = "jsonp" /\ (x.phase = "done" => x.nuked)
Formed(g) ==
  /\ g \in Transports /\ InSequence(g.heard)
  /\ \A q \in 1 .. Len(g.requests) : Shaped(g.requests[q])
Read(g) == kind = "xhr" => \A q \in 1 .. Len(g.requests) : g.requests[q].pos = g.requests[q].text \div 2

(* While the transport is in use one request hears, the last, up to line n; the others  *)
(* have ended, and what they had was heard.  Else nothing is heard any more.           *)
WasHeard(g, q) ==
  kind # "jsonp" /\ g.requests[q].pos > 0 => Has(g.heard, <<q, g.requests[q].pos>>)
Using(g, r, n) ==
  /\ ~g.closing /\ g.failures = 0 /\ g.current = r /\ r = Len(g.requests) /\ r > 0
  /\ g.requests[r].hears /\ ~g.requests[r].nuked /\ UpTo(g.heard, r, n)
  /\ \A q \in 1 .. r - 1 : ~g.requests[q].hears /\ g.requests[q].phase = "done" /\ WasHeard(g, q)
Shut(g) ==
  /\ g.closing /\ Len(g.heard) = g.limit /\ g.failures <= 1
  /\ \A q \in 1 .. Len(g.requests) :
       /\ g.requests[q].hears => kind = "eventsource" /\ g.requests[q].phase = "ending"
       /\ kind = "jsonp" /\ g.requests[q].phase = "open" => g.requests[q].nuked
LinesOf(g, r) == IF kind = "jsonp" THEN 0 ELSE g.requests[r].pos
InUse(g) ==
  LET r == g.current IN Using(g, r, LinesOf(g, r)) /\ g.requests[r].phase # "done"
Good(g) == Formed(g) /\ Read(g) /\ (InUse(g) \/ Shut(g))
ReceiveInv == kind \in Kinds /\ Good(Receive!Heap)

LEMMA HeardOne ==
  ASSUME NEW s \in Seq(Lines), NEW r \in Nat, NEW n \in Nat, InSequence(s), UpTo(s, r, n)
  PROVE  LET t == Append(s, <<r, n + 1>>)
         IN  /\ t \in Seq(Lines) /\ InSequence(t) /\ UpTo(t, r, n + 1) /\ Len(t) = Len(s) + 1
             /\ \A x : Has(s, x) => Has(t, x)
<1> DEFINE x == <<r, n + 1>>
           t == Append(s, x)
<1>1. x \in Lines /\ x[1] = r /\ x[2] = n + 1
  BY DEF Lines
<1> HIDE DEF x
<1>2. /\ t \in Seq(Lines) /\ Len(t) = Len(s) + 1 /\ Len(s) \in Nat /\ t[Len(s) + 1] = x
      /\ \A i \in 1 .. Len(s) : t[i] = s[i]
  BY <1>1, AppendProperties, LenProperties
<1> HIDE DEF t
<1>3. UpTo(t, r, n + 1)
  BY <1>1, <1>2 DEF UpTo, x
<1>4. \A y : Has(s, y) => Has(t, y)
  BY <1>2 DEF Has
<1>5. ASSUME NEW i \in 1 .. Len(t)
      PROVE  IF i = 1 \/ t[i - 1][1] # t[i][1]
             THEN t[i][2] = 1 /\ (i > 1 => t[i - 1][1] < t[i][1])
             ELSE t[i][2] = t[i - 1][2] + 1
  <2>1. CASE i \in 1 .. Len(s)
    <3>1. t[i] = s[i] /\ (i # 1 => t[i - 1] = s[i - 1])
      BY <1>2, <2>1
    <3>2. QED
      BY <2>1, <3>1 DEF InSequence
  <2>2. CASE i = Len(s) + 1
    <3>1. t[i] = x /\ (i # 1 => i > 1 /\ t[i - 1] = s[Len(s)] /\ Len(s) > 0)
      BY <1>2, <2>2
    <3>2. CASE n = 0
      BY <1>1, <1>2, <2>2, <3>1, <3>2 DEF UpTo
    <3>3. CASE n # 0
      <4>1. Len(s) > 0 /\ s[Len(s)][1] = r /\ s[Len(s)][2] = n
        BY <3>3 DEF UpTo
      <4>2. QED
        BY <1>1, <1>2, <2>2, <3>1, <4>1
    <3>4. QED
      BY <3>2, <3>3
  <2>3. QED
    BY <1>2, <2>1, <2>2
<1>6. InSequence(t)
  BY <1>5 DEF InSequence
<1>7. QED
  BY <1>2, <1>3, <1>4, <1>6 DEF t, x

(* A request changes, or there is one more.                                       *)
LEMMA RequestIs ==
  ASSUME NEW g \in Transports, NEW r \in 1 .. Len(g.requests), NEW x \in Requests
  PROVE  LET s == [g.requests EXCEPT ![r] = x]
         IN  /\ s \in Seq(Requests) /\ Len(s) = Len(g.requests) /\ s[r] = x
             /\ \A q \in 1 .. Len(s) : q # r => s[q] = g.requests[q]
<1>1. g.requests \in Seq(Requests)
  BY DEF Transports
<1> DEFINE s == [g.requests EXCEPT ![r] = x]
<1>2. s \in Seq(Requests) /\ Len(s) = Len(g.requests) /\ s[r] = x
      /\ \A c \in 1 .. Len(g.requests) : c # r => s[c] = g.requests[c]
  BY <1>1, ExceptSeq, LenProperties
<1> HIDE DEF s
<1>3. QED
  BY <1>2 DEF s

LEMMA Forgotten ==
  ASSUME NEW g \in Transports, NEW r \in 1 .. Len(g.requests)
  PROVE  LET k == Receive!Forgets(g, r)
         IN  /\ k \in Transports /\ k.closing = g.closing /\ k.current = 0 /\ k.heard = g.heard
             /\ k.failures = g.failures /\ k.limit = g.limit
             /\ Len(k.requests) = Len(g.requests) /\ k.requests[r] \in Requests
             /\ \A q \in 1 .. Len(k.requests) : q # r => k.requests[q] = g.requests[q]
             /\ k.requests[r].hears = FALSE /\ k.requests[r].phase = g.requests[r].phase
             /\ k.requests[r].text = g.requests[r].text /\ k.requests[r].pos = g.requests[r].pos
             /\ k.requests[r].nuked = g.requests[r].nuked /\ k.requests[r].hooked = g.requests[r].hooked
<1> DEFINE x == [g.requests[r] EXCEPT !.hears = FALSE]
           s == [g.requests EXCEPT ![r] = x]
           k == [g EXCEPT !.current = 0, !.requests = s]
<1>1. g.requests[r] \in Requests
  BY ElementOfSeq DEF Transports
<1>2. /\ x \in Requests /\ x.hears = FALSE /\ x.phase = g.requests[r].phase /\ x.text = g.requests[r].text
      /\ x.pos = g.requests[r].pos /\ x.nuked = g.requests[r].nuked /\ x.hooked = g.requests[r].hooked
  BY <1>1 DEF Requests
<1> HIDE DEF x
<1>3. /\ s \in Seq(Requests) /\ Len(s) = Len(g.requests) /\ s[r] = x
      /\ \A q \in 1 .. Len(s) : q # r => s[q] = g.requests[q]
  BY <1>2, RequestIs
<1>4. Receive!Forgets(g, r) = k
  BY DEF Receive!Forgets, Transports, x
<1> HIDE DEF s
<1>5. /\ k \in Transports /\ k.requests = s /\ k.closing = g.closing /\ k.current = 0 /\ k.heard = g.heard
      /\ k.failures = g.failures /\ k.limit = g.limit
  BY <1>3 DEF Transports
<1> HIDE DEF k
<1>6. QED
  BY <1>2, <1>3, <1>4, <1>5

LEMMA Stopped ==
  ASSUME NEW g \in Transports
  PROVE  LET k == Receive!Stops(g)
         IN  /\ k \in Transports /\ k.closing = TRUE /\ k.limit = Len(g.heard) /\ k.current = g.current
             /\ k.requests = g.requests /\ k.heard = g.heard /\ k.failures = g.failures
<1> DEFINE k == [g EXCEPT !.closing = TRUE, !.limit = Len(g.heard)]
<1>1. Len(g.heard) \in Nat
  BY LenProperties DEF Transports
<1>2. Receive!Stops(g) = k
  BY DEF Receive!Stops
<1>3. /\ k \in Transports /\ k.closing = TRUE /\ k.limit = Len(g.heard) /\ k.current = g.current
      /\ k.requests = g.requests /\ k.heard = g.heard /\ k.failures = g.failures
  BY <1>1 DEF Transports
<1> HIDE DEF k
<1>4. QED
  BY <1>2, <1>3

LEMMA Scheduled ==
  ASSUME kind \in Kinds, NEW g \in Transports
  PROVE  LET k == Receive!ScheduleRecv(g)
             r == Len(g.requests) + 1
         IN  /\ k \in Transports /\ k.closing = g.closing /\ k.current = r /\ k.heard = g.heard
             /\ k.failures = g.failures /\ k.limit = g.limit /\ Len(k.requests) = r /\ r \in Nat
             /\ k.requests[r] = Receive!New /\ \A q \in 1 .. Len(g.requests) : k.requests[q] = g.requests[q]
             /\ Receive!New \in Requests /\ Shaped(Receive!New) /\ Receive!New.phase # "done"
             /\ Receive!New.hears /\ ~Receive!New.nuked /\ Receive!New.pos = 0 /\ Receive!New.text = 0
<1> DEFINE x == Receive!New
           s == Append(g.requests, x)
           r == Len(g.requests) + 1
           k == [g EXCEPT !.requests = s, !.current = r]
<1>1. /\ x \in Requests /\ x.phase # "done" /\ x.hears /\ ~x.nuked /\ x.pos = 0 /\ x.text = 0 /\ Shaped(x)
  <2> DEFINE p == CASE kind = "xhr" -> "delayed" [] kind = "htmlfile" -> "loading" [] OTHER -> "open"
             h == kind \in {"htmlfile", "jsonp"}
  <2>1. /\ p \in {"delayed", "loading", "open"} /\ (p = "delayed" => kind = "xhr")
        /\ (p = "loading" => kind = "htmlfile")
    BY DEF Kinds
  <2>2. h \in BOOLEAN /\ (h => kind = "htmlfile" \/ kind = "jsonp")
    OBVIOUS
  <2>3. x = [phase |-> p, hears |-> TRUE, text |-> 0, pos |-> 0, nuked |-> FALSE, reason |-> "none",
             hooked |-> h]
    BY DEF Receive!New
  <2> HIDE DEF p, h, x
  <2>4. x \in Requests /\ x.phase = p /\ x.hears /\ ~x.nuked /\ x.pos = 0 /\ x.text = 0 /\ x.hooked = h
    BY <2>1, <2>2, <2>3 DEF Requests
  <2>5. QED
    BY <2>1, <2>2, <2>4 DEF Shaped
<1> HIDE DEF x
<1>2. /\ s \in Seq(Requests) /\ Len(s) = r /\ r \in Nat /\ s[r] = x
      /\ \A q \in 1 .. Len(g.requests) : s[q] = g.requests[q]
  BY <1>1, AppendProperties, LenProperties DEF Transports
<1>3. Receive!ScheduleRecv(g) = k
  BY DEF Receive!ScheduleRecv, x
<1> HIDE DEF s, r
<1>4. /\ k \in Transports /\ k.closing = g.closing /\ k.current = r /\ k.heard = g.heard
      /\ k.failures = g.failures /\ k.limit = g.limit /\ k.requests = s
  BY <1>2 DEF Transports
<1> HIDE DEF k
<1>5. QED
  BY <1>1, <1>2, <1>3, <1>4 DEF x, r

(* onclose: the request that heard has ended, and the next is made unless the poll failed.  *)
LEMMA ClosesRequest ==
  ASSUME kind \in Kinds, NEW g, NEW r \in Nat, Formed(g), Read(g), Using(g, r, LinesOf(g, r)),
         g.requests[r].phase = "done", NEW reason
  PROVE  Good(Receive!OnClose(g, r, reason))
<1> DEFINE f == Receive!Forgets(g, r)
<1>1. g \in Transports /\ r \in 1 .. Len(g.requests) /\ Len(g.requests) \in Nat
  BY LenProperties DEF Formed, Using, Transports
<1>2. /\ f \in Transports /\ f.closing = FALSE /\ f.heard = g.heard /\ f.failures = 0
      /\ Len(f.requests) = r /\ ~f.requests[r].hears /\ f.requests[r].phase = "done"
      /\ f.requests[r].text = g.requests[r].text /\ f.requests[r].pos = g.requests[r].pos
      /\ f.requests[r].nuked = g.requests[r].nuked /\ f.requests[r].hooked = g.requests[r].hooked
      /\ \A q \in 1 .. r : q # r => f.requests[q] = g.requests[q]
  <2>1. g.closing = FALSE /\ g.failures = 0 /\ Len(g.requests) = r
    BY <1>1 DEF Using, Transports
  <2>2. QED
    BY <1>1, <2>1, Forgotten, ZenonT(60)
<1> HIDE DEF f
<1>3. \A q \in 1 .. r : Shaped(f.requests[q]) /\ f.requests[q].pos = g.requests[q].pos
  <2>1. \A q \in 1 .. r : Shaped(g.requests[q])
    BY <1>1 DEF Formed, Using
  <2>2. Shaped(f.requests[r])
    BY <1>1, <1>2, <2>1 DEF Shaped
  <2>3. QED
    BY <1>2, <2>1, <2>2
<1>4. Formed(f) /\ Read(f)
  <2>1. InSequence(f.heard)
    BY <1>2 DEF Formed
  <2>2. Read(f)
    BY <1>1, <1>2, <1>3 DEF Read
  <2>3. QED
    BY <1>2, <1>3, <2>1, <2>2 DEF Formed
<1>5. \A q \in 1 .. r : ~f.requests[q].hears /\ f.requests[q].phase = "done" /\ WasHeard(f, q)
  <2>1. \A q \in 1 .. r - 1 : ~g.requests[q].hears /\ g.requests[q].phase = "done" /\ WasHeard(g, q)
    BY DEF Using
  <2>2. ASSUME NEW q \in 1 .. r, q # r
        PROVE  ~f.requests[q].hears /\ f.requests[q].phase = "done" /\ WasHeard(f, q)
    <3>1. q \in 1 .. r - 1 /\ f.requests[q] = g.requests[q] /\ f.heard = g.heard
      BY <1>2, <2>2
    <3>2. QED
      BY <2>1, <3>1 DEF WasHeard
  <2>3. WasHeard(f, r)
    <3>1. SUFFICES ASSUME kind # "jsonp", f.requests[r].pos > 0 PROVE Has(f.heard, <<r, f.requests[r].pos>>)
      BY DEF WasHeard
    <3>2. UpTo(g.heard, r, g.requests[r].pos) /\ Len(g.heard) \in Nat
      BY <1>1, <3>1, LenProperties DEF Using, LinesOf, Transports
    <3>3. Len(g.heard) > 0 /\ g.heard[Len(g.heard)] = <<r, g.requests[r].pos>>
      BY <1>2, <3>1, <3>2 DEF UpTo
    <3>4. QED
      BY <1>2, <3>2, <3>3 DEF Has
  <2>4. QED
    BY <1>2, <2>2, <2>3
<1>6. Receive!OnClose(g, r, reason) =
        IF reason = "permanent" THEN Receive!Fails(f) ELSE Receive!ScheduleRecv(f)
  BY DEF Receive!OnClose, Using, f
<1>7. CASE reason = "permanent"
  <2> DEFINE s == Receive!Stops(f)
             k == [s EXCEPT !.failures = @ + 1]
  <2>1. /\ s \in Transports /\ s.closing = TRUE /\ s.limit = Len(f.heard) /\ s.requests = f.requests
        /\ s.heard = f.heard /\ s.failures = 0
    BY <1>2, Stopped
  <2>2. Receive!Fails(f) = k
    BY DEF Receive!Fails
  <2> HIDE DEF s
  <2>3. /\ k \in Transports /\ k.closing = TRUE /\ k.limit = Len(f.heard) /\ k.requests = f.requests
        /\ k.heard = f.heard /\ k.failures = 1
    BY <2>1 DEF Transports
  <2> HIDE DEF k
  <2>4. Formed(k) /\ Read(k)
    BY <1>4, <2>3 DEF Formed, Read
  <2>5. Shut(k)
    BY <1>2, <1>5, <2>3 DEF Shut
  <2>6. QED
    BY <1>6, <1>7, <2>2, <2>4, <2>5 DEF Good
<1>8. CASE reason # "permanent"
  <2> DEFINE k == Receive!ScheduleRecv(f)
  <2>1. /\ k \in Transports /\ k.closing = FALSE /\ k.current = r + 1 /\ k.heard = f.heard /\ k.failures = 0
        /\ Len(k.requests) = r + 1 /\ k.requests[r + 1] = Receive!New
        /\ \A q \in 1 .. r : k.requests[q] = f.requests[q]
        /\ Shaped(Receive!New) /\ Receive!New.phase # "done" /\ Receive!New.hears /\ ~Receive!New.nuked
        /\ Receive!New.pos = 0 /\ Receive!New.text = 0
    BY <1>2, Scheduled
  <2> HIDE DEF k
  <2>2. \A q \in 1 .. r + 1 : q = r + 1 \/ q \in 1 .. r
    OBVIOUS
  <2>3. Formed(k)
    BY <1>4, <2>1, <2>2, <1>2 DEF Formed
  <2>4. Read(k)
    <3>1. 0 = 0 \div 2
      OBVIOUS
    <3>2. QED
      BY <1>2, <1>4, <2>1, <2>2, <3>1 DEF Read
  <2>5. UpTo(k.heard, r + 1, 0)
    <3>1. UpTo(g.heard, r, LinesOf(g, r)) /\ k.heard = g.heard
      BY <1>2, <2>1 DEF Using
    <3>2. g.heard \in Seq(Lines) /\ Len(g.heard) \in Nat
      BY <1>1, LenProperties DEF Transports
    <3>3. ASSUME Len(g.heard) # 0 PROVE g.heard[Len(g.heard)] \in Lines
      BY <3>2, <3>3, ElementOfSeq
    <3>4. ASSUME Len(g.heard) # 0 PROVE g.heard[Len(g.heard)][1] < r + 1
      <4>1. g.heard[Len(g.heard)][1] \in Nat
        BY <3>3, <3>4 DEF Lines
      <4>2. g.heard[Len(g.heard)][1] < r \/ g.heard[Len(g.heard)][1] = r
        BY <3>1, <3>4 DEF UpTo
      <4>3. QED
        BY <4>1, <4>2
    <3>5. QED
      BY <3>1, <3>4 DEF UpTo
  <2>6. \A q \in 1 .. r : ~k.requests[q].hears /\ k.requests[q].phase = "done" /\ WasHeard(k, q)
    BY <1>5, <2>1 DEF WasHeard
  <2>7. LinesOf(k, r + 1) = 0
    BY <2>1 DEF LinesOf
  <2>8. Using(k, r + 1, 0)
    BY <1>1, <2>1, <2>5, <2>6 DEF Using
  <2>9. InUse(k)
    BY <2>1, <2>7, <2>8 DEF InUse
  <2>10. QED
    BY <1>6, <1>8, <2>3, <2>4, <2>9 DEF Good, k
<1>9. QED
  BY <1>7, <1>8

(* abort: the request that heard is stopped, and nothing is heard from then on.        *)
LEMMA Aborted ==
  ASSUME kind \in Kinds, NEW g, NEW r \in Nat, NEW n \in Nat, Formed(g), Read(g), Using(g, r, n),
         kind = "eventsource" => g.requests[r].phase # "done"
  PROVE  LET k == Receive!Abort(g)
         IN  Formed(k) /\ Read(k) /\ Shut(k) /\ Len(k.requests) = Len(g.requests)
<1> DEFINE s == Receive!Stops(g)
           y == g.requests[r]
<1>1. g \in Transports /\ r \in 1 .. Len(g.requests) /\ g.requests \in Seq(Requests)
  BY LenProperties DEF Formed, Using, Transports
<1>2. y \in Requests /\ Shaped(y) /\ y.hears = TRUE
  <2>1. y \in Requests
    BY <1>1, ElementOfSeq
  <2>2. Shaped(y) /\ y.hears
    BY <1>1 DEF Formed, Using
  <2>3. QED
    BY <2>1, <2>2 DEF Requests
<1>3. /\ s \in Transports /\ s.closing = TRUE /\ s.limit = Len(g.heard) /\ s.requests = g.requests
      /\ s.heard = g.heard /\ s.failures = 0 /\ s.current = r
  <2>1. g.failures = 0 /\ g.current = r
    BY DEF Using
  <2>2. QED
    BY <1>1, <2>1, Stopped
<1> HIDE DEF s
<1>4. Receive!Abort(g) = Receive!AbortRequest(s, r)
  BY DEF Receive!Abort, Using, s
(* One of the requests becomes another. *)
<1>5. ASSUME NEW k \in Transports, NEW x \in Requests, k.closing = TRUE, k.limit = Len(g.heard),
             k.heard = g.heard, k.failures = 0, Len(k.requests) = Len(g.requests), k.requests[r] = x,
             \A q \in 1 .. Len(k.requests) : q # r => k.requests[q] = g.requests[q],
             Shaped(x), x.text = y.text, x.pos = y.pos,
             x.hears => kind = "eventsource" /\ x.phase = "ending",
             kind = "jsonp" /\ x.phase = "open" => x.nuked
      PROVE  Formed(k) /\ Read(k) /\ Shut(k) /\ Len(k.requests) = Len(g.requests)
  <2>1. Formed(k)
    BY <1>1, <1>5 DEF Formed
  <2>2. Read(k)
    BY <1>1, <1>5 DEF Read
  <2>3. \A q \in 1 .. r - 1 : ~g.requests[q].hears /\ g.requests[q].phase = "done"
    BY DEF Using
  <2>4. \A q \in 1 .. Len(k.requests) : q = r \/ q \in 1 .. r - 1
    BY <1>1, <1>5 DEF Using
  <2>5. Shut(k)
    BY <1>5, <2>3, <2>4 DEF Shut
  <2>6. QED
    BY <1>5, <2>1, <2>2, <2>5
<1> HIDE DEF y
<1>6. CASE kind = "xhr"
  <2> DEFINE x == [s.requests[r] EXCEPT !.nuked = TRUE, !.phase = IF @ = "delayed" THEN @ ELSE "done"]
             t == [s.requests EXCEPT ![r] = x]
             m == [s EXCEPT !.requests = t]
             f == Receive!Forgets(m, r)
  <2>1. /\ x \in Requests /\ x.phase \in {"delayed", "done"} /\ x.hears /\ x.text = y.text
        /\ x.pos = y.pos /\ x.hooked = y.hooked
    BY <1>2, <1>3 DEF Requests, y
  <2>2. m = [s EXCEPT !.requests[r].nuked = TRUE, !.requests[r].phase = IF @ = "delayed" THEN @ ELSE "done"]
    BY <1>1, <1>3, LenProperties, ZenonT(60) DEF Transports
  <2> HIDE DEF x
  <2>3. /\ t \in Seq(Requests) /\ Len(t) = Len(g.requests) /\ t[r] = x
        /\ \A q \in 1 .. Len(t) : q # r => t[q] = g.requests[q]
    BY <1>1, <1>3, <2>1, RequestIs
  <2> HIDE DEF t
  <2>4. /\ m \in Transports /\ m.requests = t /\ m.closing = TRUE /\ m.limit = Len(g.heard)
        /\ m.heard = g.heard /\ m.failures = 0
    BY <1>3, <2>3 DEF Transports
  <2>5. Receive!Abort(g) = Receive!OnClose(m, r, "user")
    BY <1>4, <1>6, <2>2 DEF Receive!AbortRequest
  <2> HIDE DEF m
  <2>6. Receive!Abort(g) = f
    BY <2>1, <2>3, <2>4, <2>5 DEF Receive!OnClose
  <2>20. m \in Transports /\ r \in 1 .. Len(m.requests)
    BY <1>1, <2>3, <2>4
  <2>21. /\ f \in Transports /\ f.closing = m.closing /\ f.limit = m.limit
         /\ f.heard = m.heard /\ f.failures = m.failures /\ Len(f.requests) = Len(m.requests)
         /\ f.requests[r] \in Requests
         /\ \A q \in 1 .. Len(f.requests) : q # r => f.requests[q] = m.requests[q]
         /\ f.requests[r].hears = FALSE /\ f.requests[r].phase = m.requests[r].phase
         /\ f.requests[r].text = m.requests[r].text /\ f.requests[r].pos = m.requests[r].pos
         /\ f.requests[r].nuked = m.requests[r].nuked /\ f.requests[r].hooked = m.requests[r].hooked
    BY <2>20, Forgotten
  <2> HIDE DEF f
  <2>22. /\ m.requests[r] = x /\ Len(m.requests) = Len(g.requests)
         /\ \A q \in 1 .. Len(m.requests) : q # r => m.requests[q] = g.requests[q]
    BY <2>3, <2>4
  <2>7. /\ f \in Transports /\ f.closing = TRUE /\ f.limit = Len(g.heard)
        /\ f.heard = g.heard /\ f.failures = 0 /\ Len(f.requests) = Len(g.requests)
        /\ f.requests[r] \in Requests
        /\ \A q \in 1 .. Len(f.requests) : q # r => f.requests[q] = g.requests[q]
        /\ f.requests[r].hears = FALSE /\ f.requests[r].phase = x.phase
        /\ f.requests[r].text = y.text /\ f.requests[r].pos = y.pos /\ f.requests[r].hooked = y.hooked
    BY <2>1, <2>4, <2>21, <2>22
  <2>8. Shaped(f.requests[r])
    BY <1>2, <1>6, <2>1, <2>7 DEF Shaped
  <2>9. QED
    BY <1>5, <1>6, <2>6, <2>7, <2>8
<1>7. CASE kind = "eventsource"
  <2>1. CASE g.requests[r].phase = "open"
    <3> DEFINE x == [s.requests[r] EXCEPT !.phase = "ending", !.reason = "user"]
               t == [s.requests EXCEPT ![r] = x]
               m == [s EXCEPT !.requests = t]
    <3>1. x \in Requests /\ x.phase = "ending" /\ x.text = y.text /\ x.pos = y.pos /\ x.hooked = y.hooked
      BY <1>2, <1>3 DEF Requests, y
    <3>2. Receive!Abort(g) = m
      <4>1. s.requests[r].phase = "open"
        BY <1>3, <2>1
      <4>2. m = [s EXCEPT !.requests[r].phase = "ending", !.requests[r].reason = "user"]
        BY <1>1, <1>3, LenProperties, ZenonT(60) DEF Transports
      <4> HIDE DEF m
      <4>3. QED
        BY <1>4, <1>7, <4>1, <4>2 DEF Receive!AbortRequest
    <3> HIDE DEF x
    <3>3. /\ t \in Seq(Requests) /\ Len(t) = Len(g.requests) /\ t[r] = x
          /\ \A q \in 1 .. Len(t) : q # r => t[q] = g.requests[q]
      BY <1>1, <1>3, <3>1, RequestIs
    <3> HIDE DEF t
    <3>4. /\ m \in Transports /\ m.requests = t /\ m.closing = TRUE /\ m.limit = Len(g.heard)
          /\ m.heard = g.heard /\ m.failures = 0
      BY <1>3, <3>3 DEF Transports
    <3> HIDE DEF m
    <3>5. Shaped(x)
      BY <1>2, <1>7, <3>1 DEF Shaped
    <3>6. QED
      BY <1>5, <1>7, <3>1, <3>2, <3>3, <3>4, <3>5
  <2>2. CASE g.requests[r].phase # "open"
    <3>1. Receive!Abort(g) = s
      BY <1>3, <1>4, <1>7, <2>2 DEF Receive!AbortRequest
    <3>2. y.phase = "ending"
      BY <1>2, <1>7, <2>2 DEF Shaped, Requests, y
    <3>3. s.requests[r] = y /\ \A q \in 1 .. Len(s.requests) : q # r => s.requests[q] = g.requests[q]
      BY <1>3 DEF y
    <3>4. QED
      BY <1>2, <1>3, <1>5, <1>7, <3>1, <3>2, <3>3
  <2>3. QED
    BY <2>1, <2>2
<1>8. CASE kind = "htmlfile"
  <2> DEFINE x == [s.requests[r] EXCEPT !.phase = "done", !.hooked = FALSE]
             t == [s.requests EXCEPT ![r] = x]
             m == [s EXCEPT !.requests = t]
             f == Receive!Forgets(m, r)
  <2>1. /\ x \in Requests /\ x.phase = "done" /\ x.hears /\ x.text = y.text
        /\ x.pos = y.pos /\ x.hooked = FALSE
    BY <1>2, <1>3 DEF Requests, y
  <2>2. Receive!Abort(g) = Receive!OnClose(m, r, "user")
    BY <1>4, <1>8 DEF Receive!AbortRequest
  <2> HIDE DEF x
  <2>3. /\ t \in Seq(Requests) /\ Len(t) = Len(g.requests) /\ t[r] = x
        /\ \A q \in 1 .. Len(t) : q # r => t[q] = g.requests[q]
    BY <1>1, <1>3, <2>1, RequestIs
  <2> HIDE DEF t
  <2>4. /\ m \in Transports /\ m.requests = t /\ m.closing = TRUE /\ m.limit = Len(g.heard)
        /\ m.heard = g.heard /\ m.failures = 0
    BY <1>3, <2>3 DEF Transports
  <2> HIDE DEF m
  <2>5. Receive!Abort(g) = f
    BY <2>1, <2>2, <2>3, <2>4 DEF Receive!OnClose
  <2>20. m \in Transports /\ r \in 1 .. Len(m.requests)
    BY <1>1, <2>3, <2>4
  <2>21. /\ f \in Transports /\ f.closing = m.closing /\ f.limit = m.limit
         /\ f.heard = m.heard /\ f.failures = m.failures /\ Len(f.requests) = Len(m.requests)
         /\ f.requests[r] \in Requests
         /\ \A q \in 1 .. Len(f.requests) : q # r => f.requests[q] = m.requests[q]
         /\ f.requests[r].hears = FALSE /\ f.requests[r].phase = m.requests[r].phase
         /\ f.requests[r].text = m.requests[r].text /\ f.requests[r].pos = m.requests[r].pos
         /\ f.requests[r].nuked = m.requests[r].nuked /\ f.requests[r].hooked = m.requests[r].hooked
    BY <2>20, Forgotten
  <2> HIDE DEF f
  <2>22. /\ m.requests[r] = x /\ Len(m.requests) = Len(g.requests)
         /\ \A q \in 1 .. Len(m.requests) : q # r => m.requests[q] = g.requests[q]
    BY <2>3, <2>4
  <2>6. /\ f \in Transports /\ f.closing = TRUE /\ f.limit = Len(g.heard)
        /\ f.heard = g.heard /\ f.failures = 0 /\ Len(f.requests) = Len(g.requests)
        /\ f.requests[r] \in Requests
        /\ \A q \in 1 .. Len(f.requests) : q # r => f.requests[q] = g.requests[q]
        /\ f.requests[r].hears = FALSE /\ f.requests[r].phase = "done"
        /\ f.requests[r].text = y.text /\ f.requests[r].pos = y.pos /\ f.requests[r].hooked = FALSE
    BY <2>1, <2>4, <2>21, <2>22
  <2>7. Shaped(f.requests[r])
    BY <2>6 DEF Shaped
  <2>8. QED
    BY <1>5, <1>8, <2>5, <2>6, <2>7
<1>9. CASE kind = "jsonp"
  <2> DEFINE x == [s.requests[r] EXCEPT !.nuked = TRUE]
             t == [s.requests EXCEPT ![r] = x]
             m == [s EXCEPT !.requests = t]
             f == Receive!Forgets(m, r)
  <2>1. /\ x \in Requests /\ x.phase = y.phase /\ x.text = y.text /\ x.pos = y.pos /\ x.hooked = y.hooked
        /\ x.nuked = TRUE
    BY <1>2, <1>3 DEF Requests, y
  <2>2. Receive!Abort(g) = f
    BY <1>3, <1>4, <1>9 DEF Receive!AbortRequest, Transports
  <2> HIDE DEF x
  <2>3. /\ t \in Seq(Requests) /\ Len(t) = Len(g.requests) /\ t[r] = x
        /\ \A q \in 1 .. Len(t) : q # r => t[q] = g.requests[q]
    BY <1>1, <1>3, <2>1, RequestIs
  <2> HIDE DEF t
  <2>4. /\ m \in Transports /\ m.requests = t /\ m.closing = TRUE /\ m.limit = Len(g.heard)
        /\ m.heard = g.heard /\ m.failures = 0
    BY <1>3, <2>3 DEF Transports
  <2> HIDE DEF m
  <2>20. m \in Transports /\ r \in 1 .. Len(m.requests)
    BY <1>1, <2>3, <2>4
  <2>21. /\ f \in Transports /\ f.closing = m.closing /\ f.limit = m.limit
         /\ f.heard = m.heard /\ f.failures = m.failures /\ Len(f.requests) = Len(m.requests)
         /\ f.requests[r] \in Requests
         /\ \A q \in 1 .. Len(f.requests) : q # r => f.requests[q] = m.requests[q]
         /\ f.requests[r].hears = FALSE /\ f.requests[r].phase = m.requests[r].phase
         /\ f.requests[r].text = m.requests[r].text /\ f.requests[r].pos = m.requests[r].pos
         /\ f.requests[r].nuked = m.requests[r].nuked /\ f.requests[r].hooked = m.requests[r].hooked
    BY <2>20, Forgotten
  <2> HIDE DEF f
  <2>22. /\ m.requests[r] = x /\ Len(m.requests) = Len(g.requests)
         /\ \A q \in 1 .. Len(m.requests) : q # r => m.requests[q] = g.requests[q]
    BY <2>3, <2>4
  <2>5. /\ f \in Transports /\ f.closing = TRUE /\ f.limit = Len(g.heard)
        /\ f.heard = g.heard /\ f.failures = 0 /\ Len(f.requests) = Len(g.requests)
        /\ f.requests[r] \in Requests
        /\ \A q \in 1 .. Len(f.requests) : q # r => f.requests[q] = g.requests[q]
        /\ f.requests[r].hears = FALSE /\ f.requests[r].phase = y.phase /\ f.requests[r].nuked = TRUE
        /\ f.requests[r].text = y.text /\ f.requests[r].pos = y.pos /\ f.requests[r].hooked = y.hooked
    BY <2>1, <2>4, <2>21, <2>22
  <2>6. Shaped(f.requests[r])
    BY <1>2, <1>9, <2>5 DEF Shaped
  <2>7. QED
    BY <1>5, <1>9, <2>2, <2>5, <2>6
<1>10. QED
  BY <1>6, <1>7, <1>8, <1>9 DEF Kinds

(* What a message does: it is heard, and the page may close the socket on it.       *)
LEMMA HearsIt ==
  ASSUME kind \in Kinds, NEW g, NEW r \in Nat, NEW n \in Nat, Formed(g), Read(g), Using(g, r, n),
         kind = "eventsource" => g.requests[r].phase # "done", NEW closes \in BOOLEAN
  PROVE  LET k == Receive!Hear(g, r, n + 1, closes)
         IN  /\ Formed(k) /\ Read(k) /\ Len(k.requests) = Len(g.requests)
             /\ (Using(k, r, n + 1) /\ k.requests = g.requests) \/ Shut(k)
<1> DEFINE t == Append(g.heard, <<r, n + 1>>)
           k == [g EXCEPT !.heard = t]
<1>1. g \in Transports /\ g.heard \in Seq(Lines) /\ r \in 1 .. Len(g.requests) /\ g.requests[r].hears
  BY LenProperties DEF Formed, Using, Transports
<1>2. /\ t \in Seq(Lines) /\ InSequence(t) /\ UpTo(t, r, n + 1)
      /\ \A x : Has(g.heard, x) => Has(t, x)
  BY <1>1, HeardOne DEF Formed, Using
<1>3. Receive!Hear(g, r, n + 1, closes) = IF closes THEN Receive!Abort(k) ELSE k
  BY <1>1 DEF Receive!Hear
<1> HIDE DEF t
<1>4. /\ k \in Transports /\ k.heard = t /\ k.closing = g.closing /\ k.current = g.current
      /\ k.requests = g.requests /\ k.failures = g.failures /\ k.limit = g.limit
  BY <1>1, <1>2 DEF Transports
<1> HIDE DEF k
<1>5. Formed(k) /\ Read(k)
  BY <1>2, <1>4 DEF Formed, Read
<1>6. Using(k, r, n + 1)
  <2>1. \A q \in 1 .. r - 1 : WasHeard(k, q)
    BY <1>2, <1>4 DEF Using, WasHeard
  <2>2. QED
    BY <1>2, <1>4, <2>1 DEF Using
<1>7. CASE closes
  <2>1. LET a == Receive!Abort(k)
        IN  Formed(a) /\ Read(a) /\ Shut(a) /\ Len(a.requests) = Len(k.requests)
    BY <1>4, <1>5, <1>6, Aborted
  <2>2. QED
    BY <1>3, <1>4, <1>7, <2>1
<1>8. CASE ~closes
  BY <1>3, <1>4, <1>5, <1>6, <1>8
<1>9. QED
  BY <1>7, <1>8

(* Whatever the state, a line changes no more than what was heard and who hears.     *)
LEMMA HearTyped ==
  ASSUME kind = "xhr", NEW L \in Nat, NEW g \in Transports, Len(g.requests) = L, g.current \in 0 .. L,
         NEW r \in 1 .. L, NEW n \in Nat, NEW closes \in BOOLEAN
  PROVE  LET k == Receive!Hear(g, r, n, closes)
         IN  k \in Transports /\ Len(k.requests) = L /\ k.current \in 0 .. L
<1> DEFINE t == Append(g.heard, <<r, n>>)
           k == [g EXCEPT !.heard = t]
           s == Receive!Stops(k)
           c == g.current
<1>1. Receive!Hear(g, r, n, closes) \in {g, k, Receive!Abort(k)}
  BY DEF Receive!Hear
<1>2. t \in Seq(Lines)
  <2>1. <<r, n>> \in Lines /\ g.heard \in Seq(Lines)
    BY DEF Lines, Transports
  <2>2. QED
    BY <2>1, AppendProperties
<1> HIDE DEF t
<1>3. k \in Transports /\ k.requests = g.requests /\ k.current = c
  BY <1>2 DEF Transports
<1> HIDE DEF k
<1>4. s \in Transports /\ s.requests = g.requests /\ s.current = c /\ s.closing = TRUE
  BY <1>3, Stopped
<1> HIDE DEF s
<1>5. CASE c = 0
  BY <1>1, <1>3, <1>4, <1>5 DEF Receive!Abort, s
<1>6. CASE c # 0
  <2> DEFINE x == [s.requests[c] EXCEPT !.nuked = TRUE, !.phase = IF @ = "delayed" THEN @ ELSE "done"]
             u == [s.requests EXCEPT ![c] = x]
             m == [s EXCEPT !.requests = u]
  <2>1. c \in 1 .. L /\ c \in 1 .. Len(s.requests) /\ s.requests[c] \in Requests
    <3>1. c \in 1 .. L /\ s.requests \in Seq(Requests) /\ Len(s.requests) = L
      BY <1>4, <1>6 DEF Transports
    <3>2. QED
      BY <3>1, ElementOfSeq
  <2>2. x \in Requests
    BY <2>1 DEF Requests
  <2>3. m = [s EXCEPT !.requests[c].nuked = TRUE, !.requests[c].phase = IF @ = "delayed" THEN @ ELSE "done"]
    BY <1>4, <2>1, LenProperties DEF Transports
  <2> HIDE DEF x
  <2>4. u \in Seq(Requests) /\ Len(u) = L
    BY <1>4, <2>1, <2>2, RequestIs
  <2> HIDE DEF u
  <2>5. m \in Transports /\ m.requests = u /\ m.current = c /\ m.closing = TRUE
    BY <1>4, <2>4 DEF Transports
  <2>6. Receive!Abort(k) = Receive!OnClose(m, c, "user")
    BY <1>3, <1>6, <2>3 DEF Receive!Abort, Receive!AbortRequest, s
  <2> HIDE DEF m
  <2>7. Receive!Abort(k) \in {m, Receive!Forgets(m, c)}
    BY <2>5, <2>6 DEF Receive!OnClose
  <2>8. c \in 1 .. Len(m.requests)
    BY <2>1, <2>4, <2>5
  <2>9. LET f == Receive!Forgets(m, c)
        IN  f \in Transports /\ f.current = 0 /\ Len(f.requests) = Len(m.requests)
    BY <2>5, <2>8, Forgotten
  <2>10. QED
    BY <1>1, <1>3, <2>4, <2>5, <2>7, <2>9
<1>7. QED
  BY <1>5, <1>6

(* One request becomes another.                                             *)
Altered(g, r, x) == [g EXCEPT !.requests = [g.requests EXCEPT ![r] = x]]
Silent(x) ==
  /\ x.hears => kind = "eventsource" /\ x.phase = "ending"
  /\ kind = "jsonp" /\ x.phase = "open" => x.nuked
LEMMA AlteredOne ==
  ASSUME kind \in Kinds, NEW g, Formed(g), NEW r \in 1 .. Len(g.requests), NEW x \in Requests, Shaped(x)
  PROVE  LET k == Altered(g, r, x)
         IN  /\ Formed(k) /\ k.closing = g.closing /\ k.current = g.current /\ k.heard = g.heard
             /\ k.failures = g.failures /\ k.limit = g.limit /\ Len(k.requests) = Len(g.requests)
             /\ k.requests[r] = x /\ \A q \in 1 .. Len(k.requests) : q # r => k.requests[q] = g.requests[q]
             /\ Read(g) /\ (kind = "xhr" => x.pos = x.text \div 2) => Read(k)
             /\ \A n : Using(g, r, n) /\ x.hears /\ ~x.nuked => Using(k, r, n)
             /\ Shut(g) /\ Silent(x) => Shut(k)
<1> DEFINE s == [g.requests EXCEPT ![r] = x]
           k == Altered(g, r, x)
<1>1. g \in Transports
  BY DEF Formed
<1>2. /\ s \in Seq(Requests) /\ Len(s) = Len(g.requests) /\ s[r] = x
      /\ \A q \in 1 .. Len(s) : q # r => s[q] = g.requests[q]
  BY <1>1, RequestIs
<1> HIDE DEF s
<1>3. /\ k \in Transports /\ k.requests = s /\ k.closing = g.closing /\ k.current = g.current
      /\ k.heard = g.heard /\ k.failures = g.failures /\ k.limit = g.limit
  BY <1>1, <1>2 DEF Transports, Altered, s
<1> HIDE DEF k
<1>4. Formed(k)
  BY <1>2, <1>3 DEF Formed
<1>5. ASSUME Read(g), kind = "xhr" => x.pos = x.text \div 2 PROVE Read(k)
  BY <1>2, <1>3, <1>5 DEF Read
<1>6. ASSUME NEW n, Using(g, r, n), x.hears, ~x.nuked PROVE Using(k, r, n)
  <2>1. \A q \in 1 .. r - 1 : q \in 1 .. Len(s) /\ q # r
    BY <1>2
  <2>2. \A q \in 1 .. r - 1 : k.requests[q] = g.requests[q] /\ WasHeard(k, q)
    BY <1>2, <1>3, <1>6, <2>1 DEF Using, WasHeard
  <2>3. QED
    BY <1>2, <1>3, <1>6, <2>2 DEF Using
<1>7. ASSUME Shut(g), Silent(x) PROVE Shut(k)
  <2>1. \A q \in 1 .. Len(k.requests) : Silent(k.requests[q])
    BY <1>2, <1>3, <1>7 DEF Shut, Silent
  <2>2. QED
    BY <1>3, <1>7, <2>1 DEF Shut, Silent
<1>8. QED
  BY <1>2, <1>3, <1>4, <1>5, <1>6, <1>7 DEF k

(* What a chunk goes through, line by line.                                    *)
Line(x, r, n, stop) == Receive!Hear(x, r, n, n = stop)
StaysIn(S, r, stop) == \A x \in S, n \in Nat : Line(x, r, n, stop) \in S
Begins(h, r, g, p, m) ==
  /\ p = h.requests[r].pos /\ m = h.requests[r].text \div 2 - p
  /\ g = [h EXCEPT !.requests[r].pos = h.requests[r].text \div 2]
LineByLine(b, h, r, stop, g, p, m, S) ==
  /\ b[0] = g /\ Receive!OnChunk(h, r, stop) = b[m]
  /\ \A k \in 1 .. m : b[k - 1] \in S => b[k] = Line(b[k - 1], r, p + k, stop)
LEMMA ChunkGoes ==
  ASSUME NEW h, NEW r, NEW stop, NEW p \in Nat, NEW m \in Nat, NEW S, NEW g \in S,
         Begins(h, r, g, p, m), StaysIn(S, r, stop)
  PROVE  \E b : LineByLine(b, h, r, stop, g, p, m, S)
<1> DEFINE w == [i \in 1 .. m |-> p + i]
           op == [x \in S \X Nat |-> Line(x[1], r, x[2], stop)]
           each(f) == f = [s \in SUBSET (DOMAIN w) |->
                             IF s = {} THEN g ELSE Line(f[s \ {MaxOf(s)}], r, w[MaxOf(s)], stop)]
           it == CHOOSE f : each(f)
           b == [k \in 0 .. m |-> it[1 .. k]]
<1>1. Receive!OnChunk(h, r, stop) = it[DOMAIN w]
  BY DEF Line, Begins, Receive!OnChunk, Receive!FoldLeft, Receive!MapThenFoldSet, MaxOf, Receive!Max
<1>2. \A x \in S, n \in Nat : Line(x, r, n, stop) \in S
  BY DEF StaysIn
<1>3. w \in Seq(Nat) /\ Len(w) = m /\ DOMAIN w = 1 .. m /\ \A i \in 1 .. m : w[i] = p + i /\ w[i] \in Nat
  <2>1. w \in [1 .. m -> Nat]
    OBVIOUS
  <2>2. w \in Seq(Nat)
    BY <2>1, SeqDef
  <2>3. DOMAIN w = 1 .. m /\ \A i \in 1 .. m : w[i] = p + i /\ w[i] \in Nat
    OBVIOUS
  <2> HIDE DEF w
  <2>4. QED
    BY <2>2, <2>3, LenProperties
<1> HIDE DEF w
<1>4. op \in [S \X Nat -> S] /\ \A x \in S, n \in Nat : op[<<x, n>>] = Line(x, r, n, stop)
  BY <1>2
<1> HIDE DEF op
<1>5. PICK f \in [SUBSET (1 .. m) -> S] : Results(op, g, w, m, f)
  <2>1. m <= Len(w) /\ w \in Seq(Nat) /\ op \in [S \X Nat -> S]
    BY <1>3, <1>4
  <2>2. QED
    BY <2>1, ResultsExist
<1>6. each(f)
  <2>1. ASSUME NEW s \in SUBSET (1 .. m), s # {}
        PROVE  op[<<f[s \ {MaxOf(s)}], w[MaxOf(s)]>>] = Line(f[s \ {MaxOf(s)}], r, w[MaxOf(s)], stop)
    <3>1. MaxOf(s) \in 1 .. m
      BY <2>1, MaxOfPart
    <3>2. s \ {MaxOf(s)} \in SUBSET (1 .. m)
      OBVIOUS
    <3>3. QED
      BY <1>3, <1>4, <1>5, <3>1, <3>2
  <2>2. QED
    BY <1>3, <1>5, <2>1 DEF Results
<1>7. each(it)
  BY <1>6
<1> HIDE DEF it
<1>8. it[1 .. 0] = g
  BY <1>3, <1>7
<1>9. ASSUME NEW k \in 1 .. m, it[1 .. k - 1] \in S
      PROVE  it[1 .. k] = Line(it[1 .. k - 1], r, p + k, stop)
  <2>1. /\ MaxOf(1 .. k) = k /\ (1 .. k) \ {k} = 1 .. k - 1
        /\ 1 .. k # {} /\ 1 .. k \in SUBSET (DOMAIN w)
    BY <1>3, MaxUpTo
  <2>2. it[1 .. k] = Line(it[(1 .. k) \ {MaxOf(1 .. k)}], r, w[MaxOf(1 .. k)], stop)
    BY <1>7, <2>1
  <2>3. w[k] = p + k
    BY <1>3
  <2>4. QED
    BY <2>1, <2>2, <2>3
<1>10. \A k \in 0 .. m : b[k] = it[1 .. k]
  OBVIOUS
<1>11. \A k \in 1 .. m : k - 1 \in 0 .. m /\ k \in 0 .. m
  OBVIOUS
<1>12. b[0] = g /\ it[DOMAIN w] = b[m]
  BY <1>3, <1>8, <1>10
<1> HIDE DEF b
<1>13. \A k \in 1 .. m : b[k - 1] \in S => b[k] = Line(b[k - 1], r, p + k, stop)
  BY <1>9, <1>10, <1>11
<1>14. QED
  BY <1>1, <1>12, <1>13 DEF LineByLine

(* onchunk: the lines are heard one after the other, or the socket is closed on one of them.  *)
LEMMA ReadsChunk ==
  ASSUME kind = "xhr", NEW h, NEW r \in 1 .. Len(h.requests), Formed(h), NEW stop \in Nat,
         \A q \in 1 .. Len(h.requests) : q # r => h.requests[q].pos = h.requests[q].text \div 2,
         h.requests[r].pos <= h.requests[r].text \div 2,
         Using(h, r, h.requests[r].pos) \/ Shut(h)
  PROVE  LET k == Receive!OnChunk(h, r, stop)
         IN  /\ Formed(k) /\ Read(k) /\ Len(k.requests) = Len(h.requests)
             /\ \/ Using(k, r, LinesOf(k, r)) /\ k.requests[r].phase = h.requests[r].phase
                \/ Shut(k)
<1> DEFINE L == Len(h.requests)
           y == h.requests[r]
           x == [y EXCEPT !.pos = y.text \div 2]
           g == Altered(h, r, x)
           p == y.pos
           m == y.text \div 2 - p
<1>1. h \in Transports /\ h.requests \in Seq(Requests) /\ L \in Nat /\ y \in Requests /\ Shaped(y)
  <2>1. h \in Transports /\ Shaped(y)
    BY DEF Formed
  <2>2. h.requests \in Seq(Requests)
    BY <2>1 DEF Transports
  <2>3. L \in Nat /\ y \in Requests
    BY <2>2, ElementOfSeq, LenProperties
  <2>4. QED
    BY <2>1, <2>2, <2>3
<1>2. p \in Nat /\ y.text \in Nat /\ y.text \div 2 \in Nat /\ m \in Nat /\ p + m = y.text \div 2
  <2>1. p \in Nat /\ y.text \in Nat /\ p <= y.text \div 2
    BY <1>1 DEF Requests
  <2> HIDE DEF p, y
  <2>2. QED
    BY <2>1
<1>3. /\ x \in Requests /\ x.pos = y.text \div 2 /\ x.text = y.text /\ x.phase = y.phase /\ x.hooked = y.hooked
      /\ x.hears = y.hears /\ x.nuked = y.nuked
  <2> DEFINE z == y.text \div 2
  <2>1. z \in Nat
    BY <1>2
  <2> HIDE DEF z
  <2>2. [y EXCEPT !.pos = z] \in Requests /\ [y EXCEPT !.pos = z].pos = z
        /\ [y EXCEPT !.pos = z].text = y.text /\ [y EXCEPT !.pos = z].phase = y.phase
        /\ [y EXCEPT !.pos = z].hooked = y.hooked /\ [y EXCEPT !.pos = z].hears = y.hears
        /\ [y EXCEPT !.pos = z].nuked = y.nuked
    BY <1>1, <2>1 DEF Requests
  <2>3. QED
    BY <2>2 DEF z
<1>4. g = [h EXCEPT !.requests[r].pos = h.requests[r].text \div 2]
  BY DEF Altered
<1> HIDE DEF x
<1>5. Shaped(x)
  BY <1>1, <1>3 DEF Shaped
<1>6. /\ Formed(g) /\ Len(g.requests) = L /\ g.requests[r] = x /\ g.current = h.current
      /\ \A q \in 1 .. L : q # r => g.requests[q] = h.requests[q]
      /\ Using(h, r, p) /\ x.hears /\ ~x.nuked => Using(g, r, p)
      /\ Shut(h) /\ Silent(x) => Shut(g)
  <2>1. kind \in Kinds
    BY DEF Kinds
  <2>2. QED
    BY <1>3, <1>5, <2>1, AlteredOne
<1> HIDE DEF g
<1>7. Read(g)
  BY <1>3, <1>6 DEF Read
<1>8. CASE Shut(h)
  <2>1. ~y.hears
    BY <1>1, <1>8 DEF Shut
  <2>2. Shut(g) /\ ~g.requests[r].hears
    BY <1>3, <1>6, <1>8, <2>1 DEF Silent
  <2>3. \A n : Line(g, r, n, stop) = g
    BY <2>2 DEF Line, Receive!Hear
  <2>20. PICK b : LineByLine(b, h, r, stop, g, p, m, {g})
    <3>1. Begins(h, r, g, p, m)
      BY <1>4 DEF Begins
    <3> HIDE DEF m, p
    <3>2. StaysIn({g}, r, stop)
      BY <2>3 DEF StaysIn
    <3>3. QED
      BY <1>2, <3>1, <3>2, ChunkGoes
  <2>4. /\ b[0] = g /\ Receive!OnChunk(h, r, stop) = b[m]
        /\ \A k \in 1 .. m : b[k - 1] = g => b[k] = Line(g, r, p + k, stop)
    BY <2>20 DEF LineByLine
  <2> DEFINE good == {k \in 0 .. m : b[k] = g}
  <2> HIDE DEF m, p
  <2>5. 0 \in good
    BY <1>2, <2>4
  <2>6. \A k \in 1 .. m : k - 1 \in good => k \in good
    <3> SUFFICES ASSUME NEW k \in 1 .. m, k - 1 \in good PROVE k \in good
      OBVIOUS
    <3>1. b[k] = Line(g, r, p + k, stop)
      BY <2>4
    <3>2. b[k] = g
      BY <2>3, <3>1
    <3>3. QED
      BY <1>2, <3>2
  <2>7. m \in good
    <3> HIDE DEF good
    <3>1. \A k \in 0 .. m : k \in good
      BY <1>2, <2>5, <2>6, Climbs
    <3>2. QED
      BY <1>2, <3>1
  <2>8. QED
    BY <1>6, <1>7, <2>2, <2>4, <2>7
<1>9. CASE Using(h, r, p)
  <2> DEFINE S == {c \in Transports : Len(c.requests) = L /\ c.current \in 0 .. L}
             Part(c, n) == /\ Formed(c) /\ Read(c) /\ Len(c.requests) = L
                           /\ (Using(c, r, n) /\ c.requests = g.requests) \/ Shut(c)
  <2>1. Using(g, r, p)
    <3>1. y.hears /\ ~y.nuked
      BY <1>9 DEF Using
    <3>2. QED
      BY <1>3, <1>6, <1>9, <3>1
  <2>2. g \in S
    <3>1. g.current = r
      BY <2>1 DEF Using
    <3>2. QED
      BY <1>1, <1>6, <3>1 DEF Formed
  <2>3. \A c \in S, n \in Nat : Line(c, r, n, stop) \in S
    <3> SUFFICES ASSUME NEW c \in S, NEW n \in Nat PROVE Line(c, r, n, stop) \in S
      OBVIOUS
    <3> DEFINE closes == n = stop
    <3>1. closes \in BOOLEAN
      OBVIOUS
    <3> HIDE DEF closes, L
    <3>2. r \in 1 .. L
      BY DEF L
    <3>3. LET k == Receive!Hear(c, r, n, closes)
          IN  k \in Transports /\ Len(k.requests) = L /\ k.current \in 0 .. L
      BY <1>1, <3>1, <3>2, HearTyped
    <3>4. QED
      BY <3>3 DEF closes, Line
  <2>20. PICK b : LineByLine(b, h, r, stop, g, p, m, S)
    <3>1. Begins(h, r, g, p, m)
      BY <1>4 DEF Begins
    <3> HIDE DEF m, p, S
    <3>2. StaysIn(S, r, stop)
      BY <2>3 DEF StaysIn
    <3>3. QED
      BY <1>2, <2>2, <3>1, <3>2, ChunkGoes
  <2>4. /\ b[0] = g /\ Receive!OnChunk(h, r, stop) = b[m]
        /\ \A k \in 1 .. m : b[k - 1] \in S => b[k] = Line(b[k - 1], r, p + k, stop)
    BY <2>20 DEF LineByLine
  <2>5. ASSUME NEW c, NEW n \in Nat, Part(c, n)
        PROVE  Part(Line(c, r, n + 1, stop), n + 1)
    <3>1. CASE Using(c, r, n) /\ c.requests = g.requests
      <4> DEFINE closes == n + 1 = stop
      <4>1. closes \in BOOLEAN /\ kind \in Kinds /\ kind # "eventsource" /\ r \in Nat
        BY DEF Kinds
      <4> HIDE DEF closes
      <4>2. LET k == Receive!Hear(c, r, n + 1, closes)
            IN  /\ Formed(k) /\ Read(k) /\ Len(k.requests) = Len(c.requests)
                /\ (Using(k, r, n + 1) /\ k.requests = c.requests) \/ Shut(k)
        BY <2>5, <3>1, <4>1, HearsIt
      <4>3. QED
        BY <2>5, <3>1, <4>2 DEF closes, Line
    <3>2. CASE Shut(c)
      <4>1. ~c.requests[r].hears
        BY <2>5, <3>2 DEF Shut
      <4>2. Line(c, r, n + 1, stop) = c
        BY <4>1 DEF Line, Receive!Hear
      <4>3. QED
        BY <2>5, <3>2, <4>2
    <3>3. QED
      BY <2>5, <3>1, <3>2
  <2> HIDE DEF Part
  <2> DEFINE good == {k \in 0 .. m : b[k] \in S /\ Part(b[k], p + k)}
  <2>6. 0 \in good
    <3>1. Part(g, p)
      BY <1>6, <1>7, <2>1 DEF Part
    <3> HIDE DEF m, p, S
    <3>2. p + 0 = p
      BY <1>2
    <3>3. QED
      BY <1>2, <2>2, <2>4, <3>1, <3>2
  <2>7. \A k \in 1 .. m : k - 1 \in good => k \in good
    <3> HIDE DEF m, p, S
    <3> SUFFICES ASSUME NEW k \in 1 .. m, k - 1 \in good PROVE k \in good
      OBVIOUS
    <3>1. /\ b[k - 1] \in S /\ Part(b[k - 1], p + (k - 1)) /\ p + k \in Nat /\ p + (k - 1) \in Nat
          /\ p + (k - 1) + 1 = p + k /\ k \in 0 .. m
      BY <1>2
    <3>2. b[k] = Line(b[k - 1], r, p + k, stop)
      BY <2>4, <3>1
    <3>3. b[k] \in S
      BY <2>3, <3>1, <3>2
    <3>4. Part(b[k], p + k)
      BY <2>5, <3>1, <3>2
    <3>5. QED
      BY <3>1, <3>3, <3>4
  <2>8. m \in good
    <3> HIDE DEF good, m
    <3>1. \A k \in 0 .. m : k \in good
      BY <1>2, <2>6, <2>7, Climbs
    <3>2. QED
      BY <1>2, <3>1
  <2>9. Part(b[m], y.text \div 2)
    BY <1>2, <2>8
  <2>10. LinesOf(g, r) = y.text \div 2
    BY <1>3, <1>6 DEF LinesOf
  <2> DEFINE e == b[m]
  <2>11. Receive!OnChunk(h, r, stop) = e
    BY <2>4
  <2>12. Part(e, LinesOf(g, r))
    BY <2>9, <2>10
  <2> HIDE DEF e
  <2>13. Formed(e) /\ Read(e) /\ Len(e.requests) = L
         /\ ((Using(e, r, LinesOf(g, r)) /\ e.requests = g.requests) \/ Shut(e))
    BY <2>12 DEF Part
  <2>14. QED
    BY <1>3, <1>6, <2>11, <2>13 DEF LinesOf
<1>10. QED
  BY <1>8, <1>9

(* The transport as it is at a step, and the request r of it.                   *)
At(h, r) ==
  /\ h = Receive!Heap /\ Good(h) /\ kind \in Kinds
  /\ r \in 1 .. Len(h.requests) /\ h.requests[r].phase # "done"
LEMMA AtRequest ==
  ASSUME NEW h, NEW r, At(h, r)
  PROVE  /\ h \in Transports /\ Formed(h) /\ Read(h) /\ h.requests = requests /\ kind \in Kinds
         /\ r \in Nat /\ r \in 1 .. Len(h.requests) /\ Len(h.requests) \in Nat
         /\ h.requests[r] \in Requests /\ Shaped(h.requests[r])
         /\ \/ Using(h, r, LinesOf(h, r)) /\ h.requests[r].hears /\ ~h.requests[r].nuked
            \/ Shut(h) /\ Silent(h.requests[r])
<1>1. h \in Transports /\ Formed(h) /\ Read(h) /\ h.requests = requests /\ r \in 1 .. Len(h.requests)
  BY DEF At, Good, Formed, Receive!Heap
<1>2. Len(h.requests) \in Nat /\ h.requests[r] \in Requests /\ Shaped(h.requests[r])
  BY <1>1, LenProperties, ElementOfSeq DEF Transports, Formed
<1>3. CASE InUse(h)
  <2>1. Using(h, h.current, LinesOf(h, h.current))
    BY <1>3 DEF InUse
  <2>2. h.current = r
    <3>1. \A q \in 1 .. h.current - 1 : h.requests[q].phase = "done"
      BY <2>1 DEF Using
    <3>2. h.current = Len(h.requests) /\ h.requests[r].phase # "done"
      BY <2>1 DEF Using, At
    <3>3. QED
      BY <1>1, <1>2, <3>1, <3>2
  <2>3. QED
    BY <1>1, <1>2, <2>1, <2>2 DEF At, Using
<1>4. CASE Shut(h)
  BY <1>1, <1>2, <1>4 DEF At, Shut, Silent
<1>5. QED
  BY <1>3, <1>4 DEF At, Good

LEMMA ReceiveBecomes ==
  ASSUME kind \in Kinds, NEW g, Good(g), Receive!Become(g)
  PROVE  ReceiveInv'
<1>1. Receive!Heap' = [closing |-> g.closing, current |-> g.current, requests |-> g.requests,
         heard |-> g.heard, failures |-> g.failures, limit |-> g.limit] /\ kind' = kind
  BY DEF Receive!Heap, Receive!Become
<1>2. Receive!Heap' = g
  BY <1>1 DEF Good, Formed, Transports
<1>3. QED
  BY <1>1, <1>2 DEF ReceiveInv, Good, Formed, Read, InUse, Shut, Using, WasHeard, LinesOf, Shaped,
                    Kinds

(* A step that changes the request, and leaves it to hear or silent as it was.        *)
LEMMA AltersIt ==
  ASSUME NEW h, NEW r, At(h, r), NEW x \in Requests, Shaped(x), x.phase # "done",
         x.hears = h.requests[r].hears, x.nuked = h.requests[r].nuked,
         kind = "xhr" => x.text = h.requests[r].text, x.pos = h.requests[r].pos,
         Silent(h.requests[r]) => Silent(x)
  PROVE  Good(Altered(h, r, x))
<1> DEFINE g == Altered(h, r, x)
           n == LinesOf(h, r)
<1>1. /\ Formed(h) /\ Read(h) /\ kind \in Kinds /\ r \in 1 .. Len(h.requests)
      /\ \/ Using(h, r, n) /\ h.requests[r].hears /\ ~h.requests[r].nuked
         \/ Shut(h) /\ Silent(h.requests[r])
  BY AtRequest
<1>2. kind = "xhr" => x.pos = x.text \div 2
  BY <1>1 DEF Read
<1>3. n = LinesOf(g, r) /\ g.current = h.current /\ g.requests[r] = x
  BY <1>1, AlteredOne DEF LinesOf
<1> HIDE DEF n
<1>4. /\ Formed(g) /\ Read(g) /\ (Using(h, r, n) /\ x.hears /\ ~x.nuked => Using(g, r, n))
      /\ (Shut(h) /\ Silent(x) => Shut(g))
  BY <1>1, <1>2, AlteredOne
<1> HIDE DEF g
<1>5. CASE Using(g, r, n)
  <2>1. g.current = r
    BY <1>5 DEF Using
  <2>2. QED
    BY <1>3, <1>4, <1>5, <2>1 DEF Good, InUse, g
<1>6. CASE Shut(g)
  BY <1>4, <1>6 DEF Good, g
<1>7. QED
  BY <1>1, <1>4, <1>5, <1>6

(* A request that ends.                                                     *)
LEMMA EndsIt ==
  ASSUME NEW h, NEW r, At(h, r), NEW x \in Requests, Shaped(x), x.phase = "done",
         x.hears = h.requests[r].hears, x.nuked = h.requests[r].nuked,
         x.text = h.requests[r].text, x.pos = h.requests[r].pos, kind # "eventsource"
  PROVE  LET g == Altered(h, r, x)
         IN  /\ Formed(g) /\ Read(g) /\ Len(g.requests) = Len(h.requests) /\ g.requests[r] = x
             /\ \/ Using(g, r, LinesOf(g, r)) /\ Using(h, r, LinesOf(h, r))
                \/ Shut(g) /\ ~x.hears /\ Shut(h)
<1> DEFINE g == Altered(h, r, x)
           n == LinesOf(h, r)
<1>1. /\ Formed(h) /\ Read(h) /\ kind \in Kinds /\ r \in 1 .. Len(h.requests)
      /\ \/ Using(h, r, n) /\ h.requests[r].hears /\ ~h.requests[r].nuked
         \/ Shut(h) /\ Silent(h.requests[r])
  BY AtRequest
<1>2. kind = "xhr" => x.pos = x.text \div 2
  BY <1>1 DEF Read
<1>3. n = LinesOf(g, r)
  BY <1>1, AlteredOne DEF LinesOf
<1> HIDE DEF n
<1>4. /\ Formed(g) /\ Read(g) /\ Len(g.requests) = Len(h.requests) /\ g.requests[r] = x
      /\ (Using(h, r, n) /\ x.hears /\ ~x.nuked => Using(g, r, n))
      /\ (Shut(h) /\ Silent(x) => Shut(g))
  BY <1>1, <1>2, AlteredOne
<1> HIDE DEF g
<1>5. Silent(h.requests[r]) => ~x.hears /\ Silent(x)
  BY DEF Silent
<1>6. QED
  BY <1>1, <1>3, <1>4, <1>5 DEF g, n

(* onclose of a request that has ended, whether it hears or not.                 *)
LEMMA ClosesIt ==
  ASSUME kind \in Kinds, NEW g, NEW r \in Nat, Formed(g), Read(g), NEW reason,
         \/ Using(g, r, LinesOf(g, r)) /\ g.requests[r].phase = "done"
         \/ Shut(g) /\ ~g.requests[r].hears
  PROVE  Good(Receive!OnClose(g, r, reason))
<1>1. CASE Using(g, r, LinesOf(g, r)) /\ g.requests[r].phase = "done"
  BY <1>1, ClosesRequest
<1>2. CASE Shut(g) /\ ~g.requests[r].hears
  <2>1. Receive!OnClose(g, r, reason) = g
    BY <1>2 DEF Receive!OnClose
  <2>2. QED
    BY <1>2, <2>1 DEF Good
<1>3. QED
  BY <1>1, <1>2

LEMMA StartsKept ==
  ASSUME NEW h, NEW r, At(h, r), Receive!Starts(r) \/ Receive!FrameStarts(r)
  PROVE  ReceiveInv'
<1> DEFINE y == h.requests[r]
           x == [y EXCEPT !.phase = "open"]
<1>1. y \in Requests /\ Shaped(y) /\ kind \in Kinds /\ h = Receive!Heap /\ y = requests[r]
  BY AtRequest DEF At
<1>2. y.phase \in {"delayed", "loading"}
  BY <1>1 DEF Receive!Starts, Receive!FrameStarts
<1> HIDE DEF y
<1>3. /\ x \in Requests /\ x.phase = "open" /\ x.hears = y.hears /\ x.nuked = y.nuked /\ x.text = y.text
      /\ x.pos = y.pos /\ x.hooked = y.hooked
  BY <1>1 DEF Requests
<1> HIDE DEF x
<1>4. Shaped(x) /\ (Silent(y) => Silent(x))
  BY <1>1, <1>2, <1>3 DEF Shaped, Silent
<1>5. Good(Altered(h, r, x))
  BY <1>3, <1>4, AltersIt DEF y
<1>6. Receive!Become(Altered(h, r, x))
  BY <1>1 DEF Receive!Starts, Receive!FrameStarts, Altered, x, y
<1>7. QED
  BY <1>1, <1>5, <1>6, ReceiveBecomes

LEMMA ErrsKept ==
  ASSUME NEW h, NEW r, At(h, r), NEW reason \in {"network", "permanent"}, Receive!EventSourceErrs(r, reason)
  PROVE  ReceiveInv'
<1> DEFINE y == h.requests[r]
           x == [y EXCEPT !.phase = "ending", !.reason = reason]
<1>1. y \in Requests /\ Shaped(y) /\ kind \in Kinds /\ h = Receive!Heap /\ y = requests[r]
  BY AtRequest DEF At
<1>2. y.phase = "open" /\ kind = "eventsource"
  BY <1>1 DEF Receive!EventSourceErrs
<1> HIDE DEF y
<1>3. /\ x \in Requests /\ x.phase = "ending" /\ x.hears = y.hears /\ x.nuked = y.nuked
      /\ x.text = y.text /\ x.pos = y.pos /\ x.hooked = y.hooked
  BY <1>1 DEF Requests
<1> HIDE DEF x
<1>4. Shaped(x) /\ (Silent(y) => Silent(x))
  BY <1>1, <1>2, <1>3 DEF Shaped, Silent
<1>5. Good(Altered(h, r, x))
  BY <1>3, <1>4, AltersIt DEF y
<1>6. Receive!Become(Altered(h, r, x))
  <2>1. Altered(h, r, x) = [Receive!Heap EXCEPT !.requests[r].phase = "ending", !.requests[r].reason = reason]
    <3>1. h \in Transports /\ r \in 1 .. Len(h.requests)
      BY AtRequest
    <3>2. QED
      BY <1>1, <3>1, LenProperties DEF Altered, x, y, Transports
  <2>2. QED
    BY <2>1 DEF Receive!EventSourceErrs
<1>7. QED
  BY <1>1, <1>5, <1>6, ReceiveBecomes

LEMMA MessageKept ==
  ASSUME NEW h, NEW r, At(h, r), NEW closes \in BOOLEAN, Receive!Message(r, closes)
  PROVE  ReceiveInv'
<1> DEFINE y == h.requests[r]
           n == y.pos
           x == [y EXCEPT !.pos = n + 1]
           g == Altered(h, r, x)
           k == Receive!Hear(g, r, n + 1, closes)
<1>1. /\ y \in Requests /\ Shaped(y) /\ kind \in Kinds /\ h = Receive!Heap /\ y = requests[r]
      /\ Formed(h) /\ Read(h) /\ r \in Nat /\ r \in 1 .. Len(h.requests) /\ n \in Nat
      /\ \/ Using(h, r, LinesOf(h, r)) /\ y.hears /\ ~y.nuked
         \/ Shut(h) /\ Silent(y)
  BY AtRequest DEF At, Requests
<1>2. y.phase = "open" /\ kind \in {"eventsource", "htmlfile"}
  BY <1>1 DEF Receive!Message
<1>3. LinesOf(h, r) = n
  BY <1>2 DEF LinesOf
<1>4. Receive!Become(k)
  BY <1>1 DEF Receive!Message, Altered
<1> HIDE DEF y, n
<1>5. /\ x \in Requests /\ x.phase = y.phase /\ x.hears = y.hears /\ x.nuked = y.nuked
      /\ x.text = y.text /\ x.pos = n + 1 /\ x.hooked = y.hooked
  BY <1>1 DEF Requests
<1> HIDE DEF x
<1>6. Shaped(x) /\ (Silent(y) => Silent(x))
  BY <1>1, <1>5 DEF Shaped, Silent
<1>7. /\ Formed(g) /\ Read(g) /\ g.requests[r] = x /\ Len(g.requests) = Len(h.requests)
      /\ (Using(h, r, n) /\ x.hears /\ ~x.nuked => Using(g, r, n))
      /\ (Shut(h) /\ Silent(x) => Shut(g))
  BY <1>1, <1>2, <1>5, <1>6, AlteredOne
<1> HIDE DEF g
<1>8. Good(k)
  <2>1. CASE Using(h, r, n) /\ y.hears /\ ~y.nuked
    <3>1. Using(g, r, n) /\ g.requests[r].phase # "done"
      BY <1>2, <1>5, <1>7, <2>1
    <3>2. /\ Formed(k) /\ Read(k) /\ ((Using(k, r, n + 1) /\ k.requests = g.requests) \/ Shut(k))
      BY <1>1, <1>7, <3>1, HearsIt
    <3> HIDE DEF k
    <3>3. ASSUME Using(k, r, n + 1), k.requests = g.requests PROVE InUse(k)
      <4>1. k.current = r /\ k.requests[r].pos = n + 1 /\ k.requests[r].phase # "done"
        BY <1>2, <1>5, <1>7, <3>3 DEF Using
      <4>2. LinesOf(k, r) = n + 1
        BY <1>2, <4>1 DEF LinesOf
      <4>3. QED
        BY <3>3, <4>1, <4>2 DEF InUse
    <3>4. QED
      BY <3>2, <3>3 DEF Good
  <2>2. CASE Shut(h) /\ Silent(y)
    <3>1. Shut(g) /\ ~g.requests[r].hears
      BY <1>2, <1>5, <1>6, <1>7, <2>2 DEF Silent
    <3>2. k = g
      BY <3>1 DEF Receive!Hear
    <3>3. QED
      BY <1>7, <3>1, <3>2 DEF Good
  <2>3. QED
    BY <1>1, <1>3, <2>1, <2>2
<1>9. QED
  BY <1>1, <1>4, <1>8, ReceiveBecomes

(* A piece of a response has come: of an unread text, every line that is complete.        *)
LEMMA PieceRead ==
  ASSUME kind = "xhr", NEW h, NEW r \in Nat, Formed(h), Read(h), r \in 1 .. Len(h.requests),
         Using(h, r, LinesOf(h, r)) \/ Shut(h), NEW c \in Nat, NEW stop \in Nat
  PROVE  LET k == Receive!OnChunk(Receive!More(h, r, c), r, stop)
         IN  /\ Formed(k) /\ Read(k) /\ Len(k.requests) = Len(h.requests)
             /\ \/ Using(k, r, LinesOf(k, r)) /\ k.requests[r].phase = h.requests[r].phase
                \/ Shut(k)
<1> DEFINE y == h.requests[r]
           v == y.text + c
           x == [y EXCEPT !.text = v]
           g == Altered(h, r, x)
           n == LinesOf(h, r)
<1>1. y \in Requests /\ Shaped(y) /\ y.text \in Nat /\ y.pos = y.text \div 2 /\ n = y.pos
  <2>1. h.requests \in Seq(Requests)
    BY DEF Formed, Transports
  <2>2. y \in Requests
    BY <2>1, ElementOfSeq
  <2>3. y.text \in Nat
    BY <2>2 DEF Requests
  <2>4. Shaped(y) /\ y.pos = y.text \div 2 /\ n = y.pos
    BY DEF Formed, Read, LinesOf
  <2>5. QED
    BY <2>2, <2>3, <2>4
<1>2. v \in Nat /\ y.pos <= v \div 2
  BY <1>1
<1>3. Receive!More(h, r, c) = g
  BY DEF Receive!More, Altered
<1> HIDE DEF y, v
<1>4. /\ x \in Requests /\ x.phase = y.phase /\ x.hears = y.hears /\ x.nuked = y.nuked
      /\ x.text = v /\ x.pos = y.pos /\ x.hooked = y.hooked
  BY <1>1, <1>2 DEF Requests
<1> HIDE DEF x
<1>5. Shaped(x)
  BY <1>1, <1>4 DEF Shaped
<1> HIDE DEF n
<1>6. /\ Formed(g) /\ g.requests[r] = x /\ Len(g.requests) = Len(h.requests)
      /\ \A q \in 1 .. Len(g.requests) : q # r => g.requests[q] = h.requests[q]
      /\ (Using(h, r, n) /\ x.hears /\ ~x.nuked => Using(g, r, n))
      /\ (Shut(h) /\ Silent(x) => Shut(g))
  <2>1. kind \in Kinds
    BY DEF Kinds
  <2>2. QED
    BY <1>4, <1>5, <2>1, AlteredOne
<1> HIDE DEF g
<1>7. Using(g, r, g.requests[r].pos) \/ Shut(g)
  <2>1. CASE Using(h, r, n)
    <3>1. y.hears /\ ~y.nuked
      BY <2>1 DEF Using, y
    <3>2. QED
      BY <1>1, <1>4, <1>6, <2>1, <3>1
  <2>2. CASE Shut(h)
    <3>1. Silent(x)
      BY <1>4, <2>2 DEF Shut, Silent, y
    <3>2. QED
      BY <1>6, <2>2, <3>1
  <2>3. QED
    BY <2>1, <2>2 DEF n
<1>8. \A q \in 1 .. Len(g.requests) : q # r => g.requests[q].pos = g.requests[q].text \div 2
  BY <1>6 DEF Read
<1>9. g.requests[r].pos <= g.requests[r].text \div 2 /\ g.requests[r].phase = h.requests[r].phase
  BY <1>2, <1>4, <1>6 DEF y
<1>10. r \in 1 .. Len(g.requests)
  BY <1>6
<1>11. LET k == Receive!OnChunk(g, r, stop)
       IN  /\ Formed(k) /\ Read(k) /\ Len(k.requests) = Len(g.requests)
           /\ \/ Using(k, r, LinesOf(k, r)) /\ k.requests[r].phase = g.requests[r].phase
              \/ Shut(k)
  BY <1>6, <1>7, <1>8, <1>9, <1>10, ReadsChunk
<1>12. QED
  BY <1>3, <1>6, <1>9, <1>11

LEMMA ChunkKept ==
  ASSUME NEW h, NEW r, At(h, r), NEW c \in Nat, NEW stop \in Nat, Receive!Chunk(r, c, stop)
  PROVE  ReceiveInv'
<1>1. /\ kind = "xhr" /\ kind \in Kinds /\ h = Receive!Heap /\ h.requests[r] = requests[r] /\ Good(h)
      /\ Formed(h) /\ Read(h) /\ r \in Nat /\ r \in 1 .. Len(h.requests)
      /\ Using(h, r, LinesOf(h, r)) \/ Shut(h)
      /\ h.requests[r].phase = "open"
  BY AtRequest DEF At, Receive!Chunk
<1>2. CASE requests[r].nuked
  BY <1>1, <1>2, ReceiveBecomes DEF Receive!Chunk
<1>3. CASE ~requests[r].nuked
  <2> DEFINE k == Receive!OnChunk(Receive!More(h, r, c), r, stop)
  <2>1. Receive!Become(k)
    BY <1>1, <1>3 DEF Receive!Chunk
  <2>2. /\ Formed(k) /\ Read(k) /\ Len(k.requests) = Len(h.requests)
        /\ (Using(k, r, LinesOf(k, r)) /\ k.requests[r].phase = h.requests[r].phase) \/ Shut(k)
    BY <1>1, PieceRead, ZenonT(60)
  <2> HIDE DEF k
  <2>3. Good(k)
    <3>1. ASSUME Using(k, r, LinesOf(k, r)), k.requests[r].phase = "open" PROVE InUse(k)
      <4>1. k.current = r
        BY <3>1 DEF Using
      <4>2. QED
        BY <3>1, <4>1 DEF InUse
    <3>2. QED
      BY <1>1, <2>2, <3>1 DEF Good
  <2>4. QED
    BY <1>1, <2>1, <2>3, ReceiveBecomes
<1>4. QED
  BY <1>2, <1>3

LEMMA FinishKept ==
  ASSUME NEW h, NEW r, At(h, r), NEW c \in Nat, NEW stop \in Nat, NEW ok \in BOOLEAN,
         Receive!Finish(r, c, ok, stop)
  PROVE  ReceiveInv'
<1> DEFINE y == h.requests[r]
           x == [y EXCEPT !.phase = "done"]
           g == Altered(h, r, x)
           read == IF ok THEN Receive!OnChunk(Receive!More(g, r, c), r, stop) ELSE g
           reason == IF ok THEN "network" ELSE "permanent"
<1>1. /\ kind = "xhr" /\ kind \in Kinds /\ h = Receive!Heap /\ y = requests[r] /\ y \in Requests
      /\ r \in Nat /\ r \in 1 .. Len(h.requests) /\ Shaped(y)
  BY AtRequest DEF At, Receive!Finish
<1>2. Receive!Become(IF requests[r].nuked THEN g ELSE Receive!OnClose(read, r, reason))
  <2>1. g = [Receive!Heap EXCEPT !.requests[r].phase = "done"]
    BY <1>1 DEF Altered
  <2>2. QED
    BY <2>1 DEF Receive!Finish
<1> HIDE DEF y
<1>3. /\ x \in Requests /\ x.phase = "done" /\ x.hears = y.hears /\ x.nuked = y.nuked
      /\ x.text = y.text /\ x.pos = y.pos /\ x.hooked = y.hooked
  BY <1>1 DEF Requests
<1> HIDE DEF x
<1>4. Shaped(x)
  BY <1>1, <1>3 DEF Shaped
<1>5. /\ Formed(g) /\ Read(g) /\ Len(g.requests) = Len(h.requests) /\ g.requests[r] = x
      /\ \/ Using(g, r, LinesOf(g, r)) /\ Using(h, r, LinesOf(h, r))
         \/ Shut(g) /\ ~x.hears /\ Shut(h)
  BY <1>1, <1>3, <1>4, EndsIt DEF y
<1> HIDE DEF g
<1>6. CASE requests[r].nuked
  <2>1. Shut(g)
    BY <1>1, <1>5, <1>6 DEF Using, y
  <2>2. QED
    BY <1>1, <1>2, <1>5, <1>6, <2>1, ReceiveBecomes DEF Good
<1>7. CASE ~requests[r].nuked
  <2>1. /\ Formed(read) /\ Read(read)
        /\ \/ Using(read, r, LinesOf(read, r)) /\ read.requests[r].phase = "done"
           \/ Shut(read) /\ ~read.requests[r].hears
    <3>1. CASE ~ok
      BY <1>3, <1>5, <3>1
    <3>2. CASE ok
      <4>1. /\ Formed(read) /\ Read(read) /\ Len(read.requests) = Len(g.requests)
            /\ \/ Using(read, r, LinesOf(read, r)) /\ read.requests[r].phase = g.requests[r].phase
               \/ Shut(read)
        BY <1>1, <1>5, <3>2, PieceRead, ZenonT(60)
      <4> HIDE DEF read
      <4>2. ASSUME Shut(read) PROVE ~read.requests[r].hears
        <5>1. r \in 1 .. Len(read.requests)
          BY <1>1, <1>5, <4>1
        <5>2. QED
          BY <1>1, <4>2, <5>1 DEF Shut
      <4>3. QED
        BY <1>3, <1>5, <4>1, <4>2
    <3>3. QED
      BY <3>1, <3>2
  <2> HIDE DEF read
  <2>2. Good(Receive!OnClose(read, r, reason))
    BY <1>1, <2>1, ClosesIt
  <2>3. QED
    BY <1>1, <1>2, <1>7, <2>2, ReceiveBecomes
<1>8. QED
  BY <1>6, <1>7

LEMMA FrameEndsKept ==
  ASSUME NEW h, NEW r, At(h, r), Receive!FrameEnds(r)
  PROVE  ReceiveInv'
<1> DEFINE y == h.requests[r]
           x == [y EXCEPT !.phase = "done", !.hooked = FALSE]
           g == Altered(h, r, x)
           reason == IF requests[r].phase = "open" THEN "network" ELSE "permanent"
<1>1. /\ kind = "htmlfile" /\ kind \in Kinds /\ h = Receive!Heap /\ y = requests[r] /\ y \in Requests
      /\ r \in Nat /\ r \in 1 .. Len(h.requests) /\ h \in Transports
  BY AtRequest DEF At, Receive!FrameEnds
<1>2. Receive!Become(Receive!OnClose(g, r, reason))
  <2>1. g = [Receive!Heap EXCEPT !.requests[r].phase = "done", !.requests[r].hooked = FALSE]
    BY <1>1, LenProperties DEF Altered, Transports
  <2>2. QED
    BY <2>1 DEF Receive!FrameEnds
<1> HIDE DEF y
<1>3. /\ x \in Requests /\ x.phase = "done" /\ x.hears = y.hears /\ x.nuked = y.nuked
      /\ x.text = y.text /\ x.pos = y.pos /\ x.hooked = FALSE
  BY <1>1 DEF Requests
<1> HIDE DEF x
<1>4. Shaped(x)
  BY <1>3 DEF Shaped
<1>5. /\ Formed(g) /\ Read(g) /\ g.requests[r] = x
      /\ Using(g, r, LinesOf(g, r)) \/ (Shut(g) /\ ~x.hears)
  BY <1>1, <1>3, <1>4, EndsIt DEF y
<1> HIDE DEF g, reason
<1>6. Good(Receive!OnClose(g, r, reason))
  BY <1>1, <1>3, <1>5, ClosesIt
<1>7. QED
  BY <1>1, <1>2, <1>6, ReceiveBecomes

(* 200 ms after an error or an abort: the page may have closed the socket in between.     *)
LEMMA EventSourceClosesKept ==
  ASSUME NEW h, NEW r, At(h, r), Receive!EventSourceCloses(r)
  PROVE  ReceiveInv'
<1> DEFINE y == h.requests[r]
           x == [y EXCEPT !.phase = "done"]
           g == Altered(h, r, x)
           n == LinesOf(h, r)
           reason == requests[r].reason
<1>1. /\ kind \in Kinds /\ h = Receive!Heap /\ y = requests[r] /\ y \in Requests /\ Shaped(y)
      /\ r \in Nat /\ r \in 1 .. Len(h.requests) /\ Formed(h) /\ Read(h)
      /\ (Using(h, r, n) /\ y.hears /\ ~y.nuked) \/ Shut(h)
  BY AtRequest DEF At
<1>2. kind = "eventsource"
  BY <1>1 DEF Receive!EventSourceCloses, Shaped
<1>3. Receive!Become(Receive!OnClose(g, r, reason))
  BY <1>1 DEF Receive!EventSourceCloses, Altered
<1> HIDE DEF y
<1>4. /\ x \in Requests /\ x.phase = "done" /\ x.hears = y.hears /\ x.nuked = y.nuked
      /\ x.text = y.text /\ x.pos = y.pos /\ x.hooked = y.hooked
  BY <1>1 DEF Requests
<1> HIDE DEF x
<1>5. Shaped(x)
  BY <1>1, <1>2, <1>4 DEF Shaped
<1>6. n = LinesOf(g, r)
  BY <1>1, <1>4, <1>5, AlteredOne DEF LinesOf, y
<1> HIDE DEF n
<1>7. /\ Formed(g) /\ Read(g) /\ g.requests[r] = x /\ Len(g.requests) = Len(h.requests)
      /\ g.closing = h.closing /\ g.heard = h.heard /\ g.limit = h.limit /\ g.failures = h.failures
      /\ \A q \in 1 .. Len(g.requests) : q # r => g.requests[q] = h.requests[q]
      /\ (Using(h, r, n) /\ x.hears /\ ~x.nuked => Using(g, r, n))
  BY <1>1, <1>2, <1>4, <1>5, AlteredOne
<1> HIDE DEF g, reason
<1>8. CASE Using(h, r, n) /\ y.hears /\ ~y.nuked
  <2>1. Using(g, r, LinesOf(g, r)) /\ g.requests[r].phase = "done"
    BY <1>4, <1>6, <1>7, <1>8
  <2>2. Good(Receive!OnClose(g, r, reason))
    BY <1>1, <1>7, <2>1, ClosesIt
  <2>3. QED
    BY <1>1, <1>3, <2>2, ReceiveBecomes
<1>9. CASE Shut(h)
  <2> DEFINE f == Receive!Forgets(g, r)
             k == Receive!OnClose(g, r, reason)
  <2>1. g \in Transports /\ g.closing /\ r \in 1 .. Len(g.requests)
    BY <1>1, <1>7, <1>9 DEF Formed, Shut
  <2>2. k = IF g.requests[r].hears THEN f ELSE g
    BY <2>1 DEF Receive!OnClose
  <2>3. /\ f \in Transports /\ f.closing = g.closing /\ f.heard = g.heard /\ f.limit = g.limit
        /\ f.failures = g.failures /\ Len(f.requests) = Len(g.requests)
        /\ \A q \in 1 .. Len(f.requests) : q # r => f.requests[q] = g.requests[q]
        /\ f.requests[r].hears = FALSE /\ f.requests[r].phase = g.requests[r].phase
        /\ f.requests[r].nuked = g.requests[r].nuked /\ f.requests[r].hooked = g.requests[r].hooked
    BY <2>1, Forgotten
  <2> HIDE DEF f
  <2>4. k \in {f, g} /\ ~k.requests[r].hears
    <3>1. g.requests[r].hears \in BOOLEAN
      BY <1>4, <1>7 DEF Requests
    <3>2. QED
      BY <2>2, <2>3, <3>1
  <2> HIDE DEF k
  <2>5. /\ k \in Transports /\ k.closing = h.closing /\ k.heard = h.heard /\ k.limit = h.limit
        /\ k.failures = h.failures /\ Len(k.requests) = Len(h.requests)
        /\ \A q \in 1 .. Len(k.requests) : q # r => k.requests[q] = h.requests[q]
        /\ k.requests[r].phase = "done" /\ k.requests[r].hooked = x.hooked
    BY <1>4, <1>7, <2>1, <2>3, <2>4
  <2>6. Formed(k)
    <3>1. Shaped(k.requests[r])
      BY <1>2, <1>5, <2>5 DEF Shaped
    <3>2. QED
      BY <1>1, <2>5, <3>1 DEF Formed
  <2>7. Read(k)
    BY <1>2 DEF Read
  <2>8. Shut(k)
    BY <1>2, <1>9, <2>4, <2>5 DEF Shut
  <2>9. Good(Receive!OnClose(g, r, reason))
    BY <2>6, <2>7, <2>8 DEF Good, k
  <2>10. QED
    BY <1>1, <1>3, <2>9, ReceiveBecomes
<1>10. QED
  BY <1>1, <1>8, <1>9 DEF n

(* The script has ended, and is forgotten with its hook.                          *)
LEMMA ScriptForgotten ==
  ASSUME NEW h, NEW r, At(h, r), kind = "jsonp", h.requests[r].phase = "open", ~h.requests[r].nuked,
         NEW k, k \in Transports, k.closing = h.closing, k.heard = h.heard, k.limit = h.limit,
         k.failures = h.failures, Len(k.requests) = Len(h.requests), k.requests[r] \in Requests,
         \A q \in 1 .. Len(k.requests) : q # r => k.requests[q] = h.requests[q],
         k.requests[r].phase = "done", ~k.requests[r].hears, ~k.requests[r].hooked
  PROVE  /\ Formed(k) /\ ~k.closing /\ k.failures = 0 /\ Len(k.requests) = r /\ UpTo(k.heard, r, 0)
         /\ \A q \in 1 .. r : ~k.requests[q].hears /\ k.requests[q].phase = "done"
<1>1. /\ Formed(h) /\ r \in Nat /\ r \in 1 .. Len(h.requests) /\ Using(h, r, 0)
  <2>1. /\ Formed(h) /\ r \in Nat /\ r \in 1 .. Len(h.requests)
        /\ Using(h, r, LinesOf(h, r)) \/ Silent(h.requests[r])
    BY AtRequest
  <2>2. ~Silent(h.requests[r]) /\ LinesOf(h, r) = 0
    BY DEF Silent, LinesOf
  <2>3. QED
    BY <2>1, <2>2
<1>2. Formed(k)
  <2>1. Shaped(k.requests[r])
    BY DEF Shaped
  <2>2. QED
    BY <1>1, <2>1 DEF Formed
<1>3. ~k.closing /\ k.failures = 0 /\ Len(k.requests) = r /\ UpTo(k.heard, r, 0)
  BY <1>1 DEF Using
<1>4. \A q \in 1 .. r - 1 : ~h.requests[q].hears /\ h.requests[q].phase = "done"
  BY <1>1 DEF Using
<1>5. \A q \in 1 .. r : q = r \/ (q \in 1 .. r - 1 /\ q \in 1 .. Len(k.requests))
  BY <1>1, <1>3
<1>6. \A q \in 1 .. r : ~k.requests[q].hears /\ k.requests[q].phase = "done"
  BY <1>4, <1>5
<1>7. QED
  BY <1>2, <1>3, <1>6

(* No request hears any more: the transport is shut, or asks again.                 *)
LEMMA AllForgotten ==
  ASSUME kind = "jsonp", NEW k, NEW r \in Nat, Formed(k), Len(k.requests) = r, k.failures \in 0 .. 1,
         \A q \in 1 .. r : ~k.requests[q].hears /\ k.requests[q].phase = "done"
  PROVE  /\ k.closing /\ k.limit = Len(k.heard) => Good(k)
         /\ ~k.closing /\ k.failures = 0 /\ UpTo(k.heard, r + 1, 0) => Good(Receive!ScheduleRecv(k))
<1>1. Read(k) /\ k \in Transports
  BY DEF Read, Formed
<1>2. ASSUME k.closing, k.limit = Len(k.heard) PROVE Good(k)
  <2>1. Shut(k)
    BY <1>2 DEF Shut
  <2>2. QED
    BY <1>1, <2>1 DEF Good
<1>3. ASSUME ~k.closing, k.failures = 0, UpTo(k.heard, r + 1, 0) PROVE Good(Receive!ScheduleRecv(k))
  <2> DEFINE s == Receive!ScheduleRecv(k)
  <2>1. kind \in Kinds
    BY DEF Kinds
  <2>2. /\ s \in Transports /\ s.closing = k.closing /\ s.current = r + 1 /\ s.heard = k.heard
        /\ s.failures = 0 /\ Len(s.requests) = r + 1 /\ s.requests[r + 1] = Receive!New
        /\ \A q \in 1 .. r : s.requests[q] = k.requests[q]
        /\ Shaped(Receive!New) /\ Receive!New.phase # "done" /\ Receive!New.hears /\ ~Receive!New.nuked
    BY <1>1, <1>3, <2>1, Scheduled
  <2> HIDE DEF s
  <2>3. Formed(s)
    <3>1. \A q \in 1 .. r + 1 : q = r + 1 \/ q \in 1 .. r
      OBVIOUS
    <3>2. QED
      BY <2>2, <3>1 DEF Formed
  <2>4. \A q \in 1 .. r : ~s.requests[q].hears /\ s.requests[q].phase = "done" /\ WasHeard(s, q)
    BY <2>2 DEF WasHeard
  <2>5. Using(s, r + 1, 0) /\ LinesOf(s, r + 1) = 0
    BY <1>3, <2>2, <2>4 DEF Using, LinesOf
  <2>6. Read(s) /\ InUse(s)
    BY <2>2, <2>5 DEF Read, InUse
  <2>7. QED
    BY <2>3, <2>6 DEF Good, s
<1>4. QED
  BY <1>2, <1>3

LEMMA ScriptFailsKept ==
  ASSUME NEW h, NEW r, At(h, r), Receive!ScriptFails(r)
  PROVE  ReceiveInv'
<1> DEFINE f == Receive!Forgets(h, r)
           z == f.requests[r]
           x == [z EXCEPT !.phase = "done", !.hooked = FALSE]
           t == [f.requests EXCEPT ![r] = x]
           d == [f EXCEPT !.requests = t]
           s == Receive!Stops(d)
           k == [s EXCEPT !.failures = @ + 1]
<1>1. /\ kind = "jsonp" /\ h = Receive!Heap /\ h \in Transports /\ r \in Nat
      /\ r \in 1 .. Len(h.requests) /\ h.requests[r].phase = "open" /\ ~h.requests[r].nuked
      /\ kind \in Kinds
  BY AtRequest DEF At, Receive!ScriptFails
<1>2. /\ f \in Transports /\ f.closing = h.closing /\ f.heard = h.heard /\ f.limit = h.limit
      /\ f.failures = h.failures /\ Len(f.requests) = Len(h.requests) /\ z \in Requests
      /\ \A q \in 1 .. Len(f.requests) : q # r => f.requests[q] = h.requests[q]
      /\ z.hears = FALSE
  BY <1>1, Forgotten
<1>3. Receive!Become(k)
  <2>1. d = [f EXCEPT !.requests[r].phase = "done", !.requests[r].hooked = FALSE]
    <3>1. f.requests \in Seq(Requests) /\ r \in 1 .. Len(f.requests)
      BY <1>1, <1>2 DEF Transports
    <3> HIDE DEF f
    <3>2. QED
      BY <3>1, LenProperties
  <2>2. k = Receive!Fails(d)
    BY DEF Receive!Fails
  <2>3. Receive!Become(Receive!Fails([Receive!Forgets(h, r) EXCEPT !.requests[r].phase = "done",
                                                                   !.requests[r].hooked = FALSE]))
    BY <1>1 DEF Receive!ScriptFails
  <2>4. QED
    BY <2>1, <2>2, <2>3
<1> HIDE DEF f, z
<1>4. x \in Requests /\ x.phase = "done" /\ ~x.hears /\ ~x.hooked
  BY <1>2 DEF Requests
<1> HIDE DEF x
<1>5. /\ t \in Seq(Requests) /\ Len(t) = Len(h.requests) /\ t[r] = x
      /\ \A q \in 1 .. Len(t) : q # r => t[q] = h.requests[q]
  <2>1. r \in 1 .. Len(f.requests)
    BY <1>1, <1>2
  <2>2. QED
    BY <1>2, <1>4, <2>1, RequestIs
<1> HIDE DEF t
<1>6. /\ d \in Transports /\ d.requests = t /\ d.closing = h.closing /\ d.heard = h.heard
      /\ d.limit = h.limit /\ d.failures = h.failures
  BY <1>2, <1>5 DEF Transports
<1> HIDE DEF d
<1>7. /\ Formed(d) /\ d.failures = 0 /\ Len(d.requests) = r
      /\ \A q \in 1 .. r : ~d.requests[q].hears /\ d.requests[q].phase = "done"
  BY <1>1, <1>4, <1>5, <1>6, ScriptForgotten
<1>8. /\ s \in Transports /\ s.closing = TRUE /\ s.limit = Len(d.heard)
      /\ s.requests = d.requests /\ s.heard = d.heard /\ s.failures = d.failures
  BY <1>6, Stopped
<1> HIDE DEF s
<1>9. /\ k \in Transports /\ k.closing = TRUE /\ k.limit = Len(k.heard) /\ k.requests = d.requests
      /\ k.heard = d.heard /\ k.failures = 1
  BY <1>7, <1>8 DEF Transports
<1> HIDE DEF k
<1>10. Formed(k)
  BY <1>7, <1>9 DEF Formed
<1>11. Good(k)
  BY <1>1, <1>7, <1>9, <1>10, AllForgotten
<1>12. QED
  BY <1>1, <1>3, <1>11, ReceiveBecomes

(* The next request comes after whatever was heard.                               *)
LEMMA NextIsLater ==
  ASSUME NEW s \in Seq(Lines), NEW r \in Nat, UpTo(s, r, 0) \/ UpTo(s, r, 1)
  PROVE  UpTo(s, r + 1, 0)
<1>1. Len(s) \in Nat
  BY LenProperties
<1>2. SUFFICES ASSUME Len(s) # 0 PROVE s[Len(s)][1] < r + 1
  BY DEF UpTo
<1>3. s[Len(s)] \in Lines
  BY <1>1, <1>2, ElementOfSeq
<1>4. s[Len(s)][1] \in Nat
  BY <1>3 DEF Lines
<1>5. s[Len(s)][1] < r \/ s[Len(s)][1] = r
  BY <1>2 DEF UpTo
<1>6. QED
  BY <1>4, <1>5

LEMMA ScriptRunsKept ==
  ASSUME NEW h, NEW r, At(h, r), NEW frame \in BOOLEAN, NEW closes \in BOOLEAN,
         Receive!ScriptRuns(r, frame, closes)
  PROVE  ReceiveInv'
<1> DEFINE y == h.requests[r]
           x == [y EXCEPT !.phase = "done"]
           g == Altered(h, r, x)
           f == Receive!Forgets(g, r)
           z == f.requests[r]
           v == [z EXCEPT !.hooked = FALSE]
           t == [f.requests EXCEPT ![r] = v]
           d == [f EXCEPT !.requests = t]
           w == Append(d.heard, <<r, 1>>)
           k == IF frame THEN [d EXCEPT !.heard = w] ELSE d
           left == IF frame /\ closes THEN Receive!Stops(k) ELSE k
<1>1. /\ kind = "jsonp" /\ h = Receive!Heap /\ h \in Transports /\ r \in Nat /\ y = requests[r]
      /\ r \in 1 .. Len(h.requests) /\ y.phase = "open" /\ kind \in Kinds /\ y \in Requests /\ Shaped(y)
  BY AtRequest DEF At, Receive!ScriptRuns
<1>2. Receive!Become(IF requests[r].nuked THEN g
                     ELSE IF left.closing THEN left ELSE Receive!ScheduleRecv(left))
  <2>1. g = [Receive!Heap EXCEPT !.requests[r].phase = "done"]
    BY <1>1 DEF Altered
  <2>2. d = [f EXCEPT !.requests[r].hooked = FALSE]
    OBVIOUS
  <2> HIDE DEF g
  <2>3. QED
    BY <2>1, <2>2 DEF Receive!ScriptRuns
<1> HIDE DEF y
<1>3. /\ x \in Requests /\ x.phase = "done" /\ x.hears = y.hears /\ x.nuked = y.nuked
      /\ x.text = y.text /\ x.pos = y.pos /\ x.hooked = y.hooked
  BY <1>1 DEF Requests
<1> HIDE DEF x
<1>4. CASE requests[r].nuked
  <2>1. Shaped(x)
    BY <1>1, <1>3, <1>4 DEF Shaped
  <2>2. Formed(g) /\ Read(g) /\ (Using(h, r, LinesOf(h, r)) \/ Shut(g))
    BY <1>1, <1>3, <2>1, EndsIt DEF y
  <2>3. Good(g)
    BY <1>1, <1>4, <2>2 DEF Good, Using, y
  <2> HIDE DEF g
  <2>4. QED
    BY <1>1, <1>2, <1>4, <2>3, ReceiveBecomes
<1>5. CASE ~requests[r].nuked
  <2>1. /\ g \in Transports /\ g.closing = h.closing /\ g.heard = h.heard /\ g.limit = h.limit
        /\ g.failures = h.failures /\ Len(g.requests) = Len(h.requests) /\ g.requests[r] = x
        /\ \A q \in 1 .. Len(g.requests) : q # r => g.requests[q] = h.requests[q]
    <3> DEFINE u == [h.requests EXCEPT ![r] = x]
    <3>1. /\ u \in Seq(Requests) /\ Len(u) = Len(h.requests) /\ u[r] = x
          /\ \A q \in 1 .. Len(u) : q # r => u[q] = h.requests[q]
      BY <1>1, <1>3, RequestIs
    <3>2. g = [h EXCEPT !.requests = u]
      BY DEF Altered
    <3> HIDE DEF u
    <3>3. QED
      BY <1>1, <3>1, <3>2, ZenonT(60) DEF Transports
  <2> HIDE DEF g
  <2>2. r \in 1 .. Len(g.requests)
    BY <1>1, <2>1
  <2>3. /\ f \in Transports /\ f.closing = g.closing /\ f.heard = g.heard /\ f.limit = g.limit
        /\ f.failures = g.failures /\ Len(f.requests) = Len(g.requests) /\ z \in Requests
        /\ \A q \in 1 .. Len(f.requests) : q # r => f.requests[q] = g.requests[q]
        /\ z.hears = FALSE /\ z.phase = g.requests[r].phase
    BY <2>1, <2>2, Forgotten
  <2> HIDE DEF f, z
  <2>4. v \in Requests /\ v.phase = "done" /\ ~v.hears /\ ~v.hooked
    BY <1>3, <2>1, <2>3 DEF Requests
  <2> HIDE DEF v
  <2>5. /\ t \in Seq(Requests) /\ Len(t) = Len(h.requests) /\ t[r] = v
        /\ \A q \in 1 .. Len(t) : q # r => t[q] = h.requests[q]
    <3>1. r \in 1 .. Len(f.requests)
      BY <2>2, <2>3
    <3>2. /\ t \in Seq(Requests) /\ Len(t) = Len(f.requests) /\ t[r] = v
          /\ \A q \in 1 .. Len(t) : q # r => t[q] = f.requests[q]
      BY <2>3, <2>4, <3>1, RequestIs
    <3> HIDE DEF t
    <3>3. QED
      BY <2>1, <2>3, <3>2
  <2> HIDE DEF t
  <2>6. /\ d \in Transports /\ d.requests = t /\ d.closing = h.closing /\ d.heard = h.heard
        /\ d.limit = h.limit /\ d.failures = h.failures
    BY <2>1, <2>3, <2>5 DEF Transports
  <2> HIDE DEF d
  <2>7. /\ Formed(d) /\ ~d.closing /\ d.failures = 0 /\ Len(d.requests) = r /\ UpTo(d.heard, r, 0)
        /\ \A q \in 1 .. r : ~d.requests[q].hears /\ d.requests[q].phase = "done"
    <3>1. y = h.requests[r]
      BY DEF y
    <3>2. QED
      BY <1>1, <1>5, <2>4, <2>5, <2>6, <3>1, ScriptForgotten
  <2>8. d.heard \in Seq(Lines) /\ InSequence(d.heard)
    BY <2>7 DEF Formed, Transports
  <2>9. w \in Seq(Lines) /\ InSequence(w) /\ UpTo(w, r, 1)
    <3>1. LET e == Append(d.heard, <<r, 0 + 1>>) IN e \in Seq(Lines) /\ InSequence(e) /\ UpTo(e, r, 0 + 1)
      BY <1>1, <2>7, <2>8, HeardOne
    <3>2. QED
      BY <3>1
  <2> HIDE DEF w
  <2>10. /\ k \in Transports /\ k.requests = d.requests /\ k.closing = d.closing /\ k.limit = d.limit
         /\ k.failures = 0 /\ k.heard \in Seq(Lines) /\ InSequence(k.heard)
         /\ UpTo(k.heard, r, 0) \/ UpTo(k.heard, r, 1)
    <3>1. CASE frame
      BY <2>6, <2>7, <2>9, <3>1 DEF Transports
    <3>2. CASE ~frame
      BY <2>6, <2>7, <2>8, <3>2
    <3>3. QED
      BY <3>1, <3>2
  <2> HIDE DEF k
  <2>11. Formed(k) /\ UpTo(k.heard, r + 1, 0)
    BY <1>1, <2>7, <2>10, NextIsLater DEF Formed
  <2>12. CASE frame /\ closes
    <3>1. /\ left \in Transports /\ left.closing = TRUE /\ left.limit = Len(k.heard)
          /\ left.requests = k.requests /\ left.heard = k.heard /\ left.failures = k.failures
      BY <2>10, <2>12, Stopped
    <3> HIDE DEF left
    <3>2. Formed(left)
      BY <2>11, <3>1 DEF Formed
    <3>3. Good(left)
      BY <1>1, <2>7, <2>10, <3>1, <3>2, AllForgotten
    <3>4. QED
      BY <1>1, <1>2, <1>5, <3>1, <3>3, ReceiveBecomes
  <2>13. CASE ~(frame /\ closes)
    <3>1. left = k
      BY <2>13
    <3> HIDE DEF left
    <3>2. Good(Receive!ScheduleRecv(k))
      BY <1>1, <2>7, <2>10, <2>11, AllForgotten
    <3>3. QED
      BY <1>1, <1>2, <1>5, <2>7, <2>10, <3>1, <3>2, ReceiveBecomes
  <2>14. QED
    BY <2>12, <2>13
<1>6. QED
  BY <1>4, <1>5

LEMMA CleanupKept ==
  ASSUME ReceiveInv, Receive!Cleanup
  PROVE  ReceiveInv'
<1> DEFINE h == Receive!Heap
           r == h.current
           n == LinesOf(h, r)
           k == Receive!Abort(h)
<1>1. kind \in Kinds /\ Good(h) /\ ~h.closing /\ Receive!Become(k)
  BY DEF ReceiveInv, Receive!Cleanup, Receive!Heap
<1> HIDE DEF h
<1>2. Formed(h) /\ Read(h) /\ Using(h, r, n) /\ h.requests[r].phase # "done"
  BY <1>1 DEF Good, Shut, InUse
<1>3. r \in Nat /\ n \in Nat
  <2>1. h.requests \in Seq(Requests) /\ Len(h.requests) \in Nat /\ r = Len(h.requests) /\ r > 0
    BY <1>2, LenProperties DEF Formed, Transports, Using
  <2>2. h.requests[r] \in Requests
    BY <2>1, ElementOfSeq
  <2>3. QED
    BY <2>1, <2>2 DEF LinesOf, Requests
<1>4. Formed(k) /\ Read(k) /\ Shut(k)
  <2> HIDE DEF n, r
  <2>1. QED
    BY <1>1, <1>2, <1>3, Aborted
<1>5. Good(k)
  BY <1>4 DEF Good
<1>6. QED
  BY <1>1, <1>5, ReceiveBecomes

LEMMA ReceiveStarts ==
  ASSUME Receive!Init
  PROVE  ReceiveInv
<1> DEFINE x == Receive!New
           h == Receive!Heap
           p == CASE kind = "xhr" -> "delayed" [] kind = "htmlfile" -> "loading" [] OTHER -> "open"
           b == kind \in {"htmlfile", "jsonp"}
<1>1. kind \in Kinds
  BY DEF Receive!Init, Kinds
<1>2. /\ x \in Requests /\ Shaped(x) /\ x.phase # "done" /\ x.hears /\ ~x.nuked /\ x.pos = 0 /\ x.text = 0
  <2> DEFINE g == [closing |-> FALSE, current |-> 0, requests |-> <<>>, heard |-> <<>>,
                   failures |-> 0, limit |-> 0]
  <2>1. g \in Transports
    <3>1. <<>> \in Seq(Requests) /\ <<>> \in Seq(Lines)
      BY EmptySeq
    <3>2. QED
      BY <3>1 DEF Transports
  <2> HIDE DEF g
  <2>2. QED
    BY <1>1, <2>1, Scheduled
<1>3. /\ h.closing = FALSE /\ h.current = 1 /\ h.requests = <<x>> /\ h.heard = <<>> /\ h.failures = 0
      /\ h.limit = 0 /\ h = [closing |-> FALSE, current |-> 1, requests |-> <<x>>, heard |-> <<>>,
                             failures |-> 0, limit |-> 0]
  BY DEF Receive!Init, Receive!Heap
<1> HIDE DEF x
<1>4. <<x>> \in Seq(Requests) /\ Len(<<x>>) = 1 /\ <<x>>[1] = x
  BY <1>2
<1>5. <<>> \in Seq(Lines) /\ Len(<<>>) = 0
  BY EmptySeq
<1>6. h \in Transports
  BY <1>3, <1>4, <1>5 DEF Transports
<1> HIDE DEF h
<1>7. Len(h.requests) = 1 /\ h.requests[1] = x /\ Len(h.heard) = 0
  BY <1>3, <1>4, <1>5
<1>8. Formed(h)
  BY <1>2, <1>6, <1>7 DEF Formed, InSequence
<1>9. Read(h)
  <2>1. 0 = 0 \div 2
    OBVIOUS
  <2>2. QED
    BY <1>2, <1>7, <2>1 DEF Read
<1>10. Using(h, 1, 0)
  BY <1>2, <1>3, <1>7 DEF Using, UpTo
<1>11. InUse(h)
  BY <1>2, <1>3, <1>7, <1>10 DEF InUse, LinesOf
<1>12. QED
  BY <1>1, <1>8, <1>9, <1>11 DEF ReceiveInv, Good, h

LEMMA ReceiveKept ==
  ASSUME ReceiveInv, MaxText \in Nat, [Receive!Next]_(Receive!vars)
  PROVE  ReceiveInv'
<1>1. CASE UNCHANGED Receive!vars
  BY <1>1 DEF Receive!vars, ReceiveInv, Receive!Heap, Good, Formed, Read, InUse, Shut, Using, WasHeard,
              LinesOf, Shaped, Kinds
<1>2. CASE Receive!Cleanup
  BY <1>2, CleanupKept
<1>3. CASE Receive!Next /\ ~Receive!Cleanup
  <2> DEFINE h == Receive!Heap
  <2>1. PICK r \in DOMAIN requests :
          \/ Receive!Starts(r) \/ Receive!FrameStarts(r) \/ Receive!FrameEnds(r)
          \/ Receive!EventSourceCloses(r) \/ Receive!ScriptFails(r)
          \/ \E k \in 0 .. MaxText, stop \in 0 .. MaxText \div 2 :
               \/ Receive!Chunk(r, k, stop)
               \/ \E ok \in BOOLEAN : Receive!Finish(r, k, ok, stop)
          \/ \E closes \in BOOLEAN :
               \/ Receive!Message(r, closes)
               \/ \E frame \in BOOLEAN : Receive!ScriptRuns(r, frame, closes)
          \/ \E reason \in {"network", "permanent"} : Receive!EventSourceErrs(r, reason)
    BY <1>3 DEF Receive!Next
  <2>2. requests[r].phase # "done"
    BY <2>1 DEF Receive!Starts, Receive!FrameStarts, Receive!FrameEnds, Receive!EventSourceCloses,
                Receive!ScriptFails, Receive!Chunk, Receive!Finish, Receive!Message, Receive!ScriptRuns,
                Receive!EventSourceErrs
  <2>3. h.requests = requests /\ Good(h) /\ kind \in Kinds
    BY DEF ReceiveInv, Receive!Heap
  <2>4. r \in 1 .. Len(h.requests)
    <3>1. requests \in Seq(Requests)
      BY <2>3 DEF Good, Formed, Transports
    <3>2. QED
      BY <2>3, <3>1, LenProperties
  <2>5. At(h, r)
    BY <2>2, <2>3, <2>4 DEF At
  <2> HIDE DEF h
  <2>6. CASE \/ Receive!Starts(r) \/ Receive!FrameStarts(r) \/ Receive!FrameEnds(r)
             \/ Receive!EventSourceCloses(r) \/ Receive!ScriptFails(r)
             \/ \E reason \in {"network", "permanent"} : Receive!EventSourceErrs(r, reason)
    BY <2>5, <2>6, StartsKept, FrameEndsKept, EventSourceClosesKept, ScriptFailsKept, ErrsKept
  <2>7. ASSUME NEW k \in 0 .. MaxText, NEW stop \in 0 .. MaxText \div 2, NEW ok \in BOOLEAN,
               Receive!Chunk(r, k, stop) \/ Receive!Finish(r, k, ok, stop)
        PROVE  ReceiveInv'
    BY <2>5, <2>7, ChunkKept, FinishKept
  <2>8. ASSUME NEW closes \in BOOLEAN, NEW frame \in BOOLEAN,
               Receive!Message(r, closes) \/ Receive!ScriptRuns(r, frame, closes)
        PROVE  ReceiveInv'
    BY <2>5, <2>8, MessageKept, ScriptRunsKept
  <2>9. QED
    BY <2>1, <2>6, <2>7, <2>8
<1>4. QED
  BY <1>1, <1>2, <1>3

(* HeardInOrder: what comes is heard in the order of the requests and of their lines, no line   *)
(* twice and none left out; once the transport is cleaned up nothing is heard and nothing asked; *)
(* one request is heard at a time, and while the transport is in use there is one; it fails once *)
(* at most, and no hook stays but a nuked script's; for responses of any length, in any pieces,  *)
(* and any number of requests.                                                      *)
THEOREM LinesAreHeardInOrder ==
  ASSUME MaxText \in Nat
  PROVE  Receive!Spec => []Receive!HeardInOrder
<1>1. Receive!Init => ReceiveInv
  BY ReceiveStarts
<1>2. ReceiveInv /\ [Receive!Next]_(Receive!vars) => ReceiveInv'
  BY ReceiveKept
<1>3. ReceiveInv => Receive!HeardInOrder
  <2> SUFFICES ASSUME ReceiveInv PROVE Receive!HeardInOrder
    OBVIOUS
  <2> DEFINE h == Receive!Heap
  <2>1. /\ h.closing = closing /\ h.current = current /\ h.requests = requests /\ h.heard = heard
        /\ h.failures = failures /\ h.limit = limit
    BY DEF Receive!Heap
  <2>2. Good(h) /\ kind \in Kinds
    BY DEF ReceiveInv
  <2> HIDE DEF h
  <2>3. /\ Formed(h) /\ h.requests \in Seq(Requests) /\ h.heard \in Seq(Lines) /\ Len(h.requests) \in Nat
        /\ DOMAIN h.requests = 1 .. Len(h.requests) /\ Len(h.heard) \in Nat /\ h.closing \in BOOLEAN
    BY <2>2, LenProperties DEF Good, Formed, Transports
  <2>4. \A q \in 1 .. Len(h.requests) : h.requests[q] \in Requests
    BY <2>3, ElementOfSeq
  <2>5. \A r \in 1 .. Len(h.requests) : h.requests[r].phase = "done" /\ h.requests[r].hooked
          => kind = "jsonp" /\ h.requests[r].nuked
    BY <2>3 DEF Formed, Shaped
  <2>6. h.failures <= 1 /\ (h.closing => Shut(h)) /\ (~h.closing => InUse(h))
    <3>1. CASE InUse(h)
      BY <3>1 DEF InUse, Using
    <3>2. CASE Shut(h)
      BY <3>2 DEF Shut
    <3>3. QED
      BY <2>2, <3>1, <3>2 DEF Good
  <2>7. h.closing => Len(h.heard) = h.limit /\ \A r \in 1 .. Len(h.requests) :
          h.requests[r].hears => kind = "eventsource" /\ h.requests[r].phase = "ending"
    BY <2>6 DEF Shut
  <2>8. ASSUME ~h.closing
        PROVE  /\ {r \in 1 .. Len(h.requests) : h.requests[r].hears} = {h.current}
               /\ h.requests[h.current].phase # "done"
               /\ \A r \in 1 .. Len(h.requests) : kind # "jsonp" /\ h.requests[r].pos > 0
                    => Has(h.heard, <<r, h.requests[r].pos>>)
    <3> DEFINE c == h.current
    <3>1. Using(h, c, LinesOf(h, c)) /\ h.requests[c].phase # "done"
      BY <2>6, <2>8 DEF InUse
    <3>2. c = Len(h.requests) /\ c > 0 /\ h.requests[c].hears /\ UpTo(h.heard, c, LinesOf(h, c))
          /\ \A q \in 1 .. c - 1 : ~h.requests[q].hears /\ WasHeard(h, q)
      BY <3>1 DEF Using
    <3> HIDE DEF c
    <3>3. \A r \in 1 .. Len(h.requests) : r = c \/ r \in 1 .. c - 1
      BY <2>3, <3>2
    <3>4. \A r \in 1 .. Len(h.requests) : h.requests[r].hears <=> r = c
      BY <2>3, <3>2, <3>3
    <3>5. {r \in 1 .. Len(h.requests) : h.requests[r].hears} = {c}
      BY <2>3, <3>2, <3>4
    <3>6. ASSUME NEW r \in 1 .. Len(h.requests), kind # "jsonp", h.requests[r].pos > 0
          PROVE  Has(h.heard, <<r, h.requests[r].pos>>)
      <4>1. CASE r = c
        <5>1. UpTo(h.heard, r, h.requests[r].pos)
          BY <3>2, <3>6, <4>1 DEF LinesOf
        <5>2. Len(h.heard) > 0 /\ h.heard[Len(h.heard)] = <<r, h.requests[r].pos>>
          BY <3>6, <5>1 DEF UpTo
        <5>3. QED
          BY <2>3, <5>2 DEF Has
      <4>2. CASE r \in 1 .. c - 1
        BY <3>2, <3>6, <4>2 DEF WasHeard
      <4>3. QED
        BY <3>3, <4>1, <4>2
    <3>7. QED
      BY <3>1, <3>5, <3>6 DEF c
  <2>9. \A x : Has(h.heard, x) => Receive!Contains(h.heard, x)
    BY <2>3 DEF Has, Receive!Contains
  <2>10. InSequence(h.heard)
    BY <2>3 DEF Formed
  <2>11. QED
    BY <2>1, <2>3, <2>5, <2>6, <2>7, <2>8, <2>9, <2>10 DEF Receive!HeardInOrder, InSequence
<1>4. QED
  BY <1>1, <1>2, <1>3, PTL DEF Receive!Spec

-----------------------------------------------------------------------------
(* OrderedScripts.  Any number of files and of calls of load.                 *)
Scripts == INSTANCE OrderedScripts
CallsAssumed == MaxCalls \in Nat

Defs == [order : BOOLEAN, exports : BOOLEAN]
Pages == [cache : [Files -> {"none", "promise", "done", "failed"}],
          callers : [Files -> SUBSET (1 .. MaxCalls)], told : [1 .. MaxCalls -> Nat],
          def : [Files -> Defs], loading : SUBSET Files, polled : SUBSET Files,
          queue : Seq(Files), wait : BOOLEAN, early : Seq(Files), broken : BOOLEAN]

(* A caller has been told, or waits for one file and is not told yet.            *)
ToldOrWaits(h, n) ==
  \A c \in 1 .. MaxCalls :
    \/ c > n /\ h.told[c] = 0 /\ \A f \in Files : c \notin h.callers[f]
    \/ c <= n /\ h.told[c] = 1 /\ \A f \in Files : c \notin h.callers[f]
    \/ c <= n /\ h.told[c] = 0 /\ \E f \in Files : \A g \in Files : c \in h.callers[g] <=> g = f
(* What is promised is on its way or in the queue, but for what has just ended; and what  *)
(* nobody asked for is nowhere.                                               *)
WillSettle(h, ended) ==
  /\ h.polled \subseteq h.loading
  /\ \A f \in Files :
       /\ h.callers[f] # {} => h.cache[f] = "promise"
       /\ h.cache[f] = "promise" => f \in h.loading \cup Elements(h.queue) \cup ended
       /\ h.cache[f] = "none" => f \notin h.loading \cup Elements(h.queue) \cup Elements(h.early)
(* Who was asked for early is in the queue in that order, and has left it in that order.  *)
Gone(h, f) == f \in h.loading \/ h.cache[f] \in {"done", "failed"}
InOrder(h, ended) ==
  /\ Distinct(h.early)
  /\ \A p, q \in 1 .. Len(h.queue), i, j \in 1 .. Len(h.early) :
       p < q /\ h.queue[p] = h.early[i] /\ h.queue[q] = h.early[j] => i < j
  /\ \A i, j \in 1 .. Len(h.early) :
       /\ i < j /\ h.def[h.early[i]].order /\ h.def[h.early[j]].order
       /\ Gone(h, h.early[j]) \/ h.early[j] \in ended
       => Gone(h, h.early[i]) \/ h.early[i] \in ended
Queues(h) == (h.queue # <<>> => h.wait) /\ (supportsAsyncFalse => h.queue = <<>>)
GoesOn(h) == h.wait /\ ~h.broken => h.loading # {}

Fair(h, ended, n) ==
  h \in Pages /\ ToldOrWaits(h, n) /\ WillSettle(h, ended) /\ InOrder(h, ended) /\ Queues(h)
ScriptsInv ==
  calls \in 0 .. MaxCalls /\ Fair(Scripts!Heap, {}, calls) /\ GoesOn(Scripts!Heap)

LEMMA Ends ==
  ASSUME NEW h, NEW n, Fair(h, {}, n), NEW f \in h.loading
  PROVE  LET k == [h EXCEPT !.loading = @ \ {f}, !.polled = @ \ {f}]
         IN  Fair(k, {f}, n) /\ k.cache[f] # "none" /\ f \in Files
<1> DEFINE k == [h EXCEPT !.loading = @ \ {f}, !.polled = @ \ {f}]
<1>1. h \in Pages /\ f \in Files /\ h.cache[f] # "none"
  BY DEF Fair, WillSettle, Pages
<1>2. /\ k \in Pages /\ k.loading = h.loading \ {f} /\ k.polled = h.polled \ {f} /\ k.cache = h.cache
      /\ k.callers = h.callers /\ k.told = h.told /\ k.def = h.def /\ k.queue = h.queue
      /\ k.wait = h.wait /\ k.early = h.early /\ k.broken = h.broken
  BY <1>1 DEF Pages
<1> HIDE DEF k
<1>3. ToldOrWaits(k, n) /\ WillSettle(k, {f}) /\ Queues(k)
  BY <1>1, <1>2 DEF Fair, ToldOrWaits, WillSettle, Queues
<1>4. InOrder(k, {f})
  BY <1>1, <1>2 DEF Fair, InOrder, Gone
<1>5. QED
  BY <1>1, <1>2, <1>3, <1>4 DEF Fair, k

LEMMA Over ==
  ASSUME NEW h, NEW n, NEW f, Fair(h, {f}, n), h.cache[f] \in {"done", "failed"}
  PROVE  Fair(h, {}, n)
<1>1. WillSettle(h, {})
  BY DEF Fair, WillSettle
<1>2. InOrder(h, {})
  BY DEF Fair, InOrder, Gone
<1>3. QED
  BY <1>1, <1>2 DEF Fair

(* A promise that is settled tells whoever waits for it.                        *)
LEMMA SettleTells ==
  ASSUME NEW h, NEW n \in Nat, NEW f \in Files, NEW how \in {"done", "failed"}, NEW ended,
         Fair(h, ended, n), h.cache[f] # "none", ended = {f} \/ (ended = {} /\ f \in h.loading)
  PROVE  LET k == Scripts!Settle(h, f, how)
         IN  /\ Fair(k, {}, n) /\ k.cache[f] \in {"done", "failed"} /\ k.loading = h.loading
             /\ k.wait = h.wait /\ k.broken = h.broken /\ k.polled = h.polled
<1> DEFINE k == Scripts!Settle(h, f, how)
<1>1. h \in Pages /\ h.cache[f] \in {"promise", "done", "failed"} /\ Fair(h, {f}, n)
  <2>1. h \in Pages /\ h.cache[f] \in {"promise", "done", "failed"}
    BY DEF Fair, Pages
  <2>2. WillSettle(h, {f}) 
    BY DEF Fair, WillSettle
  <2>3. InOrder(h, {f})
    <3>1. \A g : Gone(h, g) \/ g \in {f} <=> Gone(h, g) \/ g \in ended
      BY DEF Gone
    <3>2. QED
      BY <3>1 DEF Fair, InOrder
  <2>4. QED
    BY <2>1, <2>2, <2>3 DEF Fair
<1>2. CASE h.cache[f] # "promise"
  <2>1. k = h
    BY <1>2 DEF Scripts!Settle
  <2>2. QED
    BY <1>1, <1>2, <2>1, Over
<1>3. CASE h.cache[f] = "promise"
  <2>1. h.callers[f] \in SUBSET (1 .. MaxCalls) /\ h.told \in [1 .. MaxCalls -> Nat]
    BY <1>1 DEF Pages
  <2> DEFINE t == Scripts!Tell(h, h.callers[f])
  <2>2. t \in [1 .. MaxCalls -> Nat]
        /\ \A c \in 1 .. MaxCalls : t[c] = IF c \in h.callers[f] THEN h.told[c] + 1 ELSE h.told[c]
    <3>1. ASSUME NEW c \in 1 .. MaxCalls
          PROVE  t[c] \in Nat /\ t[c] = IF c \in h.callers[f] THEN h.told[c] + 1 ELSE h.told[c]
      <4>1. t[c] = h.told[c] + IF c \in h.callers[f] THEN 1 ELSE 0
        BY DEF Scripts!Tell
      <4>2. h.told[c] \in Nat
        BY <2>1
      <4> HIDE DEF t
      <4>3. QED
        BY <4>1, <4>2
    <3>2. t = [c \in 1 .. MaxCalls |-> t[c]]
      BY DEF Scripts!Tell
    <3> HIDE DEF t
    <3>3. QED
      BY <3>1, <3>2
  <2>3. k = [h EXCEPT !.cache[f] = how, !.callers[f] = {}, !.told = t]
    BY <1>3 DEF Scripts!Settle
  <2> HIDE DEF t, k
  <2>4. /\ k \in Pages /\ k.cache = [h.cache EXCEPT ![f] = how] /\ k.callers = [h.callers EXCEPT ![f] = {}]
        /\ k.told = t /\ k.def = h.def /\ k.loading = h.loading /\ k.polled = h.polled
        /\ k.queue = h.queue /\ k.wait = h.wait /\ k.early = h.early /\ k.broken = h.broken
    BY <1>1, <2>2, <2>3 DEF Pages
  <2>5. /\ k.cache[f] = how /\ k.callers[f] = {}
        /\ \A g \in Files : g # f => k.cache[g] = h.cache[g] /\ k.callers[g] = h.callers[g]
    BY <1>1, <2>4 DEF Pages
  <2>6. ToldOrWaits(k, n)
    BY <1>1, <2>1, <2>2, <2>4, <2>5 DEF ToldOrWaits, Fair
  <2>7. WillSettle(k, {}) /\ Queues(k)
    BY <1>1, <2>4, <2>5 DEF WillSettle, Queues, Fair
  <2>8. InOrder(k, {})
    <3>1. \A g \in Files : Gone(h, g) \/ g \in {f} <=> Gone(k, g) 
      BY <1>1, <2>4, <2>5 DEF Gone
    <3>2. QED
      BY <1>1, <2>4, <3>1 DEF InOrder, Fair, Pages
  <2>9. QED
    BY <2>4, <2>5, <2>6, <2>7, <2>8 DEF Fair, k
<1>4. QED
  BY <1>2, <1>3

(* What is next in the queue is fetched, or nothing is.                           *)
LEMMA ScriptLoads ==
  ASSUME NEW h \in Pages, NEW f \in Files
  PROVE  LET k == Scripts!LoadScript(h, f)
         IN  /\ k \in Pages /\ k.loading = h.loading \cup {f} /\ k.polled \subseteq h.polled \cup {f}
             /\ k.cache = h.cache /\ k.callers = h.callers /\ k.told = h.told /\ k.def = h.def
             /\ k.queue = h.queue /\ k.wait = h.wait /\ k.early = h.early /\ k.broken = h.broken
<1> DEFINE p == IF h.def[f].exports THEN h.polled \cup {f} ELSE h.polled
<1>1. p \subseteq h.polled \cup {f} /\ p \in SUBSET Files
  BY DEF Pages
<1> DEFINE k == [h EXCEPT !.loading = h.loading \cup {f}, !.polled = p]
<1>2. Scripts!LoadScript(h, f) = k
  BY DEF Scripts!LoadScript, Pages
<1> HIDE DEF p
<1>3. /\ k \in Pages /\ k.loading = h.loading \cup {f} /\ k.polled = p
      /\ k.cache = h.cache /\ k.callers = h.callers /\ k.told = h.told /\ k.def = h.def
      /\ k.queue = h.queue /\ k.wait = h.wait /\ k.early = h.early /\ k.broken = h.broken
  BY <1>1 DEF Pages
<1> HIDE DEF k
<1>4. QED
  BY <1>1, <1>2, <1>3

LEMMA NextFetched ==
  ASSUME NEW h, NEW ended, NEW n, Fair(h, ended, n)
  PROVE  LET k == Scripts!FetchNext(h)
         IN Fair(k, ended, n) /\ GoesOn(k) /\ k.cache = h.cache
<1> DEFINE k == Scripts!FetchNext(h)
           q == h.queue
<1>1. h \in Pages /\ q \in Seq(Files) /\ h.early \in Seq(Files) /\ Len(q) \in Nat /\ Len(h.early) \in Nat
  BY LenProperties DEF Fair, Pages
<1>2. CASE q = <<>>
  <2>1. k = [h EXCEPT !.wait = FALSE]
    BY <1>2 DEF Scripts!FetchNext
  <2> HIDE DEF k
  <2>2. /\ k \in Pages /\ k.wait = FALSE /\ k.loading = h.loading /\ k.polled = h.polled
        /\ k.cache = h.cache /\ k.callers = h.callers /\ k.told = h.told /\ k.def = h.def
        /\ k.queue = h.queue /\ k.early = h.early
    BY <1>1, <2>1 DEF Pages
  <2>3. ToldOrWaits(k, n) /\ WillSettle(k, ended) /\ Queues(k) /\ GoesOn(k)
    BY <1>2, <2>2 DEF Fair, ToldOrWaits, WillSettle, Queues, GoesOn
  <2>4. InOrder(k, ended)
    BY <2>2 DEF Fair, InOrder, Gone
  <2>5. QED
    BY <2>2, <2>3, <2>4 DEF Fair, k
<1>3. CASE q # <<>>
  <2> DEFINE g == Head(q)
             r == Tail(q)
             w == r # <<>>
             m == [h EXCEPT !.queue = r, !.wait = w]
  <2>1. /\ g \in Files /\ g = q[1] /\ r \in Seq(Files) /\ Len(r) = Len(q) - 1
        /\ \A i \in 1 .. Len(r) : r[i] = q[i + 1]
    BY <1>1, <1>3, HeadTailProperties, LenProperties
  <2>2. k = Scripts!LoadScript(m, g)
    BY <1>1, <1>3 DEF Scripts!FetchNext, Pages
  <2> HIDE DEF g, r
  <2>3. Elements(q) = {g} \cup Elements(r)
    BY <1>1, <1>3, Shifted DEF g, r
  <2>4. m \in Pages /\ m.queue = r /\ m.wait = w /\ m.loading = h.loading /\ m.polled = h.polled
        /\ m.cache = h.cache /\ m.callers = h.callers /\ m.told = h.told /\ m.def = h.def
        /\ m.early = h.early /\ m.broken = h.broken
    BY <1>1, <2>1 DEF Pages
  <2> HIDE DEF m
  <2>5. /\ k \in Pages /\ k.loading = h.loading \cup {g} /\ k.polled \subseteq h.polled \cup {g}
        /\ k.cache = h.cache /\ k.callers = h.callers /\ k.told = h.told /\ k.def = h.def
        /\ k.queue = r /\ k.wait = w /\ k.early = h.early
    BY <2>1, <2>2, <2>4, ScriptLoads
  <2> HIDE DEF k, q
  <2>6. h.queue = q
    BY DEF q
  <2>7. ToldOrWaits(k, n) /\ Queues(k) /\ GoesOn(k)
    BY <1>3, <2>5, <2>6 DEF Fair, ToldOrWaits, Queues, GoesOn
  <2>8. g \in Elements(q) /\ WillSettle(k, ended)
    <3>1. WillSettle(h, ended)
      BY DEF Fair
    <3>2. QED
      BY <2>3, <2>5, <2>6, <3>1 DEF WillSettle
  <2>9. InOrder(k, ended)
    <3>1. InOrder(h, ended) /\ WillSettle(h, ended)
      BY DEF Fair
    <3>2. \A x : Gone(k, x) <=> Gone(h, x) \/ x = g
      BY <2>5 DEF Gone
    <3>3. ASSUME NEW a \in 1 .. Len(r), NEW b \in 1 .. Len(r), NEW i \in 1 .. Len(h.early),
                 NEW j \in 1 .. Len(h.early), a < b, r[a] = h.early[i], r[b] = h.early[j]
          PROVE  i < j
      <4>1. a + 1 \in 1 .. Len(q) /\ b + 1 \in 1 .. Len(q) /\ a + 1 < b + 1
        BY <1>1, <2>1, <3>3
      <4>2. q[a + 1] = h.early[i] /\ q[b + 1] = h.early[j]
        BY <2>1, <3>3
      <4>3. QED
        BY <2>6, <3>1, <4>1, <4>2 DEF InOrder
    <3>4. ASSUME NEW i \in 1 .. Len(h.early), NEW j \in 1 .. Len(h.early), i < j,
                 h.def[h.early[i]].order, h.def[h.early[j]].order,
                 Gone(k, h.early[j]) \/ h.early[j] \in ended
          PROVE  Gone(k, h.early[i]) \/ h.early[i] \in ended
      <4>1. CASE Gone(h, h.early[j]) \/ h.early[j] \in ended
        BY <3>1, <3>2, <3>4, <4>1 DEF InOrder
      <4>2. CASE h.early[j] = g
        <5>1. SUFFICES ASSUME ~Gone(h, h.early[i]), h.early[i] \notin ended PROVE h.early[i] = g
          BY <3>2
        <5>2. h.early[i] \in Files /\ h.early[i] \in Elements(h.early)
          BY <1>1, Listed, ElementOfSeq
        <5>3. h.cache[h.early[i]] = "promise"
          BY <1>1, <3>1, <5>1, <5>2 DEF WillSettle, Gone, Pages
        <5>4. h.early[i] \in Elements(q)
          BY <2>6, <3>1, <5>1, <5>2, <5>3 DEF WillSettle, Gone
        <5>5. PICK p \in 1 .. Len(q) : q[p] = h.early[i]
          BY <1>1, <5>4, Listed
        <5>6. CASE p = 1
          BY <2>1, <5>5, <5>6
        <5>7. CASE p # 1
          <6>1. 1 \in 1 .. Len(q) /\ 1 < p
            BY <1>1, <5>7
          <6>2. j < i
            BY <2>1, <2>6, <3>1, <4>2, <5>5, <6>1 DEF InOrder
          <6>3. QED
            BY <1>1, <3>4, <6>2
        <5>8. QED
          BY <5>6, <5>7
      <4>3. QED
        BY <3>2, <3>4, <4>1, <4>2
    <3>5. QED
      BY <2>5, <3>1, <3>3, <3>4 DEF InOrder
  <2>10. QED
    BY <2>5, <2>7, <2>8, <2>9 DEF Fair, k
<1>4. QED
  BY <1>2, <1>3

LEMMA ScriptsBecome ==
  ASSUME NEW g \in Pages, Scripts!Become(g)
  PROVE  Scripts!Heap' = g
<1>1. Scripts!Heap' = [cache |-> g.cache, callers |-> g.callers, told |-> g.told, def |-> g.def,
         loading |-> g.loading, polled |-> g.polled, queue |-> g.queue, wait |-> g.wait,
         early |-> g.early, broken |-> g.broken]
  BY DEF Scripts!Heap, Scripts!Become
<1>2. QED
  BY <1>1 DEF Pages

LEMMA ScriptsStay ==
  ASSUME NEW g, NEW n \in 0 .. MaxCalls, Fair(g, {}, n), GoesOn(g), Scripts!Become(g), calls' = n
  PROVE  ScriptsInv'
<1>1. Scripts!Heap' = g /\ supportsAsyncFalse' = supportsAsyncFalse
  BY ScriptsBecome DEF Fair, Scripts!Become
<1>2. QED
  BY <1>1 DEF ScriptsInv, Fair, ToldOrWaits, WillSettle, InOrder, Gone, Queues, GoesOn, Distinct

LEMMA BreaksFair ==
  ASSUME NEW h, NEW ended, NEW n, Fair(h, ended, n)
  PROVE  Fair([h EXCEPT !.broken = TRUE], ended, n) /\ GoesOn([h EXCEPT !.broken = TRUE])
<1> DEFINE k == [h EXCEPT !.broken = TRUE]
<1>1. /\ k \in Pages /\ k.loading = h.loading /\ k.polled = h.polled /\ k.cache = h.cache
      /\ k.callers = h.callers /\ k.told = h.told /\ k.def = h.def /\ k.queue = h.queue
      /\ k.wait = h.wait /\ k.early = h.early /\ k.broken = TRUE
  BY DEF Fair, Pages
<1> HIDE DEF k
<1>2. ToldOrWaits(k, n) /\ WillSettle(k, ended) /\ Queues(k) /\ GoesOn(k)
  BY <1>1 DEF Fair, ToldOrWaits, WillSettle, Queues, GoesOn
<1>3. InOrder(k, ended)
  BY <1>1 DEF Fair, InOrder, Gone
<1>4. QED
  BY <1>1, <1>2, <1>3 DEF Fair, k

LEMMA ProcessKept ==
  ASSUME CallsAssumed, ScriptsInv, NEW f \in Files, NEW defined \in BOOLEAN, Scripts!Process(f, defined)
  PROVE  ScriptsInv'
<1> DEFINE h == Scripts!Heap
           k == [h EXCEPT !.loading = @ \ {f}, !.polled = @ \ {f}]
<1>1. /\ Fair(h, {}, calls) /\ calls \in 0 .. MaxCalls /\ calls' = calls /\ calls \in Nat
      /\ h.loading = loading /\ f \in h.loading
  BY DEF Scripts!Heap, ScriptsInv, Scripts!Process, CallsAssumed
<1>2. \/ Scripts!Become([Scripts!Settle(k, f, "failed") EXCEPT !.broken = TRUE])
      \/ Scripts!Become(Scripts!Settle(Scripts!FetchNext(k), f, "done"))
  BY DEF Scripts!Process
<1> HIDE DEF h
<1>3. Fair(k, {f}, calls) /\ k.cache[f] # "none"
  BY <1>1, Ends
<1> HIDE DEF k
<1>4. CASE Scripts!Become([Scripts!Settle(k, f, "failed") EXCEPT !.broken = TRUE])
  <2> DEFINE s == Scripts!Settle(k, f, "failed")
  <2>1. Fair(s, {}, calls)
    BY <1>1, <1>3, SettleTells
  <2> HIDE DEF s
  <2>2. Fair([s EXCEPT !.broken = TRUE], {}, calls) /\ GoesOn([s EXCEPT !.broken = TRUE])
    BY <2>1, BreaksFair
  <2>3. QED
    BY <1>1, <1>4, <2>2, ScriptsStay DEF s
<1>5. CASE Scripts!Become(Scripts!Settle(Scripts!FetchNext(k), f, "done"))
  <2> DEFINE m == Scripts!FetchNext(k)
             s == Scripts!Settle(m, f, "done")
  <2>1. Fair(m, {f}, calls) /\ GoesOn(m) /\ m.cache[f] # "none"
    BY <1>3, NextFetched
  <2> HIDE DEF m
  <2>2. Fair(s, {}, calls) /\ s.loading = m.loading /\ s.wait = m.wait /\ s.broken = m.broken
    BY <1>1, <2>1, SettleTells
  <2> HIDE DEF s
  <2>3. GoesOn(s)
    BY <2>1, <2>2 DEF GoesOn
  <2>4. QED
    BY <1>1, <1>5, <2>2, <2>3, ScriptsStay DEF s, m
<1>6. QED
  BY <1>2, <1>4, <1>5

LEMMA FailKept ==
  ASSUME CallsAssumed, ScriptsInv, NEW f \in Files, Scripts!Fail(f)
  PROVE  ScriptsInv'
<1> DEFINE h == Scripts!Heap
           s == Scripts!Settle(h, f, "failed")
           k == [s EXCEPT !.loading = @ \ {f}, !.polled = @ \ {f}]
           b == [k EXCEPT !.broken = TRUE]
<1>1. /\ Fair(h, {}, calls) /\ calls \in 0 .. MaxCalls /\ calls' = calls /\ calls \in Nat
      /\ h.loading = loading /\ f \in h.loading
  BY DEF Scripts!Heap, ScriptsInv, Scripts!Fail, CallsAssumed
<1>2. Scripts!Become(b)
  BY DEF Scripts!Fail
<1> HIDE DEF h
<1>3. h.cache[f] # "none"
  BY <1>1 DEF Fair, WillSettle
<1>4. Fair(s, {}, calls) /\ s.cache[f] \in {"done", "failed"} /\ s.loading = h.loading
  BY <1>1, <1>3, SettleTells
<1> HIDE DEF s
<1>5. Fair(k, {f}, calls) /\ k.cache = s.cache
  <2>1. Fair(k, {f}, calls)
    BY <1>1, <1>4, Ends
  <2>2. k.cache = s.cache
    BY <1>4 DEF Fair, Pages
  <2>3. QED
    BY <2>1, <2>2
<1> HIDE DEF k
<1>6. Fair(k, {}, calls)
  BY <1>4, <1>5, Over
<1>7. Fair(b, {}, calls) /\ GoesOn(b)
  BY <1>6, BreaksFair
<1> HIDE DEF b
<1>8. QED
  BY <1>1, <1>2, <1>7, ScriptsStay

LEMMA DeadlineKept ==
  ASSUME CallsAssumed, ScriptsInv, NEW f \in Files, Scripts!DeadlinePasses(f)
  PROVE  ScriptsInv'
<1> DEFINE h == Scripts!Heap
           s == Scripts!Settle(h, f, "failed")
           k == [s EXCEPT !.polled = @ \ {f}]
<1>1. /\ Fair(h, {}, calls) /\ GoesOn(h) /\ calls \in 0 .. MaxCalls /\ calls' = calls /\ calls \in Nat
      /\ h.polled = polled /\ f \in h.polled
  BY DEF Scripts!Heap, ScriptsInv, Scripts!DeadlinePasses, CallsAssumed
<1>2. Scripts!Become(k)
  BY DEF Scripts!DeadlinePasses
<1> HIDE DEF h
<1>3. f \in h.loading /\ h.cache[f] # "none"
  BY <1>1 DEF Fair, WillSettle
<1>4. Fair(s, {}, calls) /\ s.loading = h.loading /\ s.wait = h.wait /\ s.broken = h.broken
  BY <1>1, <1>3, SettleTells
<1> HIDE DEF s
<1>5. /\ k \in Pages /\ k.loading = s.loading /\ k.polled \subseteq s.polled /\ k.cache = s.cache
      /\ k.callers = s.callers /\ k.told = s.told /\ k.def = s.def /\ k.queue = s.queue
      /\ k.wait = s.wait /\ k.early = s.early /\ k.broken = s.broken
  BY <1>4 DEF Fair, Pages
<1> HIDE DEF k
<1>6. ToldOrWaits(k, calls) /\ WillSettle(k, {}) /\ Queues(k) /\ GoesOn(k)
  BY <1>1, <1>4, <1>5 DEF Fair, ToldOrWaits, WillSettle, Queues, GoesOn
<1>7. InOrder(k, {})
  BY <1>4, <1>5 DEF Fair, InOrder, Gone
<1>8. Fair(k, {}, calls)
  BY <1>5, <1>6, <1>7 DEF Fair
<1>9. QED
  BY <1>1, <1>2, <1>6, <1>8, ScriptsStay

(* A file is asked for by its first caller, or by another.                         *)
LEMMA FirstAsks ==
  ASSUME CallsAssumed, ScriptsInv, NEW f \in Files, NEW order \in BOOLEAN, NEW exports \in BOOLEAN,
         Scripts!Load(f, order, exports), cache[f] = "none"
  PROVE  ScriptsInv'
<1> DEFINE h == Scripts!Heap
           c == calls + 1
           e == IF \A g \in Files : cache[g] \in {"none", "promise"} THEN Append(h.early, f) ELSE h.early
           d == [order |-> order, exports |-> exports]
           k == [h EXCEPT !.cache[f] = "promise", !.callers[f] = {c}, !.def[f] = d, !.early = e]
           waits == [k EXCEPT !.queue = Append(@, f)]
           goes == [k EXCEPT !.wait = @ \/ order]
<1>1. /\ Fair(h, {}, calls) /\ GoesOn(h) /\ calls \in Nat /\ c \in 1 .. MaxCalls /\ calls' = c
      /\ h.wait = waitForOrderedScript /\ h.cache[f] = "none"
  BY DEF Scripts!Heap, ScriptsInv, Scripts!Load, CallsAssumed
<1>2. IF order /\ ~supportsAsyncFalse /\ waitForOrderedScript THEN Scripts!Become(waits)
      ELSE Scripts!Become(Scripts!LoadScript(goes, f))
  <2>1. h.early = early
    BY DEF Scripts!Heap
  <2>2. QED
    BY <2>1 DEF Scripts!Load
<1> HIDE DEF h
<1>3. /\ h \in Pages /\ h.queue \in Seq(Files) /\ h.early \in Seq(Files) /\ Len(h.early) \in Nat
      /\ Len(h.queue) \in Nat /\ ToldOrWaits(h, calls) /\ WillSettle(h, {}) /\ InOrder(h, {}) /\ Queues(h)
  BY <1>1, LenProperties DEF Fair, Pages
<1>4. /\ f \notin h.loading /\ f \notin Elements(h.queue) /\ f \notin Elements(h.early) /\ h.callers[f] = {}
  BY <1>1, <1>3 DEF WillSettle
<1>5. /\ e \in Seq(Files) /\ Len(e) \in Nat /\ Elements(e) \subseteq Elements(h.early) \cup {f} /\ Distinct(e)
      /\ \A i \in 1 .. Len(e) :
           \/ i \in 1 .. Len(h.early) /\ e[i] = h.early[i] /\ e[i] # f /\ e[i] \in Files
           \/ i = Len(h.early) + 1 /\ e[i] = f
  <2>1. \A i \in 1 .. Len(h.early) : h.early[i] # f /\ h.early[i] \in Files
    BY <1>3, <1>4, Listed, ElementOfSeq
  <2>2. Distinct(h.early)
    BY <1>3 DEF InOrder
  <2>3. CASE e = h.early
    BY <1>3, <2>1, <2>2, <2>3
  <2>4. CASE e = Append(h.early, f)
    <3> DEFINE a == Append(h.early, f)
    <3>1. /\ a \in Seq(Files) /\ Elements(a) = Elements(h.early) \cup {f} /\ Len(a) = Len(h.early) + 1
          /\ a[Len(h.early) + 1] = f /\ Distinct(a)
          /\ \A i \in 1 .. Len(h.early) : a[i] = h.early[i]
      BY <1>3, <1>4, <2>2, Appended
    <3> HIDE DEF a, e
    <3>2. e = a
      BY <2>4 DEF a
    <3>3. QED
      <4>1. Len(a) \in Nat /\ \A i \in 1 .. Len(a) : i \in 1 .. Len(h.early) \/ i = Len(h.early) + 1
        BY <1>3, <3>1
      <4>2. \A i \in 1 .. Len(a) :
              \/ i \in 1 .. Len(h.early) /\ a[i] = h.early[i] /\ a[i] # f /\ a[i] \in Files
              \/ i = Len(h.early) + 1 /\ a[i] = f
        BY <2>1, <3>1, <4>1
      <4>3. QED
        BY <3>1, <3>2, <4>1, <4>2
  <2>5. QED
    BY <2>3, <2>4
<1> HIDE DEF e
<1>6. d \in Defs /\ d.order = order
  BY DEF Defs
<1> HIDE DEF d
<1>7. /\ k \in Pages /\ k.cache = [h.cache EXCEPT ![f] = "promise"] /\ k.callers = [h.callers EXCEPT ![f] = {c}]
      /\ k.def = [h.def EXCEPT ![f] = d] /\ k.early = e /\ k.told = h.told /\ k.loading = h.loading
      /\ k.polled = h.polled /\ k.queue = h.queue /\ k.wait = h.wait /\ k.broken = h.broken
  BY <1>1, <1>3, <1>5, <1>6, ZenonT(60) DEF Pages
<1> HIDE DEF k
<1>8. /\ k.cache[f] = "promise" /\ k.callers[f] = {c} /\ k.def[f] = d
      /\ \A g \in Files : g # f => k.cache[g] = h.cache[g] /\ k.callers[g] = h.callers[g] /\ k.def[g] = h.def[g]
  BY <1>3, <1>7 DEF Pages
<1> HIDE DEF c
<1>9. ToldOrWaits(k, c)
  BY <1>1, <1>3, <1>4, <1>7, <1>8 DEF ToldOrWaits, c
<1>10. CASE order /\ ~supportsAsyncFalse /\ waitForOrderedScript
  <2> DEFINE q == Append(h.queue, f)
  <2>1. /\ q \in Seq(Files) /\ Elements(q) = Elements(h.queue) \cup {f} /\ Len(q) = Len(h.queue) + 1
        /\ q[Len(h.queue) + 1] = f /\ \A i \in 1 .. Len(h.queue) : q[i] = h.queue[i]
    BY <1>3, Appended
  <2>2. waits = [k EXCEPT !.queue = q]
    BY <1>7 DEF Pages
  <2> HIDE DEF q, waits
  <2>3. /\ waits \in Pages /\ waits.cache = k.cache /\ waits.callers = k.callers /\ waits.def = k.def
        /\ waits.early = e /\ waits.told = k.told /\ waits.loading = h.loading /\ waits.polled = h.polled
        /\ waits.queue = q /\ waits.wait = h.wait /\ waits.broken = h.broken
    BY <1>7, <2>1, <2>2 DEF Pages
  <2>4. ToldOrWaits(waits, c)
    BY <1>9, <2>3 DEF ToldOrWaits
  <2>5. WillSettle(waits, {}) /\ Queues(waits) /\ GoesOn(waits)
    <3>1. waits.polled \subseteq waits.loading
      BY <1>3, <2>3 DEF WillSettle
    <3>2. ASSUME NEW g \in Files, g # f
          PROVE  /\ waits.callers[g] # {} => waits.cache[g] = "promise"
                 /\ waits.cache[g] = "promise" => g \in waits.loading \cup Elements(waits.queue)
                 /\ waits.cache[g] = "none" =>
                      g \notin waits.loading \cup Elements(waits.queue) \cup Elements(waits.early)
      <4>1. /\ waits.callers[g] = h.callers[g] /\ waits.cache[g] = h.cache[g]
            /\ g \in waits.loading <=> g \in h.loading
            /\ g \in Elements(waits.queue) <=> g \in Elements(h.queue)
            /\ g \in Elements(waits.early) => g \in Elements(h.early)
        BY <1>5, <1>8, <2>1, <2>3, <3>2
      <4>2. QED
        BY <1>3, <4>1 DEF WillSettle
    <3>3. waits.cache[f] = "promise" /\ f \in waits.loading \cup Elements(waits.queue)
      BY <1>8, <2>1, <2>3
    <3>4. WillSettle(waits, {})
      BY <3>1, <3>2, <3>3 DEF WillSettle
    <3>5. Queues(waits) /\ GoesOn(waits)
      BY <1>1, <1>3, <1>10, <2>1, <2>3 DEF Queues, GoesOn
    <3>6. QED
      BY <3>4, <3>5
  <2>6. InOrder(waits, {})
    <3>1. \A a, b \in 1 .. Len(q), i, j \in 1 .. Len(e) : a < b /\ q[a] = e[i] /\ q[b] = e[j] => i < j
      <4> SUFFICES ASSUME NEW a \in 1 .. Len(q), NEW b \in 1 .. Len(q), NEW i \in 1 .. Len(e),
                          NEW j \in 1 .. Len(e), a < b, q[a] = e[i], q[b] = e[j]
                   PROVE  i < j
        OBVIOUS
      <4>1. a \in 1 .. Len(h.queue) /\ q[a] = h.queue[a]
        BY <1>3, <2>1
      <4>2. h.queue[a] # f
        BY <1>3, <1>4, <4>1, Listed
      <4>3. i \in 1 .. Len(h.early) /\ e[i] = h.early[i]
        BY <1>5, <2>1, <4>1, <4>2
      <4>4. CASE e[j] = f
        BY <1>3, <1>4, <1>5, <4>3, <4>4
      <4>5. CASE e[j] # f
        <5>1. b \in 1 .. Len(h.queue) /\ q[b] = h.queue[b]
          BY <1>3, <2>1, <4>5
        <5>2. j \in 1 .. Len(h.early) /\ e[j] = h.early[j]
          BY <1>5, <4>5
        <5>3. QED
          BY <1>3, <4>1, <4>3, <5>1, <5>2 DEF InOrder
      <4>6. QED
        BY <4>4, <4>5
    <3>2. ASSUME NEW i \in 1 .. Len(e), NEW j \in 1 .. Len(e), i < j,
                 waits.def[e[i]].order, waits.def[e[j]].order, Gone(waits, e[j])
          PROVE  Gone(waits, e[i])
      <4>1. e[j] # f
        BY <1>4, <1>8, <2>3, <3>2 DEF Gone
      <4>2. j \in 1 .. Len(h.early) /\ e[j] = h.early[j] /\ e[j] \in Files
        BY <1>5, <4>1
      <4>3. i \in 1 .. Len(h.early) /\ e[i] = h.early[i] /\ e[i] # f /\ e[i] \in Files
        BY <1>3, <1>5, <3>2, <4>2
      <4>4. h.def[e[i]].order /\ h.def[e[j]].order /\ Gone(h, e[j])
        BY <1>8, <2>3, <3>2, <4>1, <4>2, <4>3 DEF Gone
      <4>5. Gone(h, e[i])
        BY <1>3, <3>2, <4>2, <4>3, <4>4 DEF InOrder
      <4>6. QED
        BY <1>8, <2>3, <4>3, <4>5 DEF Gone
    <3>3. QED
      BY <1>5, <2>3, <3>1, <3>2 DEF InOrder
  <2>7. Fair(waits, {}, c)
    BY <2>3, <2>4, <2>5, <2>6 DEF Fair
  <2>8. c \in 0 .. MaxCalls /\ calls' = c /\ Scripts!Become(waits)
    BY <1>1, <1>2, <1>10
  <2>9. QED
    BY <2>5, <2>7, <2>8, ScriptsStay
<1>11. CASE ~(order /\ ~supportsAsyncFalse /\ waitForOrderedScript)
  <2> DEFINE s == Scripts!LoadScript(goes, f)
  <2>1. /\ goes \in Pages /\ goes.cache = k.cache /\ goes.callers = k.callers /\ goes.def = k.def
        /\ goes.early = e /\ goes.told = k.told /\ goes.loading = h.loading /\ goes.polled = h.polled
        /\ goes.queue = h.queue /\ goes.wait = (h.wait \/ order) /\ goes.broken = h.broken
    BY <1>7 DEF Pages
  <2> HIDE DEF goes
  <2>2. /\ s \in Pages /\ s.cache = k.cache /\ s.callers = k.callers /\ s.def = k.def
        /\ s.early = e /\ s.told = k.told /\ s.loading = h.loading \cup {f}
        /\ s.polled \subseteq h.polled \cup {f}
        /\ s.queue = h.queue /\ s.wait = (h.wait \/ order)
    BY <2>1, ScriptLoads
  <2>3. c \in 0 .. MaxCalls /\ calls' = c /\ Scripts!Become(s)
    BY <1>1, <1>2, <1>11
  <2> HIDE DEF s
  <2>4. ToldOrWaits(s, c)
    BY <1>9, <2>2 DEF ToldOrWaits
  <2>5. WillSettle(s, {}) /\ Queues(s) /\ GoesOn(s)
    <3>1. s.polled \subseteq s.loading
      BY <1>3, <2>2 DEF WillSettle
    <3>2. ASSUME NEW g \in Files, g # f
          PROVE  /\ s.callers[g] # {} => s.cache[g] = "promise"
                 /\ s.cache[g] = "promise" => g \in s.loading \cup Elements(s.queue)
                 /\ s.cache[g] = "none" =>
                      g \notin s.loading \cup Elements(s.queue) \cup Elements(s.early)
      <4>1. /\ s.callers[g] = h.callers[g] /\ s.cache[g] = h.cache[g]
            /\ g \in s.loading <=> g \in h.loading
            /\ g \in Elements(s.queue) <=> g \in Elements(h.queue)
            /\ g \in Elements(s.early) => g \in Elements(h.early)
        BY <1>5, <1>8, <2>2, <3>2
      <4>2. QED
        BY <1>3, <4>1 DEF WillSettle
    <3>3. s.cache[f] = "promise" /\ f \in s.loading \cup Elements(s.queue)
      BY <1>8, <2>2
    <3>4. WillSettle(s, {})
      BY <3>1, <3>2, <3>3 DEF WillSettle
    <3>5. Queues(s) /\ GoesOn(s)
      BY <1>1, <1>3, <1>11, <2>2 DEF Queues, GoesOn
    <3>6. QED
      BY <3>4, <3>5
  <2>6. InOrder(s, {})
    <3>1. \A a, b \in 1 .. Len(h.queue), i, j \in 1 .. Len(e) :
            a < b /\ h.queue[a] = e[i] /\ h.queue[b] = e[j] => i < j
      <4>1. \A a \in 1 .. Len(h.queue) : h.queue[a] # f
        BY <1>3, <1>4, Listed
      <4>2. QED
        BY <1>3, <1>5, <4>1 DEF InOrder
    <3>2. ASSUME NEW i \in 1 .. Len(e), NEW j \in 1 .. Len(e), i < j,
                 s.def[e[i]].order, s.def[e[j]].order, Gone(s, e[j])
          PROVE  Gone(s, e[i])
      <4>1. i \in 1 .. Len(h.early) /\ e[i] = h.early[i] /\ e[i] # f /\ e[i] \in Files
        BY <1>3, <1>5, <3>2
      <4>2. CASE e[j] = f
        <5>1. order
          BY <1>6, <1>8, <2>2, <3>2, <4>2
        <5>2. h.queue = <<>>
          BY <1>1, <1>3, <1>11, <5>1 DEF Queues
        <5>3. Elements(h.queue) = {}
          BY <5>2 DEF Elements
        <5>4. e[i] \in Elements(h.early)
          BY <1>3, <4>1, Listed
        <5>5. Gone(h, e[i])
          BY <1>3, <4>1, <5>3, <5>4 DEF WillSettle, Gone, Pages
        <5>6. QED
          BY <1>8, <2>2, <4>1, <5>5 DEF Gone
      <4>3. CASE e[j] # f
        <5>1. j \in 1 .. Len(h.early) /\ e[j] = h.early[j] /\ e[j] \in Files
          BY <1>5, <4>3
        <5>2. h.def[e[i]].order /\ h.def[e[j]].order /\ Gone(h, e[j])
          BY <1>8, <2>2, <3>2, <4>1, <4>3, <5>1 DEF Gone
        <5>3. Gone(h, e[i])
          BY <1>3, <3>2, <4>1, <5>1, <5>2 DEF InOrder
        <5>4. QED
          BY <1>8, <2>2, <4>1, <5>3 DEF Gone
      <4>4. QED
        BY <4>2, <4>3
    <3>3. QED
      BY <1>5, <2>2, <3>1, <3>2 DEF InOrder
  <2>7. Fair(s, {}, c)
    BY <2>2, <2>4, <2>5, <2>6 DEF Fair
  <2>8. QED
    BY <2>3, <2>5, <2>7, ScriptsStay
<1>12. QED
  BY <1>10, <1>11

LEMMA AnotherAsks ==
  ASSUME CallsAssumed, ScriptsInv, NEW f \in Files, NEW order \in BOOLEAN, NEW exports \in BOOLEAN,
         Scripts!Load(f, order, exports), cache[f] # "none"
  PROVE  ScriptsInv'
<1> DEFINE h == Scripts!Heap
           c == calls + 1
           tells == [h EXCEPT !.told[c] = 1]
           joins == [h EXCEPT !.callers[f] = @ \cup {c}]
<1>1. /\ Fair(h, {}, calls) /\ GoesOn(h) /\ calls \in Nat /\ c \in 1 .. MaxCalls /\ calls' = c
      /\ h.cache[f] # "none" /\ h.cache = cache
  BY DEF Scripts!Heap, ScriptsInv, Scripts!Load, CallsAssumed
<1>2. IF h.cache[f] = "promise" THEN Scripts!Become(joins) ELSE Scripts!Become(tells)
  <2>1. h.cache[f] \in {"promise", "done", "failed"}
    BY <1>1 DEF Fair, Pages
  <2>2. QED
    BY <1>1, <2>1 DEF Scripts!Load
<1> HIDE DEF h
<1>3. /\ h \in Pages /\ ToldOrWaits(h, calls) /\ WillSettle(h, {}) /\ InOrder(h, {}) /\ Queues(h)
      /\ c \in 0 .. MaxCalls /\ c = calls + 1
  BY <1>1 DEF Fair
<1>4. ASSUME NEW k \in Pages, ToldOrWaits(k, c), k.cache = h.cache, k.def = h.def, k.loading = h.loading,
             k.polled = h.polled, k.queue = h.queue, k.wait = h.wait, k.early = h.early,
             k.broken = h.broken, k.callers[f] # {} => k.cache[f] = "promise",
             \A g \in Files : g # f => k.callers[g] = h.callers[g], Scripts!Become(k)
      PROVE  ScriptsInv'
  <2> HIDE DEF c
  <2>1. WillSettle(k, {}) /\ Queues(k) /\ GoesOn(k)
    BY <1>1, <1>3, <1>4 DEF WillSettle, Queues, GoesOn
  <2>2. InOrder(k, {})
    BY <1>3, <1>4 DEF InOrder, Gone
  <2>3. Fair(k, {}, c)
    BY <1>4, <2>1, <2>2 DEF Fair
  <2>4. QED
    BY <1>1, <1>3, <1>4, <2>1, <2>3, ScriptsStay
<1>5. CASE h.cache[f] = "promise"
  <2> HIDE DEF c
  <2> DEFINE u == h.callers[f] \cup {c}
  <2>1. u \in SUBSET (1 .. MaxCalls) /\ joins = [h EXCEPT !.callers[f] = u]
    BY <1>1, <1>3 DEF Pages
  <2> HIDE DEF u, joins
  <2>2. /\ joins \in Pages /\ joins.callers = [h.callers EXCEPT ![f] = u]
        /\ joins.told = h.told /\ joins.cache = h.cache /\ joins.def = h.def
        /\ joins.loading = h.loading /\ joins.polled = h.polled /\ joins.queue = h.queue
        /\ joins.wait = h.wait /\ joins.early = h.early /\ joins.broken = h.broken
    BY <1>3, <2>1 DEF Pages
  <2>3. /\ joins.callers[f] = h.callers[f] \cup {c}
        /\ \A g \in Files : g # f => joins.callers[g] = h.callers[g]
    BY <1>3, <2>2 DEF Pages, u
  <2>4. ToldOrWaits(joins, c)
    BY <1>1, <1>3, <2>2, <2>3 DEF ToldOrWaits, c
  <2>5. Scripts!Become(joins)
    BY <1>2, <1>5
  <2>6. QED
    BY <1>4, <1>5, <2>2, <2>3, <2>4, <2>5
<1>6. CASE h.cache[f] # "promise"
  <2> HIDE DEF c
  <2>1. /\ tells \in Pages /\ tells.told = [h.told EXCEPT ![c] = 1]
        /\ tells.callers = h.callers /\ tells.cache = h.cache /\ tells.def = h.def
        /\ tells.loading = h.loading /\ tells.polled = h.polled /\ tells.queue = h.queue
        /\ tells.wait = h.wait /\ tells.early = h.early /\ tells.broken = h.broken
    BY <1>1, <1>3 DEF Pages
  <2> HIDE DEF tells
  <2>2. tells.told[c] = 1 /\ \A b \in 1 .. MaxCalls : b # c => tells.told[b] = h.told[b]
    BY <1>1, <1>3, <2>1 DEF Pages
  <2>3. ToldOrWaits(tells, c)
    BY <1>1, <1>3, <2>1, <2>2 DEF ToldOrWaits, c
  <2>4. Scripts!Become(tells) /\ h.callers[f] = {}
    BY <1>2, <1>3, <1>6 DEF WillSettle
  <2>5. QED
    BY <1>4, <2>1, <2>3, <2>4
<1>7. QED
  BY <1>5, <1>6

LEMMA ScriptsKept == CallsAssumed /\ ScriptsInv /\ [Scripts!Next]_(Scripts!vars) => ScriptsInv'
<1> SUFFICES ASSUME CallsAssumed, ScriptsInv, [Scripts!Next]_(Scripts!vars) PROVE ScriptsInv'
  OBVIOUS
<1>1. CASE UNCHANGED Scripts!vars
  <2>1. Scripts!Become(Scripts!Heap) /\ calls' = calls
    BY <1>1 DEF Scripts!vars, Scripts!Become, Scripts!Heap
  <2>2. QED
    BY <2>1, ScriptsStay DEF ScriptsInv
<1>2. ASSUME NEW f \in Files, NEW order \in BOOLEAN, NEW exports \in BOOLEAN,
             Scripts!Load(f, order, exports)
      PROVE  ScriptsInv'
  BY <1>2, FirstAsks, AnotherAsks
<1>3. ASSUME Scripts!Next PROVE ScriptsInv'
  BY <1>2, <1>3, ProcessKept, FailKept, DeadlineKept DEF Scripts!Next
<1>4. QED
  BY <1>1, <1>3

(* ScriptsTold: whoever asks for a file is told once, now or by its promise, and no promise   *)
(* is left without a script that may settle it; the queue does not stand still unless a      *)
(* script has failed; and the ordered scripts asked for before any had loaded leave the      *)
(* queue in their order; for any number of files and of calls, and any poller that gives up.  *)
THEOREM ScriptsAreTold ==
  ASSUME CallsAssumed
  PROVE  Scripts!Spec => []Scripts!ScriptsTold
<1>1. Scripts!Init => ScriptsInv
  <2> SUFFICES ASSUME Scripts!Init PROVE ScriptsInv
    OBVIOUS
  <2> DEFINE h == Scripts!Heap
  <2>1. /\ h.cache = [f \in Files |-> "none"] /\ h.callers = [f \in Files |-> {}]
        /\ h.told = [c \in 1 .. MaxCalls |-> 0] /\ calls = 0 /\ h.loading = {} /\ h.polled = {}
        /\ h.queue = <<>> /\ h.wait = FALSE /\ h.early = <<>> /\ h.broken = FALSE
        /\ h.def = [f \in Files |-> Scripts!Plain]
    BY DEF Scripts!Init, Scripts!Heap
  <2>2. h \in Pages
    BY EmptySeq DEF Scripts!Init, Scripts!Heap, Pages, Defs, Scripts!Plain
  <2>3. Elements(<<>>) = {} /\ Len(<<>>) = 0
    BY DEF Elements
  <2> HIDE DEF h
  <2>4. ToldOrWaits(h, 0) /\ WillSettle(h, {}) /\ Queues(h) /\ GoesOn(h)
    BY <2>1, <2>3 DEF ToldOrWaits, WillSettle, Queues, GoesOn
  <2>5. InOrder(h, {})
    BY <2>1, <2>3 DEF InOrder, Distinct
  <2>6. QED
    BY <2>1, <2>2, <2>4, <2>5 DEF ScriptsInv, Fair, h, CallsAssumed
<1>2. ScriptsInv => Scripts!ScriptsTold
  <2> SUFFICES ASSUME ScriptsInv PROVE Scripts!ScriptsTold
    OBVIOUS
  <2> DEFINE h == Scripts!Heap
  <2>1. /\ h.cache = cache /\ h.callers = callers /\ h.told = told /\ h.def = def /\ h.loading = loading
        /\ h.queue = queue /\ h.wait = waitForOrderedScript /\ h.early = early /\ h.broken = broken
    BY DEF Scripts!Heap
  <2>2. /\ h \in Pages /\ ToldOrWaits(h, calls) /\ WillSettle(h, {}) /\ InOrder(h, {}) /\ Queues(h) /\ GoesOn(h)
        /\ calls \in 0 .. MaxCalls
    BY DEF ScriptsInv, Fair
  <2> HIDE DEF h
  <2>3. ASSUME NEW c \in 1 .. MaxCalls
        PROVE  told[c] + Scripts!Cardinality({f \in Files : c \in callers[f]}) = IF c <= calls THEN 1 ELSE 0
    <3> DEFINE S == {f \in Files : c \in callers[f]}
    <3> SUFFICES told[c] + Scripts!Cardinality(S) = IF c <= calls THEN 1 ELSE 0
      OBVIOUS
    <3>1. Scripts!Cardinality(S) = Cardinality(S)
      BY DEF Scripts!Cardinality, Cardinality
    <3>2. CASE S = {}
      <4>1. Cardinality(S) = 0
        BY <3>2, FS_EmptySet
      <4>2. told[c] = IF c <= calls THEN 1 ELSE 0
        BY <2>1, <2>2, <3>2 DEF ToldOrWaits
      <4> HIDE DEF S
      <4>3. QED
        BY <2>2, <3>1, <4>1, <4>2
    <3>3. CASE S # {}
      <4>1. c <= calls /\ told[c] = 0 /\ \E f \in Files : \A g \in Files : c \in callers[g] <=> g = f
        BY <2>1, <2>2, <3>3 DEF ToldOrWaits
      <4>2. PICK f \in Files : S = {f}
        BY <4>1
      <4>3. Cardinality(S) = 1
        BY <4>2, FS_Singleton
      <4> HIDE DEF S
      <4>4. QED
        BY <3>1, <4>1, <4>3
    <3>4. QED
      BY <3>2, <3>3
  <2>4. \A f \in Files : callers[f] # {} =>
          cache[f] = "promise" /\ (f \in loading \/ Scripts!Contains(queue, f))
    <3>1. queue \in Seq(Files)
      BY <2>1, <2>2 DEF Pages
    <3>2. \A f : f \in Elements(queue) => Scripts!Contains(queue, f)
      BY <3>1, Listed DEF Scripts!Contains
    <3>3. QED
      BY <2>1, <2>2, <3>2 DEF WillSettle
  <2>5. queue # <<>> /\ ~broken => loading # {}
    BY <2>1, <2>2 DEF Queues, GoesOn
  <2>6. \A i, j \in 1 .. Len(early) :
          i < j /\ def[early[i]].order /\ def[early[j]].order /\ Scripts!Fetched(early[j])
          => Scripts!Fetched(early[i])
    BY <2>1, <2>2 DEF InOrder, Gone, Scripts!Fetched
  <2>7. QED
    BY <2>3, <2>4, <2>5, <2>6 DEF Scripts!ScriptsTold
<1>3. QED
  BY <1>1, <1>2, ScriptsKept, PTL DEF Scripts!Spec

-----------------------------------------------------------------------------
(* DomReady.  What is given to be called when the document is ready.          *)
Dom == INSTANCE DomReady

(* A callback waits or has been called, not both; while the document is not ready *)
(* none has and the timer runs; when it is, none waits but where one threw.      *)
DomInv ==
  /\ called \in Seq(Nat) /\ callbacks \in Seq(Nat) /\ given \in Nat
  /\ Distinct(called) /\ Distinct(callbacks) /\ Elements(called) \cap Elements(callbacks) = {}
  /\ Elements(called) \cup Elements(callbacks) = 1 .. given
  /\ completed => Dom!Manipulable(readyState, body)
  /\ completed /\ ~threw => callbacks = <<>>
  /\ ~completed => called = <<>> /\ timer

(* Those that were before the one that threw, with one given meanwhile.        *)
LEMMA CallsSome ==
  ASSUME given \in Nat, NEW s \in Seq(Nat), Distinct(s), Elements(s) \subseteq 1 .. given,
         NEW thrower \in 0 .. Len(s), NEW giver \in 0 .. Len(s)
  PROVE  LET last == IF thrower = 0 THEN Len(s) ELSE thrower
             now == Dom!Called(s, thrower, giver)
         IN  /\ now \in Seq(Nat) /\ Distinct(now)
             /\ \/ Elements(now) = Elements(Fore(s, last))
                \/ Elements(now) = Elements(Fore(s, last)) \cup {given + 1}
<1> DEFINE last == IF thrower = 0 THEN Len(s) ELSE thrower
           run == Fore(s, last)
           now == Dom!Called(s, thrower, giver)
<1>1. Len(s) \in Nat /\ last \in 0 .. Len(s)
  BY LenProperties
<1>2. run \in Seq(Nat) /\ Distinct(run) /\ Len(run) = last /\ Elements(run) \subseteq Elements(s)
  <2> HIDE DEF last
  <2>1. QED
    BY <1>1, Halved
<1>3. CASE giver \in 1 .. last /\ given < MaxCallbacks
  <2> DEFINE u == Fore(run, giver)
             v == Rear(run, giver)
             t == <<given + 1>>
             w == u \o t
  <2>1. now = w \o v
    BY <1>2, <1>3 DEF Dom!Called, Fore, Rear
  <2>2. giver \in 0 .. Len(run)
    BY <1>2, <1>3
  <2> HIDE DEF run
  <2>3. /\ u \in Seq(Nat) /\ v \in Seq(Nat) /\ Elements(run) = Elements(u) \cup Elements(v)
        /\ Distinct(u) /\ Distinct(v) /\ Elements(u) \cap Elements(v) = {}
    BY <1>2, <2>2, Halved, ZenonT(60)
  <2>4. given + 1 \in Nat /\ given + 1 \notin Elements(run)
    BY <1>2
  <2>5. t \in Seq(Nat) /\ Elements(t) = {given + 1} /\ Distinct(t)
    BY <2>4 DEF Elements, Distinct
  <2> HIDE DEF u, v, t
  <2>6. w \in Seq(Nat) /\ Elements(w) = Elements(u) \cup {given + 1} /\ Distinct(w)
    <3>1. Elements(u) \cap Elements(t) = {}
      BY <2>3, <2>4, <2>5
    <3>2. w \in Seq(Nat) /\ Elements(w) = Elements(u) \cup Elements(t) /\ Distinct(w)
      BY <2>3, <2>5, <3>1, Joined
    <3>3. QED
      BY <2>5, <3>2
  <2> HIDE DEF w
  <2>7. Elements(w) \cap Elements(v) = {}
    BY <2>3, <2>4, <2>6
  <2>8. w \o v \in Seq(Nat) /\ Elements(w \o v) = Elements(w) \cup Elements(v) /\ Distinct(w \o v)
    BY <2>3, <2>6, <2>7, Joined
  <2> HIDE DEF now, last
  <2>9. now \in Seq(Nat) /\ Distinct(now) /\ Elements(now) = Elements(run) \cup {given + 1}
    BY <2>1, <2>3, <2>6, <2>8
  <2>10. QED
    BY <2>9 DEF now, run, last
<1>4. CASE ~(giver \in 1 .. last /\ given < MaxCallbacks)
  <2>1. now = run
    BY <1>4 DEF Dom!Called, Fore
  <2> HIDE DEF now, run, last
  <2>2. now \in Seq(Nat) /\ Distinct(now) /\ Elements(now) = Elements(run)
    BY <1>2, <2>1
  <2>3. QED
    BY <2>2 DEF now, run, last
<1>5. QED
  BY <1>3, <1>4

LEMMA ReadyKept ==
  ASSUME DomInv, ~completed, Dom!Manipulable(readyState, body), UNCHANGED <<readyState, body>>,
         Dom!Ready
  PROVE  DomInv'
<1>1. PICK thrower \in 0 .. Len(callbacks), giver \in 0 .. Len(callbacks) :
        LET now == Dom!Called(callbacks, thrower, giver)
        IN  /\ called' = called \o now
            /\ callbacks' = IF thrower = 0 THEN <<>> ELSE SubSeq(callbacks, thrower + 1, Len(callbacks))
            /\ threw' = (thrower # 0)
            /\ given' = IF given + 1 \in Dom!ToSet(now) THEN given + 1 ELSE given
  BY DEF Dom!Ready
<1> DEFINE last == IF thrower = 0 THEN Len(callbacks) ELSE thrower
           now == Dom!Called(callbacks, thrower, giver)
           run == Elements(Fore(callbacks, last))
           rest == Rear(callbacks, last)
<1>2. /\ callbacks \in Seq(Nat) /\ Distinct(callbacks) /\ Elements(callbacks) = 1 .. given
      /\ given \in Nat /\ called = <<>>
  <2>1. called = <<>> /\ Elements(<<>>) = {}
    BY DEF DomInv, Elements
  <2>2. QED
    BY <2>1 DEF DomInv
<1>3. Len(callbacks) \in Nat /\ last \in 0 .. Len(callbacks)
  BY <1>2, LenProperties
<1>4. /\ rest \in Seq(Nat) /\ Distinct(rest) /\ Elements(callbacks) = run \cup Elements(rest)
      /\ run \cap Elements(rest) = {} /\ Len(rest) = Len(callbacks) - last
  <2> DEFINE k == last
  <2> HIDE DEF last
  <2>1. callbacks \in Seq(Nat) /\ Distinct(callbacks)
    BY <1>2
  <2>2. /\ Rear(callbacks, k) \in Seq(Nat) /\ Len(Rear(callbacks, k)) = Len(callbacks) - k
        /\ Elements(callbacks) = Elements(Fore(callbacks, k)) \cup Elements(Rear(callbacks, k))
    BY <1>3, <2>1, Halved
  <2>3. /\ Distinct(Rear(callbacks, k))
        /\ Elements(Fore(callbacks, k)) \cap Elements(Rear(callbacks, k)) = {}
    BY <1>3, <2>1, Halved
  <2>4. QED
    BY <2>2, <2>3
<1>5. callbacks' = rest
  <2>1. CASE thrower = 0
    <3>1. Len(rest) = 0
      BY <1>3, <1>4, <2>1
    <3>2. rest = <<>>
      <4> HIDE DEF rest
      <4>1. QED
        BY <1>4, <3>1, EmptySeq
    <3>3. QED
      BY <1>1, <2>1, <3>2
  <2>2. CASE thrower # 0
    BY <1>1, <2>2 DEF Rear
  <2>3. QED
    BY <2>1, <2>2
<1>6. now \in Seq(Nat) /\ Distinct(now) /\ (Elements(now) = run \/ Elements(now) = run \cup {given + 1})
  BY <1>2, CallsSome
<1>7. called' = called \o now /\ given' = IF given + 1 \in Elements(now) THEN given + 1 ELSE given
  BY <1>1 DEF Dom!ToSet, Elements
<1> HIDE DEF now, run, rest, last
<1>8. called' \in Seq(Nat) /\ Distinct(called') /\ Elements(called') = Elements(now)
  <2>1. <<>> \in Seq(Nat) /\ Elements(<<>>) = {} /\ Distinct(<<>>)
    BY EmptySeq DEF Elements, Distinct
  <2>2. Elements(<<>>) \cap Elements(now) = {}
    BY <2>1
  <2>3. /\ <<>> \o now \in Seq(Nat) /\ Distinct(<<>> \o now)
        /\ Elements(<<>> \o now) = Elements(<<>>) \cup Elements(now)
    BY <1>6, <2>1, <2>2, Joined
  <2>4. called' = <<>> \o now
    BY <1>2, <1>7
  <2>5. QED
    BY <2>1, <2>3, <2>4
<1>9. given + 1 \notin run /\ given + 1 \notin Elements(rest)
  BY <1>2, <1>4
<1>10. /\ Elements(called') \cap Elements(callbacks') = {}
       /\ Elements(called') \cup Elements(callbacks') = 1 .. given' /\ given' \in Nat
  BY <1>2, <1>4, <1>5, <1>6, <1>7, <1>8, <1>9
<1>11. completed' /\ (~threw' => callbacks' = <<>>)
  BY <1>1 DEF Dom!Ready
<1>12. Dom!Manipulable(readyState, body)'
  BY DEF Dom!Manipulable
<1>13. QED
  BY <1>4, <1>5, <1>8, <1>10, <1>11, <1>12 DEF DomInv

LEMMA DomKept == DomInv /\ [Dom!Next]_(Dom!vars) => DomInv'
<1> SUFFICES ASSUME DomInv, [Dom!Next]_(Dom!vars) PROVE DomInv'
  OBVIOUS
<1>1. CASE Dom!DocumentMoves \/ Dom!BodyComes \/ UNCHANGED Dom!vars
  <2>1. /\ UNCHANGED <<completed, timer, callbacks, given, called, threw>>
        /\ Dom!Manipulable(readyState, body) => Dom!Manipulable(readyState, body)'
    BY <1>1 DEF Dom!DocumentMoves, Dom!BodyComes, Dom!vars, Dom!Manipulable
  <2>2. QED
    BY <2>1 DEF DomInv
<1>2. CASE Dom!Event \/ Dom!Poller
  <2>1. UNCHANGED <<readyState, body>>
    BY <1>2 DEF Dom!Event, Dom!Poller
  <2>2. CASE ~completed /\ Dom!Manipulable(readyState, body)
    <3>1. Dom!Ready
      BY <1>2, <2>2 DEF Dom!Event, Dom!Poller, Dom!CheckDOMReady
    <3>2. QED
      BY <2>1, <2>2, <3>1, ReadyKept
  <2>3. CASE ~(~completed /\ Dom!Manipulable(readyState, body))
    <3>1. UNCHANGED <<completed, timer, callbacks, given, called, threw>>
      BY <1>2, <2>3 DEF Dom!Event, Dom!Poller, Dom!CheckDOMReady
    <3>2. QED
      BY <2>1, <3>1 DEF DomInv, Dom!Manipulable
  <2>4. QED
    BY <2>2, <2>3
<1>3. CASE Dom!DomReady
  <2>1. /\ given' = given + 1 /\ given \in Nat /\ called \in Seq(Nat) /\ callbacks \in Seq(Nat)
        /\ UNCHANGED <<readyState, body, completed, timer, threw>>
        /\ given + 1 \notin Elements(called) /\ given + 1 \notin Elements(callbacks)
    BY <1>3 DEF DomInv, Dom!DomReady
  <2>2. given + 1 \in Nat /\ 1 .. given + 1 = (1 .. given) \cup {given + 1}
    BY <2>1
  <2>3. CASE completed
    <3>1. called' = Append(called, given + 1) /\ callbacks' = callbacks
      BY <1>3, <2>3 DEF Dom!DomReady, Dom!AtOnce
    <3>2. called' \in Seq(Nat) /\ Elements(called') = Elements(called) \cup {given + 1} /\ Distinct(called')
      BY <2>1, <2>2, <3>1, Appended DEF DomInv
    <3>3. QED
      BY <2>1, <2>2, <2>3, <3>1, <3>2 DEF DomInv, Dom!Manipulable
  <2>4. CASE ~completed
    <3>1. callbacks' = Append(callbacks, given + 1) /\ called' = called
      BY <1>3, <2>4 DEF Dom!DomReady, Dom!AtOnce
    <3>2. /\ callbacks' \in Seq(Nat) /\ Elements(callbacks') = Elements(callbacks) \cup {given + 1}
          /\ Distinct(callbacks')
      BY <2>1, <2>2, <3>1, Appended DEF DomInv
    <3>3. QED
      BY <2>1, <2>2, <2>4, <3>1, <3>2 DEF DomInv
  <2>5. QED
    BY <2>3, <2>4
<1>4. QED
  BY <1>1, <1>2, <1>3 DEF Dom!Next

(* CalledOnce: no callback given to domReady is called before the document is ready, or twice; *)
(* once it is ready every one has been, unless one of those that waited threw; and until     *)
(* then the timer looks; for any number of callbacks, one of which may give another.        *)
THEOREM ReadyCallsOnce == Dom!Spec => []Dom!CalledOnce
<1>1. Dom!Init => DomInv
  <2> SUFFICES ASSUME Dom!Init PROVE DomInv
    OBVIOUS
  <2>1. called = <<>> /\ callbacks = <<>> /\ given = 0 /\ <<>> \in Seq(Nat)
    BY EmptySeq DEF Dom!Init
  <2>2. Elements(<<>>) = {} /\ Distinct(<<>>) /\ 1 .. 0 = {}
    BY EmptySeq DEF Elements, Distinct
  <2>3. completed = Dom!Manipulable(readyState, body) /\ timer = ~completed
    BY DEF Dom!Init
  <2>4. completed => Dom!Manipulable(readyState, body)
    BY <2>3
  <2>5. ~completed => timer
    BY <2>3
  <2>6. QED
    BY <2>1, <2>2, <2>4, <2>5 DEF DomInv
<1>2. DomInv => Dom!CalledOnce
  <2> SUFFICES ASSUME DomInv PROVE Dom!CalledOnce
    OBVIOUS
  <2>1. Dom!ToSet(called) = Elements(called) /\ Dom!ToSet(callbacks) = Elements(callbacks)
    BY DEF Dom!ToSet, Elements
  <2>2. Dom!IsInjective(called)
    <3>1. DOMAIN called = 1 .. Len(called)
      BY LenProperties DEF DomInv
    <3>2. QED
      BY <3>1 DEF Dom!IsInjective, DomInv, Distinct
  <2>3. completed /\ ~threw => Elements(called) = 1 .. given
    <3>1. Elements(<<>>) = {}
      BY DEF Elements
    <3>2. QED
      BY <3>1 DEF DomInv
  <2>4. QED
    BY <2>1, <2>2, <2>3 DEF DomInv, Dom!CalledOnce
<1>3. QED
  BY <1>1, <1>2, DomKept, PTL DEF Dom!Spec

-----------------------------------------------------------------------------
(* GuardedWork.  Callers of a guarded function, which lets a number of them in. *)
Guard == INSTANCE GuardedWork
AllowedAssumed == Allowed \in Nat

(* Who is in is counted once and so is who waits; who waits is in the queue    *)
(* once; and what a caller was told is what came of its work, or the timeout.   *)
Inside == {c \in Callers : at[c] \in {"entered", "working", "thrown"}}
GuardTypes ==
  /\ at \in [Callers -> {"idle", "waiting", "entered", "working", "thrown", "left"}]
  /\ waiting \in Seq(Callers) /\ count \in Nat /\ IsFiniteSet(Inside)
  /\ settled \in [Callers -> {"none", "fulfilled", "rejected"}]
  /\ outcome \in [Callers -> {"none", "fulfilled", "rejected", "timedOut"}]
Counted ==
  /\ Cardinality(Inside) <= Allowed /\ count = Cardinality(Inside) + Len(waiting)
  /\ waiting # <<>> => Cardinality(Inside) = Allowed
InQueue ==
  /\ \A i \in 1 .. Len(waiting) : at[waiting[i]] = "waiting"
  /\ \A i, j \in 1 .. Len(waiting) : waiting[i] = waiting[j] => i = j
  /\ \A c \in Callers : at[c] = "waiting" => \E i \in 1 .. Len(waiting) : waiting[i] = c
ToldOf(c) ==
  /\ settled[c] # "none" => at[c] \in {"thrown", "left"}
  /\ at[c] = "idle" => outcome[c] = "none"
  /\ (c \in timer) = (at[c] # "idle" /\ outcome[c] = "none")
  /\ outcome[c] \in {"none", "timedOut", settled[c]}
GuardInv == GuardTypes /\ Counted /\ InQueue /\ \A c \in Callers : ToldOf(c)

LEMMA QueueKept ==
  ASSUME UNCHANGED waiting, InQueue,
         \A c \in Callers : (at'[c] = "waiting") = (at[c] = "waiting"),
         waiting \in Seq(Callers)
  PROVE  InQueue'
<1>1. \A i \in 1 .. Len(waiting) : waiting[i] \in Callers
  BY ElementOfSeq
<1>2. QED
  BY <1>1 DEF InQueue

LEMMA Enters ==
  ASSUME AllowedAssumed, GuardInv, NEW c \in Callers, Guard!Enter(c)
  PROVE  GuardInv'
<1>1. /\ at[c] = "idle" /\ timer' = timer \cup {c} /\ count' = count + 1
      /\ settled' = settled /\ outcome' = outcome /\ GuardTypes /\ Counted /\ InQueue
      /\ Len(waiting) \in Nat /\ Cardinality(Inside) \in Nat /\ c \notin Inside
  BY FS_CardinalityType, LenProperties DEF GuardInv, GuardTypes, Guard!Enter, Inside
<1>2. \A d \in Callers : ToldOf(d)'
  <2> TAKE d \in Callers
  <2>1. ToldOf(d) /\ at' \in [Callers -> {"idle", "waiting", "entered", "working", "thrown", "left"}]
    BY <1>1 DEF GuardInv, GuardTypes, Guard!Enter
  <2>2. CASE d = c
    <3>1. at'[c] \in {"entered", "waiting"} /\ settled[c] = "none" /\ outcome[c] = "none"
      BY <1>1, <2>1, <2>2 DEF ToldOf, GuardTypes, Guard!Enter
    <3>2. QED
      BY <1>1, <2>2, <3>1 DEF ToldOf
  <2>3. CASE d # c
    <3>1. at'[d] = at[d]
      BY <1>1, <2>3 DEF GuardTypes, Guard!Enter
    <3>2. QED
      BY <1>1, <2>1, <2>3, <3>1 DEF ToldOf
  <2>4. QED
    BY <2>2, <2>3
<1>3. CASE count < Allowed
  <2>1. at' = [at EXCEPT ![c] = "entered"] /\ waiting' = waiting
    BY <1>3 DEF Guard!Enter
  <2>2. Inside' = Inside \cup {c}
    BY <1>1, <2>1 DEF Inside, GuardTypes
  <2>3. IsFiniteSet(Inside') /\ Cardinality(Inside') = Cardinality(Inside) + 1
    BY <1>1, <2>2, FS_AddElement DEF GuardTypes
  <2>4. waiting = <<>> /\ Len(waiting) = 0
    BY <1>1, <1>3, EmptySeq DEF Counted, AllowedAssumed
  <2>5. Counted'
    BY <1>1, <1>3, <2>1, <2>3, <2>4 DEF Counted, AllowedAssumed
  <2>6. InQueue'
    BY <1>1, <2>1, QueueKept DEF GuardTypes
  <2>7. GuardTypes'
    BY <1>1, <2>1, <2>3 DEF GuardTypes
  <2>8. QED
    BY <1>2, <2>5, <2>6, <2>7 DEF GuardInv
<1>4. CASE ~(count < Allowed)
  <2>1. at' = [at EXCEPT ![c] = "waiting"] /\ waiting' = Append(waiting, c)
    BY <1>4 DEF Guard!Enter
  <2>2. /\ waiting' \in Seq(Callers) /\ Len(waiting') = Len(waiting) + 1
        /\ waiting'[Len(waiting) + 1] = c /\ \A i \in 1 .. Len(waiting) : waiting'[i] = waiting[i]
    BY <1>1, <2>1, AppendProperties DEF GuardTypes
  <2>3. Inside' = Inside
    BY <1>1, <2>1 DEF Inside, GuardTypes
  <2>4. Cardinality(Inside) = Allowed
    <3>1. waiting = <<>> => Len(waiting) = 0
      BY EmptySeq
    <3>2. QED
      BY <1>1, <1>4, <3>1 DEF Counted, AllowedAssumed
  <2>5. Counted'
    BY <1>1, <2>2, <2>3, <2>4 DEF Counted, AllowedAssumed
  <2>6. InQueue'
    <3>1. \A i \in 1 .. Len(waiting) : waiting[i] \in Callers /\ waiting[i] # c
      BY <1>1, ElementOfSeq DEF InQueue, GuardTypes
    <3>2. /\ \A d \in Callers : d # c => at'[d] = at[d]
          /\ at'[c] = "waiting"
      BY <1>1, <2>1 DEF GuardTypes
    <3>3. \A i \in 1 .. Len(waiting') : i \in 1 .. Len(waiting) \/ i = Len(waiting) + 1
      BY <1>1, <2>2
    <3>4. \A i \in 1 .. Len(waiting') : at'[waiting'[i]] = "waiting"
      <4>1. \A i \in 1 .. Len(waiting) : at'[waiting'[i]] = "waiting"
        BY <1>1, <2>2, <3>1, <3>2 DEF InQueue
      <4>2. QED
        BY <2>2, <3>2, <3>3, <4>1
    <3>5. \A i, j \in 1 .. Len(waiting') : waiting'[i] = waiting'[j] => i = j
      <4>1. \A i, j \in 1 .. Len(waiting) : waiting'[i] = waiting'[j] => i = j
        BY <1>1, <2>2 DEF InQueue
      <4>2. QED
        BY <2>2, <3>1, <3>3, <4>1
    <3>6. \A d \in Callers : at'[d] = "waiting" => \E i \in 1 .. Len(waiting') : waiting'[i] = d
      <4> TAKE d \in Callers
      <4> HAVE at'[d] = "waiting"
      <4>1. CASE d = c
        BY <1>1, <2>2, <4>1
      <4>2. CASE d # c
        <5>1. PICK i \in 1 .. Len(waiting) : waiting[i] = d
          BY <1>1, <3>2, <4>2 DEF InQueue
        <5>2. i \in 1 .. Len(waiting') /\ waiting'[i] = d
          BY <1>1, <2>2, <5>1
        <5>3. QED
          BY <5>2
      <4>3. QED
        BY <4>1, <4>2
    <3>7. QED
      BY <3>4, <3>5, <3>6 DEF InQueue
  <2>7. GuardTypes'
    BY <1>1, <2>1, <2>2, <2>3 DEF GuardTypes
  <2>8. QED
    BY <1>2, <2>5, <2>6, <2>7 DEF GuardInv
<1>5. QED
  BY <1>3, <1>4

LEMMA Finishes ==
  ASSUME AllowedAssumed, GuardInv, NEW c \in Callers, NEW how \in {"fulfilled", "rejected"},
         Guard!Finish(c, how)
  PROVE  GuardInv'
<1>1. /\ at[c] = "working" /\ settled' = [settled EXCEPT ![c] = how] /\ timer' = timer
      /\ outcome' = outcome /\ GuardTypes /\ Counted /\ InQueue /\ c \in Inside
      /\ Len(waiting) \in Nat /\ Cardinality(Inside) \in Nat
  BY FS_CardinalityType, LenProperties DEF GuardInv, GuardTypes, Guard!Finish, Inside
<1>2. /\ IsFiniteSet(Inside \ {c}) /\ Cardinality(Inside \ {c}) = Cardinality(Inside) - 1
      /\ Cardinality(Inside \ {c}) \in Nat
  BY <1>1, FS_RemoveElement, FS_CardinalityType DEF GuardTypes
<1>3. count > 0 /\ count' = count - 1 /\ count' \in Nat
  BY <1>1, <1>2 DEF Counted, Guard!Finish, Guard!Counted
<1>4. settled' \in [Callers -> {"none", "fulfilled", "rejected"}]
  BY <1>1 DEF GuardTypes
<1>5. ASSUME at' \in [Callers -> {"idle", "waiting", "entered", "working", "thrown", "left"}],
             at'[c] = "left",
             \A d \in Callers : d # c => at'[d] = at[d] \/ (at[d] = "waiting" /\ at'[d] = "entered")
      PROVE  \A d \in Callers : ToldOf(d)'
  <2> TAKE d \in Callers
  <2>1. ToldOf(d)
    BY DEF GuardInv
  <2>2. CASE d = c
    <3>1. settled[c] = "none" /\ settled'[c] = how
      BY <1>1, <2>1, <2>2 DEF ToldOf, GuardTypes
    <3>2. QED
      BY <1>1, <1>5, <2>1, <2>2, <3>1 DEF ToldOf
  <2>3. CASE d # c
    <3>1. settled'[d] = settled[d]
      BY <1>1, <2>3 DEF GuardTypes
    <3>2. QED
      BY <1>1, <1>5, <2>1, <2>3, <3>1 DEF ToldOf
  <2>4. QED
    BY <2>2, <2>3
<1>6. CASE waiting = <<>>
  <2>1. at' = [at EXCEPT ![c] = "left"] /\ waiting' = waiting
    BY <1>6 DEF Guard!Finish
  <2>2. Inside' = Inside \ {c}
    BY <1>1, <2>1 DEF Inside, GuardTypes
  <2>3. Counted'
    BY <1>1, <1>2, <1>3, <1>6, <2>1, <2>2 DEF Counted, AllowedAssumed
  <2>4. at' \in [Callers -> {"idle", "waiting", "entered", "working", "thrown", "left"}]
    BY <1>1, <2>1 DEF GuardTypes
  <2>5. at'[c] = "left" /\ \A d \in Callers : d # c => at'[d] = at[d]
    BY <1>1, <2>1 DEF GuardTypes
  <2>6. InQueue'
    BY <1>1, <2>1, <2>5, QueueKept DEF GuardTypes
  <2>7. GuardTypes'
    BY <1>1, <1>2, <1>3, <1>4, <2>1, <2>2, <2>4 DEF GuardTypes
  <2>8. QED
    BY <1>5, <2>3, <2>4, <2>5, <2>6, <2>7 DEF GuardInv
<1>7. CASE waiting # <<>>
  <2> DEFINE b == Head(waiting)
  <2>1. at' = [at EXCEPT ![c] = "left", ![b] = "entered"] /\ waiting' = Tail(waiting)
    BY <1>7 DEF Guard!Finish
  <2>2. /\ waiting' \in Seq(Callers) /\ Len(waiting') = Len(waiting) - 1 /\ b = waiting[1]
        /\ Len(waiting) >= 1
    BY <1>1, <1>7, <2>1, HeadTailProperties, EmptySeq DEF GuardTypes
  <2>3. \A i \in 1 .. Len(waiting') : i + 1 \in 1 .. Len(waiting) /\ waiting'[i] = waiting[i + 1]
    BY <1>1, <1>7, <2>1, <2>2, HeadTailProperties DEF GuardTypes
  <2>4. b \in Callers /\ at[b] = "waiting" /\ b # c
    <3>1. b \in Callers
      BY <1>1, <2>2, ElementOfSeq DEF GuardTypes
    <3>2. QED
      BY <1>1, <2>2, <3>1 DEF InQueue
  <2> HIDE DEF b
  <2>5. /\ at' \in [Callers -> {"idle", "waiting", "entered", "working", "thrown", "left"}]
        /\ at'[c] = "left" /\ at'[b] = "entered"
        /\ \A d \in Callers : d # c /\ d # b => at'[d] = at[d]
    BY <1>1, <2>1, <2>4 DEF GuardTypes
  <2>6. Inside' = (Inside \ {c}) \cup {b} /\ b \notin Inside \ {c}
    BY <1>1, <2>4, <2>5 DEF Inside
  <2>7. IsFiniteSet(Inside') /\ Cardinality(Inside') = Cardinality(Inside)
    <3> DEFINE others == Inside \ {c}
    <3>1. IsFiniteSet(others) /\ Inside' = others \cup {b} /\ b \notin others
      BY <1>2, <2>6
    <3>2. Cardinality(others) = Cardinality(Inside) - 1
      BY <1>2
    <3> HIDE DEF others
    <3>3. /\ IsFiniteSet(others \cup {b})
          /\ Cardinality(others \cup {b}) = Cardinality(others) + 1
      BY <3>1, FS_AddElement
    <3>4. QED
      BY <1>1, <3>1, <3>2, <3>3
  <2>8. Counted'
    BY <1>1, <1>3, <1>7, <2>2, <2>7 DEF Counted, AllowedAssumed
  <2>9. InQueue'
    <3>1. \A i \in 1 .. Len(waiting') : waiting'[i] # b
      <4>1. \A i \in 1 .. Len(waiting') : 1 \in 1 .. Len(waiting) /\ i + 1 # 1
        BY <1>1, <2>2
      <4>2. \A i, j \in 1 .. Len(waiting) : waiting[i] = waiting[j] => i = j
        BY <1>1 DEF InQueue
      <4>3. QED
        BY <2>2, <2>3, <4>1, <4>2
    <3>2. \A i \in 1 .. Len(waiting') : at[waiting'[i]] = "waiting" /\ waiting'[i] # c /\ waiting'[i] \in Callers
      BY <1>1, <2>2, <2>3, ElementOfSeq DEF InQueue
    <3>3. \A i \in 1 .. Len(waiting') : at'[waiting'[i]] = "waiting"
      BY <2>5, <3>1, <3>2
    <3>4. ASSUME NEW i \in 1 .. Len(waiting'), NEW j \in 1 .. Len(waiting'),
                 waiting'[i] = waiting'[j]
          PROVE  i = j
      <4>1. waiting[i + 1] = waiting[j + 1] /\ i + 1 \in 1 .. Len(waiting) /\ j + 1 \in 1 .. Len(waiting)
        BY <2>3, <3>4
      <4>2. i + 1 = j + 1
        BY <1>1, <4>1 DEF InQueue
      <4>3. i \in Int /\ j \in Int
        OBVIOUS
      <4>4. QED
        BY <4>2, <4>3
    <3>5. \A d \in Callers : at'[d] = "waiting" => \E i \in 1 .. Len(waiting') : waiting'[i] = d
      <4> TAKE d \in Callers
      <4> HAVE at'[d] = "waiting"
      <4>1. d # b /\ at[d] = "waiting"
        BY <2>5
      <4>2. PICK i \in 1 .. Len(waiting) : waiting[i] = d
        BY <1>1, <4>1 DEF InQueue
      <4>3. i # 1 /\ i - 1 \in 1 .. Len(waiting') /\ (i - 1) + 1 = i
        BY <1>1, <2>2, <4>1, <4>2
      <4>4. QED
        BY <2>3, <4>2, <4>3
    <3>6. QED
      BY <3>3, <3>4, <3>5 DEF InQueue
  <2>10. GuardTypes'
    BY <1>1, <1>3, <1>4, <2>2, <2>5, <2>7 DEF GuardTypes
  <2>11. QED
    BY <1>5, <2>4, <2>5, <2>8, <2>9, <2>10 DEF GuardInv
<1>8. QED
  BY <1>6, <1>7

LEMMA GuardHolds == AllowedAssumed /\ GuardInv /\ [Guard!Next]_(Guard!vars) => GuardInv'
<1> SUFFICES ASSUME AllowedAssumed, GuardInv, [Guard!Next]_(Guard!vars) PROVE GuardInv'
  OBVIOUS
<1>1. ASSUME NEW c \in Callers, Guard!Begin(c) \/ Guard!Throw(c)
      PROVE  GuardInv'
  <2>1. /\ at[c] = "entered" /\ count' = count /\ waiting' = waiting /\ timer' = timer
        /\ outcome' = outcome /\ GuardTypes /\ Counted /\ InQueue
    BY <1>1 DEF GuardInv, Guard!Begin, Guard!Throw
  <2>2. /\ at' \in [Callers -> {"idle", "waiting", "entered", "working", "thrown", "left"}]
        /\ at'[c] \in {"working", "thrown"} /\ \A d \in Callers : d # c => at'[d] = at[d]
    BY <1>1, <2>1 DEF GuardTypes, Guard!Begin, Guard!Throw
  <2>3. /\ settled' \in [Callers -> {"none", "fulfilled", "rejected"}]
        /\ \A d \in Callers : d # c => settled'[d] = settled[d]
        /\ settled'[c] # settled[c] => at'[c] = "thrown"
    BY <1>1, <2>1, <2>2 DEF GuardTypes, Guard!Begin, Guard!Throw
  <2>4. Inside' = Inside
    BY <2>1, <2>2 DEF Inside
  <2>5. InQueue'
    BY <2>1, <2>2, QueueKept DEF GuardTypes
  <2>6. GuardTypes' /\ Counted'
    BY <2>1, <2>2, <2>3, <2>4 DEF GuardTypes, Counted
  <2>7. ASSUME NEW d \in Callers PROVE ToldOf(d)'
    <3>1. ToldOf(d) /\ ToldOf(c)
      BY DEF GuardInv
    <3>2. CASE d = c
      <4>1. settled[c] = "none" /\ outcome[c] \in {"none", "timedOut"}
        BY <2>1, <3>1 DEF ToldOf
      <4>2. QED
        BY <2>1, <2>2, <2>3, <3>1, <3>2, <4>1 DEF ToldOf
    <3>3. CASE d # c
      BY <2>1, <2>2, <2>3, <3>1, <3>3 DEF ToldOf
    <3>4. QED
      BY <3>2, <3>3
  <2>8. QED
    BY <2>5, <2>6, <2>7 DEF GuardInv
<1>2. ASSUME NEW c \in Callers, Guard!Answer(c) \/ Guard!OnTimeout(c)
      PROVE  GuardInv'
  <2>1. /\ at' = at /\ count' = count /\ waiting' = waiting /\ settled' = settled
        /\ GuardTypes /\ Counted /\ InQueue /\ timer' = timer \ {c}
    BY <1>2 DEF GuardInv, Guard!Answer, Guard!OnTimeout
  <2>2. /\ outcome' \in [Callers -> {"none", "fulfilled", "rejected", "timedOut"}]
        /\ \A d \in Callers : d # c => outcome'[d] = outcome[d]
        /\ outcome'[c] # "none" /\ outcome'[c] \in {"timedOut", settled[c], outcome[c]}
    BY <1>2, <2>1 DEF GuardTypes, Guard!Answer, Guard!OnTimeout
  <2>3. \A d \in Callers : ToldOf(d)'
    <3>1. at[c] # "idle"
      BY <1>2 DEF GuardInv, ToldOf, Guard!Answer, Guard!OnTimeout
    <3>2. QED
      BY <2>1, <2>2, <3>1 DEF GuardInv, ToldOf
  <2>4. GuardTypes' /\ Counted' /\ InQueue'
    BY <2>1, <2>2 DEF GuardTypes, Counted, InQueue, Inside
  <2>5. QED
    BY <2>3, <2>4 DEF GuardInv
<1>3. CASE UNCHANGED Guard!vars
  BY <1>3 DEF Guard!vars, GuardInv, GuardTypes, Counted, InQueue, Inside, ToldOf
<1>4. QED
  BY <1>1, <1>2, <1>3, Enters, Finishes DEF Guard!Next

(* GuardKept: the guard of when lets no more callers in than it allows, however many call, *)
(* and counts them; nobody waits while there is a place; a caller in the queue is there       *)
(* once; a timer is left only for a caller that was not told, and it is told what came of   *)
(* its work or that the time was up, whichever came first.                             *)
THEOREM GuardKeepsCount ==
  ASSUME AllowedAssumed
  PROVE  Guard!Spec => []Guard!GuardKept
<1>1. Guard!Init => GuardInv
  <2> SUFFICES ASSUME Guard!Init PROVE GuardInv
    OBVIOUS
  <2>1. Inside = {} /\ IsFiniteSet(Inside) /\ Cardinality(Inside) = 0
    BY FS_EmptySet DEF Guard!Init, Inside
  <2>2. waiting \in Seq(Callers) /\ Len(waiting) = 0 /\ waiting = <<>>
    BY EmptySeq DEF Guard!Init
  <2>3. GuardTypes
    BY <2>1, <2>2 DEF Guard!Init, GuardTypes
  <2>4. Counted
    BY <2>1, <2>2 DEF Guard!Init, Counted, AllowedAssumed
  <2>5. InQueue
    BY <2>2 DEF Guard!Init, InQueue
  <2>6. \A c \in Callers : ToldOf(c)
    BY DEF Guard!Init, ToldOf
  <2>7. QED
    BY <2>3, <2>4, <2>5, <2>6 DEF GuardInv
<1>2. GuardInv => Guard!GuardKept
  <2> SUFFICES ASSUME GuardInv PROVE Guard!GuardKept
    OBVIOUS
  <2>1. Guard!At({"entered", "working", "thrown"}) = Inside
    BY DEF Guard!At, Inside
  <2>2. \A S : Guard!Cardinality(S) = Cardinality(S)
    BY DEF Guard!Cardinality, Cardinality
  <2>3. Guard!ToSet(waiting) = Guard!At({"waiting"})
    <3>1. DOMAIN waiting = 1 .. Len(waiting) /\ \A i \in 1 .. Len(waiting) : waiting[i] \in Callers
      BY LenProperties, ElementOfSeq DEF GuardInv, GuardTypes
    <3>2. QED
      BY <3>1 DEF Guard!ToSet, Guard!At, GuardInv, InQueue
  <2>4. \A c \in Callers : /\ (c \in timer) = (at[c] # "idle" /\ outcome[c] = "none")
                           /\ outcome[c] \in {"none", "timedOut", settled[c]}
    BY DEF GuardInv, ToldOf
  <2>5. QED
    BY <2>1, <2>2, <2>3, <2>4 DEF Guard!GuardKept, GuardInv, Counted
<1>3. GuardInv /\ [Guard!Next]_(Guard!vars) => GuardInv'
  BY GuardHolds
<1>4. QED
  BY <1>1, <1>2, <1>3, PTL DEF Guard!Spec

-----------------------------------------------------------------------------
(* Polling.  A poll of any length, called off at any time.                    *)
Poll == INSTANCE Polling

(* One step is on its way or none, and none only when the poll is settled or    *)
(* the work or the verifier threw; a poll that is called off is settled, so    *)
(* that a vote finds it open or stops.                                      *)
PollInv ==
  /\ \A x, y \in chain : x = y
  /\ late = 0 /\ canceled \in BOOLEAN /\ (canceled => settled # "none")
  /\ chain = {} => settled # "none" \/ threw
  /\ threw => chain = {}
  /\ ~canceled => (chain = {} \/ settled = "none")
  /\ told \in {"none", settled}

LEMMA PollKept == PollInv /\ [Poll!Next]_(Poll!vars) => PollInv'
<1> SUFFICES ASSUME PollInv, [Poll!Next]_(Poll!vars) PROVE PollInv'
  OBVIOUS
<1>1. \A x \in chain : Poll!Without(x) = {}
  BY DEF PollInv, Poll!Without
<1>2. ASSUME NEW v, Poll!WorkDone(v) \/ Poll!Schedule(v)
      PROVE  PollInv'
  <2>1. /\ chain # {} /\ \E step : chain' = {step}
        /\ UNCHANGED <<canceled, settled, told, late, threw>>
    BY <1>1, <1>2 DEF Poll!WorkDone, Poll!Schedule, Poll!Again
  <2>2. QED
    BY <2>1 DEF PollInv
<1>3. ASSUME NEW v, Poll!WorkFailed(v) \/ Poll!Certify(v) \/ Poll!DelayFails(v)
      PROVE  PollInv'
  <2>1. chain' = {} /\ UNCHANGED <<canceled, told, late, threw>>
    BY <1>1, <1>3 DEF Poll!WorkFailed, Poll!Certify, Poll!DelayFails
  <2>2. settled' # "none" /\ (settled # "none" => settled' = settled)
    BY <1>3 DEF Poll!WorkFailed, Poll!Certify, Poll!DelayFails, Poll!Settle
  <2>3. QED
    BY <2>1, <2>2 DEF PollInv
<1>4. ASSUME NEW v, Poll!DelayEnds(v)
      PROVE  PollInv'
  <2>1. chain # {} /\ UNCHANGED <<canceled, settled, told, threw>>
    BY <1>4 DEF Poll!DelayEnds
  <2>2. CASE canceled
    <3>1. chain' = {} /\ late' = late
      BY <1>1, <1>4, <2>2 DEF Poll!DelayEnds, Poll!Voted
    <3>2. QED
      BY <2>1, <2>2, <3>1 DEF PollInv
  <2>3. CASE ~canceled
    <3>1. settled = "none"
      BY <2>1, <2>3 DEF PollInv
    <3>2. chain' = {<<"working", votes>>} /\ late' = late
      BY <1>1, <1>4, <2>3, <3>1 DEF Poll!DelayEnds, Poll!Voted, Poll!Begun
    <3>3. QED
      BY <2>1, <2>3, <3>1, <3>2 DEF PollInv
  <2>4. QED
    BY <2>2, <2>3
<1>5. CASE Poll!Cancel
  BY <1>5 DEF PollInv, Poll!Cancel, Poll!Settle
<1>6. CASE Poll!Forward
  BY <1>6 DEF PollInv, Poll!Forward
<1>7. CASE UNCHANGED Poll!vars
  BY <1>7 DEF PollInv, Poll!vars
<1>8. ASSUME NEW v, Poll!WorkThrows(v)
      PROVE  PollInv'
  <2>1. settled = "none"
    BY <1>8 DEF PollInv, Poll!WorkThrows
  <2>2. chain' = {} /\ late' = late /\ threw' /\ UNCHANGED <<canceled, settled, told>>
    BY <1>1, <1>8, <2>1 DEF Poll!WorkThrows, Poll!Begun
  <2>3. QED
    BY <2>2 DEF PollInv
<1>9. ASSUME NEW v, Poll!VerifierThrows(v)
      PROVE  PollInv'
  <2>1. chain' = {} /\ threw' /\ UNCHANGED <<canceled, settled, told, late>>
    BY <1>1, <1>9 DEF Poll!VerifierThrows
  <2>2. QED
    BY <2>1 DEF PollInv
<1>10. QED
  BY <1>2, <1>3, <1>4, <1>5, <1>6, <1>7, <1>8, <1>9 DEF Poll!Next

(* OneAtATime: a poll does its next piece of work only when the last was verified; it goes   *)
(* on until it is settled unless it was called off, or until the work or the verifier       *)
(* throws where it is called, which stops it and leaves it unsettled; and from then on no   *)
(* vote lets it work again, however long it polls and whenever it is called off.          *)
THEOREM PollsOneAtATime == Poll!Spec => []Poll!OneAtATime
<1>1. Poll!Init => PollInv
  BY DEF Poll!Init, PollInv
<1>2. PollInv => Poll!OneAtATime
  <2> SUFFICES ASSUME PollInv PROVE Poll!OneAtATime
    OBVIOUS
  <2>1. \A S : Poll!Cardinality(S) = Cardinality(S)
    BY DEF Poll!Cardinality, Cardinality
  <2>2. chain # {} => \E x \in chain : chain = {x}
    BY DEF PollInv
  <2>3. Cardinality(chain) <= 1
    BY <2>2, AtMostOne
  <2>4. QED
    BY <2>1, <2>3 DEF PollInv, Poll!OneAtATime
<1>3. QED
  BY <1>1, <1>2, PollKept, PTL DEF Poll!Spec

-----------------------------------------------------------------------------
(* Immediates.  Tasks without number, under handles that count up.             *)
Immediate == INSTANCE Immediates

(* A handle is in a notice or has run, not both; what has neither run nor been  *)
(* cleared has its task and its notice; and what runs was run.                 *)
Noticed == Elements(notices)
Ran == Elements(ran)
Handles == 1 .. nextHandle - 1
TasksTyped ==
  /\ nextHandle \in Nat /\ nextHandle >= 1 /\ notices \in Seq(Nat) /\ ran \in Seq(Nat)
  /\ tasksByHandle \subseteq Handles /\ Noticed \subseteq Handles /\ Ran \subseteq Handles
  /\ cleared \subseteq Handles
EachOnce ==
  /\ Distinct(notices) /\ Distinct(ran) /\ Noticed \cap Ran = {}
  /\ cleared \cap (Ran \cup tasksByHandle) = {}
  /\ Handles \subseteq Ran \cup cleared \cup tasksByHandle
  /\ Handles \subseteq Ran \cup cleared \cup Noticed
  /\ tasksByHandle \subseteq Noticed \cup running
  /\ running \subseteq Ran /\ \A x, y \in running : x = y
InTurn ==
  way = "message" /\ ~nested =>
    /\ Rising(notices) /\ Rising(ran)
    /\ \A x \in Ran, y \in Noticed : x < y
TasksInv == TasksTyped /\ EachOnce /\ InTurn

LEMMA NoticeKept ==
  ASSUME TasksInv, NEW i \in DOMAIN notices, Immediate!Notice(i)
  PROVE  TasksInv'
<1> DEFINE h == notices[i]
           others == Immediate!RemoveAt(notices, i)
<1>1. /\ TasksTyped /\ EachOnce /\ InTurn /\ nextHandle' = nextHandle /\ way' = way
      /\ tasksByHandle' = tasksByHandle /\ cleared' = cleared /\ notices \in Seq(Nat)
      /\ (way = "message" /\ ~nested => i = 1)
  BY DEF TasksInv, TasksTyped, Immediate!Notice
<1>2. Immediate!RunIfPresent(h, others)
  BY DEF Immediate!Notice
<1>3. /\ i \in 1 .. Len(notices) /\ h \in Nat /\ h \in Noticed /\ Len(notices) \in Nat
      /\ \A x : x \in Noticed <=> \E a \in 1 .. Len(notices) : notices[a] = x
  BY <1>1, Listed DEF Noticed, Elements
<1>4. others = Without(notices, i)
  BY DEF Immediate!RemoveAt, Without
<1> HIDE DEF others, h
<1>5. /\ others \in Seq(Nat) /\ Len(others) = Len(notices) - 1 /\ Distinct(others)
      /\ Elements(others) = Noticed \ {h}
      /\ \A a \in 1 .. Len(notices) - 1 : others[a] = IF a < i THEN notices[a] ELSE notices[a + 1]
  <2>1. Distinct(notices)
    BY <1>1 DEF EachOnce
  <2>2. Distinct(others) /\ Elements(others) = Elements(notices) \ {h}
    BY <1>1, <1>3, <1>4, <2>1, Removed DEF h
  <2>3. QED
    BY <1>1, <1>3, <1>4, <2>2, Cut DEF Noticed
<1>6. ASSUME way = "message", ~nested
      PROVE  /\ Rising(others) /\ \A y \in Elements(others) : h < y
             /\ \A x \in Ran : x < h
  <2>1. i = 1 /\ Rising(notices) /\ \A x \in Ran, y \in Noticed : x < y
    BY <1>1, <1>6 DEF InTurn
  <2>2. \A a \in 1 .. Len(others) : others[a] = notices[a + 1] /\ a + 1 \in 1 .. Len(notices)
    BY <1>3, <1>5, <2>1
  <2>3. Rising(others)
    <3> SUFFICES ASSUME NEW a \in 1 .. Len(others), NEW b \in 1 .. Len(others), a < b
                 PROVE  others[a] < others[b]
      BY DEF Rising
    <3>1. a + 1 < b + 1
      BY <1>3, <1>5
    <3>2. QED
      BY <2>1, <2>2, <3>1 DEF Rising
  <2>4. ASSUME NEW y \in Elements(others) PROVE h < y
    <3>1. PICK a \in 1 .. Len(notices) : notices[a] = y
      BY <1>3, <1>5
    <3>2. a # 1
      BY <1>5, <2>1, <3>1 DEF h
    <3>3. QED
      BY <1>3, <2>1, <3>1, <3>2 DEF Rising, h
  <2>5. QED
    BY <1>3, <2>1, <2>3, <2>4
<1>7. CASE Immediate!Free /\ h \in tasksByHandle
  <2>1. /\ running' = running \cup {h} /\ ran' = Append(ran, h) /\ notices' = others
        /\ nested' = nested /\ running = {}
    BY <1>2, <1>7 DEF Immediate!RunIfPresent, Immediate!Free
  <2>2. h \notin Ran /\ ran \in Seq(Nat) /\ Distinct(ran) /\ Len(ran) \in Nat
    BY <1>1, <1>3, LenProperties DEF TasksTyped, EachOnce
  <2>3. /\ ran' \in Seq(Nat) /\ Ran' = Ran \cup {h} /\ Distinct(ran') /\ Len(ran') = Len(ran) + 1
        /\ ran'[Len(ran) + 1] = h /\ \A a \in 1 .. Len(ran) : ran'[a] = ran[a]
    <3>1. Ran' = Elements(ran')
      BY DEF Ran, Elements
    <3>2. h \notin Elements(ran)
      BY <2>2 DEF Ran
    <3>3. QED
      BY <1>3, <2>1, <2>2, <3>1, <3>2, Appended DEF Ran
  <2>4. Noticed' = Noticed \ {h}
    BY <1>5, <2>1 DEF Noticed
  <2>5. TasksTyped'
    BY <1>1, <1>3, <1>5, <2>1, <2>3, <2>4 DEF TasksTyped, Handles
  <2>6. EachOnce'
    BY <1>1, <1>3, <1>5, <1>7, <2>1, <2>3, <2>4 DEF EachOnce, Handles
  <2>7. InTurn'
    <3>1. ASSUME way = "message", ~nested
          PROVE  /\ Rising(notices') /\ Rising(ran')
                 /\ \A x \in Ran', y \in Noticed' : x < y
      <4>1. Rising(notices') /\ \A y \in Noticed' : h < y
        BY <1>5, <1>6, <2>1, <2>4, <3>1
      <4>2. Rising(ran) /\ (\A x \in Ran, y \in Noticed : x < y) /\ \A x \in Ran : x < h
        BY <1>1, <1>6, <3>1 DEF InTurn
      <4>3. \A a \in 1 .. Len(ran) : ran[a] \in Ran
        BY <2>2, Listed DEF Ran
      <4>4. Rising(ran')
        <5>1. ASSUME NEW a \in 1 .. Len(ran'), NEW b \in 1 .. Len(ran'), a < b
              PROVE  ran'[a] < ran'[b]
          <6>1. a \in 1 .. Len(ran) /\ ran'[a] = ran[a] /\ ran[a] \in Ran
            BY <2>3, <4>3, <5>1
          <6>2. CASE b \in 1 .. Len(ran)
            BY <2>3, <4>2, <5>1, <6>1, <6>2 DEF Rising
          <6>3. CASE b = Len(ran) + 1
            BY <2>3, <4>2, <6>1, <6>3
          <6>4. QED
            BY <2>3, <6>2, <6>3
        <5>2. QED
          BY <5>1 DEF Rising
      <4>5. QED
        BY <2>3, <2>4, <4>1, <4>2, <4>4
    <3>2. QED
      BY <1>1, <2>1, <3>1 DEF InTurn
  <2>8. QED
    BY <2>5, <2>6, <2>7 DEF TasksInv
<1>8. CASE Immediate!Free /\ h \notin tasksByHandle
  <2>1. running' = running /\ ran' = ran /\ notices' = others /\ nested' = nested
    BY <1>2, <1>8 DEF Immediate!RunIfPresent, Immediate!Free
  <2>2. Noticed' = Noticed \ {h} /\ Ran' = Ran
    BY <1>5, <2>1 DEF Noticed, Ran
  <2>3. running = {}
    BY <1>8 DEF Immediate!Free
  <2>4. TasksTyped'
    BY <1>1, <1>5, <2>1, <2>2 DEF TasksTyped, Handles
  <2>5. EachOnce'
    BY <1>1, <1>3, <1>5, <1>8, <2>1, <2>2, <2>3 DEF EachOnce, Handles, TasksTyped
  <2>6. InTurn'
    BY <1>1, <1>5, <1>6, <2>1, <2>2 DEF InTurn
  <2>7. QED
    BY <2>4, <2>5, <2>6 DEF TasksInv
<1>9. CASE ~Immediate!Free
  <2>1. running' = running /\ ran' = ran /\ notices' = Append(others, h) /\ nested' = TRUE
    BY <1>2, <1>9 DEF Immediate!RunIfPresent
  <2>2. notices' \in Seq(Nat) /\ Distinct(notices') /\ Noticed' = (Noticed \ {h}) \cup {h}
    <3>1. Noticed' = Elements(notices')
      BY DEF Noticed, Elements
    <3>2. h \notin Elements(others)
      BY <1>5
    <3>3. QED
      BY <1>3, <1>5, <2>1, <3>1, <3>2, Appended
  <2>3. Noticed' = Noticed /\ Ran' = Ran
    BY <1>3, <2>1, <2>2 DEF Ran
  <2>4. TasksTyped' /\ EachOnce' /\ InTurn'
    BY <1>1, <2>1, <2>2, <2>3 DEF TasksTyped, EachOnce, InTurn, Handles
  <2>5. QED
    BY <2>4 DEF TasksInv
<1>10. QED
  BY <1>7, <1>8, <1>9

LEMMA TasksHold == TasksInv /\ [Immediate!Next]_(Immediate!vars) => TasksInv'
<1> SUFFICES ASSUME TasksInv, [Immediate!Next]_(Immediate!vars) PROVE TasksInv'
  OBVIOUS
<1>1. TasksTyped /\ EachOnce /\ InTurn
  BY DEF TasksInv
<1>2. CASE Immediate!SetImmediate
  <2> DEFINE n == nextHandle
  <2>1. /\ nextHandle' = n + 1 /\ tasksByHandle' = tasksByHandle \cup {n}
        /\ notices' = Append(notices, n)
        /\ UNCHANGED <<way, running, ran, cleared, nested>>
    BY <1>2 DEF Immediate!SetImmediate
  <2>2. /\ n \in Nat /\ n >= 1 /\ notices \in Seq(Nat) /\ n \notin Noticed /\ n \notin Ran
        /\ Len(notices) \in Nat
    BY <1>1, LenProperties DEF TasksTyped, Handles
  <2>3. /\ notices' \in Seq(Nat) /\ Noticed' = Noticed \cup {n} /\ Distinct(notices')
        /\ Len(notices') = Len(notices) + 1 /\ notices'[Len(notices) + 1] = n
        /\ \A a \in 1 .. Len(notices) : notices'[a] = notices[a]
    <3>1. Noticed' = Elements(notices')
      BY DEF Noticed, Elements
    <3>2. Distinct(notices) /\ n \notin Elements(notices)
      BY <1>1, <2>2 DEF EachOnce, Noticed
    <3>3. QED
      BY <2>1, <2>2, <3>1, <3>2, Appended DEF Noticed
  <2>4. Handles' = Handles \cup {n} /\ Ran' = Ran
    BY <2>1, <2>2 DEF Handles, Ran
  <2>5. TasksTyped'
    BY <1>1, <2>1, <2>2, <2>3, <2>4 DEF TasksTyped
  <2>6. EachOnce'
    <3>1. Distinct(notices)' /\ Distinct(ran)'
      BY <1>1, <2>1, <2>3 DEF EachOnce, Distinct
    <3>2. n \notin cleared
      BY <1>1, <2>2 DEF TasksTyped, Handles
    <3>3. QED
      BY <1>1, <2>1, <2>2, <2>3, <2>4, <3>1, <3>2 DEF EachOnce
  <2>7. InTurn'
    <3>1. \A x \in Ran : x < n
      BY <1>1, <2>2 DEF TasksTyped, Handles
    <3>2. \A a \in 1 .. Len(notices) : notices[a] \in Nat /\ notices[a] < n
      <4>1. \A a \in 1 .. Len(notices) : notices[a] \in Noticed
        BY <2>2, Listed DEF Noticed
      <4>2. QED
        BY <1>1, <2>2, <4>1 DEF TasksTyped, Handles
    <3>3. ASSUME Rising(notices) PROVE Rising(notices')
      <4> SUFFICES ASSUME NEW i \in 1 .. Len(notices'), NEW j \in 1 .. Len(notices'), i < j
                   PROVE  notices'[i] < notices'[j]
        BY DEF Rising
      <4>1. i \in 1 .. Len(notices) /\ notices'[i] = notices[i]
        BY <2>2, <2>3
      <4>2. CASE j = Len(notices) + 1
        BY <2>3, <3>2, <4>1, <4>2
      <4>3. CASE j # Len(notices) + 1
        <5>1. j \in 1 .. Len(notices) /\ notices'[j] = notices[j]
          <6>1. j \in 1 .. Len(notices) + 1 /\ Len(notices) \in Nat
            BY <2>2, <2>3
          <6>2. j \in 1 .. Len(notices)
            BY <4>3, <6>1
          <6>3. QED
            BY <2>3, <6>2
        <5>2. QED
          BY <3>3, <4>1, <5>1 DEF Rising
      <4>4. QED
        BY <4>2, <4>3
    <3>4. QED
      BY <1>1, <2>1, <2>3, <2>4, <3>1, <3>3 DEF InTurn
  <2>8. QED
    BY <2>5, <2>6, <2>7 DEF TasksInv
<1>3. ASSUME NEW h, Immediate!ClearImmediate(h) PROVE TasksInv'
  <2>1. /\ h \in tasksByHandle /\ tasksByHandle' = tasksByHandle \ {h}
        /\ cleared' = IF h \in Ran THEN cleared ELSE cleared \cup {h}
        /\ UNCHANGED <<way, nextHandle, running, notices, ran, nested>>
    BY <1>3 DEF Immediate!ClearImmediate, Immediate!ToSet, Ran, Elements
  <2>2. Noticed' = Noticed /\ Ran' = Ran /\ Handles' = Handles
    BY <2>1 DEF Noticed, Ran, Handles
  <2>3. EachOnce'
    BY <1>1, <2>1, <2>2 DEF EachOnce
  <2>4. TasksTyped' /\ InTurn'
    BY <1>1, <2>1, <2>2 DEF TasksTyped, InTurn, EachOnce
  <2>5. QED
    BY <2>3, <2>4 DEF TasksInv
<1>4. ASSUME NEW h, Immediate!Ends(h) PROVE TasksInv'
  <2>1. /\ h \in running /\ running' = running \ {h} /\ tasksByHandle' = tasksByHandle \ {h}
        /\ UNCHANGED <<way, nextHandle, notices, ran, cleared, nested>>
    BY <1>4 DEF Immediate!Ends
  <2>2. Noticed' = Noticed /\ Ran' = Ran /\ Handles' = Handles
    BY <2>1 DEF Noticed, Ran, Handles
  <2>3. EachOnce'
    BY <1>1, <2>1, <2>2 DEF EachOnce
  <2>4. TasksTyped' /\ InTurn'
    BY <1>1, <2>1, <2>2 DEF TasksTyped, InTurn
  <2>5. QED
    BY <2>3, <2>4 DEF TasksInv
<1>5. CASE UNCHANGED Immediate!vars
  BY <1>1, <1>5
     DEF Immediate!vars, TasksInv, TasksTyped, EachOnce, InTurn, Noticed, Ran, Handles
<1>6. QED
  BY <1>2, <1>3, <1>4, <1>5, NoticeKept DEF Immediate!Next

(* TasksKept: of the tasks given to setImmediate of poly none runs twice, inside another or    *)
(* after it was cleared, none is forgotten, and messages run them in their order unless one *)
(* came while a task ran; for any number of tasks, set and cleared at any time.            *)
THEOREM TasksRunOnce == Immediate!Spec => []Immediate!TasksKept
<1>1. Immediate!Init => TasksInv
  <2> SUFFICES ASSUME Immediate!Init PROVE TasksInv
    OBVIOUS
  <2>1. notices = <<>> /\ ran = <<>> /\ <<>> \in Seq(Nat) /\ Len(<<>>) = 0
    BY EmptySeq DEF Immediate!Init
  <2>2. Noticed = {} /\ Ran = {} /\ Handles = {}
    BY <2>1 DEF Noticed, Ran, Elements, Handles, Immediate!Init
  <2>3. Distinct(<<>>) /\ Rising(<<>>)
    BY <2>1 DEF Distinct, Rising
  <2>4. QED
    BY <2>1, <2>2, <2>3 DEF Immediate!Init, TasksInv, TasksTyped, EachOnce, InTurn
<1>2. TasksInv => Immediate!TasksKept
  <2> SUFFICES ASSUME TasksInv PROVE Immediate!TasksKept
    OBVIOUS
  <2>1. \A S : Immediate!Cardinality(S) = Cardinality(S)
    BY DEF Immediate!Cardinality, Cardinality
  <2>2. running # {} => \E h \in running : running = {h}
    BY DEF TasksInv, EachOnce
  <2>3. Cardinality(running) <= 1
    BY <2>2, AtMostOne
  <2>4. Immediate!ToSet(notices) = Noticed /\ Immediate!ToSet(ran) = Ran
    BY DEF Immediate!ToSet, Noticed, Ran, Elements
  <2>5. Immediate!IsInjective(ran)
    <3>1. DOMAIN ran = 1 .. Len(ran)
      BY LenProperties DEF TasksInv, TasksTyped
    <3>2. QED
      BY <3>1 DEF Immediate!IsInjective, TasksInv, EachOnce, Distinct
  <2>6. way = "message" /\ ~nested => \A i, j \in 1 .. Len(ran) : i < j => ran[i] < ran[j]
    BY DEF TasksInv, InTurn, Rising
  <2>7. QED
    BY <2>1, <2>3, <2>4, <2>5, <2>6 DEF Immediate!TasksKept, TasksInv, EachOnce, Handles
<1>3. QED
  BY <1>1, <1>2, TasksHold, PTL DEF Immediate!Spec
=============================================================================
