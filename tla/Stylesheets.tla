------------------------------ MODULE Stylesheets ------------------------------
(***************************************************************************)
(* The css plugin of curl: a load names some sheets and is answered when the last *)
(* of them is loaded.  IE 6 to 9 import their sheets through a few collectors,    *)
(* one after the other; the other browsers use a link for each sheet, with what     *)
(* events they have and a timer that looks at the link beside them.             *)
(***************************************************************************)
EXTENDS Integers, Sequences, FiniteSets, SequencesExt

CONSTANTS
  MaxSheets,               \* bound: sheets named by all loads
  ieMaxCollectorSheets

Sheets == 1 .. MaxSheets

VARIABLES
  browser,    \* imports; the events a link has; whether load is fired for a failed sheet too
  hasEvent,   \* load is known to be supported
  complete,   \* the document is complete
  loads,      \* the loads made: their sheets that are missing yet, and how they were answered
  load,       \* of each sheet its load, 0 before there is one
  network,    \* how far the sheet is
  queue, pool, made, importing,         \* of the collectors
  finalized, watched, fires, waiting    \* of the links: flag, timer, event to come, wait for the document

vars == <<browser, hasEvent, complete, loads, load, network, queue, pool, made, importing,
          finalized, watched, fires, waiting>>
Heap ==
  [browser |-> browser, hasEvent |-> hasEvent, complete |-> complete, loads |-> loads, load |-> load,
   network |-> network, queue |-> queue, pool |-> pool, made |-> made, importing |-> importing,
   finalized |-> finalized, watched |-> watched, fires |-> fires, waiting |-> waiting]
Become(h) ==
  /\ browser' = h.browser /\ hasEvent' = h.hasEvent /\ complete' = h.complete /\ loads' = h.loads
  /\ load' = h.load /\ network' = h.network /\ queue' = h.queue /\ pool' = h.pool /\ made' = h.made
  /\ importing' = h.importing /\ finalized' = h.finalized /\ watched' = h.watched
  /\ fires' = h.fires /\ waiting' = h.waiting

Imports == [imports |-> TRUE, events |-> {}, always |-> FALSE]
Linking ==
  [imports : {FALSE}, events : {{}, {"load"}, {"load", "error"}}, always : BOOLEAN]
Init ==
  /\ browser \in {Imports} \cup {b \in Linking : b.always => b.events = {"load"}}
  /\ hasEvent = FALSE /\ complete \in BOOLEAN
  /\ loads = <<>> /\ load = [s \in Sheets |-> 0] /\ network = [s \in Sheets |-> "none"]
  /\ queue = <<>> /\ pool = <<>> /\ made = 0 /\ importing = [c \in 1 .. ieMaxCollectorSheets |-> 0]
  /\ finalized = {} /\ watched = {} /\ fires = [s \in Sheets |-> "none"] /\ waiting = {}

-----------------------------------------------------------------------------
Loaded(h, s) ==
  LET l == h.load[s] left == h.loads[l].left - 1 IN
  [h EXCEPT !.loads[l].left = left, !.loads[l].called = IF left = 0 THEN @ + 1 ELSE @]
Failed(h, s) == [h EXCEPT !.loads[h.load[s]].rejected = TRUE]

(* The collectors: one that finds nothing more to import is given back *)
LoadNextImport(h, c) ==
  IF h.queue = <<>> THEN [h EXCEPT !.pool = Append(@, c), !.importing[c] = 0]
  ELSE [h EXCEPT !.queue = Tail(@), !.importing[c] = Head(h.queue), !.network[Head(h.queue)] = "fetching"]
LoadImport(h, s) ==
  LET k == [h EXCEPT !.queue = Append(@, s)] IN
  IF k.pool # <<>> THEN LoadNextImport([k EXCEPT !.pool = Tail(@)], Head(k.pool))
  ELSE IF k.made < ieMaxCollectorSheets THEN LoadNextImport([k EXCEPT !.made = @ + 1], k.made + 1)
  ELSE k

(* The links: finalize is the flag that lets only one of event and timer through.   *)
(* Beside it, one that sets no flag.                                             *)
FinalizeNothing(h, s) == h
Finalize(h, s) == [h EXCEPT !.finalized = @ \cup {s}]
WaitForDocumentComplete(h, s) == IF h.complete THEN Loaded(h, s) ELSE [h EXCEPT !.waiting = @ \cup {s}]
LinkLoaded(h, s) ==
  IF s \in h.finalized THEN h ELSE WaitForDocumentComplete(Finalize(h, s), s)
LinkErrored(h, s) == IF s \in h.finalized THEN h ELSE Failed(Finalize(h, s), s)
LoadLink(h, s) ==
  [h EXCEPT !.network[s] = "fetching", !.watched = IF h.hasEvent THEN @ ELSE @ \cup {s}]

LoadSheet(h, s) == IF h.browser.imports THEN LoadImport(h, s) ELSE LoadLink(h, s)
NoWait(h, s) == Loaded([h EXCEPT !.network[s] = "fetching", !.finalized = @ \cup {s}], s)
Named(h) == Cardinality({s \in Sheets : h.load[s] # 0})
Load(h, n, cssNoWait) ==
  LET l == Len(h.loads) + 1
      new == Named(h) + 1 .. Named(h) + n
      k == [h EXCEPT !.loads = Append(@, [of |-> n, left |-> n, called |-> 0, rejected |-> FALSE]),
                     !.load = [s \in Sheets |-> IF s \in new THEN l ELSE @[s]]]
      Each(g, s) == IF cssNoWait THEN NoWait(g, s) ELSE LoadSheet(g, s)
  IN FoldLeft(Each, k, [i \in 1 .. n |-> Named(h) + i])

-----------------------------------------------------------------------------
Fits(n) == Named(Heap) + n <= MaxSheets
Require(n, cssNoWait) == Fits(n) /\ Become(Load(Heap, n, cssNoWait))

(* An import has ended: whoever waited may load more before the next is taken *)
Imported(c, good, more) ==
  LET s == importing[c]
      h == [Heap EXCEPT !.network[s] = IF good THEN "there" ELSE "missing"]
      k == IF good THEN Loaded(h, s) ELSE Failed(h, s)
  IN /\ s # 0 /\ Fits(more)
     /\ Become(LoadNextImport(IF more = 0 THEN k ELSE Load(k, more, FALSE), c))

(* A link has its sheet, or will not get it; then, where there is an event, the event *)
EventOf(good) ==
  LET e == IF good \/ browser.always THEN "load" ELSE "error" IN IF e \in browser.events THEN e ELSE "none"
Fetched(s, good) ==
  /\ ~browser.imports /\ network[s] = "fetching"
  /\ Become([Heap EXCEPT !.network[s] = IF good THEN "there" ELSE "missing", !.fires[s] = EventOf(good)])
Fire(s) ==
  LET h == [Heap EXCEPT !.fires[s] = "none"] IN
  \/ fires[s] # "none" /\ s \in finalized /\ Become(h)
  \/ fires[s] = "load" /\ s \notin finalized /\ Become(LinkLoaded([h EXCEPT !.hasEvent = TRUE], s))
  \/ fires[s] = "error" /\ s \notin finalized /\ Become(LinkErrored(h, s))

(* The timer: it looks again until there is something to tell *)
IsLinkReady(s) == complete /\ network[s] = "there"
LoadWatcher(s) ==
  /\ s \in watched
  /\ IF ~hasEvent /\ IsLinkReady(s) THEN Become(LinkLoaded([Heap EXCEPT !.watched = @ \ {s}], s))
     ELSE /\ hasEvent \/ s \in finalized
          /\ Become([Heap EXCEPT !.watched = @ \ {s}])
DocumentComplete == ~complete /\ Become([Heap EXCEPT !.complete = TRUE])
WaitEnds(s) == complete /\ s \in waiting /\ Become(Loaded([Heap EXCEPT !.waiting = @ \ {s}], s))

Next ==
  \/ DocumentComplete
  \/ \E n \in 1 .. 2, cssNoWait \in BOOLEAN : Require(n, cssNoWait)
  \/ \E c \in 1 .. ieMaxCollectorSheets, good \in BOOLEAN, more \in 0 .. 2 : Imported(c, good, more)
  \/ \E s \in Sheets : (\E good \in BOOLEAN : Fetched(s, good)) \/ Fire(s) \/ LoadWatcher(s) \/ WaitEnds(s)

Spec == Init /\ [][Next]_vars

-----------------------------------------------------------------------------
(* A load is answered once and not before it has all its sheets, whatever event and    *)
(* timer come first; a sheet that failed keeps it from being answered, unless the       *)
(* browser calls that a load.  No sheet waits for a collector while one is idle, and a     *)
(* sheet that is there is told about, or something is left that will tell.              *)
Of(l) == {s \in Sheets : load[s] = l}
Told(s) == s \in finalized \/ fires[s] # "none" \/ (s \in watched /\ ~hasEvent)
SheetsTold ==
  /\ \A l \in 1 .. Len(loads) :
       /\ loads[l].left \in 0 .. loads[l].of
       /\ loads[l].called = IF loads[l].left = 0 THEN 1 ELSE 0
       /\ loads[l].rejected => loads[l].called = 0
  /\ queue # <<>> => (pool = <<>>) /\ \A c \in 1 .. ieMaxCollectorSheets : importing[c] # 0
  /\ ~browser.imports => \A s \in Sheets : network[s] = "there" => Told(s)
  /\ \A l \in 1 .. Len(loads) :
       (/\ \A s \in Of(l) : network[s] = "there" /\ (browser.imports \/ s \in finalized)
        /\ Of(l) \cap waiting = {})
       => loads[l].called = 1
=============================================================================
