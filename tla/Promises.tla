------------------------------- MODULE Promises -------------------------------
(***************************************************************************)
(* The promises of when.js.  Nothing is told of a promise in the turn of the *)
(* event loop in which it is told: handlers run from one queue, which grows   *)
(* while it is drained.  A promise may be resolved with another, and then     *)
(* hands its handlers on to it.  Progress, monitors and promises of other     *)
(* libraries are left out.                                                    *)
(***************************************************************************)
EXTENDS Integers, Sequences, FiniteSets, SequencesExt, FiniteSetsExt

CONSTANTS
  Deferreds,   \* number of deferreds the page has
  MaxCalls     \* bound: calls of then, all and some

VARIABLES
  ps,        \* the promises, the deferreds first
  queue,     \* handlerQueue: tasks, each to give a result to some consumers
  counts,    \* the counters of all and some
  draining,  \* drainQueue is at work
  calls      \* history: the promises whose handlers were called

vars == <<ps, queue, counts, draining, calls>>

(* What a promise is resolved with: a value, a reason, or another promise.    *)
(* Values are sequences, those of all and some being put together from them.   *)
Result(far, ok, val) == [far |-> far, ok |-> ok, val |-> val]
Value(v) == Result(0, TRUE, v)
Rejected == Result(0, FALSE, <<>>)
Far(p) == Result(p, TRUE, <<>>)
Unknown == Result(0, TRUE, <<0>>)

(* Handlers: none, one that gives a result, throws, settles a deferred, and     *)
(* those of all and some: the one for the array, and those for each item.      *)
Does(what, x, c, i) == [what |-> what, x |-> x, c |-> c, i |-> i]
Pass == Does("pass", Unknown, 0, 0)
Gives(x) == Does("gives", x, 0, 0)
Settles(d) == Does("settles", Value(<<2>>), d, 0)
Consumer(ok, no, to) == [ok |-> ok, no |-> no, to |-> to]

Promise(origin) == [open |-> TRUE, cs |-> <<>>, x |-> Unknown, origin |-> origin]
Origin(kind, of, ok, no) == [kind |-> kind, of |-> of, ok |-> ok, no |-> no]
Deferred == Origin("deferred", <<>>, Pass, Pass)
Inner == Origin("inner", <<>>, Pass, Pass)

Heap == [ps |-> ps, queue |-> queue, counts |-> counts, calls |-> calls]
Init ==
  /\ ps = [d \in 1 .. Deferreds |-> Promise(Deferred)]
  /\ queue = <<>> /\ counts = <<>> /\ draining = FALSE /\ calls = <<>>

-----------------------------------------------------------------------------
Task(cs, x) == [cs |-> cs, x |-> x]
Enqueue(h, task) == IF task.cs = <<>> THEN h ELSE [h EXCEPT !.queue = Append(@, task)]
Created(h, origin) == [h EXCEPT !.ps = Append(@, Promise(origin))]

(* promiseResolve, of which only the first counts: scheduleConsumers gives the  *)
(* result to those that wait.  Beside it, one that counts again.              *)
SettleAgain(h, p, x) ==
  Enqueue([h EXCEPT !.ps[p].open = FALSE, !.ps[p].x = x], Task(h.ps[p].cs, x))
Settle(h, p, x) ==
  IF p = 0 \/ ~h.ps[p].open THEN h
  ELSE Enqueue([h EXCEPT !.ps[p].open = FALSE, !.ps[p].x = x], Task(h.ps[p].cs, x))

(* _message: it waits with the others while the promise is pending *)
Message(h, p, c) ==
  IF h.ps[p].open THEN [h EXCEPT !.ps[p].cs = Append(@, c)]
  ELSE Enqueue(h, Task(<<c>>, h.ps[p].x))

(* when(item, ...): a promise for the item, already resolved, tells in a turn *)
When(h, x, c) == Enqueue(h, Task(<<c>>, x))

(* The counters of _map, which wants them all, and of some: the last one that   *)
(* is wanted resolves, and the first rejection too many rejects.              *)
Counter(wanted, spare, to) == [wanted |-> wanted, spare |-> spare, vals |-> <<>>, to |-> to]
Fulfilled(h, c, i, x, inOrder) ==
  LET n == h.counts[c]
      vals == Append(n.vals, <<i, x.val>>)
      sorted == IF inOrder THEN SortSeq(vals, LAMBDA a, b : a[1] < b[1]) ELSE vals
      g == [h EXCEPT !.counts[c].vals = vals] IN
  IF n.spare < 0 \/ Len(vals) # n.wanted THEN g
  ELSE Settle(g, n.to, Value(FlattenSeq([k \in DOMAIN sorted |-> sorted[k][2]])))
Spared(h, c) == [h EXCEPT !.counts[c].spare = @ - 1]
Refused(h, c) ==
  LET n == h.counts[c] IN
  IF n.spare # 0 THEN Spared(h, c)
  ELSE IF Len(n.vals) >= n.wanted THEN h ELSE Settle(Spared(h, c), n.to, Rejected)

(* resolveMap: when(item, mapFunc).then(..., reject) for each item of the array *)
OneOfAll(h, i, p, c) ==
  LET m == Len(h.ps) + 1
      g == When(Created(h, Inner), Far(p), Consumer(Pass, Pass, m))
  IN Message(g, m, Consumer(Does("fulfilled", Unknown, c, i), Does("refused", Unknown, c, i), 0))
ResolveMap(h, items, to) ==
  LET c == Len(h.counts) + 1
      g == [h EXCEPT !.counts = Append(@, Counter(Len(items), 0, to))]
  IN FoldLeft(LAMBDA x, i : OneOfAll(x, i, items[i], c), g, [i \in DOMAIN items |-> i])

(* resolveSome: when(item, fulfiller, rejecter); the order is that of fulfilment *)
OneOfSome(h, i, p, c) ==
  When(h, Far(p), Consumer(Does("raced", Unknown, c, i), Does("refused", Unknown, c, i), 0))
ResolveSome(h, items, howMany, to) ==
  LET c == Len(h.counts) + 1
      g == [h EXCEPT !.counts = Append(@, Counter(howMany, Len(items) - howMany, to))]
  IN FoldLeft(LAMBDA x, i : OneOfSome(x, i, items[i], c), g, [i \in DOMAIN items |-> i])

(* The handler for the array makes the promise that resolves the outer one *)
Race(h, to, a) ==
  LET inner == Len(h.ps) + 1
      g == Created(h, Inner)
      items == h.ps[to].origin.of
  IN Settle(IF a.i = 0 THEN ResolveMap(g, items, inner) ELSE ResolveSome(g, items, a.i, inner),
            to, Far(inner))

(* A near promise runs the handler and resolves with what comes of it; one      *)
(* that is absent passes the value or the reason on.                          *)
Run(h, c, x) ==
  LET a == IF x.ok THEN c.ok ELSE c.no
      g == IF c.to # 0 /\ h.ps[c.to].origin.kind = "then"
           THEN [h EXCEPT !.calls = Append(@, c.to)] ELSE h
  IN CASE a.what = "pass" -> Settle(g, c.to, x)
       [] a.what = "gives" -> Settle(g, c.to, a.x)
       [] a.what = "settles" -> Settle(Settle(g, a.c, a.x), c.to, Value(<<3>>))
       [] a.what = "races" -> Race(g, c.to, a)
       [] a.what = "fulfilled" -> Fulfilled(g, a.c, a.i, x, TRUE)
       [] a.what = "raced" -> Fulfilled(g, a.c, a.i, x, FALSE)
       [] a.what = "refused" -> Refused(g, a.c)

(* deliver: to another promise if it was resolved with one.  Beside it, one     *)
(* that runs the handler of a promise whose result is there at once.          *)
DeliverNow(h, c, x) ==
  IF x.far = 0 THEN Run(h, c, x)
  ELSE IF h.ps[x.far].open \/ h.ps[x.far].x.far # 0 THEN Message(h, x.far, c)
  ELSE Run(h, c, h.ps[x.far].x)
Deliver(h, c, x) == IF x.far = 0 THEN Run(h, c, x) ELSE Message(h, x.far, c)

-----------------------------------------------------------------------------
Become(h) == ps' = h.ps /\ queue' = h.queue /\ counts' = h.counts /\ calls' = h.calls
OfKind(k) == {p \in DOMAIN ps : ps[p].origin.kind = k}
Visible == OfKind("deferred") \cup OfKind("then") \cup OfKind("all") \cup OfKind("some")

(* A task of drainQueue, which the next turn begins *)
Drain ==
  /\ queue # <<>>
  /\ LET t == Head(queue)
         h == FoldLeft(LAMBDA g, c : Deliver(g, c, t.x), [Heap EXCEPT !.queue = Tail(@)], t.cs)
     IN Become(h) /\ draining' = (h.queue # <<>>)

(* The page's calls, in a turn of its own *)
Calls == Cardinality(Visible) - Deferreds
Page(h) == ~draining /\ Become(h) /\ UNCHANGED draining
Resolve(d, x) == ps[d].open /\ Page(Settle(Heap, d, x))
Then(p, ok, no) ==
  /\ Calls < MaxCalls
  /\ Page(Message(Created(Heap, Origin("then", <<p>>, ok, no)), p,
                  Consumer(ok, no, Len(ps) + 1)))
All(items) ==
  /\ Calls < MaxCalls
  /\ Page(When(Created(Heap, Origin("all", items, Pass, Pass)), Value(<<>>),
               Consumer(Does("races", Unknown, 0, 0), Pass, Len(ps) + 1)))
Some(items, howMany) ==
  /\ Calls < MaxCalls
  /\ Page(When(Created(Heap, Origin("some", items, Gives(Value(<<howMany>>)), Pass)), Value(<<>>),
               Consumer(Does("races", Unknown, 0, howMany), Pass, Len(ps) + 1)))

Handlers ==
  {<<Gives(Far(Deferreds)), Pass>>, <<Settles(Deferreds), Pass>>, <<Gives(Rejected), Gives(Value(<<4>>))>>}
Next ==
  \/ Drain
  \/ \E d \in 1 .. Deferreds :
       \E x \in {Value(<<d>>), Rejected} \cup {Far(p) : p \in Visible} : Resolve(d, x)
  \/ \E p \in Visible :
       \/ \E on \in Handlers : Then(p, on[1], on[2])
       \/ \E q \in {r \in Visible : r > p} : All(<<p, q>>) \/ \E n \in 1 .. 2 : Some(<<p, q>>, n)

Spec == Init /\ [][Next]_vars

-----------------------------------------------------------------------------
(* What each promise should come to, from what it was made of alone: the fixed   *)
(* point of one round of looking at the others.                               *)
Follow(x, fate) == IF x.far = 0 THEN x ELSE fate[x.far]
Comes(a, x, fate) ==
  CASE a.what = "pass" -> x
    [] a.what = "gives" -> Follow(a.x, fate)
    [] a.what = "settles" -> Value(<<3>>)
Round(p, fate) ==
  LET o == ps[p].origin
      of == [i \in DOMAIN o.of |-> fate[o.of[i]]]
      good == {i \in DOMAIN of : of[i].ok /\ of[i] # Unknown}
      bad == {i \in DOMAIN of : ~of[i].ok}
      wanted == IF o.kind = "some" THEN o.ok.x.val[1] ELSE Len(of)
      ways == {Value(FlattenSeq([k \in 1 .. wanted |-> of[f[k]].val])) :
                 f \in {g \in [1 .. wanted -> good] : IsInjective(g)}}
      seen == Follow(ps[p].x, [q \in DOMAIN ps |-> ps[q].x]) IN
  CASE o.kind \in {"deferred", "inner"} -> Follow(ps[p].x, fate)
    [] o.kind = "then" -> IF of[1] = Unknown THEN Unknown
                          ELSE Comes(IF of[1].ok THEN o.ok ELSE o.no, of[1], fate)
    [] o.kind = "all" -> IF bad # {} THEN Rejected
                         ELSE IF Cardinality(good) < wanted THEN Unknown
                         ELSE Value(FlattenSeq([i \in DOMAIN of |-> of[i].val]))
    [] o.kind = "some" -> IF Cardinality(bad) > Len(of) - wanted THEN Rejected
                          ELSE IF Cardinality(good) < wanted THEN Unknown
                          ELSE IF seen \in ways THEN seen ELSE Result(0, TRUE, <<9>>)
Fates(look(_, _)) ==
  LET round[n \in 0 .. Len(ps)] ==
        IF n = 0 THEN [p \in DOMAIN ps |-> Unknown]
        ELSE [p \in DOMAIN ps |-> look(p, round[n - 1])]
  IN round[Len(ps)]

(* When the queue is empty every promise has come to just what it should: no       *)
(* result is lost, however promises were resolved with each other, in whatever     *)
(* order, from handlers or not; and the handlers of a promise were each called     *)
(* once at most, in the order in which they were registered with it.            *)
PromisesKept ==
  /\ queue = <<>> => LET told == Fates(LAMBDA p, f : Follow(ps[p].x, f))
                         due == Fates(Round)
                     IN \A p \in Visible : told[p] = due[p]
  /\ IsInjective(calls)
  /\ \A i \in DOMAIN calls : \A p \in OfKind("then") :
       p < calls[i] /\ ps[p].origin.of = ps[calls[i]].origin.of => \E j \in 1 .. i : calls[j] = p
=============================================================================
