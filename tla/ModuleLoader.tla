------------------------------ MODULE ModuleLoader ------------------------------
(***************************************************************************)
(* The module loader of curl.js.  Its promises tell at once, so all that      *)
(* follows from a script is one step: its definitions, the modules that waited *)
(* for them, and theirs.  A module that names exports is given to others that  *)
(* do before its factory has run.  Configuration, the forming of ids and urls, *)
(* preloads, the plugins' own work and require() in a factory are left out.     *)
(***************************************************************************)
EXTENDS Integers, Sequences, FiniteSets, SequencesExt, FiniteSetsExt, Functions

CONSTANTS
  Modules, Resources,   \* ids, the second of the form plugin!resource
  Plugin,               \* the module that loads each resource
  Programs,             \* what the files may say: the deps and factory of each module
  Main, Fallback        \* what the page asks for, and instead if that fails

VARIABLES
  program,   \* of each module its deps and whether its factory throws
  defs,      \* the promises: of modules, of resources, temporary ones and contexts
  cols,      \* the collectors of the calls of getDeps
  cache,     \* of each id 0, a promise, Loaded, or Undefined when its factory threw
  net,       \* argsNet
  scripts,   \* the modules whose script is on its way
  loads,     \* the resources that a plugin is loading
  turns,     \* contexts whose getDeps is for the next turn
  ran,       \* history: the factories, with what they were given
  answers    \* history: the page's callbacks and errbacks

vars == <<program, defs, cols, cache, net, scripts, loads, turns, ran, answers>>

Ids == Modules \cup Resources
Loaded == -1
Undefined == -2
IsPromise(c) == c > 0
Heap == [program |-> program, defs |-> defs, cols |-> cols, cache |-> cache, net |-> net,
         scripts |-> scripts, loads |-> loads, turns |-> turns, ran |-> ran,
         answers |-> answers, stack |-> <<>>]
Become(h) ==
  /\ program' = h.program /\ defs' = h.defs /\ cols' = h.cols /\ cache' = h.cache
  /\ net' = h.net /\ scripts' = h.scripts /\ loads' = h.loads /\ turns' = h.turns
  /\ ran' = h.ran /\ answers' = h.answers

-----------------------------------------------------------------------------
Promise(id, deps) == [id |-> id, deps |-> deps, st |-> "pending", thens |-> <<>>,
                      exports |-> FALSE, useNet |-> TRUE]
Created(h, id, deps) == [h EXCEPT !.defs = Append(@, Promise(id, deps))]
IsModule(h, d) == h.defs[d].id \in Modules

(* What is still to be called in this turn, the next call first: what a call calls  *)
(* comes before what its caller goes on with.  An exception ends all but the load  *)
(* event of the script.                                                         *)
Task(op, a, b, c) == [op |-> op, a |-> a, b |-> b, c |-> c]
Do(h, tasks) == [h EXCEPT !.stack = tasks \o @]
Throw(h) == [h EXCEPT !.stack = SelectSeq(@, LAMBDA t : t.op = "scriptDone")]

(* Who waits for a promise: an index of a call of getDeps, a resource for its        *)
(* plugin, a temporary promise, the page.                                       *)
Waiter(kind, to, i, of) == [kind |-> kind, to |-> to, i |-> i, of |-> of]
Collector(d, n) == [def |-> d, left |-> n, exports |-> n, resolved |-> {}, exported |-> {}]

(* Promise: complete, then and progress.  The loop of progress goes on with a list   *)
(* that has gone when one it told has completed the promise.                     *)
Complete(h, d, ok) ==
  IF h.defs[d].st # "pending" THEN h
  ELSE LET what == IF ok THEN "resolved" ELSE "rejected"
           thens == h.defs[d].thens
       IN Do([h EXCEPT !.defs[d].st = what, !.defs[d].thens = <<>>],
             [k \in DOMAIN thens |-> Task("notify", thens[k], what, 0)])
When(h, child, w) ==
  CASE ~IsPromise(child) -> Do(h, <<Task("notify", w, "resolved", 0)>>)
    [] IsPromise(child) /\ h.defs[child].st = "pending" -> [h EXCEPT !.defs[child].thens = Append(@, w)]
    [] OTHER -> Do(h, <<Task("notify", w, h.defs[child].st, 0)>>)
Progress(h, d, msg, k) ==
  CASE h.defs[d].st # "pending" -> IF k = 1 THEN h ELSE Throw(h)
    [] h.defs[d].st = "pending" /\ k \in DOMAIN h.defs[d].thens ->
         Do(h, <<Task("notify", h.defs[d].thens[k], msg, 0), Task("progress", d, msg, k + 1)>>)
    [] OTHER -> h

(* createResourceDef: the factory runs once, with what its dependencies are then *)
Given(h, d) ==
  [i \in DOMAIN h.defs[d].deps |->
     LET c == IF h.defs[d].deps[i] \in Ids THEN h.cache[h.defs[d].deps[i]] ELSE Loaded
     IN CASE c = Loaded -> "value" [] c = Undefined -> "undefined" [] OTHER -> h.defs[c].st]
Execute(h, d) ==
  IF \E k \in DOMAIN h.ran : h.ran[k].id = h.defs[d].id THEN h
  ELSE LET g == [h EXCEPT !.ran = Append(@, [id |-> h.defs[d].id, given |-> Given(h, d)])]
       IN IF h.program[h.defs[d].id].throws THEN Complete(g, d, FALSE) ELSE g
Resolve(h, d) ==
  IF IsModule(h, d) THEN Do(h, <<Task("execute", d, 0, 0), Task("executed", d, 0, 0)>>)
  ELSE Complete(h, d, TRUE)
Executed(h, d) ==
  LET result == IF h.program[h.defs[d].id].throws THEN Undefined ELSE Loaded
  IN Complete([h EXCEPT !.cache[h.defs[d].id] = result], d, TRUE)
ExportsReady(h, d) ==
  IF ~IsModule(h, d) \/ ~h.defs[d].exports THEN h
  ELSE Do(h, <<Task("execute", d, 0, 0), Task("progress", d, "executed", 1)>>)

(* The collectors of getDeps, and what counts once for each of its indices *)
ExportCollected(h, c) ==
  LET g == [h EXCEPT !.cols[c].exports = @ - 1]
  IN IF g.cols[c].exports = 0 THEN ExportsReady(g, g.cols[c].def) ELSE g
ResolveCollected(h, c, alsoExport) ==
  Do([h EXCEPT !.cols[c].left = @ - 1],
     IF alsoExport THEN <<Task("exported", c, 0, 0), Task("allResolved", c, 0, 0)>>
     ELSE <<Task("allResolved", c, 0, 0)>>)
AllResolved(h, c) == IF h.cols[c].left = 0 THEN Resolve(h, h.cols[c].def) ELSE h
ExportOnce(h, c, i) ==
  IF i \in h.cols[c].exported THEN h
  ELSE ExportCollected([h EXCEPT !.cols[c].exported = @ \cup {i}], c)
ResolveOnce(h, c, i) ==
  IF i \in h.cols[c].resolved THEN h
  ELSE Do([h EXCEPT !.cols[c].resolved = @ \cup {i}],
          <<Task("exportOnce", c, i, 0), Task("collected", c, FALSE, 0)>>)

-----------------------------------------------------------------------------
(* fetchDep: what is in the cache; else a script is asked for *)
FetchModule(h, m) ==
  IF h.cache[m] # 0 THEN h
  ELSE LET g == Created(h, m, <<>>)
       IN [g EXCEPT !.cache[m] = Len(g.defs), !.scripts = @ \cup {m}]

(* Of a resource its plugin comes first; a temporary promise stands for it.  A plugin that *)
(* is undefined makes the step throw.                                               *)
FetchResource(h, r) ==
  LET g == FetchModule(Created(h, "temporary", <<>>), Plugin[r])
  IN When(g, g.cache[Plugin[r]], Waiter("plugin", Len(h.defs) + 1, 0, r))
PluginLoaded(h, r, temp) ==
  IF h.cache[Plugin[r]] = Undefined THEN Throw(h) ELSE
  LET k == Created(h, r, <<>>)
      g == IF h.cache[r] # 0 THEN h
           ELSE [k EXCEPT !.cache[r] = Len(k.defs), !.loads = @ \cup {r}]
  IN When(g, g.cache[r], Waiter("chain", temp, 0, r))

(* getDep: what the child exports already its notices will not tell of any more.   *)
(* Beside it, a getDep that relies on the notices.                             *)
NoEarlyExport(h, c, i, child) == h
EarlyExport(h, c, i, child) ==
  IF IsPromise(child) /\ h.defs[child].exports THEN ExportOnce(h, c, i) ELSE h
AwaitChild(h, c, i, child) ==
  LET kind == IF h.defs[h.cols[c].def].exports THEN "exporting" ELSE "dep"
  IN When(h, child, Waiter(kind, c, i, child))
GetDep(h, c, i, name) ==
  LET temp == name \in Resources /\ h.cache[name] = 0
      g == IF name \in Modules THEN FetchModule(h, name) ELSE h
      child == IF temp THEN Len(h.defs) + 1 ELSE g.cache[name]
      k == Do(g, <<Task("early", c, i, child), Task("await", c, i, child)>>)
  IN IF temp THEN FetchResource(k, name) ELSE k

(* exports among the dependencies: known to those who wait, from now on *)
UseExports(h, c) ==
  LET d == h.cols[c].def
  IN Do([h EXCEPT !.defs[d].exports = TRUE],
        <<Task("collected", c, TRUE, 0), Task("progress", d, "using", 1)>>)
GetDeps(h, d) ==
  LET names == h.defs[d].deps
      c == Len(h.cols) + 1
      Get(i) == IF names[i] = "exports" THEN Task("exports", c, 0, 0)
                ELSE Task("getDep", c, i, names[i])
  IN IF names = <<>> THEN Resolve(h, d)
     ELSE Do([h EXCEPT !.cols = Append(@, Collector(d, Len(names)))], [i \in DOMAIN names |-> Get(i)])

(* CurlApi: the callback waits at once, getDeps is for the next turn *)
CurlApi(h, ids, kind) ==
  LET d == Len(h.defs) + 1 IN
  [When(Created(h, "context", ids), d, Waiter(kind, d, 0, d)) EXCEPT !.turns = Append(@, d)]

Notify(h, w, what) ==
  CASE w.kind \in {"dep", "exporting"} /\ what = "resolved" -> ResolveOnce(h, w.to, w.i)
    [] w.kind \in {"dep", "exporting"} /\ what = "rejected" -> Complete(h, h.cols[w.to].def, FALSE)
    [] w.kind = "exporting" /\ h.defs[w.of].exports /\ what = "using" -> ExportOnce(h, w.to, w.i)
    [] w.kind = "exporting" /\ h.defs[w.of].exports /\ what = "executed" -> ResolveOnce(h, w.to, w.i)
    [] w.kind = "plugin" /\ what = "resolved" -> PluginLoaded(h, w.of, w.to)
    [] w.kind \in {"plugin", "chain"} /\ what = "rejected" -> Complete(h, w.to, FALSE)
    [] w.kind = "chain" /\ what = "resolved" -> Complete(h, w.to, TRUE)
    [] w.kind = "main" /\ what = "rejected" /\ Fallback # <<>> -> CurlApi(h, Fallback, "page")
    [] w.kind \in {"main", "page"} /\ what \in {"resolved", "rejected"} ->
         [h EXCEPT !.answers = Append(@, what)]
    [] OTHER -> h

-----------------------------------------------------------------------------
(* _define: an anonymous one leaves its arguments for the load event; a named one  *)
(* is the module's, unless it has been loaded already.                           *)
DefineResource(h, d) == GetDeps([h EXCEPT !.defs[d].deps = h.program[h.defs[d].id].deps], d)
DefineAnonymous(h) == [h EXCEPT !.net = IF h.net = "none" THEN "args" ELSE "multiple"]
DefineNamed(h, m) ==
  LET k == Created(h, m, <<>>)
      g == IF h.cache[m] # 0 THEN h ELSE [k EXCEPT !.cache[m] = Len(k.defs)]
  IN IF ~IsPromise(g.cache[m]) THEN Throw(g)
     ELSE DefineResource([g EXCEPT !.defs[g.cache[m]].useNet = FALSE], g.cache[m])

(* fetchResDef, when the script has run: unless the module was defined by name, it   *)
(* is what the net holds.                                                       *)
ScriptDone(h, d) ==
  LET g == [h EXCEPT !.net = "none"] IN
  CASE ~h.defs[d].useNet -> g
    [] h.defs[d].useNet /\ h.net = "args" -> DefineResource(g, d)
    [] h.defs[d].useNet /\ h.net # "args" -> Complete(g, d, FALSE)

Step(h) ==
  LET t == Head(h.stack)
      g == [h EXCEPT !.stack = Tail(@)] IN
  CASE t.op = "notify" -> Notify(g, t.a, t.b)
    [] t.op = "progress" -> Progress(g, t.a, t.b, t.c)
    [] t.op = "execute" -> Execute(g, t.a)
    [] t.op = "executed" -> Executed(g, t.a)
    [] t.op = "exported" -> ExportCollected(g, t.a)
    [] t.op = "collected" -> ResolveCollected(g, t.a, t.b)
    [] t.op = "allResolved" -> AllResolved(g, t.a)
    [] t.op = "exportOnce" -> ExportOnce(g, t.a, t.b)
    [] t.op = "getDep" -> GetDep(g, t.a, t.b, t.c)
    [] t.op = "early" -> EarlyExport(g, t.a, t.b, t.c)
    [] t.op = "await" -> AwaitChild(g, t.a, t.b, t.c)
    [] t.op = "exports" -> UseExports(g, t.a)
    [] t.op = "named" -> DefineNamed(g, t.a)
    [] t.op = "anonymous" -> DefineAnonymous(g)
    [] t.op = "scriptDone" -> ScriptDone(g, t.a)
RECURSIVE Ended(_)
Ended(h) == IF h.stack = <<>> THEN h ELSE Ended(Step(h))
Turn(h) == Become(Ended(h))

DefOf(m) == CHOOSE d \in DOMAIN defs : defs[d].id = m
Ran(m, defines) ==
  /\ m \in scripts
  /\ Turn([Heap EXCEPT !.scripts = @ \ {m},
                       !.stack = Append(defines, Task("scriptDone", DefOf(m), 0, 0))])

(* A script defines its module, maybe after another by name, or nothing, or twice *)
Anonymous == Task("anonymous", 0, 0, 0)
ScriptLoads(m) == Ran(m, <<Anonymous>>)
BundleLoads(m, n) == Ran(m, <<Task("named", n, 0, 0), Anonymous>>)
ScriptIsEmpty(m) == Ran(m, <<>>)
ScriptDefinesTwice(m) == Ran(m, <<Anonymous, Anonymous>>)
ScriptFails(m) == m \in scripts /\ Turn(Complete([Heap EXCEPT !.scripts = @ \ {m}], DefOf(m), FALSE))

(* A plugin has done with a resource: what it calls is loaded, or reject *)
ResourceLoaded(r) ==
  /\ r \in loads
  /\ Turn(Complete([Heap EXCEPT !.loads = @ \ {r}, !.cache[r] = Loaded], DefOf(r), TRUE))
ResourceFails(r) ==
  /\ r \in loads
  /\ Turn(Complete([Heap EXCEPT !.loads = @ \ {r}], DefOf(r), FALSE))

NextTurn == turns # <<>> /\ Turn(GetDeps([Heap EXCEPT !.turns = Tail(@)], Head(turns)))

Start(p) == [program |-> p, defs |-> <<>>, cols |-> <<>>, cache |-> [i \in Ids |-> 0],
             net |-> "none", scripts |-> {}, loads |-> {}, turns |-> <<>>, ran |-> <<>>,
             answers |-> <<>>, stack |-> <<>>]
Init == \E p \in Programs :
  LET h == CurlApi(Start(p), Main, "main") IN
  /\ program = p /\ defs = h.defs /\ cols = h.cols /\ cache = h.cache /\ net = h.net
  /\ scripts = h.scripts /\ loads = h.loads /\ turns = h.turns /\ ran = h.ran
  /\ answers = h.answers

Next ==
  \/ NextTurn
  \/ \E m \in Modules :
       \/ ScriptLoads(m) \/ ScriptIsEmpty(m) \/ ScriptDefinesTwice(m) \/ ScriptFails(m)
       \/ \E n \in Modules \ {m} : BundleLoads(m, n)
  \/ \E r \in Resources : ResourceLoaded(r) \/ ResourceFails(r)

Spec == Init /\ [][Next]_vars

-----------------------------------------------------------------------------
Exporting(i) == i \in Modules /\ \E k \in DOMAIN program[i].deps : program[i].deps[k] = "exports"
Pending == {i \in Ids : cache[i] > 0 /\ defs[cache[i]].st = "pending"}
DepsOf(i) == IF i \in Modules THEN Range(program[i].deps) \ {"exports"} ELSE {Plugin[i]}
AtRest == scripts = {} /\ loads = {} /\ turns = <<>>

(* A factory is given modules that are loaded, or that, as it does itself, use      *)
(* exports, or undefined for one whose factory has thrown before it was asked for;  *)
(* and when nothing is on its way any more, unless a plugin threw, no set of modules *)
(* still waits that all use exports and wait for each other alone: whatever the    *)
(* order in which their scripts came, nobody missed a notice.                     *)
FactoriesServed == \A k \in DOMAIN ran : \A i \in DOMAIN ran[k].given :
  LET dep == program[ran[k].id].deps[i] IN
  CASE ran[k].given[i] \in {"value", "resolved"} -> TRUE
    [] ran[k].given[i] = "undefined" ->
         program[dep].throws /\ \E j \in 1 .. k - 1 : ran[j].id = dep
    [] OTHER -> Exporting(ran[k].id) /\ Exporting(dep)
PluginsSound == \A r \in Resources : ~program[Plugin[r]].throws
NoneForgotten == AtRest /\ PluginsSound => \A s \in SUBSET Pending :
  s = {} \/ \E i \in s : \/ ~Exporting(i) /\ DepsOf(i) \cap s # {}
                         \/ DepsOf(i) \cap (Pending \ s) # {}
ModulesLoad == FactoriesServed /\ NoneForgotten
=============================================================================
