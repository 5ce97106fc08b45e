---------------------------- MODULE MCPageLibraries ----------------------------
(***************************************************************************)
(* Libraries of assets/lib, side by side: a behaviour is one of one library, *)
(* or of one widget, chosen at the start.  Those of libraries have the first of   *)
(* v1 to v14 for variables; a widget that is not the one chosen rests.  They do    *)
(* not share any state, so that one run checks them all.                         *)
(***************************************************************************)
EXTENDS Widgets, Sequences, SequencesExt, Functions, TLC

VARIABLES lib, v1, v2, v3, v4, v5, v6, v7, v8, v9, v10, v11, v12, v13, v14

From1 == <<v1, v2, v3, v4, v5, v6, v7, v8, v9, v10, v11, v12, v13, v14>>
vars == <<lib, From1, widgets>>

-----------------------------------------------------------------------------
(* Knockout: c reads b only while a is 1, d reads c and b, t is throttled; a subscriber *)
(* of d writes a, and one of b writes d's.                                       *)
Reads(c, l) ==
  CASE c = "c" -> IF l["a"] = 1 THEN {"a", "b"} ELSE {"a"}
    [] c = "d" -> {"c", "b"}
    [] c = "t" -> {"c"}
Result(c, l) ==
  CASE c = "c" -> IF l["a"] = 1 THEN l["b"] ELSE 0
    [] c = "d" -> (l["c"] + l["b"]) % 2
    [] c = "t" -> 1 - l["c"]
Watched(h) == IF h = "h" THEN "d" ELSE "b"
Target(h) == IF h = "h" THEN "a" ELSE "d"
Value(h) == 1

(* curl: modules a, b and c with any lists of dependencies of these, with exports and     *)
(* without, rings included; p is the plugin of the resource r, and the factory of c or of   *)
(* p may throw.                                                                    *)
Plugin == [r \in {"r"} |-> "p"]
Sound(deps) == [deps |-> deps, throws |-> FALSE]
Lists == {<<>>, <<"a">>, <<"b">>, <<"c">>, <<"r">>, <<"c", "b">>}
FilesOf(m) ==
  {f \in {Sound(l) : l \in Lists} \cup {Sound(<<"exports">> \o l) : l \in Lists} : ~Contains(f.deps, m)}
Throwing(deps) == [deps |-> deps, throws |-> TRUE]
Program(a, b, c, p) == "a" :> a @@ "b" :> b @@ "c" :> c @@ "p" :> p
Programs ==
  {Program(a, b, c, Sound(<<>>)) :
     a \in FilesOf("a"), b \in FilesOf("b"),
     c \in {f \in FilesOf("c") : ~Contains(f.deps, "r")}
           \cup {Throwing(<<>>), Throwing(<<"exports", "b">>)}}
  \cup {Program(a, b, Sound(<<>>), Throwing(<<>>)) : a \in FilesOf("a"), b \in FilesOf("b")}

(* msgs: what is split is collected in batches; what is filtered is served, by a channel  *)
(* that the same service also takes from; what is split is gathered again, part of it     *)
(* after a router.                                                             *)
Does(kind, out, err, other) == [kind |-> kind, out |-> out, err |-> err, other |-> other]
Logger == "tap" :> Does("logger", "none", "none", "none")
Batched ==
  [dispatcher |-> "in" :> "unicast" @@ "parts" :> "unicast" @@ "out" :> "queue",
   handler |-> "split" :> Does("splitter", "parts", "none", "none")
               @@ "batch" :> Does("batching", "out", "none", "none") @@ Logger,
   subs |-> "in" :> <<"split">> @@ "parts" :> <<"batch">>, entry |-> "in"]
Filtered ==
  [dispatcher |-> "in" :> "unicast" @@ "work" :> "broadcast" @@ "out" :> "queue",
   handler |-> "filter" :> Does("filter", "work", "out", "none")
               @@ "service" :> Does("service", "none", "none", "none") @@ Logger,
   subs |-> "in" :> <<"filter", "service">> @@ "work" :> <<"service">>, entry |-> "in"]
Gathered ==
  [dispatcher |-> "in" :> "unicast" @@ "parts" :> "unicast" @@ "work" :> "unicast" @@ "out" :> "queue",
   handler |-> "split" :> Does("splitter", "work", "none", "none")
               @@ "route" :> Does("router", "out", "none", "parts")
               @@ "gather" :> Does("correlating", "out", "none", "none") @@ Logger,
   subs |-> "in" :> <<"split">> @@ "work" :> <<"route", "gather">> @@ "parts" :> <<"gather">>,
   entry |-> "in"]
Wirings == {Batched, Filtered, Gathered}

(* Bootstrap: what matches each text, and the third toggle opens the menu of the second *)
Found == [t \in {"", "a", "b"} |-> CASE t = "" -> 1 .. 3 [] t = "a" -> {1, 2} [] t = "b" -> {2, 3}]
Opens == <<1, 2, 2>>

-----------------------------------------------------------------------------
Computed == INSTANCE KnockoutComputed WITH
  Observables <- {"a", "b"}, Values <- {0, 1}, Computeds <- {"c", "d", "t"},
  Throttled <- {"t"}, Bound <- {"d"}, Handlers <- {"h", "r"}, Reads <- Reads, Result <- Result,
  Watched <- Watched, Target <- Target, Value <- Value,
  latest <- v1, subs <- v2, deps <- v3, frames <- v4, timers <- v5, detached <- v6,
  disposed <- v7, missed <- v8
Foreach == INSTANCE KnockoutForeach WITH
  Items <- 1 .. 3, MaxLength <- 3,
  array <- v1, destroyed <- v2, rows <- v3, children <- v4
Select == INSTANCE KnockoutSelect WITH
  Values <- {"a", "b", "c"}, Undefined <- "undefined", MaxItems <- 2, MaxTimers <- 2,
  caption <- v1, items <- v2, model <- v3, shown <- v4, timers <- v5, overtaken <- v6,
  lost <- v7
Region == INSTANCE KnockoutRegion WITH
  MaxMade <- 16,
  kind <- v1, either <- v2, value <- v3, subscribers <- v4, text <- v5, renderer <- v6,
  didDisplay <- v7, made <- v8, stale <- v9
When == INSTANCE Promises WITH
  Deferreds <- 2, MaxCalls <- 2,
  ps <- v1, queue <- v2, counts <- v3, draining <- v4, calls <- v5
Guard == INSTANCE GuardedWork WITH
  Callers <- 1 .. 4, Allowed <- 2,
  at <- v1, count <- v2, waiting <- v3, settled <- v4, timer <- v5, outcome <- v6
Poll == INSTANCE Polling WITH
  MaxVotes <- 3,
  chain <- v1, canceled <- v2, settled <- v3, told <- v4, votes <- v5, late <- v6, threw <- v7
Curl == INSTANCE ModuleLoader WITH
  Modules <- {"a", "b", "c", "p"}, Resources <- {"r"}, Plugin <- Plugin, Programs <- Programs,
  Main <- <<"a">>, Fallback <- <<"b">>,
  program <- v1, defs <- v2, cols <- v3, cache <- v4, net <- v5, scripts <- v6, loads <- v7,
  turns <- v8, ran <- v9, answers <- v10
Css == INSTANCE Stylesheets WITH
  MaxSheets <- 3, ieMaxCollectorSheets <- 2,
  browser <- v1, hasEvent <- v2, complete <- v3, loads <- v4, load <- v5, network <- v6,
  queue <- v7, pool <- v8, made <- v9, importing <- v10, finalized <- v11, watched <- v12,
  fires <- v13, waiting <- v14
Js == INSTANCE OrderedScripts WITH
  Files <- {"a", "b", "c"}, MaxCalls <- 3,
  supportsAsyncFalse <- v1, cache <- v2, callers <- v3, told <- v4, calls <- v5, def <- v6,
  loading <- v7, polled <- v8, queue <- v9, waitForOrderedScript <- v10, early <- v11,
  broken <- v12
Immediate == INSTANCE Immediates WITH
  MaxTasks <- 4,
  way <- v1, nextHandle <- v2, tasksByHandle <- v3, running <- v4, notices <- v5, ran <- v6,
  cleared <- v7, nested <- v8
Ready == INSTANCE DomReady WITH
  MaxCallbacks <- 4,
  readyState <- v1, body <- v2, completed <- v3, listening <- v4, timer <- v5,
  callbacks <- v6, given <- v7, called <- v8, threw <- v9
Bus == INSTANCE MessageBus WITH
  Wirings <- Wirings, Tapped <- {"in", "dead"}, BatchSize <- 2, MaxPosts <- 2,
  wiring <- v1, subs <- v2, taps <- v3, last <- v4, queues <- v5, batch <- v6, timer <- v7,
  buckets <- v8, busy <- v9, broken <- v10, posts <- v11, ends <- v12
Topics == INSTANCE Exchange WITH
  Words <- {"x", "y"}, MaxWords <- 3, Bindings <- {<<"x">>, <<"*", "#">>},
  Handlers <- {"h", "i"}, MaxMessages <- 1,
  topics <- v1, message <- v2, left <- v3, clone <- v4, at <- v5, errors <- v6, got <- v7,
  stayed <- v8, removed <- v9, threw <- v10, sent <- v11
Bridge == INSTANCE StompBridge WITH
  Destinations <- {"d", "e"}, Handlers <- {"h", "i"}, MaxIds <- 5, MaxSends <- 1,
  ready <- v1, subscriptions <- v2, destinations <- v3, receipts <- v4, counter <- v5,
  out <- v6, in <- v7, server <- v8, sends <- v9, acks <- v10, calls <- v11, notices <- v12,
  premature <- v13, destroyed <- v14
Focus == INSTANCE KnockoutFocus WITH
  Count <- 3,
  redirect <- v1, early <- v2, blind <- v3, active <- v4, value <- v5, updating <- v6,
  last <- v7, evaluating <- v8
Receive == INSTANCE Receivers WITH
  MaxRequests <- 3, MaxText <- 4,
  kind <- v1, closing <- v2, current <- v3, requests <- v4, heard <- v5, failures <- v6,
  limit <- v7

-----------------------------------------------------------------------------
(* The variables a library has no use for *)
None == 0
Unused14 == v14 = None
Unused13 == v13 = None /\ Unused14
Unused12 == v12 = None /\ Unused13
Unused11 == v11 = None /\ Unused12
Unused10 == v10 = None /\ Unused11
Unused9 == v9 = None /\ Unused10
Unused8 == v8 = None /\ Unused9
Unused7 == v7 = None /\ Unused8
Unused6 == v6 = None /\ Unused7
Unused5 == v5 = None /\ Unused6
Unused1 == v1 = None /\ v2 = None /\ v3 = None /\ v4 = None /\ Unused5
From14 == <<v14>>
From13 == <<v13, v14>>
From12 == <<v12, v13, v14>>
From11 == <<v11, v12, v13, v14>>
From10 == <<v10, v11, v12, v13, v14>>
From9 == <<v9, v10, v11, v12, v13, v14>>
From8 == <<v8, v9, v10, v11, v12, v13, v14>>
From7 == <<v7, v8, v9, v10, v11, v12, v13, v14>>
From6 == <<v6, v7, v8, v9, v10, v11, v12, v13, v14>>
From5 == <<v5, v6, v7, v8, v9, v10, v11, v12, v13, v14>>

InitLibrary ==
  \/ lib = "computed" /\ Computed!Init /\ Unused9
  \/ lib = "foreach" /\ Foreach!Init /\ Unused5
  \/ lib = "select" /\ Select!Init /\ Unused8
  \/ lib = "region" /\ Region!Init /\ Unused10
  \/ lib = "when" /\ When!Init /\ Unused6
  \/ lib = "guard" /\ Guard!Init /\ Unused7
  \/ lib = "poll" /\ Poll!Init /\ Unused8
  \/ lib = "curl" /\ Curl!Init /\ Unused11
  \/ lib = "css" /\ Css!Init
  \/ lib = "js" /\ Js!Init /\ Unused13
  \/ lib = "immediate" /\ Immediate!Init /\ Unused9
  \/ lib = "domReady" /\ Ready!Init /\ Unused10
  \/ lib = "msgs" /\ Bus!Init /\ Unused13
  \/ lib = "topics" /\ Topics!Init /\ Unused12
  \/ lib = "stomp" /\ Bridge!Init
  \/ lib = "focus" /\ Focus!Init /\ Unused9
  \/ lib = "receivers" /\ Receive!Init /\ Unused8
  \/ /\ lib \in {"modal", "carousel", "tooltip", "typeahead", "accordion", "tabs", "dropdown"}
     /\ Unused1

(* A widget that is not the one chosen stays as one of its initial states has it *)
InitWidgets ==
  /\ Dialog!Init /\ (lib = "modal" \/ ~fade)
  /\ Slides!Init /\ (lib = "carousel" \/ ~interval)
  /\ Tip!Init /\ (lib = "tooltip" \/ options = [animation |-> FALSE, show |-> FALSE, hide |-> FALSE])
  /\ List!Init
  /\ Accord!Init /\ (lib = "accordion" \/ openGroups = {})
  /\ Pane!Init /\ (lib = "tabs" \/ (tab = 1 /\ ~panesFade))
  /\ Drop!Init /\ (lib = "dropdown" \/ (disabled = {} /\ ~touch))

Init == InitLibrary /\ InitWidgets

Next ==
  /\ UNCHANGED lib
  /\ \/ /\ UNCHANGED widgets
        /\ \/ lib = "computed" /\ Computed!Next /\ UNCHANGED From9
           \/ lib = "foreach" /\ Foreach!Next /\ UNCHANGED From5
           \/ lib = "select" /\ Select!Next /\ UNCHANGED From8
           \/ lib = "region" /\ Region!Next /\ UNCHANGED From10
           \/ lib = "when" /\ When!Next /\ UNCHANGED From6
           \/ lib = "guard" /\ Guard!Next /\ UNCHANGED From7
           \/ lib = "poll" /\ Poll!Next /\ UNCHANGED From8
           \/ lib = "curl" /\ Curl!Next /\ UNCHANGED From11
           \/ lib = "css" /\ Css!Next
           \/ lib = "js" /\ Js!Next /\ UNCHANGED From13
           \/ lib = "immediate" /\ Immediate!Next /\ UNCHANGED From9
           \/ lib = "domReady" /\ Ready!Next /\ UNCHANGED From10
           \/ lib = "msgs" /\ Bus!Next /\ UNCHANGED From13
           \/ lib = "topics" /\ Topics!Next /\ UNCHANGED From12
           \/ lib = "stomp" /\ Bridge!Next
           \/ lib = "focus" /\ Focus!Next /\ UNCHANGED From9
           \/ lib = "receivers" /\ Receive!Next /\ UNCHANGED From8
     \/ /\ UNCHANGED From1
        /\ \/ lib = "modal" /\ DialogStep
           \/ lib = "carousel" /\ SlidesStep
           \/ lib = "tooltip" /\ TipStep
           \/ lib = "typeahead" /\ ListStep
           \/ lib = "accordion" /\ AccordStep
           \/ lib = "tabs" /\ PaneStep
           \/ lib = "dropdown" /\ DropStep

Spec == Init /\ [][Next]_vars

-----------------------------------------------------------------------------
(* Knockout: computeds have the values their functions give now, drop-down and model    *)
(* agree, a region is shown exactly while its condition holds, and a field is true while  *)
(* it has the focus.                                                               *)
BindingsKept ==
  /\ lib = "computed" => Computed!ComputedsCurrent
  /\ lib = "select" => Select!SelectAgrees
  /\ lib = "region" => Region!RegionKept
  /\ lib = "focus" => Focus!FocusKept

(* Knockout: after every operation on an array its rows are those of its items, in order, *)
(* and as many as can stay keep their nodes.                                        *)
RowsFollowArray ==
  /\ [](lib = "foreach" => Foreach!RowsMatch)
  /\ [][lib = "foreach" => Foreach!RowsKept]_vars

(* when: no result is lost on its way through promises, guarded work keeps to its limit   *)
(* and hands its places on, and a poll does one thing at a time until it is settled.       *)
PromisesKept ==
  /\ lib = "when" => When!PromisesKept
  /\ lib = "guard" => Guard!GuardKept
  /\ lib = "poll" => Poll!OneAtATime

(* curl, its plugins, and the tasks of poly: factories are given modules that are loaded,   *)
(* and no set of modules waits that nothing keeps waiting; whoever asks for sheets, for    *)
(* scripts, for the document or for a task of his own is called once, when it is time,     *)
(* and in order.                                                                 *)
LoadersKept ==
  /\ lib = "curl" => Curl!ModulesLoad
  /\ lib = "css" => Css!SheetsTold
  /\ lib = "js" => Js!ScriptsTold
  /\ lib = "immediate" => Immediate!TasksKept
  /\ lib = "domReady" => Ready!CalledOnce

(* msgs: what the page posts is in one place, whoever throws; whoever matches a topic and   *)
(* stays subscribed has its message; and while a STOMP connection lasts, server and page    *)
(* agree on who is subscribed.  SockJS hears what it receives in order, and nothing when     *)
(* it has closed.                                                                  *)
MessagesKept ==
  /\ lib = "msgs" => Bus!EachInOnePlace
  /\ lib = "topics" => Topics!ExchangeKept
  /\ lib = "stomp" => Bridge!BridgeInStep
  /\ lib = "receivers" => Receive!HeardInOrder
=============================================================================
