# A TLA+ model of the truck event streaming demo

The repository streams simulated truck events through Kafka into a Storm
topology that stores them in HBase, HDFS and Hive, looks for unsafe driving,
and shows the result on a map in the browser. This directory holds TLA+ modules
that model its core logic, the TLC configurations that check them, and proofs
for TLAPS. They follow an event on its way: the Kafka spout (`storm-kafkaplus`),
on which the delivery of every event depends; the bolts that count and alert;
the SockJS and STOMP clients that bring it to the page; and the pages. Beside
this way lie libraries that the repository keeps under `assets/lib`; most of what
is modelled of them no page of the demonstration runs (see "The vendored libraries").

Commands, in this directory:

    tlc -config PartitionManagerSafety.cfg MCPartitionManager
    tlc -config PartitionAssignmentSafety.cfg MCPartitionAssignment
    tlc -config EventPipeline.cfg MCEventPipeline
    tlc -config SockJSClient.cfg MCSockJSClient
    tlc -config DriverPage.cfg DriverPage
    tlc -config PageLibraries.cfg MCPageLibraries
    tlapm PartitionManagerProofs.tla

## The system

Paths are relative to the repository. `kafka/` abbreviates
`storm-kafkaplus/src/jvm/storm/kafka/`, `impl/` abbreviates
`storm-streaming/src/main/java/com/hortonworks/streaming/impl/`, `lib/`
abbreviates `storm-demo-webapp/src/main/webapp/assets/lib/`.

| component | state | operations | interacts with |
|---|---|---|---|
| Simulator (`stream-simulator`) | each truck actor's truck, driver, route and message count; shared pools of free trucks and routes | `Truck.onReceive` / `generateEvent`, `changeTruckIfRequired`, `changeDriverRouteIfRequired`; `TruckConfiguration.getNextTruckId` | truck actors share the pools; the event collector actor publishes to Kafka |
| Partition manager (`kafka/PartitionManager.java`, `KafkaUtils.java`) | `_emittedToOffset`, `_committedTo`, `_pending`, `_waitingToEmit`; the node `committedPath()` in ZooKeeper | constructor, `next`/`fill`, `ack`, `fail`, `commit` | fetches from the leader of its partition; one node of ZooKeeper |
| Kafka spout (`kafka/KafkaSpout.java`) | `_currPartitionIndex`, `_lastUpdateMs`, `_uuid` | `nextTuple`, `ack`, `fail`, `deactivate`, `commit` | called by Storm's executor on one thread; calls the managers |
| Partition assignment (`kafka/ZkCoordinator.java`, `DynamicBrokersReader.java`, `DynamicPartitionConnections.java`) | `_managers`, `_cachedList`, `_connections` | `refresh`, `getManager`, `register`/`unregister` | reads Kafka's nodes in ZooKeeper; each task decides alone |
| Trident emitter (`kafka/trident/`) | the metadata of the last batch, kept by Trident | `emitNewPartitionBatch`, `failFastEmitNewPartitionBatch`, `reEmitPartitionBatch`, `refresh` | Trident replays batches by their metadata |
| Kafka bolt (`kafka/bolt/KafkaBolt.java`) | none | `execute` | acks even if the send failed |
| Event pipeline (`impl/topologies/TruckEventProcessorKafkaTopology.java`, `impl/kafka/TruckScheme2.java`, `impl/bolts/`) | HBase rows and counters | `execute` of the HBase, rule and web socket bolts | Storm replays a tuple tree that fails or times out |
| Rule engine (`impl/TruckEventRuleEngine.java`) | the unsafe events of each driver, the last correlation id | `processEvent`, `sendAlertToTopic`, `sendAlert` | called by the rule bolt; JMS |
| Drools bolt (`impl/bolts/DroolsBolt.java`) | the rule session | `execute`, `afterActivationFired` | a second thread fires the rules and emits |
| Rotation (`impl/bolts/hdfs/`, `impl/bolts/hive/`) | the time of the last rotation | `mark`, `reset`, `execute` | HDFS bolt, Hive |
| Web application (`storm-demo-webapp`) | centre and zoom of the map; HBase tables | start, reset, latest events | simulator, HBase, JMS |
| Monitoring pages (`storm-demo-webapp/src/main/webapp/{truck,drools,pred}/truck.js`) | rows, `rowLookup`, circles, notifications, timers of highlighted rows | `loadDangerousEvents`, `processDangerousEvent`, `renderOnMap`, `pushNotification` | called by the STOMP client with each frame; Leaflet draws |
| STOMP client (`lib/stomp/dist/stomp.js`) | `connected`, `pinger`, `ponger`, `serverActivity` | `connect`, `_setupHeartbeat`, `disconnect`, `_cleanUp` | a SockJS socket below, the page above |
| SockJS client (`lib/sockjs/sockjs.js`) | `readyState`, `_protocols`, `_transport`, `_transport_tref`, the send buffer | `_try_next_protocol`, `_didClose`, `_didMessage`, `send`, `close` | XMLHttpRequest, iframes, scripts, the server |
| Knockout (`lib/knockout/`) | subscriptions, dependencies, the rows of each foreach, the nodes of each region | writes, `evaluateImmediate`, `setDomNodeChildrenFromArrayMapping`, the bindings | the pages' models, the DOM, timers |
| when, curl, msgs, poly: vendored, loaded by no page (`lib/when/`, `lib/curl/`, `lib/msgs/`, `lib/poly/`) | promises and their queue; modules, sheets and scripts being loaded; channels and subscriptions; tasks | see the modules below | each other, the browser's events and timers |
| Bootstrap, of which no page uses a widget (`lib/bootstrap/`) | what each widget's plugin object believes of its element | `show`, `hide`, `slide`, `lookup` and their timers | transitions and their end events |

What is hard in it, and what would make each component correct:

* **Spout.** Acks and fails come in any order, also after the manager they
  belong to is gone; workers die between any two steps; leaders move; a
  redeployed topology finds its predecessor's offset. Correct means: no saved
  offset has an unprocessed message below it, nothing is skipped, nothing holds
  the offset back for ever, and nothing is emitted twice without cause.
* **Assignment.** Tasks refresh at different times, from a picture of the
  brokers read piece by piece. Correct means: each partition has one manager
  once the pictures agree, and two managers never make the node lie.
* **Trident.** A batch must be re-emitted as it was, also after a failed fetch
  and a redeployment.
* **Pipeline and rule engine.** Every bolt acks whatever happened; replays
  repeat increments; late events of an older demo reset the drivers' windows.
* **Drools bolt.** Two threads use one session and one collector.
* **Simulator.** Actors hold a pool thread while they wait for a route that
  another actor must release.
* **Transport to the page.** A transport that was given up answers late; timers,
  the load event and close() meet in any order; requests that send may not
  overtake each other. Correct means: only the current transport speaks, the
  fallback leaves none out, and the socket keeps the contract of a web socket.
* **Pages.** The first picture comes early, late or never, in the middle of a
  batch whose rest an exception loses. Correct means: circles, rows and
  notifications tell what has been received.
* **Vendored libraries.** What each believes (a value computed, a promise settled, a
  module loaded, a dialog shown) must agree with what happens later, in another
  turn, in an order nobody has tested.
* **Web application.** Plain services; in passing we noted that
  `StreamGeneratorService.java:46` stores the longitude as a latitude, that
  `DriverEventsService.java:80` reads a latitude from the longitude's column,
  and that `FileTimeRotationPolicy.Units.DAYS` has the length of an hour.

`PROJECT.json` lists each hazard with its line and the properties that cover it.

## The modules

| module | what it is |
|---|---|
| `PartitionManager` | one partition, as one task of the spout sees it |
| `AtLeastOnce` | the abstract specification: what a reader of a log promises about the position it saves |
| `MCPartitionManager` | instances for TLC: payloads, configurations, symmetry |
| `PartitionManagerProofs` | the inductive invariant, all the safety properties, and that `PartitionManager` implements `AtLeastOnce` |
| `PartitionAssignment` | several tasks that share the partitions and their nodes in ZooKeeper |
| `MCPartitionAssignment` | symmetry for its instances |
| `PartitionAssignmentProofs` | its inductive invariant and all its safety properties |
| `EventPipeline`, `MCEventPipeline` | HBase bolt, web socket bolt and rule engine over a log of truck events |
| `EventPipelineProofs` | its inductive invariant and its four properties |
| `Socket` | the abstract specification of a web socket: open, messages, close |
| `SockJSClient`, `MCSockJSClient` | a SockJS socket, its transports, its sender; four browsers |
| `SockJSClientProofs` | its inductive invariant, its safety properties, and that it implements `Socket` |
| `StompClient` | the STOMP client's connection and its intervals |
| `Receivers` | how the transports of SockJS that poll receive, request by request |
| `DriverPage` | the three monitoring pages; EXTENDS `StompClient` |
| `DriverPageProofs` | its inductive invariant and its six safety properties |
| `KnockoutComputed`, `KnockoutForeach`, `KnockoutSelect`, `KnockoutRegion` | computeds; the rows of an observable array; a drop-down; what `if`, `ifnot`, `with` and templates show |
| `KnockoutFocus` | the binding `hasfocus` of the fields of a form |
| `Promises`, `GuardedWork`, `Polling` | `when.js`; `guard.js` with `timeout.js`; `poll.js` with `cancelable.js` and `delay.js` |
| `ModuleLoader`, `Stylesheets`, `OrderedScripts`, `DomReady` | `curl.js` and its plugins `css`, `js` and `domReady` |
| `MessageBus`, `Exchange`, `StompBridge` | `msgs.js`; its topics; its bridge to a STOMP broker |
| `Modal`, `Carousel`, `Tooltip`, `Typeahead`, `Accordion`, `Tabs`, `Dropdown` | seven widgets of Bootstrap |
| `Immediates` | `setImmediate.js` of poly |
| `Widgets` | the seven widgets on one page, their events in any order |
| `MCPageLibraries` | one instance of each vendored library, side by side; EXTENDS `Widgets` |
| `ListLemmas` | numbers, lists and folds: the lemmas the next two build on |
| `WidgetAndBridgeProofs` | properties of the seven widgets, alone and on one page, and of the STOMP bridge of `msgs` |
| `LibraryProofs` | properties of curl's plugins `css`, `js` and `domReady`, of SockJS's receivers, of the guard and the poll of `when`, and of `setImmediate` |

### PartitionManager and the code

The callbacks of a spout run on one thread, so each of them is one action:

| action | code |
|---|---|
| `NextTuple` (`Emit`, `EmitNothing`) | `KafkaSpout.nextTuple` with `PartitionManager.next` and `fill`, and `commit` when the update interval is over (`commitDue`) |
| `DeserializeFails`, `FetchFails` | the same call when the scheme or the fetch throws: nobody catches it and the worker dies |
| `Ack`, `Fail` | `KafkaSpout.ack`, `fail`, with `ZkCoordinator.getManager` and the manager's own method |
| `Deactivate` | `KafkaSpout.deactivate` |
| `Close`, `Open` | `ZkCoordinator.refresh` for this partition, with the constructor of the manager |

A refresh that finds a new leader closes one manager and opens another in a
single call; `Open` therefore replaces a manager whose host is not the leader.
A refresh is a step of its own in the model although the code runs it at the
start of `nextTuple` (or `commit`): between the two calls nothing else runs on
the thread, and a leader that moves in between is one that moves after.

| variable | code |
|---|---|
| `emittedTo`, `committedTo`, `pending`, `waiting`, `host` | the fields of the manager; `host` is `_partition.host`, `NoHost` when there is no manager |
| `zk` | the JSON node at `committedPath()`: the topology id and the offset |
| `topology` | `_uuid`, counted: equal exactly when the code's ids are |
| `config` | `forceFromStart`, `startOffsetTime`, `useStartOffsetTimeIfOffsetOutOfRange` |
| `inflight` | Storm's: the tuple trees that are neither complete nor failed |
| `logStart`, `logEnd`, `log`, `epoch`, `leader` | Kafka's. A message is its offset and the epoch it was written in, so a truncated log that grows again holds other messages |
| `handled`, `origin`, `disturbed` | history, read by no action |

`origin` is the offset from which the spout answers for messages. It moves only
when the code, rightly, has no offset to resume from and takes its start from
the configuration. Note what that means for the default configuration
(`forceFromStart = false`): such a start is the end of the log, so messages of
a worker that died before its first commit are not read again. The model treats
this as what was asked for.

What surrounds the spout: `Produce`, `ChangeLeader` (a leader may also vanish,
which closes the manager), `Crash` and `Redeploy` in every run, `Expire`
(retention), `Truncate` (the log is cut back) and `Open(FALSE)` (the read of
the node fails) each in a run of its own. Apart from a crash, the worker dies
only by the exceptions above. Tuples of a dead worker are forgotten, as Storm
tracks them in the spout's executor; tuples of a closed manager are not, and
their acks and fails still arrive.

### PartitionAssignment and the code

Here the actors are the spout's tasks, each on its own worker, and every access
to ZooKeeper is a step, because other tasks and Kafka act in between:

| action | code |
|---|---|
| `BeginRefresh`, `ReadLeader`, `ReadBroker` | `ZkCoordinator.refresh` calls `DynamicBrokersReader.getBrokerInfo`: for each partition its leader, then the leader's node; a missing node leaves the partition out |
| `Reassign`, `RefreshFails` | the rest of `refresh`: `calculatePartitionsForTask` (`Mine`), managers closed and opened, connections; or a constructor that throws |
| `Fetch`, `Process`, `Fail`, `FetchFails` | `fill`, `ack`, `KafkaSpout.fail` with the manager's `fail`, and a fetch that throws |
| `CheckNode`, `WriteNode`, `CreateFails` | `commit` with the two calls of `ZkState.writeBytes` |
| `MoveLeader`, `StopBroker`, `StartBroker`, `Crash` | the surroundings |

`read` is the `GlobalPartitionInformation` under construction, `scan` and
`found` the place `getBrokerInfo` is at, `managers` and `connections` the maps
`_managers` and `_connections`, `zk` the offsets in the nodes. `view` is the
picture of the last refresh; the code throws it away, and only properties read it.

A manager is reduced to what matters between tasks: its host, the offset up to
which it has completed (`lastCompletedOffset()`), the one it believes saved
(`_committedTo`), and the one it has emitted to (`_emittedToOffset`). What lies
between the first and the last is pending and completed in order; in which orders acks come
is `PartitionManager`'s subject. A tuple that fails takes its manager back (`Fail`),
below what it has completed if it is older: then it is one that a manager of
the same partition on the same host had emitted before it was closed, or another
copy of a tuple that failed. Their ids are in `inFlight`; a crash forgets them. The log is
complete from the start (`LogEnd`), so one fetch brings all that is left of it and acks
may follow whatever happens to the broker. Managers start as the configuration `forceFromStart` with the
earliest offset makes them, in one deployment: with the latest offset the same
module would have nothing to process. A commit is taken partition by partition,
as the loops of `KafkaSpout.commit` and of `nextTuple` do; nothing else of the
task runs while a write is under way (`Idle`).

### EventPipeline and the code

The HBase bolt anchors what it emits to the event (`TruckHBaseBolt.java:135`), so
that Storm emits an event again when its tuple tree is not done in time; the bolts
never fail a tuple, and ack one whose writes or whose message were lost. A copy is
in one task of the HBase bolt, and every call of HBase is a step, because another
task counts for the same driver:

| action | code |
|---|---|
| `Emit` | the spout, or the spout again (`MaxReplays`) |
| `ReadCount`, `PutRow`, `Increment` | `TruckHBaseBolt.execute`: `getInfractionCountForDriver`, `put`, `incrementColumnValue`; the count is read for every event, the other two follow only for a violation |
| `StoreFails` | a `put` or an increment that throws, done by HBase or not: the exception is logged, the tuple goes on with the count as it was read, and is acked |
| `ReadCountFails` | a read that throws: a `RuntimeException` leaves the bolt and kills the worker |
| `PassOn`, `Publish` | the emit of the bolt, `WebSocketBolt.execute` |
| `PublishLost`, `PublishFails` | ActiveMQ cannot be reached: the message is lost and the tuple acked; or there is no producer, for which `getTopicProducer` throws and kills the worker, the first of the two topics published or not |
| `ProcessEvent` | `TruckEventRuleBolt.execute` with `TruckEventRuleEngine.processEvent`: a new correlation id clears every window, a full window is an alert; one that cannot be sent is logged and forgotten all the same (`sendAlert`, and the `finally` of `processEvent`) |

`rows` and `counts` are the two tables, `published` what the page was sent,
`rules` the state of the rule engine, `alerts` what it raised, sent or not.

A worker runs some of the tasks, we do not say which: `WorkerDies` takes any set of
the HBase bolt's tasks with the one that threw, the tuples they are at, any of those in
queues or on their way, and the rule engine or not. A tuple that had been put and
not yet counted is then `cut`, any other `dead`; Storm's replay of them is `Emit`. The
rule engine of the new worker begins with empty windows and may have missed any number of
the tuples emitted so far (`NewEngine`, and `rules.began`, which only properties read).

### SockJSClient and the code

One socket. Every callback of the browser is an action, and what it calls,
down to the clean-up of a transport, is part of it:

| action | code |
|---|---|
| `AskInfo`, `InfoAnswered`, `InfoFailed`, `InfoUnreadable` | `createInfoReceiver` and its `finish` handler, with `detectProtocols` and the first `_try_next_protocol` |
| `TransportTimeout`, `Load` | the timer of `_try_next_protocol`, and its load listener when a transport needs the body |
| `AjaxStarts`, `IframeLoaded`, `IframeFailed`, `Receive`, `Breaks`, `PollAgain`, `PollFails` | what the transports tell the socket: `AbstractXHRObject`, `IframeTransport`, `JsonPTransport`, `Polling`; a frame is open, heart-beat, message or close |
| `Send`, `PostTaken`, `PostAnswered`, `PostFails`, `WaitOver` | `send` and `BufferedSender` |
| `Close`, `DispatchClose` | `close` and the delayed close event of `_didClose` |

`s` is the socket with its transports (`tr`) and its sender (`snd`). The
environment is `probed` (what the browser can do), `info` (the server's
answer) and `complete` (the page is loaded). `Cleaned` is `doCleanup`; it keeps
what the code forgets: an ajax start that is delayed cannot be undone, and
`send_destructor` looks at `_send_stop`, which is never set, so a sender goes on.

### DriverPage and the code

`Deliver` is one callback of the socket: the frames of a batch are handed to the
page one by one (`Handled`, a recursive function, whose step `Handle` is), and an
exception ends the batch. `Loaded`, `Process`, `Push`,
`Show` and `Render` (`RenderTruck`, `RenderDrools` and `RenderPred` for the three
pages) are the handlers of the subscriptions, `UnHighlight` the timer of `processDangerousEvent`. `StompClient`
has the socket's end, the two intervals and `_cleanUp`. A circle's size counts
its growths by 1.1, so that `MaxSteps` stands for 40000 metres or 30000.

### The vendored libraries

The repository keeps the libraries under `lib/`, some of them only because another
brings it along. The five pages load SockJS, STOMP, Knockout, Bootstrap and jQuery; none
loads curl, when, poly or msgs. Of Knockout they use observables, the
computed that evaluates each binding, and `foreach` over an array, but no drop-down and no focus; of Bootstrap its
styles, and none of the widgets modelled here. The modules of those parts therefore say what the
code in the repository does, not something the demonstration
depends on, and no hazard is listed for them; they are as detailed as their
properties need, and `KnockoutSelect` and the widgets more than anything outside them does.

Each module says in its head what it models; here is what a step is.

* `KnockoutComputed`: a write pushes one frame for each subscription onto
  `frames` (`notifySubscribers` goes through a copy), and `Notify` makes the next
  call: a computed is evaluated (`evaluateImmediate`), subscribes to what it read,
  is disposed of, or is put off by its timer; a handler writes again.
* `KnockoutForeach`: an `Operation` on the array and `ValueHasMutated`, which
  compares (`CompareArrays`, the band of edit distances and the way back), finds
  moves, and rearranges the nodes.
* `KnockoutSelect`, `KnockoutRegion`: a write of the model, a choice of the user,
  a timer; all the updates that follow, in the order of the bindings.
* `KnockoutFocus`: the user, the browser or the model moves the focus, with all the
  handlers this calls, nested as `focus()` and `blur()` nest them (`Handle` is
  `handleElementFocusChange`, `Update` the binding's update).
* `Receivers`: an event of a request, that is a chunk, an end, a message, an error or a
  script, with all that the receiver and the socket do upon it; the page may
  close the socket on any message.
* `Promises`: `Drain` runs the next task of `handlerQueue`; `Resolve`, `Then`,
  `All`, `Some` are the page's calls between.
* `GuardedWork`, `Polling`: the callers of a guarded function and their timers; the
  turns of a poll, and work or a verifier that throws instead of rejecting.
* `ModuleLoader`: an event of the browser (a script runs, or fails) or the next
  turn of `nextTurn`, with every notice it causes, by an explicit stack.
* `Stylesheets`, `OrderedScripts`, `DomReady`, `Immediates`: a call, or an event
  or timer of the browser.
* `MessageBus`: a post, a timer or an answer, with all the calls that follow by an
  explicit stack with its frames that catch; `Exchange`: each delivery a step,
  because handlers subscribe and leave meanwhile; `StompBridge`: a call, or one
  frame read by either side.
* The widgets: a call or click, a transition's end, a timeout.

## The runs

| run | configuration | states | shows |
|---|---|---|---|
| `pm_safety` | `PartitionManagerSafety.cfg` | 1.1 million | the seven safety properties |
| `pm_liveness` | `PartitionManagerLiveness.cfg` | 15 thousand | `EventuallyProcessed`, `EventuallyCommitted` |
| `pm_retention` | `PartitionManagerRetention.cfg` | violation | `CommittedIsProcessed` fails when the log expires ahead of the spout |
| `pm_truncation` | `PartitionManagerTruncation.cfg` | violation | `NoOrphanPending` fails when the log is cut back |
| `pm_read_error` | `PartitionManagerReadError.cfg` | violation | `CommittedIsProcessed` fails when the node cannot be read |
| `pa_safety` | `PartitionAssignmentSafety.cfg` | 4.6 million | the five safety properties and `TypeOK`, two tasks and two partitions |
| `pa_liveness` | `PartitionAssignmentLiveness.cfg` | 86 thousand | `EventuallyOneOwner` |
| `pa_stale` | `PartitionAssignmentStale.cfg` | violation | `NoNewOffset` fails when two tasks have written one node |
| `pipeline` | `EventPipeline.cfg` | 2.2 million | counts, totals and alerts, whatever call fails |
| `sockjs` | `SockJSClient.cfg` | 53 thousand | the socket's invariants, its contract, and that messages arrive |
| `driver_page` | `DriverPage.cfg` | 628 thousand | the pages show what was received, and a lost connection is noticed |
| `page_libraries` | `PageLibraries.cfg` | 1.0 million | what each vendored library promises |

Properties:

* `CommittedIsProcessed`: no offset a new manager would resume from has an
  unprocessed message below it. This is at-least-once delivery.
* `NothingSkipped`: what the manager has read past is processed or pending.
* `NoOrphanPending`: each pending offset is buffered, or in flight in a tuple
  whose ack or fail will reach this manager.
* `NoDuplicateUndisturbed`: without fails and lost managers every message is in
  one place.
* `NoUncausedRegress`: without them the saved offset only grows.
* `ImplementsAtLeastOnce`: every step is a step of `AtLeastOnce`. That
  specification lets the saved position move freely over processed messages,
  also back, and lets it be given up, because a forced redeployment does so.
* `EventuallyProcessed`, `EventuallyCommitted`: every message is processed, and
  the saved offset passes it, unless a start with nothing saved passes over it.

* `AgreeingTasksShareOut`: tasks that saw the same brokers share no partition
  and, if all saw the same, leave none of it out.
* `OwnedByNumber`: as long as no broker has gone, leader moves and torn pictures
  never give a partition to another task than that of its number.
* `SavedIsProcessed`: however many managers write a node, what is below the
  offset in it is processed.
* `NodeGoesBackByRewindOnly`: a node may go back because a tuple fails whose offset
  its manager has committed past. As long as no broker has gone, this is the only way: its writer
  knew what is saved and was rewound below it. A missing broker, which renumbers the
  partitions, opens another (`pa_stale`).
* `ConnectionsMatchManagers`: a task's connections are those of its managers, so
  `unregister`, which does not check, finds its host.
* `EventuallyOneOwner`: in the end each partition has one manager, on its leader.

* `CountsFollowRows`: a driver's count falls behind the stored violations only by
  those between the put and the increment, their worker alive or dead, and by
  calls that failed. But for these, `DriverEventsService`, which throws for a driver with a row and no
  count, finds one.
* `DistinctCounts`: two tasks never publish one total of a driver twice, unless a
  call has failed.
* `AlertsHonest`: an alert is about one driver in one demo, shares no event with
  another, and comes with every sixth violation (`MAX_UNSAFE_EVENTS` + 1) that one
  rule engine sees while it lives and the demos come in order, events emitted again
  included. Not more alerts are lost than calls failed.

* `OnlyCurrentSpeaks`: a transport that was given up never calls the socket back.
* `FallbackExhausted`: "All transports failed" is said when each was tried.
* `NeverStuck`: a connecting socket has a request, a timer or the load event to
  come. Only an answer of info that is not JSON leaves it with nothing.
* `SentInOrder`, `Arrives`: what is sent reaches the server in order, once,
  without a gap (the form of JSONP cannot tell), and in the end.
* `KeepsContract`: the socket implements `Socket`.

* `CircleShowsEvents`, `CirclesDrawn`: what a circle tells is the history of its
  driver since it is shown, and it is there once it is remembered.
* `HighlightEnds`: a lit row has a timer that ends it, unless a late first
  picture made a second row of the driver.
* `LatestNotifications`; `IntervalsEnd`: no way out leaves an interval running;
  `NoticesLoss`: a lost connection is noticed if the server promised heart-beats.

* `BindingsKept`: computeds have their functions' values and only their own
  subscriptions; a drop-down shows the model's value; a region is shown exactly
  while its condition holds; a field is true while it has the focus. The exceptions
  are named in `ComputedsCurrent`, `SelectAgrees`, `RegionKept` and `FocusKept`, and each of them is something the code does.
* `RowsFollowArray`: rows in the array's order, with as many nodes kept as can be.
* `PromisesKept`: every promise comes to what its making says (`Fates` works that
  out a second time, without a queue); guards keep their limit; a poll does one
  thing at a time and goes on until it is settled, unless its work or its verifier throws:
  then it stops and nobody is told (`OneAtATime`).
* `LoadersKept`: `ModulesLoad` (nobody is given a module that is not loaded, but for `undefined` in
  place of one whose factory threw before it was asked for, which curl's cache keeps; and no
  set of modules waits that nothing keeps waiting, unless a plugin threw), `SheetsTold`, `ScriptsTold`,
  `TasksKept`, `CalledOnce`.
* `MessagesKept`: `EachInOnePlace` (a message is in one place, whoever throws),
  `ExchangeKept`, `BridgeInStep` (server and page agree who is subscribed),
  `HeardInOrder` (what polling receives is heard once, in order, and not after the end).
* `WidgetsKept`: `DialogAsShown`, `CarouselGoesOn`, `NoTipLeft`, `MenuMatches`,
  `OneOpen`, `PaneOfTab`, `OneMenu`: when all is still, what is seen is what the plugin object believes.
  Listeners that prevent an event are exceptions where the widget forgets that they did: a prevented
  slide leaves a carousel sliding, a prevented hide leaves a tip in the page.

Bounds of `pm_safety`: five messages, fetches of up to three, three tuples in
flight, two hosts, two faults of any kind, three configurations. Three tuples
in flight over a buffer of three is what it takes for two fails, out of order,
around an ack, with messages still waiting; two faults let a crash or
redeployment follow a leader move, and a leader move back. One message gives no
tuple and the last one cannot be read, so every fetch has a shape with each
kind. Root ids and hosts are symmetric: no action or property tells them apart.
The liveness run has no symmetry, three messages and one fault.

Bounds of `pa_safety`: two tasks, two partitions, two brokers, two messages per
partition, one fault. The fault may be a broker that stops; its partitions then
get new leaders and it comes back at no charge, so that tasks read the brokers
before, during and after. Two messages are the least that let one manager
overwrite the other's offset with a lower one. They are in one of the two partitions, the
one that changes hands (`MCLogEnd`). Two tuples fail
(`MaxFails`), or one beside the fault (`FewTroubles`): two are what it takes to go back below what is saved
while no broker is missing, as the first leaves a tuple out that the second is about. `pa_liveness` has no symmetry, no messages and no tuples:
ownership does not depend on them, except that a failed create ends a worker,
which `Crash` does as well.

Bounds of `pipeline`: logs of two violations, of one driver or of two, or of three events in
two demos; two tasks; one event emitted again, which may be the third violation; one call that
fails, of any kind, with any of the tasks in its worker. A window of two makes the third violation an alert. Bounds of `sockjs`: four
browsers (`MCSockJSClient`), every answer of info, three messages: one on its
way, one waiting, one sent later. Bounds of `driver_page`: two drivers, six
frames in batches of up to two (`MaxBatch`), a first picture of up to two
infractions (`MaxLoad`), circles too large after one growth, two notifications.

Bounds of `page_libraries`, in `MCPageLibraries`: what it takes for each library
that two things are under way while a third is asked for. Three computeds of
which one changes its dependencies, one is bound to a node and one is throttled,
with two handlers that write; arrays of three items; two deferreds and two calls
of then, all or some; any three modules over six lists of dependencies each, with and
without exports; three sheets and two collectors; three ordered scripts; three
buses with two messages; topics of three words, bindings of up to four for the
matcher; five ids of subscriptions; three fields; three requests of two lines each,
which come in halves; four tabs; three toggles, two of one menu. The libraries share
no state, so that the run is as good as twenty-four; `lib` says which one a behaviour is about. The
variables of a library are the first of `v1` to `v14`; a widget has its own (`Widgets`), and while
another is run it rests in one of its initial states.

Fairness of `PartitionManager`, all that its liveness properties assume:

* `NextTuple(TRUE)` is strongly fair: the executor calls `nextTuple` for ever,
  and the update interval keeps passing. Strong, because the call needs a free
  place among the pending tuples and a managed partition.
* `Close`, `Open` and `FetchFails` are weakly fair: the refresh timer, and the
  exception of a fetch, which nothing but the spout itself can prevent.
* a vanished leader is replaced (`Recover`).
* each offset is acked in the end if it is emitted again and again
  (`SF(AckOffset(o))`): a bolt that always fails a message defeats any
  at-least-once spout. A weaker fairness, of each tuple tree alone, would let
  the timeouts win for ever.

Fairness of `PartitionAssignment` (`FairSpec`): a task finishes the refresh or
write it is in (weak), begins refreshes and meets failing fetches again and
again (strong, because it may be busy whenever one is due), and its managers
have a turn now and then, without a promise to any one of them; stopped brokers
come back. Leaders are not assumed to move. Faults are bounded, so they end.

Fairness of `SockJSClient`: the browser runs the timers it was given and loads
the page, and a request is answered or fails (info and the posts have timeouts
of their own, or their connection ends). Of `DriverPage`: the browser runs the
intervals it was given. The other modules claim no liveness.

Nothing is assumed of crashes, timeouts or producers. A message that cannot be
read would kill each worker that meets it, so the liveness run has none.

The four violations are findings, described in `PROJECT.json`: the first two
come from `fill()`, which labels a message with the offset asked for instead of
its own; the third from a constructor that takes any failure of the read for
the absence of a node; the fourth from a `commit()` that compares with its own
memory of the node instead of the node.

Two more disagreements with a comment stand in the invariants as exceptions.
`FocusKept`: `hasfocus` is to "cache the latest value" (knockout-2.3.0.debug.js:2451),
and stores one it read before it told the model of it, which may have sent the focus
on. `HeardInOrder`: a script that comes "after connection was closed" is to "delete
hook" (sockjs.js:1610), and `close_script`, which the hook is, does nothing a second time.

## The proofs

All theorems are about `Spec` for every value of the constants, under the
assumptions each module declares: the bounds are natural numbers, a fetch may
hold a message, there is a task, and the special values are no ordinary ones.
The bounds bound only the log and the number of faults, and are arbitrary.

The argument for `PartitionManager`. `NothingSkipped` is not inductive: it says nothing of which
offset a buffered message carries, so an ack might process one message and
release another. Nor is `CommittedIsProcessed`: a manager resumes from the node,
and what is below the node must have been processed before it was written.
`IInv` therefore adds

* `LogInv`: without expiry and truncation, the log is a prefix that grows;
* `PositionInv`: every offset the manager or ZooKeeper holds is in the log, and
  pending ones are below `emittedTo`; the node's topology is not a future one;
* `TagInv`: what is buffered or in flight carries its own message's offset.
  It is exactly what fails in `pm_retention` and `pm_truncation`;
* `SavedInv`: `CommittedIsProcessed` without the bounds `LogInv` makes redundant.

`FetchIsExact` shows that a fetch from such a log starts where it was asked to;
`CommitIsBelowPending` bounds the offset a commit writes. Together they give
`PollKeepsIInv`, the one difficult step; every other action has a lemma of its own.
`NoUncausedRegress` needs one more invariant (`AheadOfSaved`: an undisturbed
manager and all it waits for are at or past the node), `NoOrphanPending` is
inductive relative to `IInv`, and the refinement maps each step to the abstract
action that `ReaderProcesses`, `OpenSubscribes`, `RedeployForgets` and
`ProducePublishes` name.

The argument for `PartitionAssignment`. Its `IInv` adds to the properties that
a task manages exactly its part of its last picture (`ManagersMatchView`), that
what a manager has completed is processed and what it waits for is a message of
the log (`DoneIsProcessed`), and that a task that writes has
something to write (`WritesWhatIsDue`). `TypeOK` is not inductive without them: that a
message which is completed is one of the log rests on the second, that a write has a manager on the third.
Sharing out then is arithmetic: `SomeTaskHas`, `OneTaskHas`, for any number of
tasks and partitions. `OneManagerKeepsIInv` carries the four steps that change
one manager (`Fail` is one: what is below the offset it goes back to stays processed), `ReassignKeepsIInv` the refresh. `OwnedByNumber` needs
`WholePictures` (while no broker has gone, a finished picture has every
partition) and `RankOfWhole`; with it a node has one writer, which knows what
is saved (`KnowsNode`), and is behind it only where `fail` has taken it back: `NodeGoesBackByRewindOnly` follows.

The argument for `NoDuplicateUndisturbed`. The cardinalities it is stated with are
not what one can reason by; `OnePlace` says it pointwise. While no tuple has failed
and no manager was lost, what waits in the buffer lies below `_emittedToOffset`, is
not processed, and waits or flies nowhere else (`WaitsAlone`), and the same holds of
what is in flight (`FliesAlone`); nothing at or past `_emittedToOffset` is processed.
`fill()` adds only messages from there on, so that the new ones are alone too
(`FilledWaitsAlone`). `NoneTwice` follows from it with `NothingSkipped` and
`NoOrphanPending`.

The argument for `EventPipeline`. `CountsFollowRows` is inductive with the types;
the sets it counts change by one element at a time. The others need

* `Settled`: while no call has failed, a total that was handed on is at most the
  driver's count now, and no two are the same;
* `Watched`: what the rule engine holds of each driver, and every alert, is a list of
  unsafe events of that driver in one demo, the latest first, and no two of the lists
  share an event;
* `Balanced`: while the demos have come in order since the rule engine began, the
  violations of a driver in a demo, emitted again or not, are `MaxUnsafe + 1` for each
  alert of this engine and at most `MaxUnsafe` more, in the demo at hand those in the window;
* `FewUnsent`: not more alerts are unsent than calls failed.

A worker that dies is one step, of a read or of a publishing that throws (`ThrowMoves`): copies
only lose their stage, `cut` is counted with `put` (`Halfway`), and an engine
that begins anew has nothing to balance (`WatchedAnew`, `BalancedAnew`).

The argument for `SockJSClient`. Neither `NeverStuck` nor the refinement is
inductive: a transport may be attached again, or a socket closed, by a callback
of a transport that was cleaned up. `IInv` adds `Whole`: the state agrees with
the last event dispatched and with the close event still to come (`Announced`,
from which `SocketContract` follows: every step of the client is a step of
`Socket` or a stutter); a transport is attached exactly when it is the current
one (`OneSpeaks`, which gives `OnlyCurrentSpeaks`); and a load listener that waits
belongs to a page that is not loaded and to a socket without a transport whose
next protocol needs the body (`Waits`). That a socket which tries protocols keeps
a timer or such a listener (`Moves`) then carries `NeverStuck` through a step.
`FallbackExhausted` follows from `Fallback`: while the socket connects, each protocol
that was detected has been used or is still in `_protocols`, and nothing is used before
info is answered. `SentInOrder` follows from `InLine`: what the server has, what is
posted and what waits in the buffer of a sender that still has a timer or a request
are, one behind the other, the messages sent, without a gap unless a form posts them.

The argument for `DriverPage`. Its `IInv` (`Told`) is an invariant of each frame, not only of
each batch: `HandleTold` proves the step of `Handle`, `Stands` carries it through a batch of any length
that has one first picture at most. It says of each driver that the row that is looked up is the last
one of the driver and there is none without a lookup (`LooksUp`), that a lit row has a
timer that will find it or lies before a row of a late first picture (`LitUntil`), and that a
circle tells the driver's log (`Tells`). The third needs what the page does not keep: a streak
below the threshold is the number of violations the log ends with (`EndsWith`), and
one that reached it means that the log has three in a row somewhere.

The arguments for the libraries. `WidgetAndBridgeProofs` and `LibraryProofs` instantiate each module by name
and prove its property of its own `Spec`. The seven widgets are then put on one page, `Widgets`: a step of
the page is a step of one widget and leaves the others' variables alone, so that each widget goes by
its own specification and `WidgetsKept` is the conjunction of what was proved of them
(`WidgetsStayAsShown`). The run `page_libraries` checks `WidgetsKept` with one widget moving at a time;
the theorem holds for all interleavings. The bounds are arbitrary; what is assumed is that a carousel has
a picture (`PicturesAssumed`), that the items of a typeahead are finitely many and numbered
(`EntriesAssumed`), that the labels of tabs are finitely many (`LabelsAssumed`), all three in `Widgets`,
and, in their theorems, that a guard allows a number of callers (`AllowedAssumed`), that the calls
of the plugin `js` are a number (`CallsAssumed`), that the sheets and the collectors of the plugin `css` are
(`SheetsAssumed`), that the messages of the STOMP bridge are (`SendsAssumed`) and that a response's length is (`MaxText`).

* `DropInv`: the open menu is alone, and on a screen that is touched it has a backdrop,
  since a second menu is opened only by a handler that has cleared the first;
* `AccordInv`: objects are numbered, and one that is busy is in the list of a transition that runs;
* `TipInv`: a timer that is set does what the pointer did last, so that none shows a tip that was left;
* `ListInv`: the active item is one of the menu, which matches the last text once no answer is due;
* `SlideInv`: a transition leads away from the one active picture, and whatever waits for `slid`
  has a slide or an event to wait for. That the waiting calls are made one after the other in the
  handler of `slid` is a fold over them (`Along`: what each step keeps, the fold keeps);
* `ModalInv`: a dialog that was not shown again while it was being hidden is in one of six stages: away,
  its backdrop coming, there, hidden before it was displayed, leaving, its backdrop going (`Staged`).
  In each of them at most one of all the backdrops there have been is in the page, it is known who waits
  for its transition and for the dialog's, and a timeout is set just while the dialog leaves;
* `TabInv`: the pane that follows last is that of the marked tab, through the two nested folds
  over the panes that fade and the callbacks that wait for each of them (`AllFollow`, `AllEnd`);
* `GuardInv`: the count is of those inside and those in the queue, who are there once each;
* `PollInv`: there is one step of the poll on its way, or none, and then it is settled or has thrown;
* `SheetsInv`: there is a set of sheets that are done (`done`), and what is left of a load is counted by those
  of its sheets that are not; one that is rejected has lost a sheet for good, so that its count never ends
  (`Owes`, `Lost`). What is known of one sheet depends on how it is loaded (`ByImport`, `ByLink`): a link that
  has its sheet and is not finalized has an event to come, or a browser without events, and then its timer.
  A collector imports a sheet of its own or is in the pool; while one is about to take the
  next it is neither (`free` in `Sharing` and `Collects`), and while sheets wait all of them import (`Pressed`).
  A load is a fold over its sheets (`LoadGoes`), and each step of it leaves the others idle (`Asks`, `Idle`);
* `ScriptsInv`: who called `load` has been told, or waits for one file; a file that is promised is on its
  way or in the queue, so that what ends a script settles it; the queue is in the order of the early
  calls, and so is what has left it. The loop that empties the queue is a fold that keeps all of it;
* `DomInv`: a callback waits or has been called, not both; before the document is ready the timer
  runs, and after it only what a callback that threw left behind waits;
* `TasksInv`: a handle is in a notice or has run, not both; in order unless a task was interrupted;
* `ReceiveInv`: a transport is in use (`InUse`: the last request hears, what was heard ends with the line
  it has come to, and the requests before it have ended with all they had heard) or it is shut (`Shut`:
  nobody hears but an EventSource whose end is due). A chunk is a fold over its lines: it goes from line
  to line (`ChunkGoes`), and the page may shut the transport on any of them, after which the lines that
  are left are handed to nobody (`ReadsChunk`).

Only model-checked: the liveness properties, which are out of the prover's reach as
fairness and ENABLED are, and the other libraries. Four of these (`Exchange`, `KnockoutFocus`,
`MessageBus`, `ModuleLoader`) are recursive in a way the prover does not take, and
`PromisesKept` compares with a fixed point, an induction over data.

## Not modelled

Of the spout: metrics and logging; connection objects and socket errors other than
a fetch that fails; `StaticCoordinator`, which is a coordinator that never
refreshes; schemes that make several tuples, or an empty list, of one message
(the ones here give one tuple, null, or throw); the round robin over several
partitions; ZooKeeper reads and writes that fail for other reasons, which end the
worker like `Crash` does; topics that get more partitions; workers that run
several tasks.

Of the way to the page: the table of all events, the mail of the rule engine, the iframe's own page and the parsing
of URLs in SockJS, transactions and receipts of STOMP, popups.

Of the libraries: what is a pure function (templates' and expressions' syntax,
JSON, the shims of the standard library), what has no state between two events
(Bootstrap's scrollspy, affix, buttons, popovers, alerts), the widgets' branches without transitions
and, of the dialog, without a backdrop (what they do at once, a transition does in two steps), adapters to things the pages do
not use, jQuery.

Components without a module: the Trident spout and the Kafka bolt, which no
topology of the repository uses; the Drools bolt and the prediction bolts,
whose rules and models are external; rotation and Hive loads, two calls whose
failure is logged; the simulator; the web application's services, which keep no
state; scripts and sample domains. `PROJECT.json` gives the reason for each.

## What could follow

1. A run for an expired log with `startOffsetTime` at the latest offset.
2. The round robin of `KafkaSpout` over several managers: no partition starves.
3. The Trident spout, the simulator's pools, the two threads of the Drools bolt.
