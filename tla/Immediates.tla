------------------------------- MODULE Immediates -------------------------------
(***************************************************************************)
(* The shim of setImmediate: a task is kept under a handle until it has run or is *)
(* cleared, and a notice of the browser, a message, a script or a timer, runs it.  *)
(* Notices may come while a task runs: it may open a dialog, or wait for an answer. *)
(***************************************************************************)
EXTENDS Integers, Sequences, FiniteSets, SequencesExt

CONSTANT MaxTasks   \* bound: tasks ever set

VARIABLES
  way,       \* which implementation has been installed
  nextHandle, tasksByHandle,
  running,   \* the tasks that have begun and not ended; the code keeps whether there is one
  notices,   \* on their way, in the order they were made
  ran, cleared, nested   \* history: handles run, handles cleared before, whether a notice came in a task

vars == <<way, nextHandle, tasksByHandle, running, notices, ran, cleared, nested>>

(* What the tests find in a browser, and the implementation that follows from it.   *)
(* The browser's own is no matter of the shim.                                  *)
Tests == {"setimmediate", "ms-setimmediate", "post-message", "script-onreadystatechange"}
Way(has) ==
  IF {"setimmediate", "ms-setimmediate"} \cap has # {} THEN "own"
  ELSE IF "post-message" \in has THEN "message"
  ELSE IF "script-onreadystatechange" \in has THEN "script" ELSE "timer"

Init ==
  /\ \E has \in SUBSET Tests : way = Way(has)
  /\ nextHandle = 1 /\ tasksByHandle = {} /\ running = {} /\ notices = <<>>
  /\ ran = <<>> /\ cleared = {} /\ nested = FALSE

-----------------------------------------------------------------------------
SetImmediate ==
  /\ way # "own" /\ nextHandle <= MaxTasks
  /\ nextHandle' = nextHandle + 1 /\ tasksByHandle' = tasksByHandle \cup {nextHandle}
  /\ notices' = Append(notices, nextHandle)
  /\ UNCHANGED <<way, running, ran, cleared, nested>>

ClearImmediate(h) ==
  /\ h \in tasksByHandle /\ tasksByHandle' = tasksByHandle \ {h}
  /\ cleared' = IF h \in ToSet(ran) THEN cleared ELSE cleared \cup {h}
  /\ UNCHANGED <<way, nextHandle, running, notices, ran, nested>>

(* A notice that comes while a task runs is put off with a timer.  Beside the guard,   *)
(* one that lets it through.                                                        *)
AnyTime == TRUE
Free == running = {}
RunIfPresent(h, others) ==
  \/ /\ Free /\ h \in tasksByHandle
     /\ running' = running \cup {h} /\ ran' = Append(ran, h) /\ notices' = others
     /\ UNCHANGED nested
  \/ /\ Free /\ h \notin tasksByHandle /\ notices' = others
     /\ UNCHANGED <<running, ran, nested>>
  \/ /\ ~Free /\ notices' = Append(others, h) /\ nested' = TRUE
     /\ UNCHANGED <<running, ran>>

(* Messages come in their order, scripts and timers in any *)
Notice(i) ==
  /\ way = "message" /\ ~nested => i = 1
  /\ RunIfPresent(notices[i], RemoveAt(notices, i))
  /\ UNCHANGED <<way, nextHandle, tasksByHandle, cleared>>

(* The task returns or throws: it is deleted all the same *)
Ends(h) ==
  /\ h \in running /\ running' = running \ {h} /\ tasksByHandle' = tasksByHandle \ {h}
  /\ UNCHANGED <<way, nextHandle, notices, ran, cleared, nested>>

Next ==
  \/ SetImmediate
  \/ \E i \in DOMAIN notices : Notice(i)
  \/ \E h \in 1 .. MaxTasks : ClearImmediate(h) \/ Ends(h)

Spec == Init /\ [][Next]_vars

-----------------------------------------------------------------------------
(* No task runs twice, or inside another, or after it has been cleared; one that is       *)
(* neither has a notice on its way; and unless a notice came in a task, messages run      *)
(* the tasks in the order they were set.                                             *)
TasksKept ==
  /\ Cardinality(running) <= 1 /\ IsInjective(ran)
  /\ cleared \cap ToSet(ran) = {}
  /\ \A h \in 1 .. nextHandle - 1 :
       h \in ToSet(ran) \cup cleared \/ h \in ToSet(notices)
  /\ tasksByHandle \subseteq ToSet(notices) \cup running
  /\ way = "message" /\ ~nested => \A i, j \in 1 .. Len(ran) : i < j => ran[i] < ran[j]
=============================================================================
