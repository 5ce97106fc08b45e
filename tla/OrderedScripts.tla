----------------------------- MODULE OrderedScripts -----------------------------
(***************************************************************************)
(* The js plugin of curl: each file is fetched once, whoever asks for it is told,  *)
(* and where the browser does not keep scripts in order one that has to keep it    *)
(* waits in a queue until another script is loaded.                             *)
(***************************************************************************)
EXTENDS Integers, Sequences, FiniteSets, SequencesExt

CONSTANTS
  Files,
  MaxCalls      \* bound: calls of load

VARIABLES
  supportsAsyncFalse,
  cache,         \* of each file: none, promise, done or failed
  callers,       \* of each file, who waits for its promise
  told,          \* how often each caller has been told
  calls,         \* calls made
  def,           \* of each file asked for, whether it has to keep the order and exports something
  loading,       \* the scripts in the page that have not ended
  polled,        \* those of them that the poller still watches
  queue, waitForOrderedScript,
  early, broken  \* history: the order of the calls while none had loaded, and whether one has failed

vars == <<supportsAsyncFalse, cache, callers, told, calls, def, loading, polled, queue,
          waitForOrderedScript, early, broken>>
Heap ==
  [cache |-> cache, callers |-> callers, told |-> told, def |-> def, loading |-> loading,
   polled |-> polled, queue |-> queue, wait |-> waitForOrderedScript, early |-> early, broken |-> broken]
Become(h) ==
  /\ cache' = h.cache /\ callers' = h.callers /\ told' = h.told /\ def' = h.def /\ loading' = h.loading
  /\ polled' = h.polled /\ queue' = h.queue /\ waitForOrderedScript' = h.wait /\ early' = h.early
  /\ broken' = h.broken /\ UNCHANGED supportsAsyncFalse

Plain == [order |-> FALSE, exports |-> FALSE]
Init ==
  /\ supportsAsyncFalse \in BOOLEAN
  /\ cache = [f \in Files |-> "none"] /\ callers = [f \in Files |-> {}]
  /\ told = [c \in 1 .. MaxCalls |-> 0] /\ calls = 0 /\ def = [f \in Files |-> Plain]
  /\ loading = {} /\ polled = {} /\ queue = <<>> /\ waitForOrderedScript = FALSE
  /\ early = <<>> /\ broken = FALSE

-----------------------------------------------------------------------------
LoadScript(h, f) ==
  [h EXCEPT !.loading = @ \cup {f}, !.polled = IF h.def[f].exports THEN @ \cup {f} ELSE @]
Tell(h, callersOf) == [c \in 1 .. MaxCalls |-> h.told[c] + IF c \in callersOf THEN 1 ELSE 0]

(* The promise is settled once: the poller may give up what loads later *)
Settle(h, f, how) ==
  IF h.cache[f] # "promise" THEN h
  ELSE [h EXCEPT !.cache[f] = how, !.callers[f] = {}, !.told = Tell(h, h.callers[f])]

(* What has loaded makes place for the next in the queue.  Beside it, one that forgets. *)
NotNext(h) == [h EXCEPT !.wait = h.queue # <<>>]
FetchNext(h) ==
  IF h.queue = <<>> THEN [h EXCEPT !.wait = FALSE]
  ELSE LoadScript([h EXCEPT !.queue = Tail(@), !.wait = Tail(h.queue) # <<>>], Head(h.queue))

Load(f, order, exports) ==
  LET c == calls + 1
      k == [Heap EXCEPT !.cache[f] = "promise", !.callers[f] = {c},
                        !.def[f] = [order |-> order, exports |-> exports],
                        !.early = IF \A g \in Files : cache[g] \in {"none", "promise"} THEN Append(@, f) ELSE @]
  IN /\ c <= MaxCalls /\ calls' = c
     /\ CASE cache[f] \in {"done", "failed"} -> Become([Heap EXCEPT !.told[c] = 1])
          [] cache[f] = "promise" -> Become([Heap EXCEPT !.callers[f] = @ \cup {c}])
          [] OTHER ->
               IF order /\ ~supportsAsyncFalse /\ waitForOrderedScript
               THEN Become([k EXCEPT !.queue = Append(@, f)])
               ELSE Become(LoadScript([k EXCEPT !.wait = @ \/ order], f))

(* The browser that keeps the order loads such scripts in it *)
InTurn(f) ==
  supportsAsyncFalse /\ def[f].order =>
    \A g \in loading : def[g].order /\ Contains(early, g) /\ Contains(early, f) =>
      IndexFirstSubSeq(<<f>>, early) <= IndexFirstSubSeq(<<g>>, early)
Process(f, defined) ==
  LET h == [Heap EXCEPT !.loading = @ \ {f}, !.polled = @ \ {f}]
  IN /\ f \in loading /\ InTurn(f)
     /\ IF def[f].exports /\ ~defined THEN Become([Settle(h, f, "failed") EXCEPT !.broken = TRUE])
        ELSE Become(Settle(FetchNext(h), f, "done"))
     /\ UNCHANGED calls
Fail(f) ==
  /\ f \in loading
  /\ Become([Settle(Heap, f, "failed") EXCEPT !.loading = @ \ {f}, !.polled = @ \ {f}, !.broken = TRUE])
  /\ UNCHANGED calls
DeadlinePasses(f) ==
  /\ f \in polled
  /\ Become([Settle(Heap, f, "failed") EXCEPT !.polled = @ \ {f}])
  /\ UNCHANGED calls

Next ==
  \E f \in Files :
    \/ \E order, exports \in BOOLEAN : Load(f, order, exports)
    \/ (\E defined \in BOOLEAN : Process(f, defined)) \/ Fail(f) \/ DeadlinePasses(f)

Spec == Init /\ [][Next]_vars

-----------------------------------------------------------------------------
(* Whoever asks for a file is told once, now or by its promise, and no promise is left    *)
(* without a script that may settle it.  Unless a script has failed, the queue does not     *)
(* stand still; and of the ordered scripts asked for before any had loaded, none leaves   *)
(* the queue before one that was asked for earlier.                                    *)
Fetched(f) == f \in loading \/ cache[f] \in {"done", "failed"}
Early == ToSet(early)
ScriptsTold ==
  /\ \A c \in 1 .. MaxCalls :
       told[c] + Cardinality({f \in Files : c \in callers[f]}) = IF c <= calls THEN 1 ELSE 0
  /\ \A f \in Files : callers[f] # {} =>
       cache[f] = "promise" /\ (f \in loading \/ Contains(queue, f))
  /\ queue # <<>> /\ ~broken => loading # {}
  /\ \A i, j \in 1 .. Len(early) :
       i < j /\ def[early[i]].order /\ def[early[j]].order /\ Fetched(early[j])
       => Fetched(early[i])
=============================================================================
