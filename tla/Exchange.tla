-------------------------------- MODULE Exchange --------------------------------
(***************************************************************************)
(* An exchange channel of msgs: handlers subscribe to topics, with wild cards, and a    *)
(* message goes to those whose topic matches its own.  A handler that is called may    *)
(* subscribe and unsubscribe.                                                   *)
(***************************************************************************)
EXTENDS Integers, Sequences, FiniteSets, SequencesExt, Functions

CONSTANTS
  Words, MaxWords,       \* words of a topic, and the most that one has here
  Bindings, Handlers,    \* topics subscribed to, and who subscribes
  MaxMessages            \* bound: messages dispatched

VARIABLES
  topics,      \* of each topic that has a dispatcher, its handlers
  message,     \* the topic of the message that is dispatched, NoMessage before and after
  left, clone, at,   \* the topics it goes to yet; the handlers of the one at hand; that one
  errors,      \* of the dispatch
  got, stayed, \* history: subscriptions that got the message, and those that stayed subscribed to it
  removed, threw,    \* history: a topic that was left was removed meanwhile; a handler threw
  sent         \* bound: messages dispatched

vars == <<topics, message, left, clone, at, errors, got, stayed, removed, threw, sent>>
NoMessage == <<>>

-----------------------------------------------------------------------------
(* The topical matcher makes an expression of a subscription, by replacing one after the    *)
(* other in its text: here a word, a dot or a wild card is one symbol.                  *)
Dotted(words) == [i \in 1 .. 2 * Len(words) - 1 |-> IF i % 2 = 1 THEN words[(i + 1) \div 2] ELSE "."]

(* Each occurrence of an infix, from the left and not overlapping, becomes one symbol *)
RECURSIVE Substitute(_, _, _)
Substitute(s, infix, by) ==
  IF Len(s) < Len(infix) THEN s
  ELSE IF SubSeq(s, 1, Len(infix)) = infix
  THEN <<by>> \o Substitute(SubSeq(s, Len(infix) + 1, Len(s)), infix, by)
  ELSE <<Head(s)>> \o Substitute(Tail(s), infix, by)
(* Beside the first replacement, one that leaves # after # *)
ManyKept(s) == s
ManyMerged(s) == Substitute(s, <<"#", ".", "#">>, "#")
Expression(binding) ==
  Substitute(Substitute(ManyMerged(Dotted(binding)), <<"#", ".">>, "leading"), <<".", "#">>, "trailing")

(* What an expression matches: leading is (.+\.)?, trailing (\..+)?, # alone (.+)? *)
RECURSIVE Match(_, _)
Match(e, s) ==
  IF e = <<>> THEN s = <<>>
  ELSE LET Rest(i) == Match(Tail(e), SubSeq(s, i, Len(s))) IN
       CASE Head(e) = "*" -> s # <<>> /\ s[1] # "." /\ Rest(2)
         [] Head(e) = "#" -> \E i \in 1 .. Len(s) + 1 : Rest(i)
         [] Head(e) = "leading" -> Rest(1) \/ \E i \in 2 .. Len(s) : s[i] = "." /\ Rest(i + 1)
         [] Head(e) = "trailing" -> Rest(1) \/ (Len(s) > 1 /\ s[1] = "." /\ \E i \in 3 .. Len(s) + 1 : Rest(i))
         [] OTHER -> s # <<>> /\ s[1] = Head(e) /\ Rest(2)
Topical(binding, topic) == Match(Expression(binding), Dotted(topic))

(* What the wild cards mean: * is one word, # any number of them *)
RECURSIVE Means(_, _)
Means(binding, topic) ==
  IF binding = <<>> THEN topic = <<>>
  ELSE CASE Head(binding) = "#" ->
              \E i \in 1 .. Len(topic) + 1 : Means(Tail(binding), SubSeq(topic, i, Len(topic)))
         [] Head(binding) = "*" -> topic # <<>> /\ Means(Tail(binding), Tail(topic))
         [] OTHER -> topic # <<>> /\ Head(topic) = Head(binding) /\ Means(Tail(binding), Tail(topic))

-----------------------------------------------------------------------------
Init ==
  /\ topics = [b \in {} |-> <<>>] /\ message = NoMessage /\ left = {} /\ clone = <<>> /\ at = <<>>
  /\ errors = FALSE /\ got = {} /\ stayed = {} /\ removed = FALSE /\ threw = FALSE /\ sent = 0

Subscriptions == {<<b, h>> \in (DOMAIN topics) \X Handlers : Contains(topics[b], h)}
Subscribe(b, h) ==
  /\ <<b, h>> \notin Subscriptions
  /\ topics' = IF b \in DOMAIN topics THEN [topics EXCEPT ![b] = Append(@, h)]
               ELSE [c \in DOMAIN topics \cup {b} |-> IF c = b THEN <<h>> ELSE topics[c]]
  /\ UNCHANGED <<message, left, clone, at, errors, got, stayed, removed, threw, sent>>

(* A topic whose last handler goes is removed *)
Unsubscribe(b, h) ==
  /\ <<b, h>> \in Subscriptions
  /\ topics' = IF Len(topics[b]) = 1 THEN Restrict(topics, DOMAIN topics \ {b})
               ELSE [topics EXCEPT ![b] = Remove(@, h)]
  /\ stayed' = stayed \ {<<b, h>>}
  /\ removed' = (removed \/ (b \in left /\ Len(topics[b]) = 1))
  /\ UNCHANGED <<message, left, clone, at, errors, got, threw, sent>>

(* Those that match now; without one, it is no delivery *)
Matching(topic) == {b \in DOMAIN topics : Topical(b, topic)}
Dispatch(topic) ==
  /\ message = NoMessage /\ sent < MaxMessages /\ sent' = sent + 1
  /\ Matching(topic) # {} /\ message' = topic /\ left' = Matching(topic)
  /\ errors' = FALSE /\ got' = {} /\ removed' = FALSE /\ threw' = FALSE
  /\ stayed' = {s \in Subscriptions : s[1] \in Matching(topic)}
  /\ UNCHANGED <<topics, clone, at>>

(* The next topic: its handlers as they are now; one that is gone is an error *)
NextTopic(b) ==
  /\ b \in left /\ clone = <<>> /\ left' = left \ {b}
  /\ IF b \in DOMAIN topics THEN clone' = topics[b] /\ at' = b /\ UNCHANGED errors
     ELSE errors' = TRUE /\ UNCHANGED <<clone, at>>
  /\ UNCHANGED <<topics, message, got, stayed, removed, threw, sent>>
Deliver(throws) ==
  /\ clone # <<>> /\ clone' = Tail(clone) /\ got' = got \cup {<<at, Head(clone)>>}
  /\ errors' = (errors \/ throws) /\ threw' = (threw \/ throws)
  /\ UNCHANGED <<topics, message, left, at, stayed, removed, sent>>
Return ==
  /\ message # NoMessage /\ left = {} /\ clone = <<>>
  /\ message' = NoMessage /\ at' = <<>> /\ got' = {} /\ stayed' = {}
  /\ errors' = FALSE /\ removed' = FALSE /\ threw' = FALSE
  /\ UNCHANGED <<topics, left, clone, sent>>

Topics == UNION {[1 .. n -> Words] : n \in 1 .. MaxWords}
Next ==
  \/ \E b \in Bindings, h \in Handlers : Subscribe(b, h) \/ Unsubscribe(b, h)
  \/ (\E topic \in Topics : Dispatch(topic)) \/ (\E b \in Bindings : NextTopic(b))
  \/ (\E throws \in BOOLEAN : Deliver(throws)) \/ Return

Spec == Init /\ [][Next]_vars

-----------------------------------------------------------------------------
(* The expressions mean what the wild cards do, but for three # in a row: said of no     *)
(* state, it is looked at in the first one                                         *)
InARow(b) == \E i \in 1 .. Len(b) - 2 : b[i] = "#" /\ b[i + 1] = "#" /\ b[i + 2] = "#"
MatcherRight ==
  \A b \in UNION {[1 .. n -> Words \cup {"*", "#"}] : n \in 1 .. MaxWords + 1}, topic \in Topics :
    InARow(b) \/ Topical(b, topic) = Means(b, topic)

(* Whatever handlers do meanwhile, those who matched and stayed subscribed have the message *)
(* when the dispatch returns, and it throws only for what a handler threw or for a topic       *)
(* that was removed under it; no topic is left without a handler.                         *)
ExchangeKept ==
  /\ DOMAIN topics = {} /\ sent = 0 => MatcherRight
  /\ \A b \in DOMAIN topics : topics[b] # <<>>
  /\ message # NoMessage /\ left = {} /\ clone = <<>> => stayed \subseteq got
  /\ errors => threw \/ removed
=============================================================================
