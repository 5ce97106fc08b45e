----------------------------- MODULE KnockoutRegion -----------------------------
(***************************************************************************)
(* A part of the page that Knockout shows on a condition: with an if, ifnot or with    *)
(* binding, or with a template.  What is bound in it lives as long as its nodes.     *)
(* Two observables, a and b, make the condition; the text inside reads b; the name of  *)
(* the template is given by a third, n.                                          *)
(***************************************************************************)
EXTENDS Integers, Sequences, FiniteSets, SequencesExt

CONSTANT MaxMade   \* bound: computeds ever made

Observables == {"a", "b", "n"}

VARIABLES
  kind, either,   \* the binding, and whether it reads b too when a is false
  value,          \* of each observable
  subscribers,    \* of each observable, in the order they subscribed
  text,           \* the node in the region, with what it shows; none when it is empty
  renderer,       \* the computed that renders the template, 0 for none
  didDisplay,     \* on the last update
  made,           \* computeds made
  stale           \* history: the text was evaluated while the condition was false

vars == <<kind, either, value, subscribers, text, renderer, didDisplay, made, stale>>
Heap == [value |-> value, subscribers |-> subscribers, text |-> text, renderer |-> renderer,
         didDisplay |-> didDisplay, made |-> made, stale |-> stale]
Become(h) ==
  /\ value' = h.value /\ subscribers' = h.subscribers /\ text' = h.text /\ renderer' = h.renderer
  /\ didDisplay' = h.didDisplay /\ made' = h.made /\ stale' = h.stale /\ UNCHANGED <<kind, either>>

Outer == <<"outer", 0>>
Empty == [id |-> 0, shows |-> 0]

-----------------------------------------------------------------------------
(* An evaluation keeps its subscriptions to what it reads again and drops the others *)
Reading(h, c, read) ==
  [h EXCEPT !.subscribers = [o \in Observables |->
     IF o \notin read THEN Remove(@[o], c) ELSE IF Contains(@[o], c) THEN @[o] ELSE Append(@[o], c)]]
Disposed(h, c) == Reading(h, c, {})

Displays(h) ==
  LET met == h.value["a"] # 0 \/ (either /\ h.value["b"] # 0)
  IN IF kind = "ifnot" THEN ~met ELSE met
Reads(h) == IF either /\ h.value["a"] = 0 THEN {"a", "b"} ELSE {"a"}

(* The nodes are taken out, and with them what was bound there *)
EmptyNode(h) == [Disposed(h, <<"text", h.text.id>>) EXCEPT !.text = Empty]
Text(h, id) ==
  [Reading(h, <<"text", id>>, {"b"}) EXCEPT
     !.text = [id |-> id, shows |-> h.value["b"]], !.stale = @ \/ ~Displays(h)]
ApplyBindings(h) == LET id == h.made + 1 IN Text([h EXCEPT !.made = id], id)
Again(h) == ApplyBindings(EmptyNode(h))

(* renderTemplate: a computed of its own, which reads the name *)
Render(h, id) == Again(Reading(h, <<"renderer", id>>, {"n"}))
RenderTemplate(h) ==
  LET id == h.made + 1 IN [Render([h EXCEPT !.made = id], id) EXCEPT !.renderer = id]
TemplateUpdate(h) ==
  LET old == <<"renderer", h.renderer>> IN
  Disposed(IF Displays(h) THEN RenderTemplate(h) ELSE [EmptyNode(h) EXCEPT !.renderer = 0], old)
(* if and ifnot: only when it changes; with: always *)
WithIfUpdate(h) ==
  IF kind # "with" /\ Displays(h) = h.didDisplay THEN h
  ELSE [IF Displays(h) THEN Again(h) ELSE EmptyNode(h) EXCEPT !.didDisplay = Displays(h)]
Update(h) ==
  LET k == Reading(h, Outer, Reads(h)) IN IF kind = "template" THEN TemplateUpdate(k) ELSE WithIfUpdate(k)

(* A notification goes to those that had subscribed before it, unless they are disposed     *)
(* of meanwhile.  Beside it, one that goes to all of them.                           *)
StillCalled(h, o, c) == TRUE
Subscribed(h, o, c) == Contains(h.subscribers[o], c)
Notify(h, o) ==
  LET Told(k, c) ==
        IF ~Subscribed(k, o, c) THEN k
        ELSE CASE c[1] = "outer" -> Update(k)
               [] c[1] = "renderer" -> Render(k, c[2])
               [] OTHER -> Text(k, c[2])
  IN FoldLeft(Told, h, h.subscribers[o])

Init ==
  /\ kind \in {"if", "ifnot", "with", "template"} /\ either \in BOOLEAN /\ (kind = "with" => ~either)
  /\ value \in [Observables -> {0, 1}]
  /\ LET h == Update([value |-> value, subscribers |-> [o \in Observables |-> <<>>], text |-> Empty,
                      renderer |-> 0, didDisplay |-> FALSE, made |-> 0, stale |-> FALSE])
     IN /\ subscribers = h.subscribers /\ text = h.text /\ renderer = h.renderer
        /\ didDisplay = h.didDisplay /\ made = h.made /\ stale = h.stale

Write(o, v) ==
  /\ v # value[o] /\ made + 4 <= MaxMade
  /\ Become(Notify([Heap EXCEPT !.value[o] = v], o))

Next == \E o \in Observables, v \in 0 .. 2 : Write(o, v)

Spec == Init /\ [][Next]_vars

-----------------------------------------------------------------------------
(* The region is shown exactly while its condition holds and shows what there is now;      *)
(* nothing is subscribed but the binding, what is bound in the nodes that are shown, and     *)
(* the renderer of the last template; and what is inside is not evaluated while the           *)
(* condition is false, unless the binding came to the observable after it.                *)
RegionKept ==
  /\ (text # Empty) = Displays(Heap)
  /\ text # Empty => text.shows = value["b"]
  /\ \A o \in Observables : \A i \in 1 .. Len(subscribers[o]) :
       subscribers[o][i] \in {Outer, <<"text", text.id>>, <<"renderer", renderer>>}
  /\ renderer # 0 => kind = "template" /\ text # Empty
  /\ stale => either
=============================================================================
