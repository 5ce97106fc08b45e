------------------------- MODULE WidgetAndBridgeProofs -------------------------
(***************************************************************************)
(* The widgets of Bootstrap, one by one and all on a page, for any number of  *)
(* what a page has of them; and, in the last section, the STOMP bridge of       *)
(* msgs.  Each module is instantiated by name.  The variables of the widgets    *)
(* are those of Widgets, and the bridge shares the names of two of them.  Each  *)
(* theorem is about one of the modules alone, except WidgetsStayAsShown, which  *)
(* is about Widgets.                                                          *)
(***************************************************************************)
EXTENDS Widgets, ListLemmas

-----------------------------------------------------------------------------
(* Dropdown.  A toggle opens a menu of the page.                             *)

IsMenus(h) == h = [open |-> h.open, backdrops |-> h.backdrops, focus |-> h.focus]

(* One menu is open at most, with a backdrop if the screen is touched; and    *)
(* where nothing hears a click at the root, a backdrop goes with its menu.    *)
OneOf(h) ==
  /\ h.open = {} \/ \E t \in Toggles : h.open = {MenuOf[t]}
  /\ h.backdrops = {} \/ \E t \in Toggles : h.backdrops = {t}
  /\ h.open # {} => h.backdrops # {} \/ ~touch
Bare(h) == h.open = {} => h.backdrops = {}
DropInv == OneOf(Drop!Page) /\ (made = {} => Bare(Drop!Page))

LEMMA ClearsMenus ==
  ASSUME NEW h, IsMenus(h), OneOf(h)
  PROVE  /\ IsMenus(Drop!ClearMenus(h)) /\ OneOf(Drop!ClearMenus(h)) /\ Bare(Drop!ClearMenus(h))
         /\ Drop!ClearMenus(h).open = {}
<1> DEFINE k == Drop!ClearMenus(h)
<1> DEFINE o == h.open \ {MenuOf[t] : t \in Toggles}
<1>1. k = [open |-> o, backdrops |-> {}, focus |-> h.focus]
  <2>1. k = [h EXCEPT !.open = o, !.backdrops = {}]
    BY DEF Drop!ClearMenus
  <2> HIDE DEF o, k
  <2>2. QED
    BY <2>1 DEF IsMenus
<1>2. k.open = {} /\ k.backdrops = {}
  BY <1>1 DEF OneOf
<1> HIDE DEF k
<1>3. IsMenus(k) /\ OneOf(k) /\ Bare(k)
  BY <1>1, <1>2 DEF IsMenus, OneOf, Bare
<1>4. QED
  BY <1>2, <1>3 DEF k

LEMMA RootHears ==
  ASSUME NEW h, IsMenus(h), OneOf(h)
  PROVE  /\ IsMenus(Drop!Root(h)) /\ OneOf(Drop!Root(h))
         /\ made = {} => Drop!Root(h) = h
<1> DEFINE k == Drop!Root(h)
<1>1. k = [open |-> h.open \ made, backdrops |-> h.backdrops, focus |-> h.focus]
  BY DEF IsMenus, Drop!Root
<1>2. k.open = h.open \ made /\ k.backdrops = h.backdrops
  BY <1>1
<1> HIDE DEF k
<1>3. IsMenus(k)
  BY <1>1 DEF IsMenus
<1>4. OneOf(k)
  BY <1>2 DEF OneOf
<1>5. made = {} => k = h
  BY <1>1 DEF IsMenus
<1>6. QED
  BY <1>3, <1>4, <1>5 DEF k

LEMMA TogglesOne ==
  ASSUME NEW h, IsMenus(h), OneOf(h), NEW t \in Toggles
  PROVE  IsMenus(Drop!Toggle(h, t)) /\ OneOf(Drop!Toggle(h, t)) /\ Bare(Drop!Toggle(h, t))
<1> DEFINE c == Drop!ClearMenus(h)
           k == Drop!Toggle(h, t)
<1>1. IsMenus(c) /\ OneOf(c) /\ Bare(c) /\ c.open = {}
  BY ClearsMenus
<1>2. c.backdrops = {}
  BY <1>1 DEF Bare
<1>3. CASE MenuOf[t] \in h.open
  <2>1. k = [c EXCEPT !.focus = <<"toggle", t>>]
    BY <1>3 DEF Drop!Toggle
  <2> HIDE DEF c, k
  <2>2. k = [open |-> c.open, backdrops |-> c.backdrops, focus |-> <<"toggle", t>>]
    BY <1>1, <2>1 DEF IsMenus
  <2>3. IsMenus(k) /\ k.open = {} /\ k.backdrops = {}
    BY <1>1, <1>2, <2>2 DEF IsMenus
  <2>4. OneOf(k) /\ Bare(k)
    BY <2>3 DEF OneOf, Bare
  <2>5. QED
    BY <2>3, <2>4 DEF k
<1>4. CASE MenuOf[t] \notin h.open
  <2> DEFINE b == IF touch THEN {t} ELSE {}
  <2>1. k = [Drop!Opened(c, t) EXCEPT !.focus = <<"toggle", t>>]
    BY <1>4 DEF Drop!Toggle
  <2> HIDE DEF c, k
  <2>2. k = [open |-> {MenuOf[t]}, backdrops |-> b, focus |-> <<"toggle", t>>]
    BY <1>1, <1>2, <2>1 DEF IsMenus, Drop!Opened
  <2>3. IsMenus(k) /\ k.open = {MenuOf[t]} /\ k.backdrops = b
    BY <2>2 DEF IsMenus
  <2>4. OneOf(k) /\ Bare(k)
    BY <2>3 DEF OneOf, Bare
  <2>5. QED
    BY <2>3, <2>4 DEF k
<1>5. QED
  BY <1>3, <1>4

LEMMA ClicksOne ==
  ASSUME NEW h, IsMenus(h), OneOf(h), NEW t \in Toggles
  PROVE  OneOf(Drop!Click(h, t)) /\ Bare(Drop!Click(h, t))
<1>1. IsMenus(Drop!Root(h)) /\ OneOf(Drop!Root(h))
  BY RootHears
<1> DEFINE r == Drop!Root(h)
<1> HIDE DEF r
<1>2. OneOf(Drop!Toggle(h, t)) /\ Bare(Drop!Toggle(h, t))
  BY TogglesOne
<1>3. OneOf(Drop!Toggle(r, t)) /\ Bare(Drop!Toggle(r, t))
  BY <1>1, TogglesOne DEF r
<1>4. OneOf(Drop!ClearMenus(r)) /\ Bare(Drop!ClearMenus(r))
  BY <1>1, ClearsMenus DEF r
<1>5. QED
  BY <1>2, <1>3, <1>4 DEF Drop!Click, r

LEMMA MenusBecome ==
  ASSUME NEW h, OneOf(h), Drop!Become(h), touch' = touch, made' = {} => Bare(h)
  PROVE  DropInv'
<1>1. open' = h.open /\ touchBackdrops' = h.backdrops
  BY DEF Drop!Become
<1>2. Drop!Page' = [open |-> open', backdrops |-> touchBackdrops', focus |-> focus']
  BY DEF Drop!Page
<1>3. Drop!Page'.open = h.open /\ Drop!Page'.backdrops = h.backdrops
  BY <1>1, <1>2
<1>4. OneOf(Drop!Page)'
  BY <1>3 DEF OneOf
<1>5. (made = {} => Bare(Drop!Page))'
  BY <1>3 DEF Bare
<1>6. QED
  BY <1>4, <1>5 DEF DropInv

LEMMA DropKept == DropInv /\ [Drop!Next]_(Drop!vars) => DropInv'
<1> SUFFICES ASSUME DropInv, [Drop!Next]_(Drop!vars) PROVE DropInv'
  OBVIOUS
<1> DEFINE h == Drop!Page
<1>1. IsMenus(h) /\ OneOf(h) /\ (made = {} => Bare(h))
  BY DEF DropInv, IsMenus, Drop!Page
<1>2. IsMenus(Drop!Root(h)) /\ OneOf(Drop!Root(h)) /\ (made = {} => Bare(Drop!Root(h)))
  BY <1>1, RootHears
<1>3. OneOf(Drop!ClearMenus(Drop!Root(h))) /\ Bare(Drop!ClearMenus(Drop!Root(h)))
  BY <1>2, ClearsMenus
<1> HIDE DEF h
<1>4. CASE Drop!ClicksElsewhere
  BY <1>3, <1>4, MenusBecome DEF Drop!ClicksElsewhere, h
<1>5. CASE Drop!ClicksForm
  BY <1>2, <1>5, MenusBecome DEF Drop!ClicksForm, h
<1>6. CASE \E t \in Toggles : Drop!Clicks(t)
  <2>1. PICK t \in Toggles : Drop!Clicks(t)
    BY <1>6
  <2>2. OneOf(Drop!Click(h, t)) /\ Bare(Drop!Click(h, t))
    BY <1>1, ClicksOne
  <2>3. QED
    BY <2>1, <2>2, MenusBecome DEF Drop!Clicks, h
<1>7. CASE \E t \in Toggles, toggles \in BOOLEAN : Drop!Make(t, toggles)
  <2>1. PICK t \in Toggles : \E toggles \in BOOLEAN : Drop!Make(t, toggles)
    BY <1>7
  <2>2. made' # {} /\ touch' = touch
    BY <2>1 DEF Drop!Make
  <2>3. Drop!Become(h) \/ Drop!Become(Drop!Toggle(h, t))
    BY <2>1 DEF Drop!Make, h
  <2>4. OneOf(Drop!Toggle(h, t))
    BY <1>1, TogglesOne
  <2>5. QED
    BY <1>1, <2>2, <2>3, <2>4, MenusBecome
<1>8. CASE \E t \in Toggles, key \in {"up", "down", "escape"} : Drop!Keys(t, key)
  <2>1. PICK t \in Toggles, key \in {"up", "down", "escape"} : Drop!Keys(t, key)
    BY <1>8
  <2> DEFINE e == [h EXCEPT !.focus = <<"toggle", MenuOf[t]>>]
             m == [h EXCEPT !.focus = <<"item", Drop!Moved(Drop!Index, key)>>]
             g == IF key = "escape" THEN e ELSE h
  <2>2. IsMenus(e) /\ e.open = h.open /\ e.backdrops = h.backdrops
    BY <1>1 DEF IsMenus
  <2>3. m.open = h.open /\ m.backdrops = h.backdrops
    BY <1>1 DEF IsMenus
  <2>4. touch' = touch /\ made' = made
    BY <2>1 DEF Drop!Keys
  <2>5. \/ Drop!Become(h) \/ Drop!Become(m)
        \/ Drop!Become(Drop!Click(g, t)) \/ Drop!Become(Drop!ClearMenus(Drop!Root(g)))
    BY <2>1 DEF Drop!Keys, h
  <2> HIDE DEF e, m
  <2>6. IsMenus(g) /\ OneOf(g)
    BY <1>1, <2>2 DEF OneOf
  <2> HIDE DEF g
  <2>7. OneOf(m) /\ (made = {} => Bare(m))
    BY <1>1, <2>3 DEF OneOf, Bare
  <2>8. OneOf(Drop!Click(g, t)) /\ Bare(Drop!Click(g, t))
    BY <2>6, ClicksOne
  <2>9. OneOf(Drop!ClearMenus(Drop!Root(g))) /\ Bare(Drop!ClearMenus(Drop!Root(g)))
    BY <2>6, RootHears, ClearsMenus
  <2>10. QED
    BY <1>1, <2>4, <2>5, <2>7, <2>8, <2>9, MenusBecome
<1>9. CASE UNCHANGED Drop!vars
  BY <1>1, <1>9 DEF Drop!vars, DropInv, Drop!Page, OneOf, Bare, h
<1>10. QED
  BY <1>4, <1>5, <1>6, <1>7, <1>8, <1>9 DEF Drop!Next

(* OneMenu: whichever toggles have an object, and however clicks, keys, forms and        *)
(* listeners at the root follow each other, two menus are never open at once; on a touch   *)
(* screen an open one has a backdrop to close it, and without objects no backdrop stays    *)
(* without its menu.  For any number of toggles, and for any menus they share.            *)
THEOREM OneMenuOpen == Drop!Spec => []Drop!OneMenu
<1>1. Drop!Init => DropInv
  BY DEF Drop!Init, DropInv, OneOf, Bare, Drop!Page
<1>2. DropInv /\ [Drop!Next]_(Drop!vars) => DropInv'
  BY DropKept
<1>3. DropInv => Drop!OneMenu
  <2> SUFFICES ASSUME DropInv PROVE Drop!OneMenu
    OBVIOUS
  <2> DEFINE theirs == {MenuOf[t] : t \in Toggles}
  <2>1. /\ open # {} => \E m \in theirs : open = {m}
        /\ touchBackdrops # {} => \E t \in Toggles : touchBackdrops = {t}
    BY DEF DropInv, OneOf, Drop!Page
  <2> HIDE DEF theirs
  <2>2. Cardinality(open) <= 1
    BY <2>1, AtMostOne
  <2>3. Cardinality(touchBackdrops) <= 1
    BY <2>1, AtMostOne
  <2>4. \A S : Drop!Cardinality(S) = Cardinality(S)
    BY DEF Drop!Cardinality, Cardinality
  <2>5. QED
    BY <2>2, <2>3, <2>4 DEF DropInv, OneOf, Bare, Drop!Page, Drop!OneMenu
<1>4. QED
  BY <1>1, <1>2, <1>3, PTL DEF Drop!Spec

-----------------------------------------------------------------------------
(* Accordion.  A click on a group of the page hides the one that is open.          *)

(* An object that is busy waits for the end of a transition there is, and     *)
(* unless a listener prevented it no two groups are open.                    *)
Heaps == [open : SUBSET Groups, object : [Groups -> Nat], objects : Nat, busy : SUBSET Nat,
          moving : SUBSET Groups, ends : [Groups -> Seq(Nat)], prevented : BOOLEAN]
WillEnd(o, m, e) == \E g \in m : \E i \in 1 .. Len(e[g]) : e[g][i] = o
Numbered(h) ==
  /\ \A g \in Groups : h.object[g] <= h.objects
  /\ \A o \in h.busy : o <= h.objects /\ WillEnd(o, h.moving, h.ends)
Single(h) == h.open # {} => \E g \in Groups : h.open = {g}
Sound(h) == h \in Heaps /\ Numbered(h)
AccordInv == Sound(Accord!Heap) /\ (~hidePrevented => Single(Accord!Heap))

Goes(h, g, o, x) ==
  [h EXCEPT !.open = x, !.busy = @ \cup {o}, !.moving = @ \cup {g}, !.ends[g] = Append(@, o)]
LEMMA MovedKeeps ==
  ASSUME NEW h, Sound(h), NEW g \in Groups, NEW o \in Nat, o <= h.objects,
         NEW x \in SUBSET Groups, NEW k, k = Goes(h, g, o, x)
  PROVE  /\ Sound(k) /\ k.prevented = h.prevented /\ k.objects = h.objects
         /\ k.open = x
<1> DEFINE b == h.busy \cup {o}
           m == h.moving \cup {g}
           q == Append(h.ends[g], o)
           e == [h.ends EXCEPT ![g] = q]
<1>1. /\ h \in Heaps /\ h.open \in SUBSET Groups /\ h.object \in [Groups -> Nat] /\ h.objects \in Nat
      /\ h.busy \in SUBSET Nat /\ h.moving \in SUBSET Groups /\ h.ends \in [Groups -> Seq(Nat)]
      /\ h.ends[g] \in Seq(Nat) /\ h.prevented \in BOOLEAN
  BY DEF Sound, Heaps
<1>2. /\ q \in Seq(Nat) /\ Len(q) = Len(h.ends[g]) + 1 /\ Len(h.ends[g]) \in Nat /\ q[Len(q)] = o
      /\ \A i \in 1 .. Len(h.ends[g]) : q[i] = h.ends[g][i]
  BY <1>1, AppendProperties, LenProperties
<1>3. b \in SUBSET Nat /\ m \in SUBSET Groups
  BY <1>1
<1>4. k = [h EXCEPT !.open = x, !.busy = b, !.moving = m, !.ends = e]
  BY DEF Goes
<1> HIDE DEF b, m
<1>5. e \in [Groups -> Seq(Nat)] /\ e[g] = q /\ \A a \in Groups : a # g => e[a] = h.ends[a]
  <2> HIDE DEF q
  <2>1. QED
    BY <1>1, <1>2
<1> HIDE DEF e, q
<1>6. /\ k.open = x /\ k.busy = b /\ k.moving = m /\ k.ends = e
      /\ k.object = h.object /\ k.objects = h.objects /\ k.prevented = h.prevented
  BY <1>1, <1>4 DEF Heaps
<1>7. k \in Heaps
  BY <1>1, <1>3, <1>4, <1>5 DEF Heaps
<1>8. ASSUME NEW a \in Groups, NEW i \in 1 .. Len(h.ends[a])
      PROVE  i \in 1 .. Len(e[a]) /\ e[a][i] = h.ends[a][i]
  <2>1. CASE a = g
    <3>1. i \in 1 .. Len(h.ends[g])
      BY <2>1
    <3>2. i \in 1 .. Len(q) /\ q[i] = h.ends[g][i]
      <4>1. Len(q) = Len(h.ends[g]) + 1 /\ Len(h.ends[g]) \in Nat
        BY <1>2
      <4>2. i \in 1 .. Len(q)
        BY <3>1, <4>1
      <4>3. QED
        BY <1>2, <3>1, <4>2
    <3>3. QED
      BY <1>5, <2>1, <3>2
  <2>2. CASE a # g
    BY <1>5, <2>2
  <2>3. QED
    BY <2>1, <2>2
<1>9. ASSUME NEW c, WillEnd(c, h.moving, h.ends)
      PROVE  WillEnd(c, m, e)
  <2>1. PICK a \in h.moving : \E i \in 1 .. Len(h.ends[a]) : h.ends[a][i] = c
    BY <1>9 DEF WillEnd
  <2>2. a \in Groups /\ a \in m
    BY <1>1, <2>1 DEF m
  <2>3. \E i \in 1 .. Len(e[a]) : e[a][i] = c
    BY <1>8, <2>1, <2>2
  <2>4. QED
    BY <2>2, <2>3 DEF WillEnd
<1>10. WillEnd(o, m, e)
  <2>1. Len(q) \in 1 .. Len(q)
    BY <1>2
  <2>2. \E i \in 1 .. Len(e[g]) : e[g][i] = o
    BY <1>2, <1>5, <2>1
  <2>3. g \in m
    BY DEF m
  <2>4. QED
    BY <2>2, <2>3 DEF WillEnd
<1>11. Numbered(k)
  BY <1>6, <1>9, <1>10 DEF Sound, Numbered, b
<1>12. QED
  BY <1>6, <1>7, <1>11 DEF Sound

LEMMA HideKeeps ==
  ASSUME NEW h, Sound(h), NEW g \in Groups, NEW o \in Nat, o <= h.objects, NEW prevent
  PROVE  LET k == Accord!Hide(h, g, o, prevent)
         IN  /\ Sound(k) /\ (h.prevented => k.prevented) /\ k.objects = h.objects
             /\ \/ k.prevented
                \/ o \in h.busy /\ k.open = h.open
                \/ o \notin h.busy /\ k.open = h.open \ {g}
<1> DEFINE k == Accord!Hide(h, g, o, prevent)
           u == [h EXCEPT !.prevented = TRUE]
           v == Accord!Moved(h, g, o, FALSE)
<1>1. h \in Heaps
  BY DEF Sound
<1>2. Sound(u) /\ u.prevented /\ u.objects = h.objects
  <2>1. /\ u \in Heaps /\ u.prevented /\ u.busy = h.busy /\ u.moving = h.moving /\ u.ends = h.ends
        /\ u.object = h.object /\ u.objects = h.objects
    BY <1>1 DEF Heaps
  <2>2. QED
    BY <2>1 DEF Sound, Numbered
<1>3. /\ Sound(v) /\ v.open = h.open \ {g} /\ v.objects = h.objects
      /\ v.prevented = h.prevented
  <2>1. h.open \ {g} \in SUBSET Groups
    BY <1>1 DEF Heaps
  <2>2. v = Goes(h, g, o, h.open \ {g})
    BY DEF Accord!Moved, Goes
  <2> HIDE DEF v
  <2>3. QED
    BY <2>1, <2>2, MovedKeeps
<1>4. k = IF o \in h.busy \/ g \notin h.open THEN h ELSE IF "hide" \in prevent THEN u ELSE v
  BY DEF Accord!Hide
<1> HIDE DEF k, u, v
<1>5. CASE o \in h.busy
  BY <1>4, <1>5 DEF k
<1>6. CASE o \notin h.busy /\ g \notin h.open
  BY <1>1, <1>4, <1>6 DEF k, Heaps
<1>7. CASE o \notin h.busy /\ g \in h.open
  BY <1>2, <1>3, <1>4, <1>7 DEF k
<1>8. QED
  BY <1>5, <1>6, <1>7

LEMMA NewKeeps ==
  ASSUME NEW h, Sound(h), NEW g \in Groups
  PROVE  LET k == Accord!New(h, g)
         IN  /\ Sound(k) /\ k.objects = h.objects + 1 /\ k.object[g] = k.objects
             /\ k.open = h.open /\ k.busy = h.busy /\ k.prevented = h.prevented
             /\ k.objects \notin k.busy /\ k.objects \in Nat
<1> DEFINE k == Accord!New(h, g)
           n == h.objects + 1
           b == [h.object EXCEPT ![g] = n]
<1>1. h \in Heaps /\ h.object \in [Groups -> Nat] /\ h.objects \in Nat /\ h.busy \in SUBSET Nat
  BY DEF Sound, Heaps
<1>2. /\ n \in Nat /\ b \in [Groups -> Nat] /\ b[g] = n /\ h.objects < n
      /\ \A a \in Groups : b[a] = n \/ b[a] = h.object[a]
  BY <1>1
<1>3. k = [h EXCEPT !.objects = n, !.object = b]
  BY DEF Accord!New
<1> HIDE DEF k, n, b
<1>4. /\ k \in Heaps /\ k.objects = n /\ k.object = b /\ k.open = h.open /\ k.busy = h.busy
      /\ k.moving = h.moving /\ k.ends = h.ends /\ k.prevented = h.prevented
  BY <1>1, <1>2, <1>3 DEF Heaps
<1>5. /\ \A a \in Groups : h.object[a] \in Nat /\ h.object[a] <= h.objects
      /\ \A o \in h.busy : o \in Nat /\ o <= h.objects /\ WillEnd(o, h.moving, h.ends)
  BY <1>1 DEF Sound, Numbered
<1>6. \A o \in h.busy : o <= n /\ o # n
  BY <1>1, <1>2, <1>5
<1>7. \A a \in Groups : b[a] <= n
  BY <1>1, <1>2, <1>5
<1>8. Numbered(k)
  BY <1>4, <1>5, <1>6, <1>7 DEF Numbered
<1>9. QED
  BY <1>1, <1>2, <1>4, <1>6, <1>8 DEF Sound, k, n
LEMMA ShownKeeps ==
  ASSUME NEW h, Sound(h), NEW g \in Groups, NEW o \in Nat, o <= h.objects, NEW prevent
  PROVE  LET k == Accord!Shown(h, g, o, prevent)
         IN  /\ Sound(k) /\ k.prevented = h.prevented
             /\ k.open = h.open \/ k.open = h.open \cup {g}
<1> DEFINE v == Accord!Moved(h, g, o, TRUE)
<1>1. h.open \cup {g} \in SUBSET Groups
  BY DEF Sound, Heaps
<1>2. v = Goes(h, g, o, h.open \cup {g})
  BY DEF Accord!Moved, Goes
<1> HIDE DEF v
<1>3. Sound(v) /\ v.prevented = h.prevented /\ v.open = h.open \cup {g}
  BY <1>1, <1>2, MovedKeeps
<1>4. Accord!Shown(h, g, o, prevent) \in {h, v}
  BY DEF Accord!Shown, v
<1>5. QED
  BY <1>3, <1>4

LEMMA HideOtherKeeps ==
  ASSUME NEW h, Sound(h), NEW a \in Groups, NEW prevent, ~Accord!Busy(h, a)
  PROVE  LET k == Accord!HideOther(h, a, prevent)
         IN  /\ Sound(k) /\ h.objects <= k.objects /\ (h.prevented => k.prevented)
             /\ k.prevented \/ k.open = h.open \ {a}
<1> DEFINE k == Accord!HideOther(h, a, prevent)
<1>1. CASE h.object[a] # 0
  <2> DEFINE o == h.object[a]
             v == Accord!Hide(h, a, o, prevent)
  <2>1. o \in Nat /\ o <= h.objects /\ o \notin h.busy /\ h.objects \in Nat
    BY <1>1 DEF Sound, Heaps, Numbered, Accord!Busy
  <2>2. k = v
    BY <1>1 DEF Accord!HideOther
  <2> HIDE DEF o, k
  <2>3. /\ Sound(v) /\ (h.prevented => v.prevented) /\ v.objects = h.objects
        /\ v.prevented \/ v.open = h.open \ {a}
    BY <2>1, HideKeeps
  <2>4. QED
    BY <2>1, <2>2, <2>3 DEF k
<1>2. CASE h.object[a] = 0
  <2> DEFINE n == Accord!New(h, a)
             o == n.object[a]
             v == Accord!Hide(n, a, o, prevent)
             z == [v.object EXCEPT ![a] = 0]
  <2>1. k = [v EXCEPT !.object[a] = 0]
    BY <1>2 DEF Accord!HideOther
  <2>2. /\ Sound(n) /\ n.objects = h.objects + 1 /\ o = n.objects /\ n.open = h.open
        /\ n.prevented = h.prevented /\ n.objects \notin n.busy /\ n.objects \in Nat
    BY NewKeeps
  <2>3. o \in Nat /\ o <= n.objects /\ o \notin n.busy
    BY <2>2
  <2> HIDE DEF n, o
  <2>4. /\ Sound(v) /\ (n.prevented => v.prevented) /\ v.objects = n.objects
        /\ v.prevented \/ v.open = n.open \ {a}
    BY <2>2, <2>3, HideKeeps
  <2>5. v \in Heaps /\ v.object \in [Groups -> Nat] /\ Numbered(v)
    BY <2>4 DEF Sound, Heaps
  <2>6. k = [v EXCEPT !.object = z]
    BY <2>1, <2>5
  <2> HIDE DEF v, k
  <2>7. z \in [Groups -> Nat] /\ \A g \in Groups : z[g] = 0 \/ z[g] = v.object[g]
    BY <2>5
  <2> HIDE DEF z
  <2>8. /\ k \in Heaps /\ k.object = z /\ k.objects = v.objects /\ k.busy = v.busy
        /\ k.moving = v.moving /\ k.ends = v.ends /\ k.open = v.open /\ k.prevented = v.prevented
    BY <2>5, <2>6, <2>7 DEF Heaps
  <2>9. v.objects \in Nat /\ h.objects \in Nat
    BY <2>5 DEF Sound, Heaps
  <2>10. Numbered(k)
    BY <2>5, <2>7, <2>8, <2>9 DEF Numbered
  <2>11. QED
    BY <2>2, <2>4, <2>8, <2>9, <2>10 DEF Sound, k
<1>3. QED
  BY <1>1, <1>2

LEMMA ShowKeeps ==
  ASSUME NEW h, Sound(h), NEW g \in Groups, NEW o \in Nat, o <= h.objects, NEW prevent,
         h.prevented \/ Single(h)
  PROVE  LET k == Accord!Show(h, g, o, prevent) IN Sound(k) /\ (k.prevented \/ Single(k))
<1> DEFINE k == Accord!Show(h, g, o, prevent)
           a == CHOOSE a \in h.open : TRUE
           w == Accord!HideOther(h, a, prevent)
<1>1. \/ k = h
      \/ h.open = {} /\ k = Accord!Shown(h, g, o, prevent)
      \/ h.open # {} /\ ~Accord!Busy(h, a) /\ k = Accord!Shown(w, g, o, prevent)
  BY DEF Accord!Show
<1>2. h.open \in SUBSET Groups /\ h.objects \in Nat
  BY DEF Sound, Heaps
<1>3. CASE h.open = {} /\ k = Accord!Shown(h, g, o, prevent)
  <2> HIDE DEF k
  <2>1. Sound(k) /\ k.prevented = h.prevented /\ (k.open = {} \/ k.open = {g})
    BY <1>3, ShownKeeps
  <2>2. QED
    BY <2>1 DEF Single, k
<1>4. CASE h.open # {} /\ ~Accord!Busy(h, a) /\ k = Accord!Shown(w, g, o, prevent)
  <2>1. a \in h.open /\ a \in Groups
    BY <1>2, <1>4
  <2> HIDE DEF k, a
  <2>2. /\ Sound(w) /\ h.objects <= w.objects /\ (h.prevented => w.prevented)
        /\ w.prevented \/ w.open = h.open \ {a}
    BY <1>4, <2>1, HideOtherKeeps
  <2>3. w.objects \in Nat
    BY <2>2 DEF Sound, Heaps
  <2> HIDE DEF w
  <2>4. o <= w.objects
    BY <1>2, <2>2, <2>3
  <2>5. Sound(k) /\ k.prevented = w.prevented /\ (k.open = w.open \/ k.open = w.open \cup {g})
    BY <1>4, <2>2, <2>4, ShownKeeps
  <2>6. w.prevented \/ w.open = {}
    BY <2>1, <2>2 DEF Single
  <2>7. QED
    BY <2>5, <2>6 DEF Single, k
<1>5. QED
  BY <1>1, <1>3, <1>4

LEMMA AccordBecomes ==
  ASSUME NEW h, Sound(h), h.prevented \/ Single(h), Accord!Become(h)
  PROVE  AccordInv'
<1>1. h = [open |-> h.open, object |-> h.object, objects |-> h.objects, busy |-> h.busy,
           moving |-> h.moving, ends |-> h.ends, prevented |-> h.prevented]
  BY DEF Sound, Heaps
<1>2. Accord!Heap' = h
  BY <1>1 DEF Accord!Heap, Accord!Become
<1>3. Sound(Accord!Heap)'
  BY <1>2 DEF Sound, Heaps, Numbered, WillEnd
<1>4. (~hidePrevented => Single(Accord!Heap))'
  BY <1>2 DEF Accord!Become, Single
<1>5. QED
  BY <1>3, <1>4 DEF AccordInv

LEMMA AccordKept == AccordInv /\ [Accord!Next]_(Accord!vars) => AccordInv'
<1> SUFFICES ASSUME AccordInv, [Accord!Next]_(Accord!vars) PROVE AccordInv'
  OBVIOUS
<1> DEFINE h == Accord!Heap
<1>1. /\ Sound(h) /\ (h.prevented \/ Single(h))
      /\ h.open = openGroups /\ h.object = object /\ h.prevented = hidePrevented /\ h.moving = movingGroups
      /\ h.busy = busy /\ h.ends = ends /\ h.objects = objects
  BY DEF AccordInv, Accord!Heap
<1> HIDE DEF h
<1>2. ASSUME NEW g \in Groups, NEW prevent, Accord!Click(g, prevent)
      PROVE  AccordInv'
  <2> DEFINE k == Accord!Made(h, g)
             o == k.object[g]
             r == IF g \in openGroups THEN Accord!Hide(k, g, o, prevent) ELSE Accord!Show(k, g, o, prevent)
  <2>1. Accord!Become(r)
    BY <1>2 DEF Accord!Click, h
  <2>2. Sound(k) /\ k.open = openGroups /\ k.prevented = hidePrevented
    BY <1>1, NewKeeps DEF Accord!Made
  <2> HIDE DEF k
  <2>3. o \in Nat /\ o <= k.objects
    BY <2>2 DEF Sound, Heaps, Numbered
  <2>4. k.prevented \/ Single(k)
    BY <1>1, <2>2 DEF Single
  <2> HIDE DEF o
  <2>5. CASE g \in openGroups
    <3> DEFINE v == Accord!Hide(k, g, o, prevent)
    <3>1. /\ Sound(v) /\ (k.prevented => v.prevented)
          /\ v.prevented \/ v.open = k.open \/ v.open = k.open \ {g}
      BY <2>2, <2>3, HideKeeps
    <3> HIDE DEF v
    <3>2. v.prevented \/ Single(v)
      BY <2>4, <3>1 DEF Single
    <3>3. QED
      BY <2>1, <2>5, <3>1, <3>2, AccordBecomes DEF v
  <2>6. CASE g \notin openGroups
    BY <2>1, <2>2, <2>3, <2>4, <2>6, ShowKeeps, AccordBecomes
  <2>7. QED
    BY <2>5, <2>6
<1>3. ASSUME NEW g \in Groups, Accord!TransitionEnds(g)
      PROVE  AccordInv'
  <2> DEFINE m == movingGroups \ {g}
             b == busy \ Accord!ToSet(ends[g])
             e == [ends EXCEPT ![g] = <<>>]
             r == [h EXCEPT !.moving = m, !.busy = b, !.ends = e]
  <2>1. Accord!Become(r)
    BY <1>1, <1>3 DEF Accord!TransitionEnds, h
  <2>2. /\ h \in Heaps /\ ends \in [Groups -> Seq(Nat)] /\ busy \in SUBSET Nat
        /\ movingGroups \in SUBSET Groups
    BY <1>1 DEF Sound, Heaps
  <2>3. b \in SUBSET Nat /\ m \in SUBSET Groups /\ e \in [Groups -> Seq(Nat)]
    <3>1. <<>> \in Seq(Nat)
      BY EmptySeq
    <3>2. e \in [Groups -> Seq(Nat)]
      BY <2>2, <3>1
    <3>3. QED
      BY <2>2, <3>2
  <2>4. \A c \in b : c \in busy /\ c \notin {ends[g][i] : i \in DOMAIN ends[g]}
    BY DEF Accord!ToSet
  <2>5. \A a \in m : a # g /\ e[a] = ends[a]
    BY <2>2
  <2>6. DOMAIN ends[g] = 1 .. Len(ends[g])
    BY <2>2, LenProperties
  <2>7. m = movingGroups \ {g}
    OBVIOUS
  <2> HIDE DEF m, b, e
  <2>8. /\ r \in Heaps /\ r.moving = m /\ r.busy = b /\ r.ends = e /\ r.object = h.object
        /\ r.objects = h.objects /\ r.open = h.open /\ r.prevented = h.prevented
    BY <2>2, <2>3 DEF Heaps
  <2> HIDE DEF r
  <2>9. ASSUME NEW c \in b PROVE WillEnd(c, m, e)
    <3>1. WillEnd(c, movingGroups, ends)
      BY <1>1, <2>4 DEF Sound, Numbered
    <3>2. PICK a \in movingGroups : \E i \in 1 .. Len(ends[a]) : ends[a][i] = c
      BY <3>1 DEF WillEnd
    <3>3. a # g
      BY <2>4, <2>6, <3>2
    <3>4. a \in m
      BY <2>7, <3>2, <3>3
    <3>5. QED
      BY <2>5, <3>2, <3>4 DEF WillEnd
  <2>10. Numbered(r)
    BY <1>1, <2>4, <2>8, <2>9 DEF Sound, Numbered
  <2>11. r.prevented \/ Single(r)
    BY <1>1, <2>8 DEF Single
  <2>12. QED
    BY <2>1, <2>8, <2>10, <2>11, AccordBecomes DEF Sound
<1>4. CASE UNCHANGED Accord!vars
  <2>1. UNCHANGED <<openGroups, object, objects, busy, movingGroups, ends, hidePrevented>>
    BY <1>4 DEF Accord!vars
  <2>2. Accord!Become(h)
    BY <1>1, <2>1 DEF Accord!Become
  <2>3. QED
    BY <1>1, <2>2, AccordBecomes
<1>5. QED
  BY <1>2, <1>3, <1>4 DEF Accord!Next

(* OneOpen: unless a listener prevents that a group is hidden, no two groups are open at   *)
(* once, and an object that is busy is told by the end of a transition that runs, so it     *)
(* cannot stay busy; for any number of groups, clicked as quickly as one likes.           *)
THEOREM OneGroupOpen == Accord!Spec => []Accord!OneOpen
<1>1. Accord!Init => AccordInv
  <2> SUFFICES ASSUME Accord!Init PROVE AccordInv
    OBVIOUS
  <2> DEFINE h == Accord!Heap
  <2>1. /\ h.open = openGroups /\ h.object = object /\ h.objects = objects /\ h.busy = busy
        /\ h.moving = movingGroups /\ h.ends = ends /\ h.prevented = hidePrevented
    BY DEF Accord!Heap
  <2>2. <<>> \in Seq(Nat)
    BY EmptySeq
  <2>3. h \in Heaps
    BY <2>2 DEF Accord!Init, Accord!Heap, Heaps
  <2> HIDE DEF h
  <2>4. Numbered(h) /\ Single(h)
    BY <2>1 DEF Accord!Init, Numbered, Single
  <2>5. QED
    BY <2>3, <2>4 DEF AccordInv, Sound, h
<1>2. AccordInv => Accord!OneOpen
  <2> SUFFICES ASSUME AccordInv PROVE Accord!OneOpen
    OBVIOUS
  <2>1. \A S : Accord!Cardinality(S) = Cardinality(S)
    BY DEF Accord!Cardinality, Cardinality
  <2>2. ~hidePrevented => Cardinality(openGroups) <= 1
    <3>1. ~hidePrevented => (openGroups # {} => \E g \in Groups : openGroups = {g})
      BY DEF AccordInv, Single, Accord!Heap
    <3>2. QED
      BY <3>1, AtMostOne
  <2>3. \A o \in busy : \E g \in movingGroups : \E i \in 1 .. Len(ends[g]) : ends[g][i] = o
    BY DEF AccordInv, Sound, Numbered, WillEnd, Accord!Heap
  <2>4. QED
    BY <2>1, <2>2, <2>3 DEF Accord!OneOpen, Accord!Contains
<1>3. QED
  BY <1>1, <1>2, AccordKept, PTL DEF Accord!Spec

-----------------------------------------------------------------------------
(* Tooltip.  One tip, with the timer of its delays and the timeouts of its removals.  *)

(* A timer that is set does what the pointer did last, so that none shows a   *)
(* tip that was left; and a tip that was left and is there has a timeout,     *)
(* unless a listener prevented the last hide.                               *)
IsTip == tip = [here |-> tip.here, in |-> tip.in, fade |-> tip.fade, moving |-> tip.moving,
                ends |-> tip.ends]
TipInv ==
  /\ IsTip
  /\ timer \in {"none", "in", "out"} /\ (timer # "none" => hoverState = timer)
  /\ gone => timer # "in"
  /\ hindered \in BOOLEAN
  /\ gone /\ timer = "none" /\ ~destroyed /\ ~hindered => removals # {} \/ ~tip.here

LEMMA TipIsTaken ==
  ASSUME IsTip, Tip!Taken
  PROVE  IsTip' /\ (removals' # {} \/ ~tip'.here)
<1>1. CASE tip.fade
  <2> DEFINE m == tip.here /\ (tip.in \/ tip.moving)
  <2>1. tip' = [tip EXCEPT !.in = FALSE, !.moving = m, !.ends = Append(@, events)]
    BY <1>1 DEF Tip!Taken
  <2>2. removals' = removals \cup {events}
    BY <1>1 DEF Tip!Taken
  <2> HIDE DEF m
  <2>3. tip' = [here |-> tip.here, in |-> FALSE, fade |-> tip.fade, moving |-> m,
                ends |-> Append(tip.ends, events)]
    BY <2>1 DEF IsTip
  <2>4. QED
    BY <2>2, <2>3 DEF IsTip
<1>2. CASE ~tip.fade
  <2>1. tip' = [[tip EXCEPT !.here = FALSE, !.moving = FALSE] EXCEPT !.in = FALSE]
    BY <1>2 DEF Tip!Taken, Tip!Detached
  <2>2. tip' = [here |-> FALSE, in |-> FALSE, fade |-> tip.fade, moving |-> FALSE,
                ends |-> tip.ends]
    BY <2>1 DEF IsTip
  <2>3. QED
    BY <2>2 DEF IsTip
<1>3. QED
  BY <1>1, <1>2

LEMMA HideTakesTip ==
  ASSUME IsTip, Tip!Hide
  PROVE  IsTip' /\ hindered' \in BOOLEAN /\ (~hindered' => removals' # {} \/ ~tip'.here)
<1>1. CASE Tip!Taken /\ hindered' = FALSE
  BY <1>1, TipIsTaken
<1>2. CASE UNCHANGED Tip!tips /\ hindered' = TRUE
  BY <1>2 DEF IsTip, Tip!tips
<1>3. QED
  BY <1>1, <1>2 DEF Tip!Hide

LEMMA ShowsTip ==
  ASSUME IsTip, Tip!Show
  PROVE  IsTip'
<1>1. CASE UNCHANGED Tip!tips
  BY <1>1 DEF IsTip, Tip!tips
<1>2. CASE tip' = [tip EXCEPT !.here = TRUE, !.in = TRUE, !.fade = options.animation,
                              !.moving = options.animation]
  <2> DEFINE a == options.animation
  <2>1. tip' = [tip EXCEPT !.here = TRUE, !.in = TRUE, !.fade = a, !.moving = a]
    BY <1>2
  <2> HIDE DEF a
  <2>2. tip' = [here |-> TRUE, in |-> TRUE, fade |-> a, moving |-> a, ends |-> tip.ends]
    BY <2>1 DEF IsTip
  <2>3. QED
    BY <2>2 DEF IsTip
<1>3. QED
  BY <1>1, <1>2 DEF Tip!Show

LEMMA TipKept == TipInv /\ [Tip!Next]_(Tip!vars) => TipInv'
<1> SUFFICES ASSUME TipInv, [Tip!Next]_(Tip!vars) PROVE TipInv'
  OBVIOUS
<1>1. IsTip
  BY DEF TipInv
<1>2. CASE Tip!Enter
  <2>1. IsTip'
    BY <1>1, <1>2, ShowsTip DEF Tip!Enter, Tip!tips, IsTip
  <2>2. QED
    BY <1>2, <2>1 DEF TipInv, Tip!Enter
<1>3. CASE Tip!Leave
  <2>1. CASE Tip!LeaveAtOnce
    <3>1. IsTip' /\ hindered' \in BOOLEAN /\ (~hindered' => removals' # {} \/ ~tip'.here)
      BY <1>1, <2>1, HideTakesTip DEF Tip!LeaveAtOnce
    <3>2. QED
      BY <1>3, <2>1, <3>1 DEF TipInv, Tip!Leave, Tip!LeaveAtOnce
  <2>2. CASE Tip!LeaveLater
    <3>1. IsTip'
      BY <1>1, <2>2 DEF Tip!LeaveLater, Tip!tips, IsTip
    <3>2. QED
      BY <1>3, <2>2, <3>1 DEF TipInv, Tip!Leave, Tip!LeaveLater
  <2>3. QED
    BY <1>3, <2>1, <2>2 DEF Tip!Leave
<1>4. CASE Tip!TimerFires
  <2>1. hoverState = timer
    BY <1>4 DEF TipInv, Tip!TimerFires
  <2>2. CASE timer = "in"
    <3>1. IsTip'
      BY <1>1, <1>4, <2>1, <2>2, ShowsTip DEF Tip!TimerFires
    <3>2. QED
      BY <1>4, <2>2, <3>1 DEF TipInv, Tip!TimerFires
  <2>3. CASE timer = "out"
    <3>1. IsTip' /\ hindered' \in BOOLEAN /\ (~hindered' => removals' # {} \/ ~tip'.here)
      BY <1>1, <1>4, <2>1, <2>3, HideTakesTip DEF Tip!TimerFires
    <3>2. QED
      BY <1>4, <2>3, <3>1 DEF TipInv, Tip!TimerFires
  <2>4. QED
    BY <1>4, <2>2, <2>3 DEF TipInv, Tip!TimerFires
<1>5. CASE Tip!TransitionEnds
  <2> DEFINE e == tip.here /\ tip.ends = <<>>
  <2>1. tip' = [tip EXCEPT !.moving = FALSE, !.ends = <<>>, !.here = e]
    BY <1>5 DEF Tip!TransitionEnds
  <2>2. tip' = [here |-> e, in |-> tip.in, fade |-> tip.fade, moving |-> FALSE, ends |-> <<>>]
    <3> HIDE DEF e
    <3>1. QED
      BY <1>1, <2>1 DEF IsTip
  <2>3. tip'.here = e
    BY <2>2
  <2>4. e => removals' = removals
    <3>1. Tip!ToSet(<<>>) = {}
      BY DEF Tip!ToSet
    <3>2. QED
      BY <1>5, <3>1 DEF Tip!TransitionEnds
  <2>5. IsTip'
    BY <2>2 DEF IsTip
  <2>6. QED
    BY <1>5, <2>3, <2>4, <2>5 DEF TipInv, Tip!TransitionEnds
<1>6. CASE \E t \in removals : Tip!RemovalDue(t)
  <2>1. tip' = [[tip EXCEPT !.here = FALSE, !.moving = FALSE] EXCEPT !.ends = <<>>]
    BY <1>6 DEF Tip!RemovalDue, Tip!Detached
  <2>2. tip' = [here |-> FALSE, in |-> tip.in, fade |-> tip.fade, moving |-> FALSE, ends |-> <<>>]
    BY <1>1, <2>1 DEF IsTip
  <2>3. IsTip' /\ ~tip'.here
    BY <2>2 DEF IsTip
  <2>4. QED
    BY <1>6, <2>3 DEF TipInv, Tip!RemovalDue
<1>7. CASE Tip!Toggle
  BY <1>7 DEF TipInv, IsTip, Tip!Toggle, Tip!tips
<1>8. CASE Tip!Destroy
  <2>1. IsTip' /\ hindered' \in BOOLEAN /\ destroyed' = ~hindered'
    BY <1>1, <1>8, HideTakesTip DEF Tip!Destroy
  <2>2. QED
    BY <1>8, <2>1 DEF TipInv, Tip!Destroy
<1>9. CASE UNCHANGED Tip!vars
  BY <1>9 DEF TipInv, IsTip, Tip!vars
<1>10. QED
  BY <1>2, <1>3, <1>4, <1>5, <1>6, <1>7, <1>8, <1>9 DEF Tip!Next

(* NoTipLeft: once the pointer has gone and neither a timer nor a timeout is set, the tip    *)
(* is not in the page, with any number of delays, of hides while it fades and of shows and *)
(* hides that listeners prevent, unless they prevented the last hide, after which the tip  *)
(* stays, or it was destroyed while its timer ran.                                      *)
THEOREM NoTipStays == Tip!Spec => []Tip!NoTipLeft
<1>1. ASSUME Tip!Init PROVE TipInv
  <2>1. tip = [here |-> FALSE, in |-> FALSE, fade |-> FALSE, moving |-> FALSE, ends |-> <<>>]
    BY <1>1 DEF Tip!Init
  <2>2. IsTip /\ ~tip.here
    BY <2>1 DEF IsTip
  <2>3. QED
    BY <1>1, <2>2 DEF Tip!Init, TipInv
<1>2. TipInv => Tip!NoTipLeft
  BY DEF TipInv, Tip!NoTipLeft
<1>3. QED
  BY <1>1, <1>2, TipKept, PTL DEF Tip!Spec

-----------------------------------------------------------------------------
(* Typeahead.  One item of the menu is active, or none.            *)

LEMMA MinListed ==
  ASSUME NEW S \in SUBSET Entries, S # {}
  PROVE  List!Min(S) \in S
<1>1. S \in SUBSET Nat
  BY EntriesAssumed, FS_CardinalityType
<1>2. \E x \in S : \A y \in S : x <= y
  BY <1>1, HasLeast
<1>3. QED
  BY <1>2 DEF List!Min

LEMMA MaxListed ==
  ASSUME NEW S \in SUBSET Entries, S # {}
  PROVE  List!Max(S) \in S
<1>1. PICK n \in Nat : S \subseteq 1 .. n
  BY EntriesAssumed, FS_CardinalityType
<1>2. QED
  BY <1>1, MaxOfPart DEF List!Max, MaxOf

(* A menu that is shown has one of its items active, and when nothing is asked *)
(* any more it lists what matches.                                          *)
ListInv ==
  /\ menu \in SUBSET Entries
  /\ shown => activeItem \in menu /\ (asked = {} => menu \subseteq Matches[query])

LEMMA ListKept ==
  ASSUME ListInv, [List!Next]_(List!vars)
  PROVE  ListInv'
<1>1. ASSUME NEW t \in Texts, List!Type(t) PROVE ListInv'
  <2>1. CASE t = Blank
    <3>1. shown' = FALSE /\ menu' = menu
      BY <1>1, <2>1 DEF List!Type
    <3>2. QED
      BY <3>1 DEF ListInv
  <2>2. CASE t # Blank
    <3>1. asked' # {} /\ menu' = menu /\ activeItem' = activeItem /\ shown' = shown
      BY <1>1, <2>2 DEF List!Type
    <3>2. QED
      BY <3>1 DEF ListInv
  <2>3. QED
    BY <2>1, <2>2
<1>2. ASSUME NEW q \in asked, NEW items \in SUBSET Entries, List!Answer(q, items) PROVE ListInv'
  <2> DEFINE found == List!Matched(q, items)
  <2>1. found \in SUBSET Entries /\ found \subseteq Matches[query]
    BY DEF List!Matched
  <2>2. CASE found = {}
    BY <1>2, <2>2 DEF ListInv, List!Answer
  <2>3. CASE found # {}
    <3>1. List!Min(found) \in found
      BY <2>1, <2>3, MinListed
    <3>2. menu' = found /\ activeItem' = List!Min(found) /\ query' = query
      BY <1>2, <2>3 DEF List!Answer
    <3> HIDE DEF found
    <3>3. QED
      BY <2>1, <3>1, <3>2 DEF ListInv
  <2>4. QED
    BY <2>2, <2>3
<1>3. CASE List!Down
  <2>1. menu \in SUBSET Entries /\ menu # {}
    BY <1>3 DEF ListInv, List!Down
  <2> DEFINE later == {i \in menu : i > activeItem}
  <2>2. List!Min(menu) \in menu /\ (later # {} => List!Min(later) \in later)
    BY <2>1, MinListed
  <2>3. activeItem' \in menu
    BY <1>3, <2>2 DEF List!Down, List!NextItem
  <2>4. QED
    BY <1>3, <2>3 DEF ListInv, List!Down
<1>4. CASE List!Up
  <2>1. menu \in SUBSET Entries /\ menu # {}
    BY <1>4 DEF ListInv, List!Up
  <2> DEFINE former == {i \in menu : i < activeItem}
  <2>2. List!Max(menu) \in menu /\ (former # {} => List!Max(former) \in former)
    BY <2>1, MaxListed
  <2>3. activeItem' \in menu
    BY <1>4, <2>2 DEF List!Up, List!PrevItem
  <2>4. QED
    BY <1>4, <2>3 DEF ListInv, List!Up
<1>5. CASE List!Enter \/ List!Click \/ List!Escape
  BY <1>5 DEF ListInv, List!Enter, List!Click, List!Escape, List!Select
<1>6. CASE List!Focus \/ List!Blur \/ List!MouseLeave
  <2>1. shown' => shown
    BY <1>6 DEF List!Focus, List!Blur, List!MouseLeave
  <2>2. menu' = menu /\ activeItem' = activeItem /\ query' = query /\ asked' = asked
    BY <1>6 DEF List!Focus, List!Blur, List!MouseLeave
  <2>3. QED
    BY <2>1, <2>2 DEF ListInv
<1>7. ASSUME NEW i \in Entries, List!MouseEnter(i) PROVE ListInv'
  BY <1>7 DEF ListInv, List!MouseEnter
<1>8. CASE UNCHANGED List!vars
  BY <1>8 DEF ListInv, List!vars
<1>9. QED
  BY <1>1, <1>2, <1>3, <1>4, <1>5, <1>6, <1>7, <1>8 DEF List!Next

(* MenuMatches: a menu that is shown has one of its items active, and once no question is   *)
(* open it lists only what matches the text looked up last, however many items there are,  *)
(* however many texts were asked for and in whatever order their answers came.            *)
THEOREM MenuOfLastText == List!Spec => []List!MenuMatches
<1>1. List!Init => ListInv
  BY DEF List!Init, ListInv
<1>2. ListInv => List!MenuMatches
  BY DEF ListInv, List!MenuMatches
<1>3. ListInv /\ [List!Next]_(List!vars) => ListInv'
  BY ListKept
<1>4. QED
  BY <1>1, <1>2, <1>3, PTL DEF List!Spec

-----------------------------------------------------------------------------
(* Carousel.  It has at least one picture.                                    *)
Slots == 1 .. Pictures

(* One picture is active; a transition leads from it to another, and is known  *)
(* to run; unless a listener prevented a slide none is believed to run that     *)
(* does not, and what waits for slid has a slide or an event to wait for.      *)
Frames == [active : SUBSET Slots, moving : [from : Nat, to : Nat], sliding : BOOLEAN,
           paused : BOOLEAN, interval : BOOLEAN, slids : Nat, waiting : Seq(Slots),
           prevented : BOOLEAN]
OnItsWay(h) == \E a \in Slots, b \in Slots : a # b /\ h.active = {a} /\ h.moving = Slides!Move(a, b)
Turns(h) ==
  /\ \E a \in Slots : h.active = {a}
  /\ h.moving # Slides!Still => h.sliding /\ OnItsWay(h)
  /\ ~h.prevented /\ h.sliding => h.moving # Slides!Still
  /\ ~h.prevented /\ h.waiting # <<>> => h.sliding \/ h.slids > 0
Turning == {h \in Frames : Turns(h)}
SlideInv == Slides!Heap \in Turning

(* What changes the timer alone.                                             *)
SameSlide(h, k) ==
  /\ k.active = h.active /\ k.moving = h.moving /\ k.sliding = h.sliding
  /\ k.slids = h.slids /\ k.waiting = h.waiting /\ k.prevented = h.prevented
LEMMA SameTurns ==
  ASSUME NEW h \in Turning, NEW k \in Frames, SameSlide(h, k)
  PROVE  k \in Turning
BY DEF Turning, Turns, SameSlide, OnItsWay

LEMMA TimerSet ==
  ASSUME NEW h \in Frames
  PROVE  /\ Slides!CycleBy(h) \in Frames /\ SameSlide(h, Slides!CycleBy(h))
         /\ Slides!Cycle(h) \in Frames /\ SameSlide(h, Slides!Cycle(h))
<1>1. \A k \in Frames : Slides!CycleBy(k) \in Frames /\ SameSlide(k, Slides!CycleBy(k))
  <2> TAKE k \in Frames
  <2> DEFINE i == ~k.paused
  <2>1. i \in BOOLEAN /\ Slides!CycleBy(k) = [k EXCEPT !.interval = i]
    BY DEF Slides!CycleBy
  <2> HIDE DEF i
  <2>2. QED
    BY <2>1 DEF Frames, SameSlide
<1> DEFINE u == [h EXCEPT !.paused = FALSE]
<1>2. u \in Frames /\ SameSlide(h, u)
  BY DEF Frames, SameSlide
<1>3. Slides!Cycle(h) = Slides!CycleBy(u)
  BY DEF Slides!Cycle
<1> HIDE DEF u
<1>4. Slides!Cycle(h) \in Frames /\ SameSlide(h, Slides!Cycle(h))
  BY <1>1, <1>2, <1>3 DEF SameSlide
<1>5. QED
  BY <1>1, <1>4

LEMMA EndsTurn ==
  ASSUME NEW h \in Turning, h.moving # Slides!Still
  PROVE  Slides!Ended(h) \in Turning
<1> DEFINE k == Slides!Ended(h)
<1>1. h \in Frames /\ OnItsWay(h)
  BY DEF Turning, Turns
<1>2. PICK a \in Slots, b \in Slots : a # b /\ h.active = {a} /\ h.moving = Slides!Move(a, b)
  BY <1>1 DEF OnItsWay
<1> DEFINE x == (h.active \ {h.moving.from}) \cup {h.moving.to}
           n == h.slids + 1
<1>3. x = {b} /\ n \in Nat /\ n > 0
  BY <1>1, <1>2 DEF Slides!Move, Frames
<1>4. k = [h EXCEPT !.active = x, !.moving = Slides!Still, !.sliding = FALSE, !.slids = n]
  BY DEF Slides!Ended
<1>5. Slides!Still \in [from : Nat, to : Nat]
  BY DEF Slides!Still, Slides!Move
<1> HIDE DEF k, x, n
<1>6. /\ k \in Frames /\ k.active = {b} /\ k.moving = Slides!Still /\ ~k.sliding
      /\ k.slids = n
  BY <1>1, <1>3, <1>4, <1>5 DEF Frames
<1>7. k \in Turning
  BY <1>3, <1>6 DEF Turning, Turns
<1>8. QED
  BY <1>7 DEF k

LEMMA PausesTurn ==
  ASSUME NEW h \in Turning
  PROVE  Slides!PauseBy(h) \in Turning /\ Slides!Pause(h) \in Turning
<1>1. \A k \in Turning : Slides!PauseBy(k) \in Turning
  <2> TAKE k \in Turning
  <2> DEFINE u == IF k.moving = Slides!Still THEN k ELSE Slides!Ended(k)
  <2>1. u \in Turning
    BY EndsTurn
  <2>2. Slides!PauseBy(k) = [u EXCEPT !.interval = FALSE]
    BY DEF Slides!PauseBy
  <2> HIDE DEF u
  <2>3. Slides!PauseBy(k) \in Frames /\ SameSlide(u, Slides!PauseBy(k))
    BY <2>1, <2>2 DEF Turning, Frames, SameSlide
  <2>4. QED
    BY <2>1, <2>3, SameTurns
<1> DEFINE v == [h EXCEPT !.paused = TRUE]
<1>2. v \in Frames /\ SameSlide(h, v)
  BY DEF Turning, Frames, SameSlide
<1> HIDE DEF v
<1>3. v \in Turning
  BY <1>2, SameTurns
<1>4. Slides!Pause(h) = Slides!PauseBy(v)
  BY DEF Slides!Pause, v
<1>5. QED
  BY <1>1, <1>3, <1>4

LEMMA ActiveIs ==
  ASSUME NEW h \in Turning
  PROVE  Slides!ActiveIndex(h) \in Slots /\ h.active = {Slides!ActiveIndex(h)}
<1>1. PICK a \in Slots : h.active = {a}
  BY DEF Turning, Turns
<1>2. \E i \in h.active : \A j \in h.active : i <= j
  BY <1>1 DEF Slots
<1>3. Slides!ActiveIndex(h) \in h.active
  BY <1>2 DEF Slides!ActiveIndex
<1>4. QED
  BY <1>1, <1>3

LEMMA SlidesTurn ==
  ASSUME NEW h \in Turning, ~h.sliding, NEW to \in Slots, NEW prevent
  PROVE  Slides!Slide(h, to, prevent) \in Turning
<1> DEFINE a == Slides!ActiveIndex(h)
           u == [h EXCEPT !.sliding = TRUE]
           p == Slides!Pause(u)
           k == IF h.interval THEN p ELSE u
           g == [k EXCEPT !.moving = Slides!Move(a, to)]
           v == [k EXCEPT !.prevented = TRUE]
<1>1. h \in Frames /\ a \in Slots /\ h.active = {a} /\ h.moving = Slides!Still
  BY ActiveIs DEF Turning, Turns
<1> HIDE DEF a
<1>2. /\ u \in Frames /\ u.active = {a} /\ u.moving = Slides!Still /\ u.sliding
      /\ u.prevented = h.prevented
  BY <1>1 DEF Frames
<1>3. /\ p \in Frames /\ p.active = {a} /\ p.moving = Slides!Still /\ p.sliding
      /\ p.prevented = h.prevented
  <2> DEFINE w == [u EXCEPT !.paused = TRUE]
  <2> HIDE DEF u
  <2>1. /\ w \in Frames /\ w.active = {a} /\ w.moving = Slides!Still /\ w.sliding
        /\ w.prevented = h.prevented
    BY <1>2 DEF Frames
  <2>2. p = [w EXCEPT !.interval = FALSE]
    BY <2>1 DEF Slides!Pause, Slides!PauseBy
  <2> HIDE DEF w
  <2>3. QED
    BY <2>1, <2>2 DEF Frames
<1> HIDE DEF u, p
<1>4. /\ k \in Frames /\ k.active = {a} /\ k.moving = Slides!Still /\ k.sliding
      /\ k.prevented = h.prevented
  BY <1>2, <1>3
<1> HIDE DEF k
<1>5. v \in Turning
  <2>1. v \in Frames /\ v.active = {a} /\ v.moving = Slides!Still /\ v.prevented
    BY <1>4 DEF Frames
  <2> HIDE DEF v
  <2>2. QED
    BY <1>1, <2>1 DEF Turning, Turns
<1>6. ASSUME to \notin h.active PROVE g \in Turning /\ Slides!Cycle(g) \in Turning
  <2> DEFINE m == Slides!Move(a, to)
  <2>1. a \in Nat /\ to \in Nat /\ a # to
    BY <1>1, <1>6 DEF Slots
  <2>2. m \in [from : Nat, to : Nat] /\ m # Slides!Still
    <3>1. a # 0
      BY <1>1 DEF Slots
    <3>2. QED
      BY <2>1, <3>1 DEF Slides!Move, Slides!Still
  <2>3. g = [k EXCEPT !.moving = m]
    OBVIOUS
  <2> HIDE DEF g, m
  <2>4. /\ g \in Frames /\ g.active = {a} /\ g.moving = m /\ g.sliding
    BY <1>4, <2>2, <2>3 DEF Frames
  <2>5. OnItsWay(g)
    BY <1>1, <2>1, <2>4 DEF OnItsWay, m
  <2>6. g \in Turning
    BY <1>1, <2>2, <2>4, <2>5 DEF Turning, Turns
  <2>7. QED
    BY <2>4, <2>6, TimerSet, SameTurns
<1>7. CASE to \in h.active \/ prevent
  <2>1. Slides!Slide(h, to, prevent) = v
    BY <1>7 DEF Slides!Slide, v, k, p, u
  <2>2. QED
    BY <1>5, <2>1
<1>8. CASE ~(to \in h.active \/ prevent)
  <2>1. Slides!Slide(h, to, prevent) \in {g, Slides!Cycle(g)}
    BY <1>8 DEF Slides!Slide, g, k, p, u, a
  <2>2. QED
    BY <1>6, <1>8, <2>1
<1>9. QED
  BY <1>7, <1>8

LEMMA NextTurn ==
  ASSUME NEW h \in Turning, NEW prevent
  PROVE  Slides!SlideNext(h, prevent) \in Turning /\ Slides!SlidePrev(h, prevent) \in Turning
<1> DEFINE a == Slides!ActiveIndex(h)
<1>1. a \in Slots
  BY ActiveIs
<1> HIDE DEF a
<1>2. Slides!After(a) \in Slots /\ Slides!Before(a) \in Slots
  <2>1. Pictures \in Nat /\ Pictures > 0 /\ a \in Int /\ a + Pictures - 2 \in Int
    BY <1>1, PicturesAssumed DEF Slots
  <2>2. a % Pictures \in 0 .. Pictures - 1 /\ (a + Pictures - 2) % Pictures \in 0 .. Pictures - 1
    BY <2>1
  <2>3. QED
    BY <2>1, <2>2 DEF Slides!After, Slides!Before, Slots
<1>3. QED
  BY <1>2, SlidesTurn DEF Slides!SlideNext, Slides!SlidePrev, a

LEMMA ToTurns ==
  ASSUME NEW h \in Turning, NEW pos \in Slots
  PROVE  Slides!To(h, pos) \in Turning
<1>1. CASE h.sliding
  <2> DEFINE w == Append(h.waiting, pos)
             k == [h EXCEPT !.waiting = w]
  <2>1. h \in Frames /\ w \in Seq(Slots)
    BY AppendProperties DEF Turning, Frames
  <2> HIDE DEF w
  <2>2. /\ k \in Frames /\ k.active = h.active /\ k.moving = h.moving /\ k.sliding
        /\ k.prevented = h.prevented
    BY <1>1, <2>1 DEF Frames
  <2> HIDE DEF k
  <2>3. k \in Turning
    BY <1>1, <2>2 DEF Turning, Turns, OnItsWay
  <2>4. Slides!To(h, pos) = k
    BY <1>1 DEF Slides!To, k, w
  <2>5. QED
    BY <2>3, <2>4
<1>2. CASE ~h.sliding /\ Slides!ActiveIndex(h) = pos
  <2> DEFINE k == Slides!Pause(h)
  <2>1. k \in Turning
    BY PausesTurn
  <2> HIDE DEF k
  <2>2. Slides!Cycle(k) \in Turning
    BY <2>1, TimerSet, SameTurns DEF Turning
  <2>3. Slides!To(h, pos) = Slides!Cycle(k)
    BY <1>2 DEF Slides!To, k
  <2>4. QED
    BY <2>2, <2>3
<1>3. CASE ~h.sliding /\ Slides!ActiveIndex(h) # pos
  <2>1. Slides!To(h, pos) = Slides!Slide(h, pos, FALSE)
    BY <1>3 DEF Slides!To
  <2>2. QED
    BY <1>3, <2>1, SlidesTurn
<1>4. QED
  BY <1>1, <1>2, <1>3

(* The calls of to that waited, one after the other.                          *)
LEMMA WaitingTurn ==
  ASSUME NEW h \in Turning, NEW w \in Seq(Slots)
  PROVE  Slides!FoldLeft(Slides!To, h, w) \in Turning
<1> DEFINE n == Len(w)
           op == [x \in Turning \X Slots |-> Slides!To(x[1], x[2])]
           each(f) == f = [s \in SUBSET (DOMAIN w) |->
                             IF s = {} THEN h ELSE Slides!To(f[s \ {MaxOf(s)}], w[MaxOf(s)])]
           it == CHOOSE f : each(f)
<1>1. n \in Nat /\ DOMAIN w = 1 .. n /\ \A i \in 1 .. n : w[i] \in Slots
  BY LenProperties, ElementOfSeq
<1>2. Slides!FoldLeft(Slides!To, h, w) = it[DOMAIN w]
  BY DEF Slides!FoldLeft, Slides!MapThenFoldSet, MaxOf, Slides!Max
<1>3. op \in [Turning \X Slots -> Turning]
  <2>1. \A x \in Turning \X Slots : x[1] \in Turning /\ x[2] \in Slots
    OBVIOUS
  <2>2. \A x \in Turning \X Slots : Slides!To(x[1], x[2]) \in Turning
    BY <2>1, ToTurns
  <2>3. QED
    BY <2>2
<1>4. \A x \in Turning, pos \in Slots : op[<<x, pos>>] = Slides!To(x, pos)
  OBVIOUS
<1> HIDE DEF op
<1>5. PICK f \in [SUBSET (1 .. n) -> Turning] : Results(op, h, w, n, f)
  <2>1. n \in Nat /\ n <= Len(w) /\ h \in Turning /\ w \in Seq(Slots)
    BY <1>1
  <2> HIDE DEF n
  <2>2. QED
    BY <1>3, <2>1, ResultsExist
<1>6. each(f)
  <2>1. ASSUME NEW s \in SUBSET (1 .. n), s # {}
        PROVE  op[<<f[s \ {MaxOf(s)}], w[MaxOf(s)]>>] = Slides!To(f[s \ {MaxOf(s)}], w[MaxOf(s)])
    <3>1. MaxOf(s) \in 1 .. n
      BY <1>1, <2>1, MaxOfPart
    <3>2. s \ {MaxOf(s)} \in SUBSET (1 .. n)
      OBVIOUS
    <3>3. QED
      BY <1>1, <1>4, <1>5, <3>1, <3>2
  <2>2. QED
    BY <1>1, <1>5, <2>1 DEF Results
<1>7. each(it)
  BY <1>6
<1> HIDE DEF it
<1>8. it[1 .. 0] = h
  BY <1>1, <1>7
<1>9. ASSUME NEW k \in 1 .. n, it[1 .. k - 1] \in Turning
      PROVE  it[1 .. k] = op[<<it[1 .. k - 1], w[k]>>]
  <2>1. it[1 .. k] = Slides!To(it[1 .. k - 1], w[k])
    <3>1. /\ MaxOf(1 .. k) = k /\ (1 .. k) \ {k} = 1 .. k - 1
          /\ 1 .. k # {} /\ 1 .. k \in SUBSET (DOMAIN w)
      BY <1>1, MaxUpTo
    <3>2. QED
      BY <1>7, <3>1
  <2>2. QED
    BY <1>1, <1>4, <1>9, <2>1
<1>10. StepsAlong(op, h, w, it, Turning)
  BY <1>8, <1>9 DEF StepsAlong
<1>11. Arrives(op, w, it, Turning)
  BY <1>3, <1>10, Along
<1>12. QED
  BY <1>1, <1>2, <1>11 DEF Arrives

LEMMA SlidesBecome ==
  ASSUME NEW h \in Turning, Slides!Become(h)
  PROVE  Slides!Heap' \in Turning
<1>1. h = [active |-> h.active, moving |-> h.moving, sliding |-> h.sliding, paused |-> h.paused,
           interval |-> h.interval, slids |-> h.slids, waiting |-> h.waiting,
           prevented |-> h.prevented]
  BY DEF Turning, Frames
<1>2. Slides!Heap' = h
  BY <1>1 DEF Slides!Become, Slides!Heap
<1>3. QED
  BY <1>2

LEMMA TurnKept ==
  ASSUME Slides!Heap \in Turning, [Slides!Next]_(Slides!vars)
  PROVE  Slides!Heap' \in Turning
<1> DEFINE h == Slides!Heap
<1>1. /\ h \in Frames /\ h.slids = slids /\ h.waiting = waiting /\ h.moving = moving
      /\ h.prevented = prevented
  BY DEF Slides!Heap, Turning
<1>2. h \in Turning
  OBVIOUS
<1> HIDE DEF h
<1>3. CASE Slides!TransitionEnds
  <2>1. Slides!Ended(h) \in Turning
    BY <1>1, <1>2, <1>3, EndsTurn DEF Slides!TransitionEnds
  <2>2. QED
    BY <1>3, <2>1, SlidesBecome DEF Slides!TransitionEnds, h
<1>4. CASE Slides!Tick \/ Slides!GoNext \/ Slides!GoPrev
  <2>1. PICK prevent \in BOOLEAN :
          Slides!Become(Slides!SlideNext(h, prevent)) \/ Slides!Become(Slides!SlidePrev(h, prevent))
    BY <1>4 DEF Slides!Tick, Slides!GoNext, Slides!GoPrev, h
  <2>2. QED
    BY <1>2, <2>1, NextTurn, SlidesBecome
<1>5. CASE Slides!MouseEnters \/ Slides!PagePauses
  <2>1. Slides!PauseBy(h) \in Turning /\ Slides!Pause(h) \in Turning
    BY <1>2, PausesTurn
  <2>2. QED
    BY <1>5, <2>1, SlidesBecome DEF Slides!MouseEnters, Slides!PagePauses, h
<1>6. CASE Slides!MouseLeaves \/ Slides!PageCycles
  <2>1. Slides!CycleBy(h) \in Turning /\ Slides!Cycle(h) \in Turning
    BY <1>1, <1>2, TimerSet, SameTurns
  <2>2. QED
    BY <1>6, <2>1, SlidesBecome DEF Slides!MouseLeaves, Slides!PageCycles, h
<1>7. CASE Slides!SlidFires
  <2> DEFINE n == h.slids - 1
             g == [h EXCEPT !.slids = n, !.waiting = <<>>]
             k == Slides!FoldLeft(Slides!To, g, waiting)
  <2>1. n \in Nat /\ <<>> \in Seq(Slots)
    BY <1>1, <1>7, EmptySeq DEF Frames, Slides!SlidFires
  <2>2. Slides!Become(k)
    BY <1>7 DEF Slides!SlidFires, h
  <2> HIDE DEF n
  <2>3. /\ g \in Frames /\ g.active = h.active /\ g.moving = h.moving /\ g.sliding = h.sliding
        /\ g.waiting = <<>> /\ g.prevented = h.prevented
    BY <1>1, <2>1 DEF Frames
  <2> HIDE DEF g
  <2>4. g \in Turning
    BY <1>2, <2>3 DEF Turning, Turns, OnItsWay
  <2>5. waiting \in Seq(Slots)
    BY <1>1 DEF Frames
  <2>6. k \in Turning
    BY <2>4, <2>5, WaitingTurn
  <2> HIDE DEF k
  <2>7. QED
    BY <2>2, <2>6, SlidesBecome
<1>8. ASSUME NEW pos \in Slots, Slides!GoTo(pos) \/ Slides!Indicator(pos)
      PROVE  Slides!Heap' \in Turning
  <2>1. Slides!To(h, pos) \in Turning
    BY <1>2, ToTurns
  <2> DEFINE p == Slides!Pause(h)
             t == Slides!To(p, pos)
  <2>2. p \in Turning
    BY <1>2, PausesTurn
  <2> HIDE DEF p
  <2>3. t \in Turning
    BY <2>2, ToTurns
  <2> HIDE DEF t
  <2>4. Slides!Cycle(t) \in Turning
    BY <2>3, TimerSet, SameTurns DEF Turning
  <2>5. Slides!Become(Slides!To(h, pos)) \/ Slides!Become(Slides!Cycle(t))
    BY <1>8 DEF Slides!GoTo, Slides!Indicator, h, t, p
  <2>6. QED
    BY <2>1, <2>4, <2>5, SlidesBecome
<1>9. CASE UNCHANGED Slides!vars
  <2>1. Slides!Heap' = Slides!Heap
    BY <1>9 DEF Slides!vars, Slides!Heap
  <2>2. QED
    BY <2>1
<1>10. QED
  BY <1>3, <1>4, <1>5, <1>6, <1>7, <1>8, <1>9 DEF Slides!Next, Slots

(* CarouselGoesOn: unless a listener prevented a slide, one picture is active and a slide      *)
(* leads away from it, the carousel believes itself sliding just while it is, and no call   *)
(* of to waits for an event that will not come; for any number of pictures, of calls that   *)
(* wait and of transitions cut short, calls made in the handlers of slid included.         *)
THEOREM CarouselNeverSticks == Slides!Spec => []Slides!CarouselGoesOn
<1>1. Slides!Init => SlideInv
  <2> SUFFICES ASSUME Slides!Init PROVE Slides!Heap \in Turning
    BY DEF SlideInv
  <2> DEFINE h == Slides!Heap
  <2>1. h = [active |-> {1}, moving |-> Slides!Still, sliding |-> FALSE, paused |-> FALSE,
             interval |-> interval, slids |-> 0, waiting |-> <<>>, prevented |-> FALSE]
    BY DEF Slides!Init, Slides!Heap
  <2>2. interval \in BOOLEAN /\ <<>> \in Seq(Slots) /\ 1 \in Slots
    BY EmptySeq, PicturesAssumed DEF Slides!Init, Slots
  <2>3. Slides!Still \in [from : Nat, to : Nat]
    BY DEF Slides!Still, Slides!Move
  <2>4. h \in Frames
    BY <2>1, <2>2, <2>3 DEF Frames
  <2>5. h.active = {1} /\ h.moving = Slides!Still /\ ~h.sliding /\ h.waiting = <<>>
    BY <2>1
  <2> HIDE DEF h
  <2>6. QED
    BY <2>2, <2>4, <2>5 DEF Turning, Turns, h
<1>2. SlideInv => Slides!CarouselGoesOn
  <2> SUFFICES ASSUME Slides!Heap \in Turning, ~prevented PROVE Slides!CarouselGoesOn
    BY DEF SlideInv, Slides!CarouselGoesOn
  <2> DEFINE h == Slides!Heap
  <2>1. /\ h.active = active /\ h.moving = moving /\ h.slids = slids /\ h.waiting = waiting
        /\ h.sliding = sliding /\ h.prevented = prevented
    BY DEF Slides!Heap
  <2>2. Turns(h)
    BY DEF Turning
  <2> HIDE DEF h
  <2>3. PICK a \in Slots : active = {a}
    BY <2>1, <2>2 DEF Turns
  <2>4. Slides!Cardinality(active) = 1
    <3>1. Slides!Cardinality(active) = Cardinality(active)
      BY DEF Slides!Cardinality, Cardinality
    <3>2. QED
      BY <2>3, <3>1, FS_Singleton
  <2>5. moving # Slides!Still => moving.from \in active
    BY <2>1, <2>2 DEF Turns, OnItsWay, Slides!Move
  <2>6. moving # Slides!Still => sliding
    BY <2>1, <2>2 DEF Turns
  <2>7. sliding => moving # Slides!Still
    BY <2>1, <2>2 DEF Turns
  <2>8. waiting # <<>> => sliding \/ slids > 0
    BY <2>1, <2>2 DEF Turns
  <2>9. sliding <=> moving # Slides!Still
    BY <2>6, <2>7
  <2>10. QED
    BY <2>4, <2>5, <2>8, <2>9 DEF Slides!CarouselGoesOn
<1>3. SlideInv /\ [Slides!Next]_(Slides!vars) => SlideInv'
  BY TurnKept DEF SlideInv
<1>4. QED
  BY <1>1, <1>2, <1>3, PTL DEF Slides!Spec

-----------------------------------------------------------------------------
(* Tabs.  There are finitely many.                                           *)

(* What follows the panes that fade ends with the pane of the tab, and is that  *)
(* alone if nothing was clicked in haste; while nothing fades its pane is there. *)
TabInv ==
  /\ tab \in Labels /\ activePanes \in SUBSET Labels /\ activePanes # {} /\ in \in SUBSET Labels
  /\ panesWaiting \in Seq(Labels)
  /\ panesWaiting # <<>> =>
       panesFade /\ panesWaiting[Len(panesWaiting)] = tab /\ (~panesHurried => Len(panesWaiting) = 1)
  /\ panesWaiting = <<>> =>
       /\ tab \in activePanes /\ (panesFade => activePanes \subseteq in)
       /\ ~panesHurried => activePanes = {tab}

(* The panes while those that wait follow: one of those active before may be so  *)
(* still, and what is active besides has faded in.                            *)
Following ==
  {p \in [active : SUBSET Labels, in : SUBSET Labels] :
     /\ p.active \ activePanes \subseteq p.in
     /\ Len(panesWaiting) = 1 => p.active \ activePanes \subseteq {tab}}
Followers == Elements(panesWaiting)
Ended(p, pane) == Pane!NextPane(p, activePanes, pane)
Whole(p) == Pane!FoldLeft(Ended, p, panesWaiting)
OneEnds(p, ended) == Whole(p)

LEMMA PaneFollows ==
  ASSUME panesFade, panesWaiting \in Seq(Labels), panesWaiting[Len(panesWaiting)] = tab,
         NEW p \in Following,
         NEW x \in Followers
  PROVE  Ended(p, x) \in Following
<1> DEFINE a == (p.active \ activePanes) \cup {x}
           i == p.in \cup {x}
           q == Ended(p, x)
<1>1. q = [active |-> a, in |-> i]
  BY DEF Ended, Pane!NextPane
<1>2. PICK k \in 1 .. Len(panesWaiting) : panesWaiting[k] = x
  BY LenProperties DEF Followers, Elements
<1>3. x \in Labels /\ (Len(panesWaiting) = 1 => x = tab)
  <2>1. x \in Labels
    BY <1>2, ElementOfSeq
  <2>2. QED
    BY <1>2, <2>1
<1>4. /\ a \in SUBSET Labels /\ i \in SUBSET Labels /\ a \ activePanes \subseteq i
      /\ Len(panesWaiting) = 1 => a \ activePanes \subseteq {tab}
  BY <1>3 DEF Following
<1> HIDE DEF q, a, i
<1>5. q.active = a /\ q.in = i /\ q \in [active : SUBSET Labels, in : SUBSET Labels]
  BY <1>1, <1>4
<1>6. q \in Following
  BY <1>4, <1>5 DEF Following
<1>7. QED
  BY <1>6 DEF q

(* When all have followed the pane of the tab is there and seen.             *)
Shows(p) ==
  /\ tab \in p.active /\ p.active \subseteq p.in
  /\ Len(panesWaiting) = 1 => p.active = {tab}
LEMMA AllFollow ==
  ASSUME panesFade, panesWaiting \in Seq(Labels), panesWaiting # <<>>,
         panesWaiting[Len(panesWaiting)] = tab,
         NEW p \in Following
  PROVE  Whole(p) \in Following /\ Shows(Whole(p))
<1> DEFINE n == Len(panesWaiting)
           op == [x \in Following \X Followers |-> Ended(x[1], x[2])]
           each(f) == f = [s \in SUBSET (DOMAIN panesWaiting) |->
                             IF s = {} THEN p ELSE Ended(f[s \ {MaxOf(s)}], panesWaiting[MaxOf(s)])]
           it == CHOOSE f : each(f)
<1>1. n \in Nat /\ DOMAIN panesWaiting = 1 .. n /\ \A i \in 1 .. n : panesWaiting[i] \in Followers
  BY LenProperties DEF Followers, Elements
<1>2. n > 0
  BY <1>1, EmptySeq
<1>3. panesWaiting \in Seq(Followers)
  <2>1. PICK m \in Nat : panesWaiting \in [1 .. m -> Labels]
    BY SeqDef
  <2>2. panesWaiting \in [1 .. n -> Followers]
    BY <1>1, <2>1
  <2>3. QED
    BY <1>1, <2>2, SeqDef
<1>4. Whole(p) = it[DOMAIN panesWaiting]
  BY DEF Whole, Pane!FoldLeft, Pane!MapThenFoldSet, MaxOf, Pane!Max
<1>5. op \in [Following \X Followers -> Following]
  <2>1. \A x \in Following \X Followers : x[1] \in Following /\ x[2] \in Followers
    OBVIOUS
  <2>2. \A x \in Following \X Followers : Ended(x[1], x[2]) \in Following
    BY <2>1, PaneFollows
  <2>3. QED
    BY <2>2
<1>6. \A q \in Following, x \in Followers : op[<<q, x>>] = Ended(q, x)
  OBVIOUS
<1> HIDE DEF op
<1>7. PICK f \in [SUBSET (1 .. n) -> Following] : Results(op, p, panesWaiting, n, f)
  <2>1. n \in Nat /\ n <= Len(panesWaiting)
    BY <1>1
  <2> HIDE DEF n
  <2>2. QED
    BY <1>3, <1>5, <2>1, ResultsExist
<1>8. each(f)
  <2>1. ASSUME NEW s \in SUBSET (1 .. n), s # {}
        PROVE  op[<<f[s \ {MaxOf(s)}], panesWaiting[MaxOf(s)]>>] = Ended(f[s \ {MaxOf(s)}], panesWaiting[MaxOf(s)])
    <3>1. MaxOf(s) \in 1 .. n
      BY <1>1, <2>1, MaxOfPart
    <3>2. s \ {MaxOf(s)} \in SUBSET (1 .. n)
      OBVIOUS
    <3>3. QED
      BY <1>1, <1>6, <1>7, <3>1, <3>2
  <2>2. QED
    BY <1>1, <1>7, <2>1 DEF Results
<1>9. each(it)
  BY <1>8
<1> HIDE DEF it
<1>10. it[1 .. 0] = p
  BY <1>1, <1>9
<1>11. ASSUME NEW k \in 1 .. n, it[1 .. k - 1] \in Following
       PROVE  it[1 .. k] = op[<<it[1 .. k - 1], panesWaiting[k]>>]
  <2>1. it[1 .. k] = Ended(it[1 .. k - 1], panesWaiting[k])
    <3>1. /\ MaxOf(1 .. k) = k /\ (1 .. k) \ {k} = 1 .. k - 1
          /\ 1 .. k # {} /\ 1 .. k \in SUBSET (DOMAIN panesWaiting)
      BY <1>1, MaxUpTo
    <3>2. QED
      BY <1>9, <3>1
  <2>2. QED
    BY <1>1, <1>6, <1>11, <2>1
<1>12. /\ it[1 .. n] \in Following
       /\ \E q \in Following : it[1 .. n] = op[<<q, panesWaiting[n]>>]
  <2>1. StepsAlong(op, p, panesWaiting, it, Following)
    BY <1>10, <1>11 DEF StepsAlong
  <2>2. Arrives(op, panesWaiting, it, Following)
    BY <1>3, <1>5, <2>1, Along
  <2>3. QED
    BY <1>2, <2>2 DEF Arrives
<1>13. PICK q \in Following : it[1 .. n] = Ended(q, tab)
  BY <1>1, <1>2, <1>6, <1>12
<1>14. Ended(q, tab) = [active |-> (q.active \ activePanes) \cup {tab}, in |-> q.in \cup {tab}]
  BY DEF Ended, Pane!NextPane
<1>15. Shows(Ended(q, tab))
  BY <1>14 DEF Shows, Following
<1>16. QED
  BY <1>1, <1>4, <1>12, <1>13, <1>15

(* So it is when the ends of all that were active have come, in any order.     *)
LEMMA AllEnd ==
  ASSUME panesFade, panesWaiting \in Seq(Labels), panesWaiting # <<>>,
         panesWaiting[Len(panesWaiting)] = tab,
         NEW p \in Following, NEW e \in Seq(activePanes), Len(e) > 0
  PROVE  Shows(Pane!FoldLeft(OneEnds, p, e)) /\ Pane!FoldLeft(OneEnds, p, e) \in Following
<1> DEFINE n == Len(e)
           op == [x \in Following \X activePanes |-> OneEnds(x[1], x[2])]
           each(f) == f = [s \in SUBSET (DOMAIN e) |->
                             IF s = {} THEN p ELSE OneEnds(f[s \ {MaxOf(s)}], e[MaxOf(s)])]
           it == CHOOSE f : each(f)
<1>1. n \in Nat /\ DOMAIN e = 1 .. n /\ \A i \in 1 .. n : e[i] \in activePanes
  BY LenProperties, ElementOfSeq
<1>2. \A q \in Following, x \in activePanes : OneEnds(q, x) \in Following /\ Shows(OneEnds(q, x))
  BY AllFollow DEF OneEnds
<1>4. Pane!FoldLeft(OneEnds, p, e) = it[DOMAIN e]
  BY DEF Pane!FoldLeft, Pane!MapThenFoldSet, MaxOf, Pane!Max
<1>5. op \in [Following \X activePanes -> Following]
  <2>1. \A x \in Following \X activePanes : x[1] \in Following /\ x[2] \in activePanes
    OBVIOUS
  <2>2. \A x \in Following \X activePanes : OneEnds(x[1], x[2]) \in Following
    BY <1>2, <2>1
  <2>3. QED
    BY <2>2
<1>6. \A q \in Following, x \in activePanes : op[<<q, x>>] = OneEnds(q, x)
  OBVIOUS
<1> HIDE DEF op
<1>7. PICK f \in [SUBSET (1 .. n) -> Following] : Results(op, p, e, n, f)
  <2>1. n \in Nat /\ n <= Len(e)
    BY <1>1
  <2> HIDE DEF n
  <2>2. QED
    BY <1>5, <2>1, ResultsExist
<1>8. each(f)
  <2>1. ASSUME NEW s \in SUBSET (1 .. n), s # {}
        PROVE  op[<<f[s \ {MaxOf(s)}], e[MaxOf(s)]>>] = OneEnds(f[s \ {MaxOf(s)}], e[MaxOf(s)])
    <3>1. MaxOf(s) \in 1 .. n
      BY <1>1, <2>1, MaxOfPart
    <3>2. s \ {MaxOf(s)} \in SUBSET (1 .. n)
      OBVIOUS
    <3>3. QED
      BY <1>1, <1>6, <1>7, <3>1, <3>2
  <2>2. QED
    BY <1>1, <1>7, <2>1 DEF Results
<1>9. each(it)
  BY <1>8
<1> HIDE DEF it
<1>10. it[1 .. 0] = p
  BY <1>1, <1>9
<1>11. ASSUME NEW k \in 1 .. n, it[1 .. k - 1] \in Following
       PROVE  it[1 .. k] = op[<<it[1 .. k - 1], e[k]>>]
  <2>1. it[1 .. k] = OneEnds(it[1 .. k - 1], e[k])
    <3>1. /\ MaxOf(1 .. k) = k /\ (1 .. k) \ {k} = 1 .. k - 1
          /\ 1 .. k # {} /\ 1 .. k \in SUBSET (DOMAIN e)
      BY <1>1, MaxUpTo
    <3>2. QED
      BY <1>9, <3>1
  <2>2. QED
    BY <1>1, <1>6, <1>11, <2>1
<1>12. PICK q \in Following : it[1 .. n] = op[<<q, e[n]>>]
  <2>1. StepsAlong(op, p, e, it, Following)
    BY <1>10, <1>11 DEF StepsAlong
  <2>2. Arrives(op, e, it, Following)
    BY <1>5, <2>1, Along
  <2>3. QED
    BY <2>2 DEF Arrives
<1>13. e[n] \in activePanes
  BY <1>1
<1>14. it[1 .. n] = OneEnds(q, e[n])
  BY <1>6, <1>12, <1>13
<1>15. QED
  BY <1>1, <1>2, <1>4, <1>13, <1>14

(* The panes that are active, in some order.                                  *)
LEMMA InSomeOrder ==
  ASSUME NEW S, IsFiniteSet(S), S # {}
  PROVE  Pane!SetToSeq(S) \in Seq(S) /\ Len(Pane!SetToSeq(S)) > 0
<1> DEFINE n == Cardinality(S)
           e == Pane!SetToSeq(S)
<1>1. n \in Nat /\ n # 0 /\ ExistsBijection(1 .. n, S)
  BY FS_CardinalityType, FS_EmptySet
<1>2. PICK f : f \in Bijection(1 .. n, S)
  BY <1>1 DEF ExistsBijection
<1>3. f \in [1 .. n -> S] /\ Pane!IsInjective(f)
  BY <1>2 DEF Bijection, Injection, IsInjective, Pane!IsInjective
<1>4. Pane!Cardinality(S) = n
  BY DEF Pane!Cardinality, Cardinality
<1>5. e \in [1 .. n -> S]
  BY <1>3, <1>4 DEF Pane!SetToSeq
<1>6. e \in Seq(S) /\ Len(e) = n
  BY <1>1, <1>5, SeqDef, LenProperties
<1>7. QED
  BY <1>1, <1>6

LEMMA TabKept ==
  ASSUME TabInv, [Pane!Next]_(Pane!vars)
  PROVE  TabInv'
<1>1. CASE Pane!FadedOut
  <2>1. /\ panesWaiting # <<>> /\ panesWaiting' = <<>> /\ UNCHANGED <<panesFade, tab, panesHurried>>
    BY <1>1 DEF Pane!FadedOut
  <2>2. /\ panesFade /\ panesWaiting \in Seq(Labels) /\ panesWaiting[Len(panesWaiting)] = tab
        /\ (~panesHurried => Len(panesWaiting) = 1) /\ tab \in Labels
    BY <2>1 DEF TabInv
  <2> DEFINE e == Pane!SetToSeq(activePanes)
             p == Pane!Panes
             q == Pane!FoldLeft(OneEnds, p, e)
  <2>3. e \in Seq(activePanes) /\ Len(e) > 0
    <3>1. IsFiniteSet(activePanes) /\ activePanes # {}
      BY FS_Subset, LabelsAssumed DEF TabInv
    <3>2. QED
      BY <3>1, InSomeOrder
  <2>4. p \in Following
    BY DEF Pane!Panes, Following, TabInv
  <2>5. activePanes' = q.active /\ in' = q.in
    BY <1>1 DEF Pane!FadedOut, OneEnds, Whole, Ended
  <2> HIDE DEF e, p, q
  <2>6. Shows(q) /\ q \in Following
    BY <2>1, <2>2, <2>3, <2>4, AllEnd DEF q
  <2>7. /\ tab \in activePanes' /\ activePanes' \subseteq in' /\ (Len(panesWaiting) = 1 => activePanes' = {tab})
        /\ activePanes' \in SUBSET Labels /\ in' \in SUBSET Labels
    BY <2>5, <2>6 DEF Shows, Following
  <2>8. panesWaiting' \in Seq(Labels)
    BY <2>1, EmptySeq
  <2>9. QED
    BY <2>1, <2>2, <2>7, <2>8 DEF TabInv
<1>2. ASSUME NEW t \in Labels, Pane!Show(t) PROVE TabInv'
  <2>1. tab' = t /\ panesFade' = panesFade /\ panesHurried' = (panesWaiting # <<>>)
    BY <1>2 DEF Pane!Show
  <2>2. CASE panesFade
    <3>1. panesWaiting' = Append(panesWaiting, t) /\ in' = in \ activePanes /\ activePanes' = activePanes
      BY <1>2, <2>2 DEF Pane!Show
    <3>2. /\ panesWaiting' \in Seq(Labels) /\ Len(panesWaiting') = Len(panesWaiting) + 1 /\ Len(panesWaiting) \in Nat
          /\ panesWaiting'[Len(panesWaiting) + 1] = t
      BY <3>1, AppendProperties, LenProperties DEF TabInv
    <3>3. panesWaiting' # <<>> /\ panesWaiting'[Len(panesWaiting')] = tab'
      BY <2>1, <3>2, EmptySeq
    <3>4. ~panesHurried' => Len(panesWaiting') = 1
      <4>1. ~panesHurried' => panesWaiting = <<>>
        BY <2>1, Zenon
      <4>2. Len(<<>>) = 0
        BY EmptySeq
      <4>3. QED
        BY <3>2, <4>1, <4>2
    <3>5. QED
      BY <2>1, <2>2, <3>1, <3>2, <3>3, <3>4 DEF TabInv
  <2>3. CASE ~panesFade
    <3>1. panesWaiting' = panesWaiting /\ activePanes' = (activePanes \ activePanes) \cup {t} /\ in' \subseteq in
      BY <1>2, <2>3 DEF Pane!Show, Pane!NextPane, Pane!Panes
    <3>2. panesWaiting = <<>> /\ activePanes' = {t}
      BY <2>3, <3>1 DEF TabInv
    <3>3. QED
      BY <2>1, <2>3, <3>1, <3>2 DEF TabInv
  <2>4. QED
    BY <2>2, <2>3
<1>3. CASE UNCHANGED Pane!vars
  BY <1>3 DEF Pane!vars, TabInv
<1>4. QED
  BY <1>1, <1>2, <1>3 DEF Pane!Next

(* PaneOfTab: when nothing fades the pane of the tab that is marked is shown and visible,     *)
(* whatever was clicked while others faded, and no other if nothing was clicked meanwhile;   *)
(* for any number of tabs and of clicks during a fade.                                    *)
THEOREM PaneOfLastTab == Pane!Spec => []Pane!PaneOfTab
<1>1. Pane!Init => TabInv
  BY EmptySeq DEF Pane!Init, TabInv
<1>2. TabInv => Pane!PaneOfTab
  BY DEF TabInv, Pane!PaneOfTab
<1>3. TabInv /\ [Pane!Next]_(Pane!vars) => TabInv'
  BY TabKept
<1>4. QED
  BY <1>1, <1>2, <1>3, PTL DEF Pane!Spec

-----------------------------------------------------------------------------
(* Modal.  A dialog that fades or does not, shown and hidden any number of times. *)

Called == {<<>>, <<"show">>, <<"remove">>}
Backs == [here : BOOLEAN, moving : BOOLEAN, ends : Called]
Waits == [what : {"shown", "hide"}, timer : Nat]
Faces == [displayed : BOOLEAN, in : BOOLEAN, moving : BOOLEAN, ends : Seq(Waits)]
Dialogs == [isShown : BOOLEAN, element : Faces, timers : SUBSET Nat, backdrop : Nat,
          backdrops : Seq(Backs)]

(* Of the backdrops there have been one at most is there and may move.          *)
Others(B, b) == \A c \in 1 .. Len(B) : c # b => ~B[c].here /\ ~B[c].moving
Stays(B, b) == b \in 1 .. Len(B) /\ Others(B, b) /\ B[b].here /\ ~B[b].moving /\ B[b].ends = <<>>
Fades(B, b, w) == b \in 1 .. Len(B) /\ Others(B, b) /\ B[b].here /\ B[b].moving /\ B[b].ends = w

(* The stages of a dialog that is not shown again while it is being hidden: it is away;  *)
(* its backdrop comes; it is there; it is hidden before it was displayed, or after; and  *)
(* its backdrop goes.                                                        *)
Timed == Dialog!Wait("hide", shows)
Told == Dialog!Wait("shown", 0)
Unseen(h) == ~h.element.displayed /\ ~h.element.moving
Away(h) ==
  /\ ~h.isShown /\ Unseen(h) /\ h.element.ends = <<>> /\ h.timers = {}
  /\ h.backdrop = 0 /\ Others(h.backdrops, 0)
Coming(h) ==
  /\ h.isShown /\ Unseen(h) /\ h.element.ends = <<>> /\ h.timers = {}
  /\ Fades(h.backdrops, h.backdrop, <<"show">>)
There(h) ==
  /\ h.isShown /\ h.element.displayed /\ h.timers = {}
  /\ h.element.ends = <<>> \/ (fade /\ h.element.ends = <<Told>>)
  /\ Stays(h.backdrops, h.backdrop)
Turned(h) ==
  /\ ~h.isShown /\ Unseen(h) /\ h.element.ends = <<Timed>> /\ h.timers = {shows}
  /\ Fades(h.backdrops, h.backdrop, <<"show">>)
Leaving(h) ==
  /\ ~h.isShown /\ h.element.displayed /\ h.timers = {shows}
  /\ h.element.ends \in {<<Timed>>, <<Told, Timed>>, <<Timed, Told>>}
  /\ Stays(h.backdrops, h.backdrop)
Going(h) ==
  /\ ~h.isShown /\ Unseen(h) /\ h.element.ends = <<>> /\ h.timers = {}
  /\ Fades(h.backdrops, h.backdrop, <<"remove">>)

Staged(h) ==
  /\ h \in Dialogs
  /\ Away(h) \/ There(h) \/ (fade /\ (Coming(h) \/ Turned(h) \/ Leaving(h) \/ Going(h)))
ModalInv ==
  fade \in BOOLEAN /\ hurried \in BOOLEAN /\ shows \in Nat /\ (~hurried => Staged(Dialog!Heap))

LEMMA BackBecomes ==
  ASSUME NEW B \in Seq(Backs), NEW b \in 1 .. Len(B), NEW r \in Backs, Others(B, b)
  PROVE  LET C == [B EXCEPT ![b] = r]
         IN  /\ C \in Seq(Backs) /\ Len(C) = Len(B) /\ C[b] = r /\ b \in 1 .. Len(C)
             /\ Others(C, b) /\ (~r.here /\ ~r.moving => Others(C, 0))
<1> DEFINE C == [B EXCEPT ![b] = r]
<1>1. C \in Seq(Backs) /\ Len(C) = Len(B) /\ C[b] = r /\ \A c \in 1 .. Len(B) : c # b => C[c] = B[c]
  BY ExceptSeq, LenProperties
<1> HIDE DEF C
<1>2. Others(C, b) /\ (~r.here /\ ~r.moving => Others(C, 0))
  BY <1>1 DEF Others
<1>3. QED
  BY <1>1, <1>2 DEF C

LEMMA OneMore ==
  ASSUME NEW B \in Seq(Backs), Others(B, 0), NEW r \in Backs
  PROVE  LET C == Append(B, r)
         IN  /\ C \in Seq(Backs) /\ Len(C) = Len(B) + 1 /\ C[Len(B) + 1] = r /\ Len(B) \in Nat
             /\ Others(C, Len(B) + 1)
<1> DEFINE C == Append(B, r)
<1>1. /\ C \in Seq(Backs) /\ Len(C) = Len(B) + 1 /\ C[Len(B) + 1] = r /\ Len(B) \in Nat
      /\ \A i \in 1 .. Len(B) : C[i] = B[i]
  BY AppendProperties, LenProperties
<1> HIDE DEF C
<1>2. \A c \in 1 .. Len(C) : c # Len(B) + 1 => c \in 1 .. Len(B) /\ c # 0
  BY <1>1
<1>3. Others(C, Len(B) + 1)
  BY <1>1, <1>2 DEF Others
<1>4. QED
  BY <1>1, <1>3 DEF C

(* When what is hidden no longer fades its backdrop goes, at once or fading.       *)
LEMMA ThenItGoes ==
  ASSUME fade \in BOOLEAN, NEW h \in Dialogs, ~h.isShown, h.element.ends = <<>>, h.timers = {},
         Stays(h.backdrops, h.backdrop)
  PROVE  Staged(Dialog!HideModal(h))
<1> DEFINE g == [h EXCEPT !.element.displayed = FALSE, !.element.moving = FALSE]
           B == h.backdrops
           b == h.backdrop
<1>1. Dialog!HideModal(h) = Dialog!Backdrop(g, "remove")
  BY DEF Dialog!HideModal
<1>2. /\ g \in Dialogs /\ ~g.isShown /\ Unseen(g) /\ g.element.ends = <<>> /\ g.timers = {}
      /\ g.backdrops = B /\ g.backdrop = b
  BY DEF Dialogs, Faces, Unseen
<1>3. B \in Seq(Backs) /\ b \in 1 .. Len(B) /\ Others(B, b) /\ b # 0 /\ B[b].here
      /\ B[b] \in Backs /\ B[b].ends = <<>> /\ DOMAIN B = 1 .. Len(B)
  BY LenProperties, ElementOfSeq DEF Stays, Dialogs
<1> HIDE DEF g, B, b
<1>4. CASE fade
  <2> DEFINE r == [B[b] EXCEPT !.moving = TRUE]
             q == [r EXCEPT !.ends = <<"remove">>]
             C == [B EXCEPT ![b] = r]
             D == [C EXCEPT ![b] = q]
             n == [g EXCEPT !.backdrops = D]
  <2>1. r \in Backs /\ q \in Backs /\ q.here /\ q.moving /\ q.ends = <<"remove">>
    BY <1>3 DEF Backs, Called
  <2> HIDE DEF q, r
  <2>a. B \in Seq(Backs) /\ b \in 1 .. Len(B) /\ Others(B, b) /\ r \in Backs
    BY <1>3, <2>1
  <2>2. C \in Seq(Backs) /\ Len(C) = Len(B) /\ C[b] = r /\ b \in 1 .. Len(C) /\ Others(C, b)
    BY <2>a, BackBecomes
  <2> HIDE DEF C
  <2>3. D \in Seq(Backs) /\ D[b] = q /\ b \in 1 .. Len(D) /\ Others(D, b)
    BY <2>1, <2>2, BackBecomes
  <2>4. Dialog!Backdrop(g, "remove") = n
    <3>1. [g EXCEPT !.backdrops[g.backdrop].moving = TRUE,
                    !.backdrops[g.backdrop].ends = Append(@, "remove")]
            = [g EXCEPT !.backdrops = C, !.backdrops[b].ends = <<"remove">>]
      <4>1. Append(<<>>, "remove") = <<"remove">>
        OBVIOUS
      <4>2. [g EXCEPT !.backdrops[g.backdrop].moving = TRUE] = [g EXCEPT !.backdrops = C]
        BY <1>2 DEF C, r
      <4>3. Append(g.backdrops[g.backdrop].ends, "remove") = <<"remove">>
        BY <1>2, <1>3, <4>1
      <4>4. QED
        BY <1>2, <4>2, <4>3
    <3>2. [g EXCEPT !.backdrops = C, !.backdrops[b].ends = <<"remove">>]
            = [g EXCEPT !.backdrops = C, !.backdrops = D]
      <4>1. [g EXCEPT !.backdrops = C].backdrops = C
        BY <1>2 DEF Dialogs
      <4>2. QED
        BY <2>2, <4>1 DEF q
    <3>3. Dialog!Backdrop(g, "remove")
            = [g EXCEPT !.backdrops[g.backdrop].moving = TRUE,
                        !.backdrops[g.backdrop].ends = Append(@, "remove")]
      BY <1>2, <1>3, <1>4 DEF Dialog!Backdrop
    <3>4. QED
      BY <3>1, <3>2, <3>3
  <2> HIDE DEF D
  <2>5. n \in Dialogs /\ ~n.isShown /\ Unseen(n) /\ n.element.ends = <<>> /\ n.timers = {}
        /\ n.backdrop = b /\ n.backdrops = D
    BY <1>2, <2>3 DEF Dialogs, Unseen
  <2> HIDE DEF n
  <2>6. Going(n)
    BY <2>1, <2>3, <2>5 DEF Going, Fades
  <2>7. QED
    BY <1>1, <1>4, <2>4, <2>5, <2>6 DEF Staged
<1>5. CASE ~fade
  <2> DEFINE r == [here |-> FALSE, moving |-> FALSE, ends |-> <<>>]
             C == [B EXCEPT ![b] = r]
             n == [g EXCEPT !.backdrops[g.backdrop] = r, !.backdrop = 0]
  <2>1. r \in Backs /\ ~r.here /\ ~r.moving
    BY DEF Backs, Called
  <2>2. Dialog!Backdrop(g, "remove") = n
    BY <1>2, <1>3, <1>5 DEF Dialog!Backdrop, Dialog!Called, Dialog!RemoveBackdrop
  <2> HIDE DEF r
  <2>3. C \in Seq(Backs) /\ Others(C, 0)
    BY <1>3, <2>1, BackBecomes
  <2>4. n \in Dialogs /\ ~n.isShown /\ Unseen(n) /\ n.element.ends = <<>> /\ n.timers = {}
        /\ n.backdrop = 0 /\ n.backdrops = C
    BY <1>2, <2>3 DEF Dialogs, Unseen
  <2> HIDE DEF n, C
  <2>5. Away(n)
    BY <2>3, <2>4 DEF Away
  <2>6. QED
    BY <1>1, <2>2, <2>4, <2>5 DEF Staged
<1>6. QED
  BY <1>4, <1>5

(* The dialog is displayed, and a backdrop that has faded in does that.            *)
LEMMA ThenItComes ==
  ASSUME fade \in BOOLEAN, NEW h \in Dialogs
  PROVE  LET g == Dialog!Displayed(h)
         IN  /\ g \in Dialogs /\ g.isShown = h.isShown /\ g.timers = h.timers /\ g.element.displayed
             /\ g.backdrop = h.backdrop /\ g.backdrops = h.backdrops
             /\ g.element.ends = IF fade THEN Append(h.element.ends, Told) ELSE h.element.ends
<1> DEFINE e == [displayed |-> TRUE, in |-> TRUE, moving |-> fade /\ (~h.element.in \/ h.element.moving),
                 ends |-> IF fade THEN Append(h.element.ends, Told) ELSE h.element.ends]
<1>1. Told \in Waits
  BY DEF Told, Waits, Dialog!Wait
<1>2. h.element.ends \in Seq(Waits)
  BY DEF Dialogs, Faces
<1>3. Append(h.element.ends, Told) \in Seq(Waits)
  BY <1>1, <1>2, AppendProperties
<1>4. e \in Faces /\ e.displayed /\ e.ends = IF fade THEN Append(h.element.ends, Told) ELSE h.element.ends
  BY <1>2, <1>3 DEF Faces
<1>5. Dialog!Displayed(h) = [h EXCEPT !.element = e]
  BY DEF Dialog!Displayed, Told
<1> HIDE DEF e
<1>6. QED
  BY <1>4, <1>5 DEF Dialogs

(* What is told when a transition of the dialog ends.                               *)
Hidden(h) == Dialog!HideModal([h EXCEPT !.timers = @ \ {shows}])
LEMMA EndTells ==
  ASSUME NEW h, NEW e \in {<<>>, <<Told>>, <<Timed>>, <<Told, Timed>>, <<Timed, Told>>}
  PROVE  Dialog!FoldLeft(Dialog!EndOf, h, e) = IF e \in {<<>>, <<Told>>} THEN h ELSE Hidden(h)
<1> DEFINE n == Len(e)
           k == IF e \in {<<>>, <<Told>>} THEN 0 ELSE IF e = <<Told, Timed>> THEN 2 ELSE 1
           each(f) == f = [s \in SUBSET (DOMAIN e) |->
                             IF s = {} THEN h ELSE Dialog!EndOf(f[s \ {MaxOf(s)}], e[MaxOf(s)])]
           it == CHOOSE f : each(f)
           has == [s \in SUBSET (DOMAIN e) |-> IF k \in s THEN Hidden(h) ELSE h]
<1>1. Told.what = "shown" /\ Timed.what = "hide" /\ Timed.timer = shows /\ Told # Timed
  BY DEF Told, Timed, Dialog!Wait
<1>2. /\ n \in 0 .. 2 /\ DOMAIN e = 1 .. n /\ k \in 0 .. n
      /\ \A i \in 1 .. n : IF i = k THEN e[i] = Timed ELSE e[i] = Told
      /\ k = 0 <=> e \in {<<>>, <<Told>>}
  BY <1>1
<1>3. Dialog!FoldLeft(Dialog!EndOf, h, e) = it[DOMAIN e]
  BY DEF Dialog!FoldLeft, Dialog!MapThenFoldSet, MaxOf, Dialog!Max
<1> HIDE DEF n, k
<1>4. n \in Nat
  BY <1>2
<1>5. ASSUME NEW x, NEW i \in 1 .. n PROVE Dialog!EndOf(x, e[i]) = IF i = k THEN Hidden(x) ELSE x
  <2>1. CASE i = k
    BY <1>1, <1>2, <2>1 DEF Dialog!EndOf, Hidden
  <2>2. CASE i # k
    BY <1>1, <1>2, <2>2 DEF Dialog!EndOf
  <2>3. QED
    BY <2>1, <2>2
<1>6. each(has)
  <2>1. ASSUME NEW s \in SUBSET (1 .. n), s # {}
        PROVE  Dialog!EndOf(has[s \ {MaxOf(s)}], e[MaxOf(s)]) = IF k \in s THEN Hidden(h) ELSE h
    <3> DEFINE m == MaxOf(s)
    <3>1. m \in s /\ m \in 1 .. n /\ s \ {m} \in SUBSET (DOMAIN e)
      <4>1. MaxOf(s) \in s
        BY <1>4, <2>1, MaxOfPart
      <4>2. QED
        BY <1>2, <4>1
    <3> HIDE DEF m
    <3>2. has[s \ {m}] = IF k \in s \ {m} THEN Hidden(h) ELSE h
      BY <3>1
    <3> HIDE DEF has
    <3>3. Dialog!EndOf(has[s \ {m}], e[m]) = IF m = k THEN Hidden(has[s \ {m}]) ELSE has[s \ {m}]
      BY <1>5, <3>1
    <3>4. QED
      BY <3>1, <3>2, <3>3 DEF m
  <2>2. QED
    BY <1>2, <2>1, ZenonT(60)
<1>7. each(it)
  BY <1>6
<1> HIDE DEF it, has
<1>8. it[1 .. 0] = h
  BY <1>2, <1>7
<1>9. ASSUME NEW i \in 1 .. n PROVE it[1 .. i] = IF i = k THEN Hidden(it[1 .. i - 1]) ELSE it[1 .. i - 1]
  <2>1. /\ MaxOf(1 .. i) = i /\ (1 .. i) \ {i} = 1 .. i - 1
        /\ 1 .. i # {} /\ 1 .. i \in SUBSET (DOMAIN e)
    BY <1>2, MaxUpTo
  <2>2. it[1 .. i] = Dialog!EndOf(it[1 .. i - 1], e[i])
    BY <1>7, <2>1
  <2>3. QED
    BY <1>5, <2>2
<1>10. it[1 .. n] = IF k = 0 THEN h ELSE Hidden(h)
  <2>1. CASE n = 0
    BY <1>2, <1>8, <2>1
  <2>2. CASE n = 1
    BY <1>2, <1>8, <1>9, <2>2
  <2>3. CASE n = 2
    <3>1. it[1 .. 1] = IF 1 = k THEN Hidden(it[1 .. 0]) ELSE it[1 .. 0]
      BY <1>9, <2>3
    <3>2. it[1 .. 2] = IF 2 = k THEN Hidden(it[1 .. 1]) ELSE it[1 .. 1]
      BY <1>9, <2>3
    <3>3. QED
      BY <1>2, <1>8, <2>3, <3>1, <3>2
  <2>4. QED
    BY <1>2, <2>1, <2>2, <2>3
<1>11. QED
  BY <1>2, <1>3, <1>10

LEMMA BackTells ==
  ASSUME NEW h, NEW w
  PROVE  Dialog!FoldLeft(Dialog!Called, h, <<w>>) = Dialog!Called(h, w)
<1> DEFINE e == <<w>>
           each(f) == f = [s \in SUBSET (DOMAIN e) |->
                             IF s = {} THEN h ELSE Dialog!Called(f[s \ {MaxOf(s)}], e[MaxOf(s)])]
           it == CHOOSE f : each(f)
           has == [s \in SUBSET (DOMAIN e) |-> IF s = {} THEN h ELSE Dialog!Called(h, w)]
<1>1. DOMAIN e = 1 .. 1 /\ e[1] = w
  OBVIOUS
<1>2. Dialog!FoldLeft(Dialog!Called, h, e) = it[DOMAIN e]
  BY DEF Dialog!FoldLeft, Dialog!MapThenFoldSet, MaxOf, Dialog!Max
<1> HIDE DEF e
<1>3. 1 .. 1 = {1} /\ \A s \in SUBSET {1} : s # {} => s = {1}
  <2>1. 1 .. 1 = {1}
    OBVIOUS
  <2>2. \A s \in SUBSET {1} : s # {} => s = {1}
    BY Zenon
  <2>3. QED
    BY <2>1, <2>2
<1>4. MaxOf({1}) = 1 /\ {1} \ {1} = {} /\ {1} = 1 .. 1
  BY <1>3, MaxOfPart
<1>5. each(has)
  <2>1. has[{}] = h
    OBVIOUS
  <2> DEFINE val(s) == IF s = {} THEN h ELSE Dialog!Called(has[s \ {MaxOf(s)}], e[MaxOf(s)])
  <2>2. ASSUME NEW s \in SUBSET (1 .. 1) PROVE val(s) = IF s = {} THEN h ELSE Dialog!Called(h, w)
    BY <1>1, <1>3, <1>4, <2>1
  <2>3. QED
    BY <1>1, <2>2
<1>6. each(it)
  BY <1>5
<1> HIDE DEF it, has
<1>7. it[{}] = h
  BY <1>1, <1>6
<1>8. it[{1}] = Dialog!Called(it[{} ], e[1])
  BY <1>1, <1>4, <1>6
<1>9. QED
  BY <1>1, <1>2, <1>4, <1>7, <1>8 DEF e

LEMMA Becomes ==
  ASSUME NEW g, Staged(g), Dialog!Become(g), UNCHANGED shows
  PROVE  Staged(Dialog!Heap)'
<1> DEFINE h == Dialog!Heap'
<1>1. /\ h.isShown = g.isShown /\ h.element = g.element /\ h.timers = g.timers
      /\ h.backdrop = g.backdrop /\ h.backdrops = g.backdrops /\ g \in Dialogs /\ fade' = fade
      /\ h = [isShown |-> g.isShown, element |-> g.element, timers |-> g.timers,
              backdrop |-> g.backdrop, backdrops |-> g.backdrops]
  BY DEF Dialog!Become, Dialog!Heap, Staged
<1>2. h \in Dialogs
  BY <1>1 DEF Dialogs
<1> HIDE DEF h
<1>3. (Away(g) => Away(h)) /\ (Coming(g) => Coming(h)) /\ (Turned(g) => Turned(h))
      /\ (Leaving(g) => Leaving(h)) /\ (Going(g) => Going(h)) /\ (There(g) => There(h))
  BY <1>1 DEF Away, Coming, There, Turned, Leaving, Going, Unseen
<1>4. /\ (Turned(h) => Turned(Dialog!Heap)') /\ (Leaving(h) => Leaving(Dialog!Heap)')
      /\ (There(h) => There(Dialog!Heap)')
  BY <1>1 DEF h, There, Turned, Leaving, Timed, Told, Dialog!Wait, Unseen, Fades, Stays, Others
<1>5. /\ (Away(h) => Away(Dialog!Heap)') /\ (Coming(h) => Coming(Dialog!Heap)')
      /\ (Going(h) => Going(Dialog!Heap)')
  BY DEF h, Away, Coming, Going, Unseen, Fades, Others
<1>6. Dialog!Heap' \in Dialogs
  BY <1>2 DEF h
<1>7. QED
  BY <1>1, <1>3, <1>4, <1>5, <1>6 DEF Staged

LEMMA StageIs ==
  ASSUME fade \in BOOLEAN, ~hurried, ModalInv
  PROVE  /\ Dialog!Heap \in Dialogs /\ Staged(Dialog!Heap) /\ Others(backdrops, backdrop)
         /\ Dialog!Heap.isShown = isShown /\ Dialog!Heap.element = element /\ Dialog!Heap.timers = timers
         /\ Dialog!Heap.backdrop = backdrop /\ Dialog!Heap.backdrops = backdrops
<1>1. /\ Dialog!Heap.isShown = isShown /\ Dialog!Heap.element = element /\ Dialog!Heap.timers = timers
      /\ Dialog!Heap.backdrop = backdrop /\ Dialog!Heap.backdrops = backdrops
  BY DEF Dialog!Heap
<1>2. Staged(Dialog!Heap) /\ Dialog!Heap \in Dialogs
  BY DEF ModalInv, Staged
<1>3. Others(backdrops, backdrop)
  BY <1>1, <1>2 DEF Staged, Away, Coming, There, Turned, Leaving, Going, Stays, Fades
<1>4. QED
  BY <1>1, <1>2, <1>3

(* It is shown while it is away, or too soon.                                      *)
LEMMA ShowKept == ModalInv /\ Dialog!Show => ModalInv'
<1> SUFFICES ASSUME ModalInv, Dialog!Show PROVE ModalInv'
  OBVIOUS
<1>1. fade \in BOOLEAN /\ fade' = fade /\ shows' \in Nat /\ hurried' \in BOOLEAN
  BY DEF ModalInv, Dialog!Show, Dialog!Become
<1>2. SUFFICES ASSUME ~hurried' PROVE Staged(Dialog!Heap)'
  BY <1>1 DEF ModalInv
<1>3. ~hurried /\ timers = {} /\ backdrop = 0 /\ ~isShown
  BY <1>2 DEF Dialog!Show
<1> DEFINE h == Dialog!Heap
           g == [h EXCEPT !.isShown = TRUE]
           r == [here |-> TRUE, moving |-> fade, ends |-> IF fade THEN <<"show">> ELSE <<>>]
           C == Append(backdrops, r)
           b == Len(backdrops) + 1
           n == [g EXCEPT !.backdrops = C, !.backdrop = b]
<1>4. /\ h \in Dialogs /\ Staged(h) /\ h.isShown = isShown /\ h.element = element /\ h.timers = timers
      /\ h.backdrop = backdrop /\ h.backdrops = backdrops /\ Others(backdrops, backdrop)
  BY <1>1, <1>3, StageIs
<1> HIDE DEF h
<1>5. Away(h)
  BY <1>3, <1>4 DEF Staged, Coming, There, Turned, Leaving, Going, Stays, Fades
<1>6. g \in Dialogs /\ g.isShown /\ Unseen(g) /\ g.element.ends = <<>> /\ g.timers = {}
      /\ g.backdrop = 0 /\ g.backdrops = backdrops
  BY <1>4, <1>5 DEF Away, Dialogs, Unseen
<1> HIDE DEF g
<1>7. r \in Backs /\ r.here /\ r.moving = fade /\ r.ends = IF fade THEN <<"show">> ELSE <<>>
  BY <1>1 DEF Backs, Called
<1>8. backdrops \in Seq(Backs) /\ Others(backdrops, 0)
  BY <1>3, <1>4, <1>6 DEF Dialogs
<1>9. Dialog!Become(Dialog!Backdrop(g, "show"))
  BY DEF Dialog!Show, g, h
<1>10. Dialog!Backdrop(g, "show") = IF fade THEN n ELSE Dialog!Displayed(n)
  BY <1>6 DEF Dialog!Backdrop, Dialog!Called
<1> HIDE DEF r
<1>11. C \in Seq(Backs) /\ C[b] = r /\ b \in Nat /\ b \in 1 .. Len(C) /\ Others(C, b)
  <2>1. C \in Seq(Backs) /\ Len(C) = Len(backdrops) + 1 /\ C[b] = r /\ Len(backdrops) \in Nat /\ Others(C, b)
    BY <1>7, <1>8, OneMore
  <2>2. QED
    BY <2>1
<1> HIDE DEF C, b
<1>12. n \in Dialogs /\ n.isShown /\ Unseen(n) /\ n.element.ends = <<>> /\ n.timers = {}
       /\ n.backdrop = b /\ n.backdrops = C
  BY <1>6, <1>11 DEF Dialogs, Unseen
<1> HIDE DEF n
<1>13. CASE fade
  <2>1. Coming(n)
    BY <1>7, <1>11, <1>12, <1>13 DEF Coming, Fades
  <2>2. Dialog!Become(n)
    BY <1>9, <1>10, <1>13
  <2>3. Dialog!Heap' \in Dialogs /\ Coming(Dialog!Heap)'
    BY <1>12, <2>1, <2>2 DEF Dialog!Become, Dialog!Heap, Coming, Unseen, Fades, Others, Dialogs
  <2>4. QED
    BY <1>1, <1>13, <2>3 DEF Staged
<1>14. CASE ~fade
  <2> DEFINE d == Dialog!Displayed(n)
  <2>1. d \in Dialogs /\ d.isShown = n.isShown /\ d.timers = n.timers /\ d.element.displayed
        /\ d.backdrop = n.backdrop /\ d.backdrops = n.backdrops /\ d.element.ends = n.element.ends
    BY <1>1, <1>12, <1>14, ThenItComes
  <2>2. Dialog!Become(d)
    BY <1>9, <1>10, <1>14
  <2> HIDE DEF d
  <2>3. Stays(d.backdrops, d.backdrop)
    BY <1>7, <1>11, <1>12, <1>14, <2>1 DEF Stays
  <2>4. Dialog!Heap' \in Dialogs /\ There(Dialog!Heap)'
    BY <1>12, <2>1, <2>2, <2>3 DEF Dialog!Become, Dialog!Heap, There, Stays, Others, Dialogs
  <2>5. QED
    BY <1>1, <2>4 DEF Staged
<1>15. QED
  BY <1>1, <1>13, <1>14

LEMMA ShortLists ==
  ASSUME NEW x, NEW y
  PROVE  /\ Append(<<>>, x) = <<x>> /\ Append(<<x>>, y) = <<x, y>>
         /\ <<x>> # <<>> /\ <<x, y>> # <<>> /\ <<x, y>> # <<x>> /\ <<x, y>> # <<y>>
         /\ <<x>> = <<y>> => x = y
<1>1. Len(<<>>) = 0 /\ Len(<<x>>) = 1 /\ Len(<<y>>) = 1 /\ Len(<<x, y>>) = 2
  OBVIOUS
<1>2. <<x>>[1] = x /\ <<y>>[1] = y
  OBVIOUS
<1>3. Append(<<>>, x) = <<x>> /\ Append(<<x>>, y) = <<x, y>>
  <2>1. Append(<<>>, x) = <<x>>
    OBVIOUS
  <2>2. <<x>> \in Seq({x, y}) /\ <<x, y>> \in Seq({x, y})
    OBVIOUS
  <2>3. /\ Append(<<x>>, y) \in Seq({x, y}) /\ Len(Append(<<x>>, y)) = 2
        /\ Append(<<x>>, y)[2] = y /\ Append(<<x>>, y)[1] = x
    BY <1>1, <1>2, <2>2, AppendProperties
  <2>4. <<x, y>>[1] = x /\ <<x, y>>[2] = y
    OBVIOUS
  <2>5. \A i \in 1 .. 2 : Append(<<x>>, y)[i] = <<x, y>>[i]
    <3>1. \A i \in 1 .. 2 : i = 1 \/ i = 2
      OBVIOUS
    <3>2. QED
      BY <2>3, <2>4, <3>1
  <2>6. Append(<<x>>, y) = <<x, y>>
    BY <1>1, <2>2, <2>3, <2>5, SeqEqual
  <2>7. QED
    BY <2>1, <2>6
<1>4. <<x>> # <<>> /\ <<x, y>> # <<>> /\ <<x, y>> # <<x>> /\ <<x, y>> # <<y>>
  BY <1>1
<1>5. QED
  BY <1>2, <1>3, <1>4

(* It is hidden while it is there, or while its backdrop comes.                      *)
LEMMA HideModalKept == ModalInv /\ Dialog!Hide => ModalInv'
<1> SUFFICES ASSUME ModalInv, Dialog!Hide PROVE ModalInv'
  OBVIOUS
<1>1. fade \in BOOLEAN /\ fade' = fade /\ shows \in Nat /\ UNCHANGED <<shows, hurried>> /\ hurried \in BOOLEAN
  BY DEF ModalInv, Dialog!Hide, Dialog!Become
<1>2. SUFFICES ASSUME ~hurried PROVE Staged(Dialog!Heap)'
  BY <1>1 DEF ModalInv
<1> DEFINE h == Dialog!Heap
           g == [h EXCEPT !.isShown = FALSE, !.element.in = FALSE,
                          !.element.moving = fade /\ element.displayed /\ (element.in \/ @)]
           w == [g EXCEPT !.timers = @ \cup {shows}, !.element.ends = Append(@, Timed)]
<1>3. /\ h \in Dialogs /\ Staged(h) /\ h.isShown = isShown /\ h.element = element /\ h.timers = timers
      /\ h.backdrop = backdrop /\ h.backdrops = backdrops
  BY <1>1, <1>2, StageIs
<1>4. Dialog!Become(IF fade THEN w ELSE Dialog!HideModal(g))
  BY DEF Dialog!Hide, Dialog!HideWithTransition, Timed
<1> HIDE DEF h
<1>5. h.isShown /\ (There(h) \/ (fade /\ Coming(h)))
  BY <1>3 DEF Staged, Away, Turned, Leaving, Going, Dialog!Hide
<1>6. h.timers = {}
  BY <1>5 DEF There, Coming
<1>7. g \in Dialogs /\ ~g.isShown /\ g.element.displayed = h.element.displayed
      /\ g.element.ends = h.element.ends /\ g.timers = {} /\ (~h.element.displayed => ~g.element.moving)
      /\ g.backdrop = h.backdrop /\ g.backdrops = h.backdrops
  BY <1>1, <1>3, <1>6 DEF Dialogs, Faces
<1> HIDE DEF g
<1>8. CASE fade
  <2>1. Timed \in Waits
    BY <1>1 DEF Timed, Waits, Dialog!Wait
  <2>2. g.element.ends \in Seq(Waits) /\ Append(g.element.ends, Timed) \in Seq(Waits)
    BY <1>7, <2>1, AppendProperties DEF Dialogs, Faces
  <2>3. w \in Dialogs /\ ~w.isShown /\ w.element.displayed = h.element.displayed
        /\ w.element.ends = Append(h.element.ends, Timed) /\ w.timers = {shows}
        /\ (~h.element.displayed => ~w.element.moving)
        /\ w.backdrop = h.backdrop /\ w.backdrops = h.backdrops
    BY <1>1, <1>7, <2>2 DEF Dialogs, Faces
  <2> HIDE DEF w
  <2>4. /\ h.element.ends = <<>> => w.element.ends = <<Timed>>
        /\ h.element.ends = <<Told>> => w.element.ends = <<Told, Timed>>
    BY <2>3, ShortLists
  <2>5. There(h) => Leaving(w)
    BY <2>3, <2>4 DEF There, Leaving
  <2>6. Coming(h) => Turned(w)
    BY <2>3, <2>4 DEF Coming, Turned, Unseen
  <2>7. Staged(w)
    BY <1>5, <1>8, <2>3, <2>5, <2>6 DEF Staged
  <2>8. QED
    BY <1>1, <1>4, <1>8, <2>7, Becomes
<1>9. CASE ~fade
  <2>1. Stays(g.backdrops, g.backdrop) /\ g.element.ends = <<>>
    BY <1>5, <1>7, <1>9 DEF There
  <2>2. Staged(Dialog!HideModal(g))
    BY <1>1, <1>7, <2>1, ThenItGoes
  <2>3. QED
    BY <1>1, <1>4, <1>9, <2>2, Becomes
<1>10. QED
  BY <1>1, <1>8, <1>9

(* A transition of the dialog ends while it is there or leaves.                     *)
LEMMA ElementTells ==
  ASSUME fade \in BOOLEAN, NEW h \in Dialogs, There(h) \/ (fade /\ Leaving(h))
  PROVE  Staged(Dialog!ElementEnds(h))
<1> DEFINE g == [h EXCEPT !.element.ends = <<>>]
           e == h.element.ends
           k == [g EXCEPT !.timers = @ \ {shows}]
<1>1. <<>> \in Seq(Waits)
  OBVIOUS
<1>2. g \in Dialogs /\ g.isShown = h.isShown /\ g.element.displayed = h.element.displayed
      /\ g.element.ends = <<>> /\ g.timers = h.timers /\ g.backdrop = h.backdrop /\ g.backdrops = h.backdrops
  BY <1>1 DEF Dialogs, Faces
<1>3. e \in {<<>>, <<Told>>, <<Timed>>, <<Told, Timed>>, <<Timed, Told>>}
  BY DEF There, Leaving
<1>4. Dialog!ElementEnds(h) = IF e \in {<<>>, <<Told>>} THEN g ELSE Dialog!HideModal(k)
  <2> HIDE DEF g
  <2>1. Dialog!FoldLeft(Dialog!EndOf, g, e) = IF e \in {<<>>, <<Told>>} THEN g ELSE Hidden(g)
    BY <1>3, EndTells
  <2>2. QED
    BY <2>1 DEF Dialog!ElementEnds, Hidden, g
<1> HIDE DEF g
<1>5. CASE There(h)
  <2>1. e \in {<<>>, <<Told>>}
    BY <1>5 DEF There
  <2>2. There(g)
    BY <1>2, <1>5 DEF There
  <2>3. QED
    BY <1>2, <1>4, <2>1, <2>2 DEF Staged
<1>6. CASE Leaving(h)
  <2>1. e \notin {<<>>, <<Told>>}
    <3>1. Told # Timed
      BY DEF Told, Timed, Dialog!Wait
    <3>2. QED
      BY <1>6, <3>1, ShortLists, ZenonT(60) DEF Leaving
  <2>2. k \in Dialogs /\ ~k.isShown /\ k.element.ends = <<>> /\ k.timers = {}
        /\ k.backdrop = h.backdrop /\ k.backdrops = h.backdrops
    BY <1>2, <1>6 DEF Dialogs, Leaving
  <2> HIDE DEF k
  <2>3. Stays(k.backdrops, k.backdrop)
    BY <1>6, <2>2 DEF Leaving
  <2>4. QED
    BY <1>4, <2>1, <2>2, <2>3, ThenItGoes
<1>7. QED
  BY <1>5, <1>6

LEMMA TransitionKept ==
  ModalInv /\ (Dialog!TransitionEnds \/ Dialog!ChildTransitionEnds \/ Dialog!TransitionLost) => ModalInv'
<1> SUFFICES ASSUME ModalInv, Dialog!TransitionEnds \/ Dialog!ChildTransitionEnds \/ Dialog!TransitionLost
             PROVE  ModalInv'
  OBVIOUS
<1>1. fade \in BOOLEAN /\ fade' = fade /\ shows \in Nat /\ UNCHANGED <<shows, hurried>> /\ hurried \in BOOLEAN
  BY DEF ModalInv, Dialog!TransitionEnds, Dialog!ChildTransitionEnds, Dialog!TransitionLost, Dialog!Become
<1>2. SUFFICES ASSUME ~hurried PROVE Staged(Dialog!Heap)'
  BY <1>1 DEF ModalInv
<1> DEFINE h == Dialog!Heap
           g == [h EXCEPT !.element.moving = FALSE]
<1>3. /\ h \in Dialogs /\ Staged(h) /\ h.isShown = isShown /\ h.element = element /\ h.timers = timers
      /\ h.backdrop = backdrop /\ h.backdrops = backdrops
  BY <1>1, <1>2, StageIs
<1>4. \/ Dialog!Become(Dialog!ElementEnds(g)) \/ Dialog!Become(Dialog!ElementEnds(h))
      \/ Dialog!Become(g)
  BY DEF Dialog!TransitionEnds, Dialog!ChildTransitionEnds, Dialog!TransitionLost
<1> HIDE DEF h
<1>5. h.element.moving \/ h.element.displayed
  BY <1>3 DEF Dialog!TransitionEnds, Dialog!ChildTransitionEnds, Dialog!TransitionLost
<1>6. There(h) \/ (fade /\ Leaving(h))
  BY <1>3, <1>5 DEF Staged, Away, Coming, Turned, Going, Unseen
<1>7. g \in Dialogs /\ g.isShown = h.isShown /\ g.element.displayed = h.element.displayed
      /\ g.element.ends = h.element.ends /\ g.timers = h.timers /\ g.backdrop = h.backdrop
      /\ g.backdrops = h.backdrops
  BY <1>3 DEF Dialogs, Faces
<1> HIDE DEF g
<1>8. There(g) \/ (fade /\ Leaving(g))
  BY <1>6, <1>7 DEF There, Leaving
<1>9. Staged(g) /\ Staged(Dialog!ElementEnds(g)) /\ Staged(Dialog!ElementEnds(h))
  <2>1. Staged(g)
    BY <1>7, <1>8 DEF Staged
  <2>2. Staged(Dialog!ElementEnds(g))
    BY <1>1, <1>7, <1>8, ElementTells
  <2>3. Staged(Dialog!ElementEnds(h))
    BY <1>1, <1>3, <1>6, ElementTells
  <2>4. QED
    BY <2>1, <2>2, <2>3
<1>10. QED
  BY <1>1, <1>4, <1>9, Becomes

LEMMA TimerKept == ModalInv /\ (\E t \in timers : Dialog!TimerFires(t)) => ModalInv'
<1> SUFFICES ASSUME ModalInv, NEW t \in timers, Dialog!TimerFires(t) PROVE ModalInv'
  OBVIOUS
<1>1. fade \in BOOLEAN /\ fade' = fade /\ shows \in Nat /\ UNCHANGED <<shows, hurried>> /\ hurried \in BOOLEAN
  BY DEF ModalInv, Dialog!TimerFires, Dialog!Become
<1>2. SUFFICES ASSUME ~hurried PROVE Staged(Dialog!Heap)'
  BY <1>1 DEF ModalInv
<1> DEFINE h == Dialog!Heap
           g == [h EXCEPT !.timers = @ \ {t}, !.element.ends = <<>>]
<1>3. /\ h \in Dialogs /\ Staged(h) /\ h.timers = timers /\ h.backdrop = backdrop /\ h.backdrops = backdrops
  BY <1>1, <1>2, StageIs
<1>4. Dialog!Become(Dialog!HideModal(g))
  BY DEF Dialog!TimerFires
<1> HIDE DEF h
<1>5. \A b \in 1 .. Len(backdrops) : ~backdrops[b].moving
  <2>1. DOMAIN backdrops = 1 .. Len(backdrops)
    BY <1>3, LenProperties DEF Dialogs
  <2>2. QED
    BY <2>1 DEF Dialog!TimerFires
<1>6. Leaving(h) /\ h.timers = {t}
  <2>1. h.timers # {} /\ ~Turned(h)
    BY <1>3, <1>5 DEF Turned, Fades
  <2>2. Leaving(h)
    BY <1>3, <2>1 DEF Staged, Away, Coming, There, Going
  <2>3. QED
    BY <1>3, <2>2 DEF Leaving
<1>7. g \in Dialogs /\ ~g.isShown /\ g.element.ends = <<>> /\ g.timers = {}
      /\ g.backdrop = h.backdrop /\ g.backdrops = h.backdrops
  <2>1. <<>> \in Seq(Waits)
    OBVIOUS
  <2>2. QED
    BY <1>3, <1>6, <2>1 DEF Dialogs, Faces, Leaving
<1> HIDE DEF g
<1>8. Stays(g.backdrops, g.backdrop)
  BY <1>6, <1>7 DEF Leaving
<1>9. Staged(Dialog!HideModal(g))
  BY <1>1, <1>7, <1>8, ThenItGoes
<1>10. QED
  BY <1>1, <1>4, <1>9, Becomes

(* A backdrop has faded in, and displays a dialog though it may be hidden by now; or it has *)
(* faded out.                                                                *)
LEMMA BackdropKept == ModalInv /\ (\E b \in DOMAIN backdrops : Dialog!BackdropEnds(b)) => ModalInv'
<1> SUFFICES ASSUME ModalInv, NEW b \in DOMAIN backdrops, Dialog!BackdropEnds(b) PROVE ModalInv'
  OBVIOUS
<1>1. fade \in BOOLEAN /\ fade' = fade /\ shows \in Nat /\ UNCHANGED <<shows, hurried>> /\ hurried \in BOOLEAN
  BY DEF ModalInv, Dialog!BackdropEnds, Dialog!Become
<1>2. SUFFICES ASSUME ~hurried PROVE Staged(Dialog!Heap)'
  BY <1>1 DEF ModalInv
<1> DEFINE h == Dialog!Heap
           B == backdrops
           r == [B[b] EXCEPT !.moving = FALSE]
           q == [r EXCEPT !.ends = <<>>]
           C == [B EXCEPT ![b] = r]
           D == [C EXCEPT ![b] = q]
           g == [h EXCEPT !.backdrops = D]
<1>3. /\ h \in Dialogs /\ Staged(h) /\ h.backdrop = backdrop /\ h.backdrops = B /\ Others(B, backdrop)
  BY <1>1, <1>2, StageIs
<1>4. Dialog!Become(Dialog!FoldLeft(Dialog!Called,
                      [h EXCEPT !.backdrops[b].moving = FALSE, !.backdrops[b].ends = <<>>], B[b].ends))
  BY DEF Dialog!BackdropEnds
<1>5. B[b].moving
  BY DEF Dialog!BackdropEnds
<1> HIDE DEF h, B
<1>6. B \in Seq(Backs) /\ DOMAIN B = 1 .. Len(B)
  BY <1>3, LenProperties DEF Dialogs
<1>7. b \in 1 .. Len(B)
  BY <1>6 DEF B
<1>8. b = backdrop /\ B[b] \in Backs
  BY <1>3, <1>5, <1>6, <1>7, ElementOfSeq DEF Others
<1>9. r \in Backs /\ q \in Backs /\ q.here = B[b].here /\ ~q.moving /\ q.ends = <<>>
  BY <1>8 DEF Backs, Called
<1>10. [h EXCEPT !.backdrops[b].moving = FALSE, !.backdrops[b].ends = <<>>] = g
  <2>1. [h EXCEPT !.backdrops[b].moving = FALSE] = [h EXCEPT !.backdrops = C]
    BY <1>3
  <2>2. [h EXCEPT !.backdrops = C].backdrops = C
    BY <1>3 DEF Dialogs
  <2>3. C[b] = r
    BY <1>6, <1>7
  <2> HIDE DEF C, r
  <2>4. [h EXCEPT !.backdrops = C, !.backdrops[b].ends = <<>>] = [h EXCEPT !.backdrops = C, !.backdrops = D]
    BY <2>2, <2>3
  <2>5. [h EXCEPT !.backdrops = C, !.backdrops = D] = g
    BY <1>3 DEF Dialogs
  <2>6. QED
    BY <2>1, <2>4, <2>5
<1> HIDE DEF r, q
<1>11. C \in Seq(Backs) /\ Len(C) = Len(B) /\ C[b] = r /\ b \in 1 .. Len(C) /\ Others(C, b)
  <2>1. B \in Seq(Backs) /\ b \in 1 .. Len(B) /\ r \in Backs /\ Others(B, b)
    BY <1>3, <1>6, <1>7, <1>8, <1>9
  <2>2. QED
    BY <2>1, BackBecomes
<1> HIDE DEF C
<1>12. D \in Seq(Backs) /\ D[b] = q /\ b \in 1 .. Len(D) /\ Others(D, b)
  BY <1>9, <1>11, BackBecomes
<1> HIDE DEF D
<1>13. /\ g \in Dialogs /\ g.isShown = h.isShown /\ g.element = h.element /\ g.timers = h.timers
       /\ g.backdrop = b /\ g.backdrops = D
  BY <1>3, <1>8, <1>12 DEF Dialogs
<1> HIDE DEF g
<1>14. B[b].here => Stays(g.backdrops, g.backdrop)
  BY <1>9, <1>12, <1>13 DEF Stays
<1>15. fade /\ (Coming(h) \/ Turned(h) \/ Going(h))
  <2>1. Others(B, 0) => FALSE
    BY <1>5, <1>7 DEF Others
  <2>2. ~Away(h) /\ ~There(h) /\ ~Leaving(h)
    BY <1>3, <1>5, <1>8, <2>1 DEF Away, There, Leaving, Stays
  <2>3. QED
    BY <1>3, <2>2 DEF Staged
<1>16. CASE Coming(h) \/ Turned(h)
  <2> DEFINE d == Dialog!Displayed(g)
  <2>1. B[b].ends = <<"show">> /\ B[b].here
    BY <1>3, <1>8, <1>16 DEF Coming, Turned, Fades
  <2>2. Dialog!Become(d)
    <3>1. Dialog!FoldLeft(Dialog!Called, g, <<"show">>) = Dialog!Called(g, "show")
      BY BackTells
    <3>2. QED
      BY <1>4, <1>10, <2>1, <3>1 DEF Dialog!Called
  <2>3. /\ d \in Dialogs /\ d.isShown = g.isShown /\ d.timers = g.timers /\ d.element.displayed
        /\ d.backdrop = g.backdrop /\ d.backdrops = g.backdrops
        /\ d.element.ends = Append(g.element.ends, Told)
    BY <1>1, <1>13, <1>15, ThenItComes
  <2> HIDE DEF d
  <2>4. Stays(d.backdrops, d.backdrop)
    BY <1>14, <2>1, <2>3
  <2>5. /\ g.element.ends = <<>> => d.element.ends = <<Told>>
        /\ g.element.ends = <<Timed>> => d.element.ends = <<Timed, Told>>
    <3>1. Append(<<>>, Told) = <<Told>> /\ Append(<<Timed>>, Told) = <<Timed, Told>>
      BY ShortLists
    <3>2. QED
      BY <2>3, <3>1
  <2>6. Coming(h) => There(d)
    BY <1>13, <1>15, <2>3, <2>4, <2>5 DEF Coming, There
  <2>7. Turned(h) => Leaving(d)
    BY <1>13, <2>3, <2>4, <2>5 DEF Turned, Leaving
  <2>8. Staged(d)
    BY <1>15, <1>16, <2>3, <2>6, <2>7 DEF Staged
  <2>9. QED
    BY <1>1, <2>2, <2>8, Becomes
<1>17. CASE Going(h)
  <2> DEFINE z == [here |-> FALSE, moving |-> FALSE, ends |-> <<>>]
             E == [D EXCEPT ![b] = z]
             d == [g EXCEPT !.backdrops = E, !.backdrop = 0]
  <2>1. B[b].ends = <<"remove">>
    BY <1>3, <1>8, <1>17 DEF Going, Fades
  <2>2. Dialog!Called(g, "remove") = d
    BY <1>7, <1>13 DEF Dialog!Called, Dialog!RemoveBackdrop
  <2>3. Dialog!Become(d)
    <3>1. Dialog!FoldLeft(Dialog!Called, g, <<"remove">>) = Dialog!Called(g, "remove")
      BY BackTells
    <3>2. QED
      BY <1>4, <1>10, <2>1, <2>2, <3>1
  <2>4. z \in Backs /\ ~z.here /\ ~z.moving
    BY DEF Backs, Called
  <2> HIDE DEF z
  <2>5. E \in Seq(Backs) /\ Others(E, 0)
    BY <1>12, <2>4, BackBecomes
  <2> HIDE DEF E
  <2>6. d \in Dialogs /\ d.isShown = g.isShown /\ d.element = g.element /\ d.timers = g.timers
        /\ d.backdrop = 0 /\ d.backdrops = E
    BY <1>13, <2>5 DEF Dialogs
  <2> HIDE DEF d
  <2>7. Away(d)
    BY <1>13, <1>17, <2>5, <2>6 DEF Away, Going, Unseen
  <2>8. Staged(d)
    BY <2>6, <2>7 DEF Staged
  <2>9. QED
    BY <1>1, <2>3, <2>8, Becomes
<1>18. QED
  BY <1>15, <1>16, <1>17

LEMMA ModalKept == ModalInv /\ [Dialog!Next]_(Dialog!vars) => ModalInv'
<1> SUFFICES ASSUME ModalInv, [Dialog!Next]_(Dialog!vars) PROVE ModalInv'
  OBVIOUS
<1>1. CASE UNCHANGED Dialog!vars
  <2>1. fade' = fade /\ hurried' = hurried /\ shows' = shows /\ Dialog!Become(Dialog!Heap)
    BY <1>1 DEF Dialog!vars, Dialog!Become, Dialog!Heap
  <2>2. ~hurried => Staged(Dialog!Heap)'
    BY <2>1, Becomes DEF ModalInv
  <2>3. QED
    BY <2>1, <2>2 DEF ModalInv
<1>2. CASE Dialog!Next
  BY <1>2, ShowKept, HideModalKept, TransitionKept, TimerKept, BackdropKept DEF Dialog!Next
<1>3. QED
  BY <1>1, <1>2

(* DialogAsShown: when nothing moves and no timeout is set, the dialog is displayed if it is    *)
(* shown and has then a backdrop of its own and no other, and neither is there if it is not;  *)
(* however often it is shown and hidden, its transitions are cut short or end late, and though *)
(* it was hidden before it was displayed, unless it was shown again while it was being hidden. *)
THEOREM DialogStaysAsShown == Dialog!Spec => []Dialog!DialogAsShown
<1>1. Dialog!Init => ModalInv
  <2> SUFFICES ASSUME Dialog!Init PROVE ModalInv
    OBVIOUS
  <2>1. Dialog!Heap \in Dialogs /\ Away(Dialog!Heap)
    <3>1. <<>> \in Seq(Waits) /\ <<>> \in Seq(Backs) /\ Len(<<>>) = 0
      OBVIOUS
    <3>2. /\ Dialog!Heap.isShown = FALSE /\ Dialog!Heap.timers = {} /\ Dialog!Heap.backdrop = 0
          /\ Dialog!Heap.backdrops = <<>> /\ Dialog!Heap.element.ends = <<>>
          /\ Unseen(Dialog!Heap)
      BY DEF Dialog!Init, Dialog!Heap, Unseen
    <3>3. Dialog!Heap \in Dialogs
      BY <3>1 DEF Dialog!Init, Dialog!Heap, Dialogs, Faces
    <3>4. Others(Dialog!Heap.backdrops, 0)
      BY <3>1, <3>2 DEF Others
    <3>5. QED
      BY <3>2, <3>3, <3>4 DEF Away
  <2>2. QED
    BY <2>1 DEF ModalInv, Staged, Dialog!Init
<1>2. ModalInv => Dialog!DialogAsShown
  <2> SUFFICES ASSUME ModalInv, Dialog!Still, ~hurried
               PROVE  /\ element.displayed = isShown
                      /\ {b \in DOMAIN backdrops : backdrops[b].here} = IF isShown THEN {backdrop} ELSE {}
    BY DEF Dialog!DialogAsShown
  <2> DEFINE h == Dialog!Heap
  <2>1. /\ h \in Dialogs /\ Staged(h) /\ h.isShown = isShown /\ h.element = element /\ h.timers = timers
        /\ h.backdrop = backdrop /\ h.backdrops = backdrops /\ Others(backdrops, backdrop)
    BY StageIs DEF ModalInv
  <2> HIDE DEF h
  <2>2. DOMAIN backdrops = 1 .. Len(backdrops)
    BY <2>1, LenProperties DEF Dialogs
  <2>3. Away(h) \/ There(h)
    BY <2>1, <2>2 DEF Dialog!Still, Staged, Coming, Turned, Leaving, Going, Fades
  <2>4. CASE Away(h)
    <3>1. ~element.displayed /\ ~isShown /\ \A c \in 1 .. Len(backdrops) : c # 0 => ~backdrops[c].here
      BY <2>1, <2>4 DEF Away, Unseen, Others
    <3>2. {b \in DOMAIN backdrops : backdrops[b].here} = {}
      BY <2>2, <3>1
    <3>3. element.displayed = FALSE /\ isShown = FALSE
      BY <2>1, <3>1 DEF Dialogs, Faces
    <3>4. QED
      BY <3>2, <3>3
  <2>5. CASE There(h)
    <3>1. element.displayed /\ isShown /\ backdrop \in 1 .. Len(backdrops) /\ backdrops[backdrop].here
      BY <2>1, <2>5 DEF There, Stays
    <3>2. {b \in DOMAIN backdrops : backdrops[b].here} = {backdrop}
      BY <2>1, <2>2, <3>1 DEF Others
    <3>3. element.displayed = TRUE /\ isShown = TRUE
      BY <2>1, <3>1 DEF Dialogs, Faces
    <3>4. QED
      BY <3>1, <3>2, <3>3
  <2>6. QED
    BY <2>3, <2>4, <2>5
<1>3. QED
  BY <1>1, <1>2, ModalKept, PTL DEF Dialog!Spec

-----------------------------------------------------------------------------
(* WidgetsKept: with all seven widgets on a page, each of them shows what its plugin object     *)
(* believes when it is still and none waits for what will not come, in whatever order their  *)
(* events interleave; since a step of the page is one of each widget or leaves it alone.      *)
THEOREM WidgetsStayAsShown == WidgetsSpec => []WidgetsKept
<1>1. WidgetsInit => /\ Dialog!Init /\ Slides!Init /\ Tip!Init /\ List!Init
                     /\ Accord!Init /\ Pane!Init /\ Drop!Init
  BY DEF WidgetsInit
<1>2. [WidgetsNext]_widgets =>
        /\ [Dialog!Next]_(Dialog!vars) /\ [Slides!Next]_(Slides!vars) /\ [Tip!Next]_(Tip!vars)
        /\ [List!Next]_(List!vars) /\ [Accord!Next]_(Accord!vars) /\ [Pane!Next]_(Pane!vars)
        /\ [Drop!Next]_(Drop!vars)
  <2> SUFFICES ASSUME [WidgetsNext]_widgets
               PROVE  /\ [Dialog!Next]_(Dialog!vars) /\ [Slides!Next]_(Slides!vars) /\ [Tip!Next]_(Tip!vars)
                      /\ [List!Next]_(List!vars) /\ [Accord!Next]_(Accord!vars) /\ [Pane!Next]_(Pane!vars)
                      /\ [Drop!Next]_(Drop!vars)
    OBVIOUS
  <2>1. \/ UNCHANGED <<dialog, slides, tips, list, groups, panes, menus>>
        \/ DialogStep \/ SlidesStep \/ TipStep \/ ListStep \/ AccordStep \/ PaneStep \/ DropStep
    BY DEF WidgetsNext, widgets
  <2>2. Dialog!Next \/ UNCHANGED dialog
    BY <2>1 DEF DialogStep, SlidesStep, TipStep, ListStep, AccordStep, PaneStep, DropStep
  <2>3. Slides!Next \/ UNCHANGED slides
    BY <2>1 DEF DialogStep, SlidesStep, TipStep, ListStep, AccordStep, PaneStep, DropStep
  <2>4. Tip!Next \/ UNCHANGED tips
    BY <2>1 DEF DialogStep, SlidesStep, TipStep, ListStep, AccordStep, PaneStep, DropStep
  <2>5. List!Next \/ UNCHANGED list
    BY <2>1 DEF DialogStep, SlidesStep, TipStep, ListStep, AccordStep, PaneStep, DropStep
  <2>6. Accord!Next \/ UNCHANGED groups
    BY <2>1 DEF DialogStep, SlidesStep, TipStep, ListStep, AccordStep, PaneStep, DropStep
  <2>7. Pane!Next \/ UNCHANGED panes
    BY <2>1 DEF DialogStep, SlidesStep, TipStep, ListStep, AccordStep, PaneStep, DropStep
  <2>8. Drop!Next \/ UNCHANGED menus
    BY <2>1 DEF DialogStep, SlidesStep, TipStep, ListStep, AccordStep, PaneStep, DropStep
  <2>9. [Dialog!Next]_(Dialog!vars)
    BY <2>2 DEF Dialog!vars, dialog
  <2>10. [Slides!Next]_(Slides!vars)
    BY <2>3 DEF Slides!vars, slides
  <2>11. [Tip!Next]_(Tip!vars)
    BY <2>4 DEF Tip!vars, tips
  <2>12. [List!Next]_(List!vars)
    BY <2>5 DEF List!vars, list
  <2>13. [Accord!Next]_(Accord!vars)
    BY <2>6 DEF Accord!vars, groups
  <2>14. [Pane!Next]_(Pane!vars)
    BY <2>7 DEF Pane!vars, panes
  <2>15. [Drop!Next]_(Drop!vars)
    BY <2>8 DEF Drop!vars, menus
  <2>16. QED
    BY <2>9, <2>10, <2>11, <2>12, <2>13, <2>14, <2>15
<1>3. QED
  BY <1>1, <1>2, DialogStaysAsShown, CarouselNeverSticks, NoTipStays, MenuOfLastText, OneGroupOpen,
     PaneOfLastTab, OneMenuOpen, PTL
     DEF WidgetsSpec, WidgetsKept, Dialog!Spec, Slides!Spec, Tip!Spec, List!Spec, Accord!Spec,
         Pane!Spec, Drop!Spec

-----------------------------------------------------------------------------
CONSTANTS Destinations, Handlers, MaxIds, MaxSends
VARIABLES ready, subscriptions, destinations, receipts, counter, out, server, sends, acks,
          calls, notices, premature

(* StompBridge.  Any number of destinations and handlers, of calls and messages. *)
Bridge == INSTANCE StompBridge
SendsAssumed == MaxSends \in Nat

Places == Destinations \cup {"none"}
StompFrames == [command : {"CONNECT", "SUBSCRIBE", "UNSUBSCRIBE", "SEND", "ACK", "NACK", "DISCONNECT",
                      "CONNECTED", "MESSAGE", "RECEIPT", "ERROR"},
           id : Nat, dest : Places, receipt : Nat]
Shares == [dest : Destinations, handlers : SUBSET Handlers, receipt : Nat]
BridgeTypes ==
  /\ ready \in BOOLEAN /\ premature \in BOOLEAN /\ destroyed \in BOOLEAN
  /\ counter \in Nat /\ sends \in Nat /\ calls \in Nat /\ notices \in Nat /\ sends <= MaxSends
  /\ out \in Seq(StompFrames) /\ in \in Seq(StompFrames)
  /\ server \in [up : BOOLEAN, subs : SUBSET (Nat \X Places)] /\ IsFiniteSet(server.subs)
  /\ acks \in [1 .. MaxSends -> Nat] /\ destinations \in [Destinations -> Nat]
  /\ subscriptions \in [DOMAIN subscriptions -> Shares]
  /\ DOMAIN subscriptions \in SUBSET (1 .. counter)
  /\ receipts \in [DOMAIN receipts -> Nat] /\ DOMAIN receipts \in SUBSET (1 .. counter)

(* A destination has the subscription that is its own, and a subscription a handler. *)
Linked ==
  /\ \A id \in DOMAIN subscriptions :
       destinations[subscriptions[id].dest] = id /\ subscriptions[id].handlers # {}
  /\ \A d \in Destinations : destinations[d] # 0 =>
       destinations[d] \in DOMAIN subscriptions /\ subscriptions[destinations[d]].dest = d
(* Who called and has not been told waits for a receipt.                         *)
Tickets(f) == {t \in Nat \X Nat : t[1] \in DOMAIN f /\ t[2] \in 1 .. f[t[1]]}
Billed ==
  /\ IsFiniteSet(Tickets(receipts))
  /\ ~destroyed => calls = notices + Cardinality(Tickets(receipts))

(* While the connection lasts it is opened by the first two frames, all frames after *)
(* them find it open, and each receipt that somebody waits for is on its way.       *)
Opening ==
  /\ ~ready => \/ in = <<>> /\ out = <<Bridge!Connect>>
               \/ in = <<Bridge!Frame("CONNECTED", 0, "none", 0)>> /\ out = <<>>
  /\ \A f \in Elements(in) : f.command # "ERROR"
Asking(f) == f.command \in {"SUBSCRIBE", "UNSUBSCRIBE"}
Owed ==
  \A r \in DOMAIN receipts :
    \/ \E f \in Elements(out) : Asking(f) /\ f.receipt = r
    \/ \E f \in Elements(in) : f.command = "RECEIPT" /\ f.receipt = r

(* What the server will have heard, and where a message or its answer is.           *)
Hears(subs, f) ==
  CASE f.command = "SUBSCRIBE" -> subs \cup {<<f.id, f.dest>>}
    [] f.command = "UNSUBSCRIBE" -> {s \in subs : s[1] # f.id}
    [] OTHER -> subs
Shared == {<<id, subscriptions[id].dest>> : id \in DOMAIN subscriptions}
InStep == Bridge!Coming = Shared
Where(s, T) == {i \in 1 .. Len(s) : s[i] \in T}
AnswersTo(n) == {f \in StompFrames : f.command \in {"ACK", "NACK"} /\ f.id = n}
Messages(n) == {f \in StompFrames : f.command = "MESSAGE" /\ f.receipt = n}
JustOne(S) == \E x : S = {x}
Placed(n) ==
  \/ acks[n] = 1 /\ Where(out, AnswersTo(n)) = {} /\ Where(in, Messages(n)) = {}
  \/ acks[n] = 0 /\ JustOne(Where(out, AnswersTo(n))) /\ Where(in, Messages(n)) = {}
  \/ acks[n] = 0 /\ Where(out, AnswersTo(n)) = {} /\ JustOne(Where(in, Messages(n)))
Counted ==
  /\ \A f \in Elements(in) : f.command = "MESSAGE" => f.receipt \in 1 .. sends
  /\ \A f \in Elements(out) : f.command \in {"ACK", "NACK"} => f.id \in 1 .. sends
  /\ \A n \in 1 .. MaxSends : n > sends => acks[n] = 0
  /\ \A n \in 1 .. sends : Placed(n)
(* What holds while the connection lasts, and what holds at all times.              *)
Lasts == Opening /\ Owed /\ InStep /\ Counted
Stands == BridgeTypes /\ Linked /\ Billed
BridgeInv == Stands /\ (Bridge!Lasting => Lasts)

(* What the server will have heard goes along the frames that are on their way.    *)
Regions == SUBSET (Nat \X Places)
Heard(subs, w) == Bridge!FoldLeft(Hears, subs, w)
Hearing(b, subs, w) ==
  /\ b[0] = subs
  /\ \A k \in 1 .. Len(w) : b[k] = Hears(b[k - 1], w[k]) /\ b[k] \in Regions
LEMMA HearsKeeps ==
  ASSUME NEW subs \in Regions, NEW f \in StompFrames
  PROVE  Hears(subs, f) \in Regions
<1>1. f.id \in Nat /\ f.dest \in Places
  BY DEF StompFrames
<1>2. subs \cup {<<f.id, f.dest>>} \in Regions /\ {s \in subs : s[1] # f.id} \in Regions
  BY <1>1 DEF Regions
<1>3. QED
  BY <1>2 DEF Hears

LEMMA HeardGoes ==
  ASSUME NEW subs \in Regions, NEW w \in Seq(StompFrames)
  PROVE  \E b : Hearing(b, subs, w) /\ Heard(subs, w) = b[Len(w)]
<1> DEFINE n == Len(w)
           op == [x \in Regions \X StompFrames |-> Hears(x[1], x[2])]
           each(f) == f = [s \in SUBSET (DOMAIN w) |->
                             IF s = {} THEN subs ELSE Hears(f[s \ {MaxOf(s)}], w[MaxOf(s)])]
           it == CHOOSE f : each(f)
           b == [k \in 0 .. n |-> it[1 .. k]]
<1>1. Heard(subs, w) = it[DOMAIN w]
  BY DEF Heard, Bridge!FoldLeft, Bridge!MapThenFoldSet, MaxOf, Bridge!Max
<1>2. n \in Nat /\ DOMAIN w = 1 .. n /\ \A i \in 1 .. n : w[i] \in StompFrames
  BY LenProperties, ElementOfSeq
<1> HIDE DEF n
<1>3. \A x \in Regions, f \in StompFrames : Hears(x, f) \in Regions
  BY HearsKeeps
<1>4. op \in [Regions \X StompFrames -> Regions] /\ \A x \in Regions, f \in StompFrames : op[<<x, f>>] = Hears(x, f)
  BY <1>3
<1> HIDE DEF op
<1>5. PICK f \in [SUBSET (1 .. n) -> Regions] : Results(op, subs, w, n, f)
  <2>1. n <= Len(w) /\ n \in Nat
    BY <1>2 DEF n
  <2>2. QED
    BY <1>4, <2>1, ResultsExist
<1>6. each(f)
  <2>1. ASSUME NEW s \in SUBSET (1 .. n), s # {}
        PROVE  op[<<f[s \ {MaxOf(s)}], w[MaxOf(s)]>>] = Hears(f[s \ {MaxOf(s)}], w[MaxOf(s)])
    <3>1. MaxOf(s) \in 1 .. n
      BY <1>2, <2>1, MaxOfPart
    <3>2. s \ {MaxOf(s)} \in SUBSET (1 .. n)
      OBVIOUS
    <3>3. QED
      BY <1>2, <1>4, <1>5, <3>1, <3>2
  <2>2. QED
    BY <1>2, <1>5, <2>1 DEF Results
<1>7. each(it)
  BY <1>6
<1> HIDE DEF it
<1>8. it[1 .. 0] = subs
  BY <1>2, <1>7
<1>9. ASSUME NEW k \in 1 .. n
      PROVE  it[1 .. k] = Hears(it[1 .. k - 1], w[k])
  <2>1. /\ MaxOf(1 .. k) = k /\ (1 .. k) \ {k} = 1 .. k - 1
        /\ 1 .. k # {} /\ 1 .. k \in SUBSET (DOMAIN w)
    BY <1>2, MaxUpTo
  <2>2. it[1 .. k] = Hears(it[(1 .. k) \ {MaxOf(1 .. k)}], w[MaxOf(1 .. k)])
    BY <1>7, <2>1
  <2>3. QED
    BY <2>1, <2>2
<1>10. \A k \in 0 .. n : b[k] = it[1 .. k]
  OBVIOUS
<1>11. \A k \in 1 .. n : k - 1 \in 0 .. n /\ k \in 0 .. n
  BY <1>2
<1>12. b[0] = subs /\ it[DOMAIN w] = b[n]
  BY <1>2, <1>8, <1>10
<1> HIDE DEF b
<1>13. \A k \in 1 .. n : b[k] = Hears(b[k - 1], w[k])
  BY <1>9, <1>10, <1>11
<1>14. \A k \in 0 .. n : b[k] \in Regions
  <2> DEFINE good == {k \in 0 .. n : b[k] \in Regions}
  <2>1. 0 \in good
    BY <1>2, <1>12
  <2>2. ASSUME NEW k \in 1 .. n, k - 1 \in good PROVE k \in good
    <3>1. b[k] = Hears(b[k - 1], w[k]) /\ b[k - 1] \in Regions /\ w[k] \in StompFrames /\ k \in 0 .. n
      BY <1>2, <1>11, <1>13, <2>2
    <3>2. b[k] \in Regions
      BY <1>3, <3>1
    <3>3. QED
      BY <3>1, <3>2
  <2> HIDE DEF good
  <2>3. \A k \in 0 .. n : k \in good
    BY <1>2, <2>1, <2>2, Climbs
  <2>4. QED
    BY <2>3 DEF good
<1>15. Hearing(b, subs, w)
  BY <1>11, <1>12, <1>13, <1>14 DEF Hearing, n
<1>16. QED
  BY <1>1, <1>12, <1>15 DEF n

(* It is determined by them.                                                       *)
LEMMA HeardOnce ==
  ASSUME NEW subs \in Regions, NEW w \in Seq(StompFrames), NEW b, Hearing(b, subs, w)
  PROVE  Heard(subs, w) = b[Len(w)]
<1>1. PICK a : Hearing(a, subs, w) /\ Heard(subs, w) = a[Len(w)]
  BY HeardGoes
<1> DEFINE n == Len(w)
           good == {k \in 0 .. n : a[k] = b[k]}
<1>2. n \in Nat
  BY LenProperties
<1>3. 0 \in good
  BY <1>1, <1>2 DEF Hearing
<1>4. ASSUME NEW k \in 1 .. n, k - 1 \in good PROVE k \in good
  BY <1>1, <1>2, <1>4 DEF Hearing
<1> HIDE DEF good
<1>5. \A k \in 0 .. n : k \in good
  BY <1>2, <1>3, <1>4, Climbs
<1>6. n \in good
  BY <1>2, <1>5
<1>7. QED
  BY <1>1, <1>6 DEF good

LEMMA HeardAppended ==
  ASSUME NEW subs \in Regions, NEW w \in Seq(StompFrames), NEW f \in StompFrames
  PROVE  Heard(subs, Append(w, f)) = Hears(Heard(subs, w), f)
<1> DEFINE n == Len(w)
           r == Append(w, f)
<1>1. PICK a : Hearing(a, subs, w) /\ Heard(subs, w) = a[n]
  BY HeardGoes
<1>2. /\ r \in Seq(StompFrames) /\ Len(r) = n + 1 /\ n \in Nat
      /\ r[n + 1] = f /\ \A i \in 1 .. n : r[i] = w[i]
  BY Appended, LenProperties
<1> DEFINE b == [k \in 0 .. n + 1 |-> IF k = n + 1 THEN Hears(a[n], f) ELSE a[k]]
<1>3. b[0] = subs /\ b[n + 1] = Hears(a[n], f) /\ \A k \in 0 .. n : b[k] = a[k]
  BY <1>1, <1>2 DEF Hearing
<1> HIDE DEF b, r
<1>4. a[n] \in Regions
  BY <1>1, <1>2 DEF Hearing
<1>5. b[n + 1] \in Regions
  BY <1>3, <1>4, HearsKeeps
<1>6. ASSUME NEW k \in 1 .. n + 1
      PROVE  b[k] = Hears(b[k - 1], r[k]) /\ b[k] \in Regions
  <2>1. CASE k = n + 1
    <3>1. k - 1 = n /\ n \in 0 .. n
      BY <1>2, <2>1
    <3>2. QED
      BY <1>2, <1>3, <1>5, <2>1, <3>1
  <2>2. CASE k # n + 1
    <3>1. k \in 1 .. n /\ k \in 0 .. n /\ k - 1 \in 0 .. n
      BY <1>2, <2>2
    <3>2. a[k] = Hears(a[k - 1], w[k]) /\ a[k] \in Regions
      BY <1>1, <3>1 DEF Hearing
    <3>3. QED
      BY <1>2, <1>3, <3>1, <3>2
  <2>3. QED
    BY <2>1, <2>2
<1>7. Hearing(b, subs, r)
  BY <1>2, <1>3, <1>6 DEF Hearing
<1>8. Heard(subs, r) = b[n + 1]
  BY <1>2, <1>7, HeardOnce
<1>9. QED
  BY <1>1, <1>3, <1>8 DEF r

LEMMA HeardRead ==
  ASSUME NEW subs \in Regions, NEW w \in Seq(StompFrames), w # <<>>
  PROVE  Heard(Hears(subs, Head(w)), Tail(w)) = Heard(subs, w)
<1> DEFINE n == Len(w)
           r == Tail(w)
           h == Hears(subs, Head(w))
<1>1. PICK a : Hearing(a, subs, w) /\ Heard(subs, w) = a[n]
  BY HeardGoes
<1>2. /\ r \in Seq(StompFrames) /\ Len(r) = n - 1 /\ n \in Nat /\ n - 1 \in Nat
      /\ Head(w) = w[1] /\ Head(w) \in StompFrames /\ \A i \in 1 .. n - 1 : r[i] = w[i + 1]
  <2>1. r \in Seq(StompFrames) /\ Len(r) = n - 1 /\ Head(w) = w[1] /\ Head(w) \in StompFrames
    BY Shifted
  <2>2. n \in Nat /\ Len(r) \in Nat
    BY <2>1, LenProperties
  <2>3. \A i \in 1 .. Len(r) : r[i] = w[i + 1]
    BY HeadTailProperties
  <2>4. QED
    BY <2>1, <2>2, <2>3
<1> DEFINE b == [k \in 0 .. n - 1 |-> a[k + 1]]
<1>3. \A k \in 0 .. n - 1 : b[k] = a[k + 1]
  OBVIOUS
<1> HIDE DEF b, r, n
<1>4. b[0] = h
  <2>1. a[1] = Hears(a[0], w[1]) /\ a[0] = subs
    BY <1>1, <1>2 DEF Hearing, n
  <2>2. b[0] = a[1]
    BY <1>2, <1>3
  <2>3. QED
    BY <1>2, <2>1, <2>2
<1>5. ASSUME NEW k \in 1 .. n - 1
      PROVE  b[k] = Hears(b[k - 1], r[k]) /\ b[k] \in Regions
  <2>1. k \in 0 .. n - 1 /\ k - 1 \in 0 .. n - 1 /\ k + 1 \in 1 .. n /\ (k + 1) - 1 = k /\ (k - 1) + 1 = k
    BY <1>2
  <2>2. a[k + 1] = Hears(a[k], w[k + 1]) /\ a[k + 1] \in Regions
    BY <1>1, <2>1 DEF Hearing, n
  <2>3. b[k] = a[k + 1] /\ b[k - 1] = a[k] /\ r[k] = w[k + 1]
    BY <1>2, <1>3, <2>1
  <2>4. QED
    BY <2>2, <2>3
<1>6. Hearing(b, h, r)
  BY <1>2, <1>4, <1>5 DEF Hearing
<1>7. h \in Regions
  BY <1>2, HearsKeeps
<1>8. Heard(h, r) = b[n - 1]
  BY <1>2, <1>6, <1>7, HeardOnce
<1>9. b[n - 1] = a[n]
  BY <1>2, <1>3
<1>10. QED
  BY <1>1, <1>8, <1>9 DEF r, n

LEMMA ComingIsHeard ==
  /\ Bridge!Coming = Heard(server.subs, out)
  /\ Bridge!Coming' = Heard(server'.subs, out')
<1>1. Bridge!Coming = Heard(server.subs, out)
  BY DEF Bridge!Coming, Heard, Hears, Bridge!FoldLeft, Bridge!MapThenFoldSet
<1>2. Bridge!Coming' = Heard(server'.subs, out')
  BY DEF Bridge!Coming, Heard, Hears, Bridge!FoldLeft, Bridge!MapThenFoldSet
<1>3. QED
  BY <1>1, <1>2

(* The places in a sequence of what is sought.                                     *)
LEMMA WhereAppended ==
  ASSUME NEW S, NEW s \in Seq(S), NEW f \in S, NEW T
  PROVE  LET r == Append(s, f)
         IN  /\ f \notin T => Where(r, T) = Where(s, T)
             /\ f \in T /\ Where(s, T) = {} => JustOne(Where(r, T))
<1> DEFINE r == Append(s, f)
           n == Len(s)
<1>1. Len(r) = n + 1 /\ n \in Nat /\ r[n + 1] = f /\ \A i \in 1 .. n : r[i] = s[i]
  BY Appended, LenProperties
<1> HIDE DEF r, n
<1>2. Where(s, T) = {i \in 1 .. n : s[i] \in T} /\ Where(r, T) = {i \in 1 .. n + 1 : r[i] \in T}
  BY <1>1 DEF Where, n
<1>3. f \notin T => Where(r, T) = Where(s, T)
  BY <1>1, <1>2
<1>4. ASSUME f \in T, Where(s, T) = {} PROVE JustOne(Where(r, T))
  <2>1. Where(r, T) = {n + 1}
    BY <1>1, <1>2, <1>4
  <2>2. QED
    BY <2>1 DEF JustOne
<1>5. QED
  BY <1>3, <1>4 DEF r

LEMMA WhereRead ==
  ASSUME NEW S, NEW s \in Seq(S), s # <<>>, NEW T
  PROVE  /\ Where(s, T) = {} => Head(s) \notin T /\ Where(Tail(s), T) = {}
         /\ Head(s) \notin T /\ JustOne(Where(s, T)) => JustOne(Where(Tail(s), T))
         /\ Head(s) \in T /\ JustOne(Where(s, T)) => Where(Tail(s), T) = {}
<1> DEFINE r == Tail(s)
           n == Len(s)
<1>1. /\ Len(r) = n - 1 /\ n \in Nat \ {0} /\ Head(s) = s[1] /\ \A i \in 1 .. n - 1 : r[i] = s[i + 1]
  <2>1. Len(r) = n - 1 /\ Head(s) = s[1] /\ r \in Seq(S)
    BY Shifted
  <2>2. n \in Nat /\ Len(r) \in Nat
    BY <2>1, LenProperties
  <2>3. \A i \in 1 .. Len(r) : r[i] = s[i + 1]
    BY HeadTailProperties
  <2>4. QED
    BY <2>1, <2>2, <2>3
<1> HIDE DEF r, n
<1>2. Where(s, T) = {i \in 1 .. n : s[i] \in T} /\ Where(r, T) = {i \in 1 .. n - 1 : r[i] \in T}
  BY <1>1 DEF Where, n
<1>3. 1 \in Where(s, T) <=> Head(s) \in T
  BY <1>1, <1>2
<1>4. /\ \A i \in Where(r, T) : i \in Nat /\ i + 1 \in Where(s, T)
      /\ \A i \in Where(s, T) : i = 1 \/ i - 1 \in Where(r, T)
      /\ \A i \in Where(s, T) : i \in Nat
      /\ 0 \notin Where(r, T)
  BY <1>1, <1>2
<1>5. ASSUME Head(s) \notin T, JustOne(Where(s, T)) PROVE JustOne(Where(r, T))
  <2>1. PICK x : Where(s, T) = {x}
    BY <1>5 DEF JustOne
  <2>2. x \in Nat /\ x # 1 /\ x - 1 \in Where(r, T)
    BY <1>3, <1>4, <1>5, <2>1
  <2>3. \A i \in Where(r, T) : i = x - 1
    BY <1>4, <2>1, <2>2
  <2>4. Where(r, T) = {x - 1}
    BY <2>2, <2>3
  <2>5. QED
    BY <2>4 DEF JustOne
<1>6. ASSUME Head(s) \in T, JustOne(Where(s, T)) PROVE Where(r, T) = {}
  <2>1. PICK x : Where(s, T) = {x}
    BY <1>6 DEF JustOne
  <2>2. x = 1
    BY <1>3, <1>6, <2>1
  <2>3. \A i \in Where(r, T) : FALSE
    BY <1>4, <2>1, <2>2
  <2>4. QED
    BY <2>3
<1>7. Where(s, T) = {} => Head(s) \notin T /\ Where(r, T) = {}
  BY <1>3, <1>4
<1>8. QED
  BY <1>5, <1>6, <1>7 DEF r

LEMMA WhereJoined ==
  ASSUME NEW S, NEW s \in Seq(S), NEW v \in Seq(S), NEW T
  PROVE  /\ Where(v, T) = {} => Where(s \o v, T) = Where(s, T)
         /\ Where(s, T) = {} /\ JustOne(Where(v, T)) => JustOne(Where(s \o v, T))
<1> DEFINE r == s \o v
           m == Len(s)
           n == Len(v)
<1>1. /\ m \in Nat /\ n \in Nat /\ Len(r) = m + n
      /\ \A a \in 1 .. m + n : r[a] = IF a <= m THEN s[a] ELSE v[a - m]
  BY LenProperties, ConcatProperties
<1> HIDE DEF r, m, n
<1>2. /\ Where(s, T) = {i \in 1 .. m : s[i] \in T} /\ Where(v, T) = {i \in 1 .. n : v[i] \in T}
      /\ Where(r, T) = {i \in 1 .. m + n : r[i] \in T}
  BY <1>1 DEF Where, m, n
<1>3. /\ \A a \in Where(r, T) : a \in Nat /\ (a \in Where(s, T) \/ a - m \in Where(v, T))
      /\ \A a \in Where(s, T) : a \in Where(r, T)
      /\ \A a \in Where(v, T) : m + a \in Where(r, T) /\ a \in Nat
  BY <1>1, <1>2
<1>4. Where(v, T) = {} => Where(r, T) = Where(s, T)
  BY <1>3
<1>5. ASSUME Where(s, T) = {}, JustOne(Where(v, T)) PROVE JustOne(Where(r, T))
  <2>1. PICK x : Where(v, T) = {x}
    BY <1>5 DEF JustOne
  <2>2. x \in Nat /\ m + x \in Where(r, T)
    BY <1>3, <2>1
  <2>3. \A a \in Where(r, T) : a = m + x
    BY <1>1, <1>3, <1>5, <2>1, <2>2
  <2>4. Where(r, T) = {m + x}
    BY <2>2, <2>3
  <2>5. QED
    BY <2>4 DEF JustOne
<1>6. QED
  BY <1>4, <1>5 DEF r

(* One more waits for a receipt, and those who wait for one are told.              *)
Waiters(f) == DOMAIN f \in SUBSET Nat /\ (\A s \in DOMAIN f : f[s] \in Nat) /\ IsFiniteSet(Tickets(f))
LEMMA OneMoreTicket ==
  ASSUME NEW f, Waiters(f), NEW g, NEW r \in Nat, DOMAIN g = DOMAIN f \cup {r},
         \A s \in DOMAIN f : s # r => g[s] = f[s],
         g[r] = IF r \in DOMAIN f THEN f[r] + 1 ELSE 1
  PROVE  /\ Waiters(g) /\ Cardinality(Tickets(f)) \in Nat
         /\ Cardinality(Tickets(g)) = Cardinality(Tickets(f)) + 1
<1>1. g[r] \in Nat /\ \A s \in DOMAIN g : g[s] \in Nat
  BY DEF Waiters
<1> DEFINE t == <<r, g[r]>>
<1>2. Tickets(g) = Tickets(f) \cup {t} /\ t \notin Tickets(f)
  <2>1. ASSUME NEW s \in Nat \X Nat
        PROVE  s \in Tickets(g) <=> s \in Tickets(f) \/ s = t
    <3>1. PICK a \in Nat, c \in Nat : s = <<a, c>>
      OBVIOUS
    <3>2. CASE a = r
      <4>1. s \in Tickets(g) <=> c \in 1 .. g[r]
        BY <3>1, <3>2 DEF Tickets
      <4>2. s \in Tickets(f) <=> r \in DOMAIN f /\ c \in 1 .. f[r]
        BY <3>1, <3>2 DEF Tickets
      <4>3. s = t <=> c = g[r]
        BY <3>1, <3>2
      <4>4. CASE r \in DOMAIN f
        <5>1. g[r] = f[r] + 1 /\ f[r] \in Nat
          BY <4>4 DEF Waiters
        <5>2. QED
          BY <4>1, <4>2, <4>3, <4>4, <5>1
      <4>5. CASE r \notin DOMAIN f
        BY <4>1, <4>2, <4>3, <4>5
      <4>6. QED
        BY <4>4, <4>5
    <3>3. CASE a # r
      <4>1. (s \in Tickets(g) <=> a \in DOMAIN g /\ c \in 1 .. g[a])
            /\ (s \in Tickets(f) <=> a \in DOMAIN f /\ c \in 1 .. f[a]) /\ s # t
        BY <3>1, <3>3 DEF Tickets
      <4>2. QED
        BY <3>3, <4>1
    <3>4. QED
      BY <3>2, <3>3
  <2>2. t \notin Tickets(f)
    <3>1. t \in Tickets(f) => r \in DOMAIN f /\ g[r] \in 1 .. f[r]
      BY DEF Tickets
    <3>2. r \in DOMAIN f => g[r] = f[r] + 1 /\ f[r] \in Nat
      BY DEF Waiters
    <3>3. QED
      BY <3>1, <3>2
  <2>3. t \in Nat \X Nat /\ Tickets(g) \in SUBSET (Nat \X Nat) /\ Tickets(f) \in SUBSET (Nat \X Nat)
    BY <1>1 DEF Tickets
  <2> HIDE DEF t
  <2>4. QED
    BY <2>1, <2>2, <2>3
<1> HIDE DEF t
<1>3. IsFiniteSet(Tickets(f))
  BY DEF Waiters
<1>4. /\ IsFiniteSet(Tickets(f) \cup {t}) /\ Cardinality(Tickets(f)) \in Nat
      /\ Cardinality(Tickets(f) \cup {t}) = IF t \in Tickets(f) THEN Cardinality(Tickets(f)) ELSE Cardinality(Tickets(f)) + 1
  BY <1>3, FS_AddElement, FS_CardinalityType
<1>5. DOMAIN g \in SUBSET Nat
  BY DEF Waiters
<1>6. QED
  BY <1>1, <1>2, <1>4, <1>5 DEF Waiters

LEMMA AllTold ==
  ASSUME NEW f, Waiters(f), NEW g, NEW r \in DOMAIN f, DOMAIN g = DOMAIN f \ {r},
         \A s \in DOMAIN g : g[s] = f[s]
  PROVE  /\ Waiters(g) /\ Cardinality(Tickets(f)) \in Nat
         /\ Cardinality(Tickets(f)) = Cardinality(Tickets(g)) + f[r]
         /\ Cardinality(Tickets(g)) \in Nat
<1> DEFINE m == f[r]
           row == {r} \X (1 .. m)
<1>1. r \in Nat /\ m \in Nat /\ IsFiniteSet(Tickets(f)) /\ \A s \in DOMAIN g : g[s] \in Nat
  BY DEF Waiters
<1> HIDE DEF m
<1>2. Tickets(g) = Tickets(f) \ row
  <2>1. ASSUME NEW s \in Nat \X Nat
        PROVE  s \in Tickets(g) <=> s \in Tickets(f) /\ s \notin row
    <3>1. PICK a \in Nat, c \in Nat : s = <<a, c>>
      OBVIOUS
    <3>2. /\ s \in Tickets(g) <=> a \in DOMAIN g /\ c \in 1 .. g[a]
          /\ s \in Tickets(f) <=> a \in DOMAIN f /\ c \in 1 .. f[a]
          /\ s \in row <=> a = r /\ c \in 1 .. m
      BY <3>1 DEF Tickets
    <3>3. CASE a = r
      BY <3>2, <3>3 DEF m
    <3>4. CASE a # r
      BY <3>2, <3>4
    <3>5. QED
      BY <3>3, <3>4
  <2>2. Tickets(g) \in SUBSET (Nat \X Nat) /\ Tickets(f) \in SUBSET (Nat \X Nat)
    BY DEF Tickets
  <2>3. QED
    BY <2>1, <2>2
<1>3. row \in SUBSET Tickets(f)
  BY <1>1 DEF Tickets, m
<1>4. IsFiniteSet(row) /\ Cardinality(row) = m
  <2> DEFINE T == 1 .. m
             pair == [c \in T |-> <<r, c>>]
  <2>1. IsFiniteSet(T) /\ Cardinality(T) = m
    BY <1>1, FS_Interval
  <2>2. pair \in Bijection(T, row)
    <3>1. pair \in [T -> row] /\ \A c \in T : pair[c] = <<r, c>>
      OBVIOUS
    <3>2. \A t \in row : \E c \in T : t = <<r, c>>
      OBVIOUS
    <3> HIDE DEF pair, T, row
    <3>3. pair \in Surjection(T, row)
      BY <3>1, <3>2 DEF Surjection
    <3>4. IsInjective(pair)
      BY <3>1 DEF IsInjective
    <3>5. pair \in Injection(T, row)
      BY <3>1, <3>4 DEF Injection
    <3>6. QED
      BY <3>3, <3>5 DEF Bijection
  <2>3. ExistsBijection(T, row)
    BY <2>2 DEF ExistsBijection
  <2> HIDE DEF T, row
  <2>4. QED
    BY <2>1, <2>3, FS_Bijection
<1> HIDE DEF row
<1>5. Tickets(f) \cap row = row
  BY <1>3
<1>6. /\ IsFiniteSet(Tickets(f) \ row)
      /\ Cardinality(Tickets(f) \ row) = Cardinality(Tickets(f)) - Cardinality(Tickets(f) \cap row)
  BY <1>1, FS_Difference
<1>7. Cardinality(Tickets(f)) \in Nat /\ Cardinality(Tickets(g)) \in Nat /\ IsFiniteSet(Tickets(g))
  BY <1>1, <1>2, <1>6, FS_CardinalityType
<1>8. Cardinality(Tickets(f)) = Cardinality(Tickets(g)) + m
  <2>1. Cardinality(Tickets(g)) = Cardinality(Tickets(f)) - m
    BY <1>2, <1>4, <1>5, <1>6
  <2> HIDE DEF row
  <2>2. QED
    BY <1>1, <1>7, <2>1
<1>9. DOMAIN g \in SUBSET Nat
  BY DEF Waiters
<1>10. QED
  BY <1>1, <1>7, <1>8, <1>9 DEF Waiters, m

LEMMA FrameTyped ==
  ASSUME NEW c \in {"CONNECT", "SUBSCRIBE", "UNSUBSCRIBE", "SEND", "ACK", "NACK", "DISCONNECT",
                    "CONNECTED", "MESSAGE", "RECEIPT", "ERROR"},
         NEW i \in Nat, NEW d \in Places, NEW r \in Nat
  PROVE  LET f == Bridge!Frame(c, i, d, r)
         IN  f \in StompFrames /\ f.command = c /\ f.id = i /\ f.dest = d /\ f.receipt = r
BY DEF Bridge!Frame, StompFrames

LEMMA HandlersChange ==
  ASSUME NEW f, f \in [DOMAIN f -> Shares], NEW i \in DOMAIN f, NEW H \in SUBSET Handlers
  PROVE  LET g == [f EXCEPT ![i].handlers = H]
         IN  /\ g \in [DOMAIN f -> Shares] /\ DOMAIN g = DOMAIN f
             /\ \A j \in DOMAIN f : /\ g[j].dest = f[j].dest
                                    /\ g[j].handlers = IF j = i THEN H ELSE f[j].handlers
<1> DEFINE e == [f[i] EXCEPT !.handlers = H]
           g == [f EXCEPT ![i] = e]
<1>1. f[i] \in Shares
  OBVIOUS
<1>2. e \in Shares /\ e.dest = f[i].dest /\ e.handlers = H
  BY <1>1 DEF Shares
<1>3. [f EXCEPT ![i].handlers = H] = g
  OBVIOUS
<1> HIDE DEF e
<1>4. DOMAIN g = DOMAIN f /\ \A j \in DOMAIN f : g[j] = IF j = i THEN e ELSE f[j]
  OBVIOUS
<1>5. g \in [DOMAIN f -> Shares]
  BY <1>2, <1>4
<1> HIDE DEF g
<1>6. \A j \in DOMAIN f : /\ g[j].dest = f[j].dest
                          /\ g[j].handlers = IF j = i THEN H ELSE f[j].handlers
  BY <1>2, <1>4
<1>7. QED
  BY <1>3, <1>4, <1>5, <1>6

LEMMA StandsWaits ==
  ASSUME Stands
  PROVE  Waiters(receipts) /\ Cardinality(Tickets(receipts)) \in Nat
<1>1. DOMAIN receipts \in SUBSET Nat /\ \A r \in DOMAIN receipts : receipts[r] \in Nat
  BY DEF Stands, BridgeTypes
<1>2. IsFiniteSet(Tickets(receipts))
  BY DEF Stands, Billed
<1>3. QED
  BY <1>1, <1>2, FS_CardinalityType DEF Waiters

(* Of a destination that has a subscription.                                       *)
LEMMA HasOne ==
  ASSUME Stands, NEW d \in Destinations, destinations[d] # 0
  PROVE  LET id == destinations[d]
         IN  /\ id \in DOMAIN subscriptions /\ id \in Nat /\ id \in 1 .. counter
             /\ subscriptions[id] \in Shares /\ subscriptions[id].dest = d
             /\ subscriptions[id].receipt \in Nat /\ subscriptions[id].handlers \in SUBSET Handlers
             /\ subscriptions \in [DOMAIN subscriptions -> Shares]
<1>1. /\ destinations[d] \in DOMAIN subscriptions /\ subscriptions[destinations[d]].dest = d
      /\ subscriptions \in [DOMAIN subscriptions -> Shares]
      /\ DOMAIN subscriptions \in SUBSET (1 .. counter) /\ counter \in Nat
  BY DEF Stands, Linked, BridgeTypes
<1>2. subscriptions[destinations[d]] \in Shares
  BY <1>1
<1>3. QED
  BY <1>1, <1>2 DEF Shares

(* While its handlers change a subscription stays what the server knows of it.      *)
LEMMA HandlersChanged ==
  ASSUME Stands, NEW i \in DOMAIN subscriptions, NEW H \in SUBSET Handlers, H # {},
         subscriptions' = [subscriptions EXCEPT ![i].handlers = H],
         destinations' = destinations
  PROVE  /\ subscriptions' \in [DOMAIN subscriptions' -> Shares] /\ DOMAIN subscriptions' = DOMAIN subscriptions
         /\ Linked' /\ Shared' = Shared
<1>1. subscriptions \in [DOMAIN subscriptions -> Shares] /\ Linked
  BY DEF Stands, BridgeTypes
<1>2. /\ subscriptions' \in [DOMAIN subscriptions -> Shares] /\ DOMAIN subscriptions' = DOMAIN subscriptions
      /\ \A j \in DOMAIN subscriptions :
           /\ subscriptions'[j].dest = subscriptions[j].dest
           /\ subscriptions'[j].handlers = IF j = i THEN H ELSE subscriptions[j].handlers
  BY <1>1, HandlersChange
<1>3. Linked'
  BY <1>1, <1>2 DEF Linked
<1>4. Shared' = Shared
  <2>1. Shared' = {<<j, subscriptions'[j].dest>> : j \in DOMAIN subscriptions}
    BY <1>2 DEF Shared
  <2>2. QED
    BY <1>2, <2>1 DEF Shared
<1>5. QED
  BY <1>2, <1>3, <1>4

LEMMA AgainStands ==
  ASSUME SendsAssumed, Stands, NEW d \in Destinations, NEW x \in Handlers, Bridge!SubscribeAgain(d, x)
  PROVE  /\ Stands' /\ Shared' = Shared /\ DOMAIN receipts' = DOMAIN receipts
<1> DEFINE id == destinations[d]
           r == subscriptions[id].receipt
           H == subscriptions[id].handlers \cup {x}
<1>1. /\ id # 0 /\ calls' = calls + 1 /\ ~destroyed
      /\ subscriptions' = [subscriptions EXCEPT ![id].handlers = H]
      /\ IF r \in DOMAIN receipts
         THEN receipts' = [receipts EXCEPT ![r] = @ + 1] /\ notices' = notices
         ELSE notices' = notices + 1 /\ receipts' = receipts
      /\ UNCHANGED <<ready, destinations, counter, out, in, server, sends, acks, premature, destroyed>>
  BY DEF Bridge!SubscribeAgain, Bridge!Join
<1>2. id \in DOMAIN subscriptions /\ H \in SUBSET Handlers /\ H # {} /\ r \in Nat
  BY <1>1, HasOne
<1> HIDE DEF H
<1>3. /\ subscriptions' \in [DOMAIN subscriptions' -> Shares] /\ DOMAIN subscriptions' = DOMAIN subscriptions
      /\ Linked' /\ Shared' = Shared
  BY <1>1, <1>2, HandlersChanged
<1>4. Waiters(receipts) /\ Cardinality(Tickets(receipts)) \in Nat
  BY StandsWaits
<1> HIDE DEF r, id
<1>5. calls \in Nat /\ notices \in Nat /\ calls = notices + Cardinality(Tickets(receipts))
  BY <1>1 DEF Stands, BridgeTypes, Billed
<1>6. /\ DOMAIN receipts' = DOMAIN receipts /\ receipts' \in [DOMAIN receipts' -> Nat]
      /\ Billed' /\ notices' \in Nat
  <2>1. CASE r \in DOMAIN receipts
    <3>1. receipts' = [receipts EXCEPT ![r] = receipts[r] + 1] /\ notices' = notices
      BY <1>1, <2>1
    <3>2. /\ DOMAIN receipts' = DOMAIN receipts /\ DOMAIN receipts' = DOMAIN receipts \cup {r}
          /\ receipts'[r] = receipts[r] + 1
          /\ \A s \in DOMAIN receipts : s # r => receipts'[s] = receipts[s]
      BY <2>1, <3>1
    <3>3. receipts' \in [DOMAIN receipts' -> Nat]
      BY <1>4, <2>1, <3>1 DEF Waiters, Stands, BridgeTypes
    <3>4. Waiters(receipts') /\ Cardinality(Tickets(receipts')) = Cardinality(Tickets(receipts)) + 1
      BY <1>2, <1>4, <2>1, <3>2, OneMoreTicket
    <3>5. calls' = notices' + Cardinality(Tickets(receipts'))
      BY <1>1, <1>4, <1>5, <3>1, <3>4
    <3>6. QED
      BY <1>5, <3>1, <3>2, <3>3, <3>4, <3>5 DEF Billed, Waiters
  <2>2. CASE r \notin DOMAIN receipts
    <3>1. receipts' = receipts /\ notices' = notices + 1
      BY <1>1, <2>2
    <3>2. calls' = notices' + Cardinality(Tickets(receipts'))
      BY <1>1, <1>4, <1>5, <3>1
    <3>3. QED
      BY <1>1, <1>5, <3>1, <3>2 DEF Stands, Billed, BridgeTypes
  <2>3. QED
    BY <2>1, <2>2
<1>7. BridgeTypes'
  <2>1. BridgeTypes
    BY DEF Stands
  <2>2. /\ calls' \in Nat /\ DOMAIN receipts' \in SUBSET (1 .. counter')
        /\ DOMAIN subscriptions' \in SUBSET (1 .. counter')
    BY <1>1, <1>3, <1>5, <1>6, <2>1 DEF BridgeTypes
  <2>3. UNCHANGED <<ready, destinations, counter, out, in, server, sends, acks, premature, destroyed>>
    BY <1>1
  <2>4. subscriptions' \in [DOMAIN subscriptions' -> Shares]
    BY <1>3
  <2>5. QED
    BY ONLY <1>6, <2>1, <2>2, <2>3, <2>4 DEF BridgeTypes
<1>8. QED
  BY <1>3, <1>6, <1>7 DEF Stands

LEMMA LastsSame ==
  ASSUME Lasts, UNCHANGED <<ready, out, in, server, sends, acks>>, Shared' = Shared,
         DOMAIN receipts' = DOMAIN receipts
  PROVE  Lasts'
<1>1. Opening' /\ Owed'
  BY DEF Lasts, Opening, Owed
<1>2. InStep'
  BY ComingIsHeard DEF Lasts, InStep
<1>3. Counted'
  BY DEF Lasts, Counted, Placed
<1>4. QED
  BY <1>1, <1>2, <1>3 DEF Lasts

LEMMA AgainKept ==
  ASSUME SendsAssumed, BridgeInv, NEW d \in Destinations, NEW x \in Handlers, Bridge!SubscribeAgain(d, x)
  PROVE  BridgeInv'
<1>1. Stands' /\ Shared' = Shared /\ DOMAIN receipts' = DOMAIN receipts
  BY AgainStands DEF BridgeInv
<1>2. UNCHANGED <<ready, out, in, server, sends, acks, premature, destroyed>>
  BY DEF Bridge!SubscribeAgain
<1>3. Bridge!Lasting' => Lasts'
  BY <1>1, <1>2, LastsSame DEF Bridge!Lasting, BridgeInv
<1>4. QED
  BY <1>1, <1>3 DEF BridgeInv

LEMMA SomeKept ==
  ASSUME SendsAssumed, BridgeInv, NEW d \in Destinations, NEW x \in Handlers, Bridge!UnsubscribeSome(d, x)
  PROVE  BridgeInv'
<1> DEFINE id == destinations[d]
           H == subscriptions[id].handlers \ {x}
<1>1. /\ id # 0 /\ calls' = calls + 1 /\ notices' = notices + 1 /\ ~destroyed /\ H # {}
      /\ subscriptions' = [subscriptions EXCEPT ![id].handlers = H]
      /\ UNCHANGED <<ready, destinations, receipts, counter, out, in, server, sends, acks, premature, destroyed>>
  BY DEF Bridge!UnsubscribeSome
<1>2. Stands
  BY DEF BridgeInv
<1>3. id \in DOMAIN subscriptions /\ H \in SUBSET Handlers
  BY <1>1, <1>2, HasOne
<1> HIDE DEF H
<1>4. /\ subscriptions' \in [DOMAIN subscriptions' -> Shares] /\ DOMAIN subscriptions' = DOMAIN subscriptions
      /\ Linked' /\ Shared' = Shared
  BY <1>1, <1>2, <1>3, HandlersChanged
<1> HIDE DEF id
<1>5. BridgeTypes'
  BY <1>1, <1>2, <1>4 DEF Stands, BridgeTypes
<1>6. Billed'
  <2>1. calls \in Nat /\ notices \in Nat /\ calls = notices + Cardinality(Tickets(receipts)) /\ Waiters(receipts)
    BY <1>1, <1>2, StandsWaits DEF Stands, BridgeTypes, Billed
  <2>2. Cardinality(Tickets(receipts)) \in Nat
    BY <1>2, StandsWaits
  <2>3. calls' = notices' + Cardinality(Tickets(receipts'))
    BY <1>1, <2>1, <2>2
  <2>4. QED
    BY <1>1, <2>1, <2>3 DEF Billed, Waiters
<1>7. Bridge!Lasting' => Lasts'
  BY <1>1, <1>4, LastsSame DEF Bridge!Lasting, BridgeInv
<1>8. QED
  BY <1>4, <1>5, <1>6, <1>7 DEF BridgeInv, Stands

(* A frame goes out while the connection lasts and is open.                        *)
LEMMA FrameSent ==
  ASSUME Stands, Lasts, ready, NEW f \in StompFrames, out' = Append(out, f),
         f.command \notin {"ACK", "NACK"}, UNCHANGED <<ready, in, server, sends, acks>>,
         Shared' = Hears(Shared, f),
         \A r \in DOMAIN receipts' : r \in DOMAIN receipts \/ (Asking(f) /\ f.receipt = r)
  PROVE  Lasts'
<1>1. out \in Seq(StompFrames) /\ server.subs \in Regions
  BY DEF Stands, BridgeTypes, Regions
<1>2. Elements(out') = Elements(out) \cup {f}
  BY <1>1, Appended
<1>3. Opening'
  BY DEF Lasts, Opening
<1>4. Owed'
  BY <1>2 DEF Lasts, Owed
<1>5. InStep'
  <2>1. Heard(server.subs, out') = Hears(Heard(server.subs, out), f)
    BY <1>1, HeardAppended
  <2>2. QED
    BY <2>1, ComingIsHeard DEF Lasts, InStep
<1>6. Counted'
  <2>1. ASSUME NEW n \in 1 .. sends PROVE Where(out', AnswersTo(n)) = Where(out, AnswersTo(n))
    <3>1. f \notin AnswersTo(n)
      BY DEF AnswersTo
    <3>2. QED
      BY <1>1, <3>1, WhereAppended
  <2>2. \A n \in 1 .. sends' : Placed(n)'
    BY <2>1 DEF Lasts, Counted, Placed
  <2>3. QED
    BY <1>2, <2>2 DEF Lasts, Counted
<1>7. QED
  BY <1>3, <1>4, <1>5, <1>6 DEF Lasts

LEMMA FirstKept ==
  ASSUME SendsAssumed, BridgeInv, NEW d \in Destinations, NEW x \in Handlers, Bridge!SubscribeFirst(d, x)
  PROVE  BridgeInv'
<1> DEFINE id == counter + 1
           r == counter + 2
           f == Bridge!Frame("SUBSCRIBE", id, d, r)
           new == [dest |-> d, handlers |-> {x}, receipt |-> r]
<1>1. /\ ~destroyed /\ destinations[d] = 0 /\ counter' = counter + 2 /\ calls' = calls + 1
      /\ destinations' = [destinations EXCEPT ![d] = id]
      /\ subscriptions' = Bridge!Put(subscriptions, id, new)
      /\ receipts' = Bridge!Put(receipts, r, 1)
      /\ out' = IF ready THEN Append(out, f) ELSE out
      /\ premature' = (premature \/ ~ready)
      /\ UNCHANGED <<ready, in, server, sends, acks, notices, destroyed>>
  BY DEF Bridge!SubscribeFirst, Bridge!SendCommand
<1>2. Stands
  BY DEF BridgeInv
<1>3. /\ counter \in Nat /\ id \in Nat /\ r \in Nat /\ DOMAIN subscriptions \in SUBSET (1 .. counter)
      /\ DOMAIN receipts \in SUBSET (1 .. counter) /\ id \notin DOMAIN subscriptions /\ r \notin DOMAIN receipts
      /\ subscriptions \in [DOMAIN subscriptions -> Shares] /\ receipts \in [DOMAIN receipts -> Nat]
      /\ id \in 1 .. counter + 2 /\ r \in 1 .. counter + 2
  BY <1>2 DEF Stands, BridgeTypes
<1>4. f \in StompFrames /\ f.command = "SUBSCRIBE" /\ f.id = id /\ f.dest = d /\ f.receipt = r
  BY <1>3, FrameTyped DEF Places
<1>5. new \in Shares /\ new.dest = d /\ new.handlers # {}
  BY <1>3 DEF Shares
<1> HIDE DEF f, new
<1>6. /\ DOMAIN subscriptions' = DOMAIN subscriptions \cup {id} /\ subscriptions'[id] = new
      /\ \A j \in DOMAIN subscriptions : subscriptions'[j] = subscriptions[j]
      /\ subscriptions' \in [DOMAIN subscriptions' -> Shares]
  BY <1>1, <1>3, <1>5 DEF Bridge!Put
<1>7. /\ DOMAIN receipts' = DOMAIN receipts \cup {r} /\ receipts'[r] = 1
      /\ \A s \in DOMAIN receipts : receipts'[s] = receipts[s]
      /\ receipts' \in [DOMAIN receipts' -> Nat]
  BY <1>1, <1>3 DEF Bridge!Put
<1>8. out' \in Seq(StompFrames)
  BY <1>1, <1>2, <1>4, Appended DEF Stands, BridgeTypes
<1>9. destinations' \in [Destinations -> Nat] /\ \A c \in Destinations : destinations'[c] = IF c = d THEN id ELSE destinations[c]
  BY <1>1, <1>2, <1>3 DEF Stands, BridgeTypes
<1>10. DOMAIN subscriptions' \in SUBSET (1 .. counter') /\ DOMAIN receipts' \in SUBSET (1 .. counter')
  <2>1. 1 .. counter \in SUBSET (1 .. counter + 2)
    BY <1>3
  <2>2. QED
    BY <1>1, <1>3, <1>6, <1>7, <2>1
<1>11. BridgeTypes'
  <2>1. premature' \in BOOLEAN /\ counter' \in Nat /\ calls' \in Nat
    BY <1>1, <1>2, <1>3 DEF Stands, BridgeTypes
  <2>2. QED
    BY <1>1, <1>2, <1>6, <1>7, <1>8, <1>9, <1>10, <2>1 DEF Stands, BridgeTypes
<1>12. Linked'
  <2>1. Linked /\ \A j \in DOMAIN subscriptions : subscriptions[j].dest \in Destinations
    BY <1>2, <1>3 DEF Stands, Shares
  <2>2. ASSUME NEW j \in DOMAIN subscriptions'
        PROVE  destinations'[subscriptions'[j].dest] = j /\ subscriptions'[j].handlers # {}
    <3>1. CASE j = id
      BY <1>5, <1>6, <1>9, <3>1
    <3>2. CASE j # id
      <4>1. /\ j \in DOMAIN subscriptions /\ subscriptions'[j] = subscriptions[j]
            /\ destinations[subscriptions[j].dest] = j /\ subscriptions[j].handlers # {}
            /\ subscriptions[j].dest \in Destinations /\ j # 0
        BY <1>3, <1>6, <2>1, <3>2 DEF Linked
      <4>2. QED
        BY <1>1, <1>9, <4>1
    <3>3. QED
      BY <3>1, <3>2
  <2>3. ASSUME NEW c \in Destinations, destinations'[c] # 0
        PROVE  destinations'[c] \in DOMAIN subscriptions' /\ subscriptions'[destinations'[c]].dest = c
    BY <1>5, <1>6, <1>9, <2>1, <2>3 DEF Linked
  <2>4. QED
    BY <2>2, <2>3 DEF Linked
<1>13. Billed'
  <2>1. Waiters(receipts) /\ Cardinality(Tickets(receipts)) \in Nat
    BY <1>2, StandsWaits
  <2>2. Waiters(receipts') /\ Cardinality(Tickets(receipts')) = Cardinality(Tickets(receipts)) + 1
    BY <1>3, <1>7, <2>1, OneMoreTicket
  <2>3. calls \in Nat /\ notices \in Nat /\ calls = notices + Cardinality(Tickets(receipts))
    BY <1>1, <1>2 DEF Stands, BridgeTypes, Billed
  <2>4. calls' = notices' + Cardinality(Tickets(receipts'))
    BY <1>1, <2>1, <2>2, <2>3
  <2>5. QED
    BY <2>2, <2>4 DEF Billed, Waiters
<1>14. ASSUME Bridge!Lasting' PROVE Lasts'
  <2>1. Lasts /\ ready
    BY <1>1, <1>14 DEF Bridge!Lasting, BridgeInv
  <2>2. Shared' = Hears(Shared, f)
    <3>1. Shared' = {<<j, subscriptions'[j].dest>> : j \in DOMAIN subscriptions'}
      BY DEF Shared
    <3>2. Shared' = Shared \cup {<<id, d>>}
      BY <1>5, <1>6, <3>1 DEF Shared
    <3>3. QED
      BY <1>4, <3>2 DEF Hears
  <2>3. Asking(f) /\ out' = Append(out, f) /\ f.command \notin {"ACK", "NACK"}
    BY <1>1, <1>4, <2>1 DEF Asking
  <2>4. \A s \in DOMAIN receipts' : s \in DOMAIN receipts \/ (Asking(f) /\ f.receipt = s)
    BY <1>4, <1>7, <2>3
  <2>5. QED
    BY <1>1, <1>2, <1>4, <2>1, <2>2, <2>3, <2>4, FrameSent
<1>15. QED
  BY <1>11, <1>12, <1>13, <1>14 DEF BridgeInv, Stands

LEMMA LastKept ==
  ASSUME SendsAssumed, BridgeInv, NEW d \in Destinations, NEW x \in Handlers, Bridge!UnsubscribeLast(d, x)
  PROVE  BridgeInv'
<1> DEFINE id == destinations[d]
           r == counter + 1
           f == Bridge!Frame("UNSUBSCRIBE", id, d, r)
<1>1. /\ ~destroyed /\ id # 0 /\ counter' = counter + 1 /\ calls' = calls + 1
      /\ destinations' = [destinations EXCEPT ![d] = 0]
      /\ subscriptions' = Bridge!Without(subscriptions, id)
      /\ receipts' = Bridge!Put(receipts, r, 1)
      /\ out' = IF ready THEN Append(out, f) ELSE out
      /\ premature' = (premature \/ ~ready)
      /\ UNCHANGED <<ready, in, server, sends, acks, notices, destroyed>>
  BY DEF Bridge!UnsubscribeLast, Bridge!SendCommand
<1>2. Stands
  BY DEF BridgeInv
<1>3. /\ counter \in Nat /\ r \in Nat /\ DOMAIN subscriptions \in SUBSET (1 .. counter)
      /\ DOMAIN receipts \in SUBSET (1 .. counter) /\ r \notin DOMAIN receipts
      /\ receipts \in [DOMAIN receipts -> Nat] /\ r \in 1 .. counter + 1
  BY <1>2 DEF Stands, BridgeTypes
<1>4. id \in DOMAIN subscriptions /\ id \in Nat /\ subscriptions \in [DOMAIN subscriptions -> Shares]
  BY <1>1, <1>2, HasOne
<1>5. f \in StompFrames /\ f.command = "UNSUBSCRIBE" /\ f.id = id /\ f.receipt = r
  BY <1>3, <1>4, FrameTyped DEF Places
<1> HIDE DEF f
<1>6. /\ DOMAIN subscriptions' = DOMAIN subscriptions \ {id}
      /\ \A j \in DOMAIN subscriptions' : subscriptions'[j] = subscriptions[j]
      /\ subscriptions' \in [DOMAIN subscriptions' -> Shares]
  BY <1>1, <1>4 DEF Bridge!Without
<1>7. /\ DOMAIN receipts' = DOMAIN receipts \cup {r} /\ receipts'[r] = 1
      /\ \A s \in DOMAIN receipts : receipts'[s] = receipts[s]
      /\ receipts' \in [DOMAIN receipts' -> Nat]
  BY <1>1, <1>3 DEF Bridge!Put
<1>8. out' \in Seq(StompFrames)
  BY <1>1, <1>2, <1>5, Appended DEF Stands, BridgeTypes
<1>9. destinations' \in [Destinations -> Nat] /\ \A c \in Destinations : destinations'[c] = IF c = d THEN 0 ELSE destinations[c]
  BY <1>1, <1>2 DEF Stands, BridgeTypes
<1>10. DOMAIN subscriptions' \in SUBSET (1 .. counter') /\ DOMAIN receipts' \in SUBSET (1 .. counter')
  <2>1. 1 .. counter \in SUBSET (1 .. counter + 1)
    BY <1>3
  <2>2. QED
    BY <1>1, <1>3, <1>6, <1>7, <2>1
<1>11. BridgeTypes'
  <2>1. premature' \in BOOLEAN /\ counter' \in Nat /\ calls' \in Nat
    BY <1>1, <1>2, <1>3 DEF Stands, BridgeTypes
  <2>2. QED
    BY <1>1, <1>2, <1>6, <1>7, <1>8, <1>9, <1>10, <2>1 DEF Stands, BridgeTypes
<1>12. Linked /\ \A j \in DOMAIN subscriptions : subscriptions[j].dest \in Destinations
  BY <1>2, <1>4 DEF Stands, Shares
<1>13. Linked'
  <2>1. ASSUME NEW j \in DOMAIN subscriptions'
        PROVE  destinations'[subscriptions'[j].dest] = j /\ subscriptions'[j].handlers # {}
    <3>1. /\ j \in DOMAIN subscriptions /\ subscriptions'[j] = subscriptions[j] /\ j # id
          /\ destinations[subscriptions[j].dest] = j /\ subscriptions[j].handlers # {}
          /\ subscriptions[j].dest \in Destinations
      BY <1>6, <1>12 DEF Linked
    <3>2. QED
      BY <1>9, <3>1
  <2>2. ASSUME NEW c \in Destinations, destinations'[c] # 0
        PROVE  destinations'[c] \in DOMAIN subscriptions' /\ subscriptions'[destinations'[c]].dest = c
    <3>1. c # d /\ destinations'[c] = destinations[c]
      BY <1>9, <2>2
    <3>2. destinations[c] \in DOMAIN subscriptions /\ subscriptions[destinations[c]].dest = c
      BY <1>12, <2>2, <3>1 DEF Linked
    <3>3. subscriptions[id].dest = d
      BY <1>1, <1>12 DEF Linked
    <3>4. QED
      BY <1>6, <3>1, <3>2, <3>3
  <2>3. QED
    BY <2>1, <2>2 DEF Linked
<1>14. Billed'
  <2>1. Waiters(receipts) /\ Cardinality(Tickets(receipts)) \in Nat
    BY <1>2, StandsWaits
  <2>2. Waiters(receipts') /\ Cardinality(Tickets(receipts')) = Cardinality(Tickets(receipts)) + 1
    BY <1>3, <1>7, <2>1, OneMoreTicket
  <2>3. calls \in Nat /\ notices \in Nat /\ calls = notices + Cardinality(Tickets(receipts))
    BY <1>1, <1>2 DEF Stands, BridgeTypes, Billed
  <2>4. calls' = notices' + Cardinality(Tickets(receipts'))
    BY <1>1, <2>1, <2>2, <2>3
  <2>5. QED
    BY <2>2, <2>4 DEF Billed, Waiters
<1>15. ASSUME Bridge!Lasting' PROVE Lasts'
  <2>1. Lasts /\ ready
    BY <1>1, <1>15 DEF Bridge!Lasting, BridgeInv
  <2>2. Shared' = Hears(Shared, f)
    <3>1. Shared' = {<<j, subscriptions'[j].dest>> : j \in DOMAIN subscriptions'}
      BY DEF Shared
    <3>2. Shared' = {<<j, subscriptions[j].dest>> : j \in DOMAIN subscriptions \ {id}}
      BY <1>6, <3>1
    <3>3. Shared' = {s \in Shared : s[1] # id}
      BY <3>2 DEF Shared
    <3>4. QED
      BY <1>5, <3>3 DEF Hears
  <2>3. Asking(f) /\ out' = Append(out, f) /\ f.command \notin {"ACK", "NACK"}
    BY <1>1, <1>5, <2>1 DEF Asking
  <2>4. \A s \in DOMAIN receipts' : s \in DOMAIN receipts \/ (Asking(f) /\ f.receipt = s)
    BY <1>5, <1>7, <2>3
  <2>5. QED
    BY <1>1, <1>2, <1>5, <2>1, <2>2, <2>3, <2>4, FrameSent
<1>16. QED
  BY <1>11, <1>13, <1>14, <1>15 DEF BridgeInv, Stands

LEMMA DispatchKept ==
  ASSUME SendsAssumed, BridgeInv, NEW d \in Destinations, Bridge!Dispatch(d)
  PROVE  BridgeInv'
<1> DEFINE f == Bridge!Frame("SEND", 0, d, 0)
<1>1. /\ ~destroyed /\ ready /\ out' = Append(out, f)
      /\ UNCHANGED <<ready, subscriptions, destinations, receipts, counter, in, server>>
      /\ UNCHANGED <<sends, acks, calls, notices, premature, destroyed>>
  BY DEF Bridge!Dispatch, Bridge!local, Bridge!history
<1>2. f \in StompFrames /\ f.command = "SEND"
  BY FrameTyped DEF Places
<1> HIDE DEF f
<1>3. Stands
  BY DEF BridgeInv
<1>4. Stands'
  <2>1. out' \in Seq(StompFrames)
    BY <1>1, <1>2, <1>3, Appended DEF Stands, BridgeTypes
  <2>2. BridgeTypes'
    BY <1>1, <1>3, <2>1 DEF Stands, BridgeTypes
  <2>3. Linked' /\ Billed'
    BY <1>1, <1>3 DEF Stands, Linked, Billed
  <2>4. QED
    BY <2>2, <2>3 DEF Stands
<1>5. ASSUME Bridge!Lasting' PROVE Lasts'
  <2>1. Lasts
    BY <1>1, <1>5 DEF Bridge!Lasting, BridgeInv
  <2>2. Shared' = Hears(Shared, f) /\ DOMAIN receipts' = DOMAIN receipts /\ f.command \notin {"ACK", "NACK"}
    BY <1>1, <1>2 DEF Shared, Hears
  <2>3. QED
    BY <1>1, <1>2, <1>3, <2>1, <2>2, FrameSent
<1>6. QED
  BY <1>4, <1>5 DEF BridgeInv

LEMMA EmptyTable ==
  <<>> \in [{} -> Nat] /\ <<>> \in [{} -> Shares] /\ DOMAIN <<>> = {} /\ Tickets(<<>>) = {}
<1>1. <<>> \in Seq(Nat) /\ <<>> \in Seq(Shares) /\ Len(<<>>) = 0
  BY EmptySeq
<1>2. DOMAIN <<>> = {}
  BY <1>1, LenProperties
<1>3. <<>> \in [{} -> Nat] /\ <<>> \in [{} -> Shares]
  BY <1>2
<1>4. Tickets(<<>>) = {}
  BY <1>2 DEF Tickets
<1>5. QED
  BY <1>2, <1>3, <1>4

LEMMA DestroyKept ==
  ASSUME SendsAssumed, BridgeInv, Bridge!Destroy
  PROVE  BridgeInv'
<1> DEFINE f == Bridge!Frame("DISCONNECT", 0, Bridge!NoDestination, 0)
<1>1. /\ destroyed' = TRUE /\ ready' = FALSE
      /\ subscriptions' = <<>> /\ destinations' = [c \in Destinations |-> 0] /\ receipts' = <<>>
      /\ out' = IF ready THEN Append(out, f) ELSE out
      /\ UNCHANGED <<counter, in, server, sends, acks, calls, notices, premature>>
  BY DEF Bridge!Destroy, Bridge!SendCommand
<1>2. f \in StompFrames
  BY FrameTyped DEF Places, Bridge!NoDestination
<1> HIDE DEF f
<1>3. Stands
  BY DEF BridgeInv
<1>4. out' \in Seq(StompFrames)
  BY <1>1, <1>2, <1>3, Appended DEF Stands, BridgeTypes
<1>5. /\ DOMAIN subscriptions' = {} /\ DOMAIN receipts' = {}
      /\ subscriptions' \in [DOMAIN subscriptions' -> Shares] /\ receipts' \in [DOMAIN receipts' -> Nat]
  BY <1>1, EmptyTable
<1>6. destinations' \in [Destinations -> Nat] /\ \A c \in Destinations : destinations'[c] = 0
  BY <1>1
<1>7. BridgeTypes'
  BY <1>1, <1>3, <1>4, <1>5, <1>6 DEF Stands, BridgeTypes
<1>8. Linked'
  BY <1>5, <1>6 DEF Linked
<1>9. Billed'
  BY <1>1, EmptyTable, FS_EmptySet DEF Billed
<1>10. ~Bridge!Lasting'
  BY <1>1 DEF Bridge!Lasting
<1>11. QED
  BY <1>7, <1>8, <1>9, <1>10 DEF BridgeInv, Stands

(* The first frame that comes in is read.                                          *)
LEMMA ComesIn ==
  ASSUME Stands, NEW c, Bridge!Arrives(c)
  PROVE  /\ in # <<>> /\ in' = Tail(in) /\ in' \in Seq(StompFrames) /\ Head(in) \in StompFrames
         /\ Elements(in) = {Head(in)} \cup Elements(in') /\ Head(in).command = c
         /\ Head(in).id \in Nat /\ Head(in).receipt \in Nat
<1>1. in # <<>> /\ in' = Tail(in) /\ Head(in).command = c
  BY DEF Bridge!Arrives
<1>2. in \in Seq(StompFrames)
  BY DEF Stands, BridgeTypes
<1>3. Head(in) \in StompFrames /\ Tail(in) \in Seq(StompFrames) /\ Elements(in) = {Head(in)} \cup Elements(Tail(in))
  BY <1>1, <1>2, Shifted
<1>4. QED
  BY <1>1, <1>3 DEF StompFrames

(* While the connection lasts and is not open this is CONNECTED.                    *)
LEMMA OpenOrConnected ==
  ASSUME Lasts, NEW c, Bridge!Arrives(c), c # "CONNECTED"
  PROVE  ready
<1>1. in # <<>> /\ Head(in).command = c
  BY DEF Bridge!Arrives
<1>2. CASE ~ready
  <2>1. in = <<Bridge!Frame("CONNECTED", 0, "none", 0)>>
    BY <1>1, <1>2 DEF Lasts, Opening
  <2>2. Head(in) = Bridge!Frame("CONNECTED", 0, "none", 0)
    BY <2>1
  <2>3. Head(in).command = "CONNECTED"
    BY <2>2 DEF Bridge!Frame
  <2>4. QED
    BY <1>1, <2>3
<1>3. QED
  BY <1>2

LEMMA OtherRead ==
  ASSUME Stands, Counted, NEW c, Bridge!Arrives(c), c # "MESSAGE", UNCHANGED <<out, sends, acks>>
  PROVE  Counted'
<1>1. in # <<>> /\ in' = Tail(in) /\ Elements(in) = {Head(in)} \cup Elements(in') /\ Head(in).command = c
  BY ComesIn
<1>2. in \in Seq(StompFrames)
  BY DEF Stands, BridgeTypes
<1>3. ASSUME NEW n \in 1 .. sends PROVE Placed(n)'
  <2>1. Head(in) \notin Messages(n)
    BY <1>1 DEF Messages
  <2>2. /\ Where(in, Messages(n)) = {} => Where(in', Messages(n)) = {}
        /\ JustOne(Where(in, Messages(n))) => JustOne(Where(in', Messages(n)))
    BY <1>1, <1>2, <2>1, WhereRead
  <2>3. Placed(n)
    BY DEF Counted
  <2>4. QED
    BY <2>2, <2>3 DEF Placed
<1>4. \A n \in 1 .. sends' : Placed(n)'
  BY <1>3
<1>5. QED
  BY <1>1, <1>4 DEF Counted

LEMMA ErrorKept ==
  ASSUME SendsAssumed, BridgeInv, Bridge!ErrorFrame
  PROVE  BridgeInv'
<1>1. /\ Bridge!Arrives("ERROR") /\ ready' = FALSE
      /\ UNCHANGED <<subscriptions, destinations, receipts, counter, out, server>>
      /\ UNCHANGED <<sends, acks, calls, notices, premature, destroyed>>
  BY DEF Bridge!ErrorFrame, Bridge!history
<1>2. Stands
  BY DEF BridgeInv
<1>3. in' \in Seq(StompFrames) /\ Head(in) \in Elements(in) /\ Head(in).command = "ERROR"
  BY <1>1, <1>2, ComesIn
<1>4. BridgeTypes'
  BY <1>1, <1>2, <1>3 DEF Stands, BridgeTypes
<1>5. Linked' /\ Billed'
  BY <1>1, <1>2 DEF Stands, Linked, Billed
<1>6. ~Lasts
  BY <1>3 DEF Lasts, Opening
<1>7. ~Bridge!Lasting'
  BY <1>1, <1>6 DEF Bridge!Lasting, BridgeInv
<1>8. QED
  BY <1>4, <1>5, <1>7 DEF BridgeInv, Stands

LEMMA ConnectedKept ==
  ASSUME SendsAssumed, BridgeInv, Bridge!ConnectedFrame
  PROVE  BridgeInv'
<1>1. /\ Bridge!Arrives("CONNECTED") /\ ready' = TRUE
      /\ UNCHANGED <<subscriptions, destinations, receipts, counter, out, server>>
      /\ UNCHANGED <<sends, acks, calls, notices, premature, destroyed>>
  BY DEF Bridge!ConnectedFrame, Bridge!history
<1>2. Stands
  BY DEF BridgeInv
<1>3. in' \in Seq(StompFrames) /\ Elements(in) = {Head(in)} \cup Elements(in') /\ Head(in).command = "CONNECTED"
  BY <1>1, <1>2, ComesIn
<1>4. BridgeTypes'
  BY <1>1, <1>2, <1>3 DEF Stands, BridgeTypes
<1>5. Linked' /\ Billed'
  BY <1>1, <1>2 DEF Stands, Linked, Billed
<1>6. ASSUME Bridge!Lasting' PROVE Lasts'
  <2>1. Lasts
    BY <1>1, <1>6 DEF Bridge!Lasting, BridgeInv
  <2>2. Opening' /\ Owed'
    BY <1>1, <1>3, <2>1 DEF Lasts, Opening, Owed
  <2>3. InStep'
    BY <1>1, <2>1, ComingIsHeard DEF Lasts, InStep, Shared
  <2>4. Counted'
    BY <1>1, <1>2, <2>1, OtherRead DEF Lasts
  <2>5. QED
    BY <2>2, <2>3, <2>4 DEF Lasts
<1>7. QED
  BY <1>4, <1>5, <1>6 DEF BridgeInv, Stands

LEMMA ReceiptKept ==
  ASSUME SendsAssumed, BridgeInv, Bridge!ReceiptFrame
  PROVE  BridgeInv'
<1> DEFINE r == Head(in).receipt
<1>1. /\ Bridge!Arrives("RECEIPT")
      /\ IF r \in DOMAIN receipts
         THEN notices' = notices + receipts[r] /\ receipts' = Bridge!Without(receipts, r)
         ELSE notices' = notices /\ receipts' = receipts
      /\ UNCHANGED <<ready, subscriptions, destinations, counter, out, server>>
      /\ UNCHANGED <<sends, acks, calls, premature, destroyed>>
  BY DEF Bridge!ReceiptFrame
<1>2. Stands
  BY DEF BridgeInv
<1>3. in' \in Seq(StompFrames) /\ Elements(in) = {Head(in)} \cup Elements(in') /\ Head(in).command = "RECEIPT"
  BY <1>1, <1>2, ComesIn
<1> HIDE DEF r
<1>4. Waiters(receipts) /\ receipts \in [DOMAIN receipts -> Nat] /\ notices \in Nat /\ calls \in Nat
  BY <1>2, StandsWaits DEF Stands, BridgeTypes
<1>5. /\ receipts' \in [DOMAIN receipts' -> Nat] /\ DOMAIN receipts' \in SUBSET DOMAIN receipts
      /\ r \notin DOMAIN receipts' /\ notices' \in Nat /\ Billed'
  <2>1. CASE r \in DOMAIN receipts
    <3>1. notices' = notices + receipts[r] /\ receipts' = Bridge!Without(receipts, r) /\ receipts[r] \in Nat
      BY <1>1, <1>4, <2>1
    <3>2. /\ DOMAIN receipts' = DOMAIN receipts \ {r} /\ receipts' \in [DOMAIN receipts' -> Nat]
          /\ \A s \in DOMAIN receipts' : receipts'[s] = receipts[s]
      BY <1>4, <3>1 DEF Bridge!Without
    <3>3. /\ Waiters(receipts') /\ Cardinality(Tickets(receipts)) \in Nat /\ Cardinality(Tickets(receipts')) \in Nat
          /\ Cardinality(Tickets(receipts)) = Cardinality(Tickets(receipts')) + receipts[r]
      BY <1>4, <2>1, <3>2, AllTold
    <3>4. ~destroyed' => calls' = notices' + Cardinality(Tickets(receipts'))
      <4>1. ~destroyed => calls = notices + Cardinality(Tickets(receipts))
        BY <1>2 DEF Stands, Billed
      <4>2. QED
        BY <1>1, <1>4, <3>1, <3>3, <4>1
    <3>5. QED
      BY <1>4, <3>1, <3>2, <3>3, <3>4 DEF Billed, Waiters
  <2>2. CASE r \notin DOMAIN receipts
    BY <1>1, <1>2, <1>4, <2>2 DEF Stands, Billed
  <2>3. QED
    BY <2>1, <2>2
<1>6. BridgeTypes'
  BY <1>1, <1>2, <1>3, <1>5 DEF Stands, BridgeTypes
<1>7. Linked'
  BY <1>1, <1>2 DEF Stands, Linked
<1>8. ASSUME Bridge!Lasting' PROVE Lasts'
  <2>1. Lasts
    BY <1>1, <1>8 DEF Bridge!Lasting, BridgeInv
  <2>2. ready
    BY <1>1, <2>1, OpenOrConnected
  <2>3. Opening'
    BY <1>1, <1>3, <2>1, <2>2 DEF Lasts, Opening
  <2>4. Owed'
    BY <1>1, <1>3, <1>5, <2>1 DEF Lasts, Owed, r
  <2>5. InStep'
    BY <1>1, <2>1, ComingIsHeard DEF Lasts, InStep, Shared
  <2>6. Counted'
    BY <1>1, <1>2, <2>1, OtherRead DEF Lasts
  <2>7. QED
    BY <2>3, <2>4, <2>5, <2>6 DEF Lasts
<1>9. QED
  BY <1>5, <1>6, <1>7, <1>8 DEF BridgeInv, Stands

LEMMA MessageKept ==
  ASSUME SendsAssumed, BridgeInv, NEW handled \in BOOLEAN, Bridge!MessageFrame(handled)
  PROVE  BridgeInv'
<1> DEFINE m == Head(in).receipt
           taken == ~destroyed /\ Head(in).id \in DOMAIN subscriptions /\ handled
           c == IF taken THEN "ACK" ELSE "NACK"
           f == Bridge!Frame(c, m, Bridge!NoDestination, 0)
<1>1. /\ Bridge!Arrives("MESSAGE") /\ out' = IF ready THEN Append(out, f) ELSE out
      /\ UNCHANGED <<ready, subscriptions, destinations, receipts, counter, server>>
      /\ UNCHANGED <<sends, acks, calls, notices, premature, destroyed>>
  BY DEF Bridge!MessageFrame, Bridge!SendCommand, Bridge!local, Bridge!history
<1>2. Stands
  BY DEF BridgeInv
<1>3. /\ in # <<>> /\ in' = Tail(in) /\ in' \in Seq(StompFrames) /\ Elements(in) = {Head(in)} \cup Elements(in')
      /\ Head(in).command = "MESSAGE" /\ m \in Nat /\ Head(in) \in StompFrames
  BY <1>1, <1>2, ComesIn
<1>4. f \in StompFrames /\ f.command \in {"ACK", "NACK"} /\ f.id = m
  <2>1. c \in {"ACK", "NACK"}
    OBVIOUS
  <2> HIDE DEF c, m
  <2>2. /\ c \in {"CONNECT", "SUBSCRIBE", "UNSUBSCRIBE", "SEND", "ACK", "NACK", "DISCONNECT",
                 "CONNECTED", "MESSAGE", "RECEIPT", "ERROR"}
        /\ m \in Nat /\ 0 \in Nat /\ Bridge!NoDestination \in Places
    BY <1>3, <2>1 DEF Places, Bridge!NoDestination
  <2>3. f \in StompFrames /\ f.command = c /\ f.id = m
    BY <2>2, FrameTyped
  <2>4. QED
    BY <2>1, <2>3
<1>5. in \in Seq(StompFrames) /\ out \in Seq(StompFrames) /\ server.subs \in Regions
  BY <1>2 DEF Stands, BridgeTypes, Regions
<1> HIDE DEF f, m
<1>6. BridgeTypes'
  <2>1. out' \in Seq(StompFrames)
    BY <1>1, <1>4, <1>5, Appended
  <2>2. QED
    BY <1>1, <1>2, <1>3, <2>1 DEF Stands, BridgeTypes
<1>7. Linked' /\ Billed'
  BY <1>1, <1>2 DEF Stands, Linked, Billed
<1>8. ASSUME Bridge!Lasting' PROVE Lasts'
  <2>1. Lasts
    BY <1>1, <1>8 DEF Bridge!Lasting, BridgeInv
  <2>2. ready
    BY <1>1, <2>1, OpenOrConnected
  <2>3. out' = Append(out, f)
    BY <1>1, <2>2
  <2>4. Elements(out') = Elements(out) \cup {f}
    BY <1>4, <1>5, <2>3, Appended
  <2>5. Opening'
    BY <1>1, <1>3, <2>1, <2>2 DEF Lasts, Opening
  <2>6. Owed'
    BY <1>1, <1>3, <2>1, <2>4 DEF Lasts, Owed
  <2>7. InStep'
    <3>1. Heard(server.subs, out') = Hears(Heard(server.subs, out), f)
      BY <1>4, <1>5, <2>3, HeardAppended
    <3>2. Heard(server.subs, out') = Heard(server.subs, out)
      BY <1>4, <3>1 DEF Hears
    <3>3. QED
      BY <1>1, <2>1, <3>2, ComingIsHeard DEF Lasts, InStep, Shared
  <2>8. Counted
    BY <2>1 DEF Lasts
  <2>9. m \in 1 .. sends
    BY <1>3, <2>8 DEF Counted, m
  <2>10. ASSUME NEW n \in 1 .. sends PROVE Placed(n)'
    <3>1. Placed(n)
      BY <2>8 DEF Counted
    <3>2. /\ Where(in, Messages(n)) = {} => Head(in) \notin Messages(n) /\ Where(in', Messages(n)) = {}
          /\ Head(in) \notin Messages(n) /\ JustOne(Where(in, Messages(n))) => JustOne(Where(in', Messages(n)))
          /\ Head(in) \in Messages(n) /\ JustOne(Where(in, Messages(n))) => Where(in', Messages(n)) = {}
      BY <1>3, <1>5, WhereRead
    <3>3. /\ f \notin AnswersTo(n) => Where(out', AnswersTo(n)) = Where(out, AnswersTo(n))
          /\ f \in AnswersTo(n) /\ Where(out, AnswersTo(n)) = {} => JustOne(Where(out', AnswersTo(n)))
      BY <1>4, <1>5, <2>3, WhereAppended
    <3>4. (Head(in) \in Messages(n) <=> m = n) /\ (f \in AnswersTo(n) <=> m = n)
      BY <1>3, <1>4 DEF Messages, AnswersTo, m
    <3>5. CASE m = n
      BY <1>1, <3>1, <3>2, <3>3, <3>4, <3>5 DEF Placed
    <3>6. CASE m # n
      BY <1>1, <3>1, <3>2, <3>3, <3>4, <3>6 DEF Placed
    <3>7. QED
      BY <3>5, <3>6
  <2>11. Counted'
    <3>1. \A n \in 1 .. sends' : Placed(n)'
      BY <1>1, <2>10
    <3>2. QED
      BY <1>1, <1>3, <1>4, <2>4, <2>8, <2>9, <3>1 DEF Counted
  <2>12. QED
    BY <2>5, <2>6, <2>7, <2>11 DEF Lasts
<1>9. QED
  BY <1>6, <1>7, <1>8 DEF BridgeInv, Stands

(* The server reads the first frame of those that go out.                          *)
LEMMA IsRead ==
  ASSUME Stands, NEW c, Bridge!Reads(c)
  PROVE  /\ out # <<>> /\ out' = Tail(out) /\ out' \in Seq(StompFrames) /\ Head(out) \in StompFrames
         /\ Elements(out) = {Head(out)} \cup Elements(out') /\ Head(out).command = c
         /\ Head(out).id \in Nat /\ Head(out).receipt \in Nat /\ Head(out).dest \in Places
<1>1. out # <<>> /\ out' = Tail(out) /\ Head(out).command = c
  BY DEF Bridge!Reads
<1>2. out \in Seq(StompFrames)
  BY DEF Stands, BridgeTypes
<1>3. Head(out) \in StompFrames /\ Tail(out) \in Seq(StompFrames) /\ Elements(out) = {Head(out)} \cup Elements(Tail(out))
  BY <1>1, <1>2, Shifted
<1>4. QED
  BY <1>1, <1>3 DEF StompFrames

LEMMA OpenOrConnect ==
  ASSUME Lasts, NEW c, Bridge!Reads(c), c # "CONNECT"
  PROVE  ready
<1>1. out # <<>> /\ Head(out).command = c
  BY DEF Bridge!Reads
<1>2. CASE ~ready
  <2>1. out = <<Bridge!Connect>>
    BY <1>1, <1>2 DEF Lasts, Opening
  <2>2. Head(out) = Bridge!Frame("CONNECT", 0, "none", 0)
    BY <2>1 DEF Bridge!Connect, Bridge!NoDestination
  <2>3. Head(out).command = "CONNECT"
    BY <2>2 DEF Bridge!Frame
  <2>4. QED
    BY <1>1, <2>3
<1>3. QED
  BY <1>2

(* What the server has read it has heard, and who asked it has an answer on its way. *)
LEMMA ReadInStep ==
  ASSUME Stands, Lasts, ready, NEW c, Bridge!Reads(c), NEW new, Elements(in') = Elements(in) \cup new,
         \A f \in new : f.command # "ERROR",
         Asking(Head(out)) => \E f \in new : f.command = "RECEIPT" /\ f.receipt = Head(out).receipt,
         server'.subs = Hears(server.subs, Head(out)), UNCHANGED <<ready, subscriptions, receipts>>
  PROVE  Opening' /\ Owed' /\ InStep'
<1>1. out # <<>> /\ out' = Tail(out) /\ Elements(out) = {Head(out)} \cup Elements(out')
  BY IsRead
<1>2. out \in Seq(StompFrames) /\ server.subs \in Regions
  BY DEF Stands, BridgeTypes, Regions
<1>3. Opening'
  BY DEF Lasts, Opening
<1>4. Owed'
  <2>1. ASSUME NEW r \in DOMAIN receipts
        PROVE  \/ \E f \in Elements(out') : Asking(f) /\ f.receipt = r
               \/ \E f \in Elements(in') : f.command = "RECEIPT" /\ f.receipt = r
    <3>1. CASE \E f \in Elements(out) : Asking(f) /\ f.receipt = r
      BY <1>1, <3>1
    <3>2. CASE \E f \in Elements(in) : f.command = "RECEIPT" /\ f.receipt = r
      BY <3>2
    <3>3. QED
      BY <3>1, <3>2 DEF Lasts, Owed
  <2>2. QED
    BY <2>1 DEF Owed
<1>5. InStep'
  <2>1. Heard(server'.subs, out') = Heard(server.subs, out)
    BY <1>1, <1>2, HeardRead
  <2>2. QED
    BY <2>1, ComingIsHeard DEF Lasts, InStep, Shared
<1>6. QED
  BY <1>3, <1>4, <1>5

(* A frame that is no message comes for one that was no answer.                    *)
LEMMA One ==
  ASSUME NEW f \in StompFrames
  PROVE  LET v == <<f>>
         IN  v \in Seq(StompFrames) /\ Elements(v) = {f} /\ Len(v) = 1 /\ v[1] = f
<1>1. <<f>> \in Seq(StompFrames) /\ Len(<<f>>) = 1 /\ <<f>>[1] = f
  OBVIOUS
<1>2. Elements(<<f>>) = {f}
  BY <1>1 DEF Elements
<1>3. QED
  BY <1>1, <1>2

LEMMA ReplyNumbered ==
  ASSUME Stands, Counted, NEW c, Bridge!Reads(c), c \notin {"ACK", "NACK"},
         NEW f \in StompFrames, f.command # "MESSAGE", in' = in \o <<f>>, UNCHANGED <<sends, acks>>
  PROVE  Counted'
<1>1. out # <<>> /\ out' = Tail(out) /\ Elements(out) = {Head(out)} \cup Elements(out') /\ Head(out).command = c
  BY IsRead
<1>2. in \in Seq(StompFrames) /\ out \in Seq(StompFrames)
  BY DEF Stands, BridgeTypes
<1> DEFINE v == <<f>>
<1>3. v \in Seq(StompFrames) /\ Elements(v) = {f} /\ Len(v) = 1 /\ v[1] = f
  BY One
<1>4. in' = in \o v
  OBVIOUS
<1> HIDE DEF v
<1>5. Elements(in') = Elements(in) \cup {f}
  <2>1. Elements(in \o v) = Elements(in) \cup Elements(v)
    BY ONLY <1>2, <1>3, Joined
  <2>2. QED
    BY ONLY <1>3, <1>4, <2>1
<1>6. ASSUME NEW n \in 1 .. sends PROVE Placed(n)'
  <2>1. Head(out) \notin AnswersTo(n) /\ f \notin Messages(n)
    BY <1>1 DEF AnswersTo, Messages
  <2>2. Where(v, Messages(n)) = {}
    BY <1>3, <2>1 DEF Where
  <2>3. Where(in', Messages(n)) = Where(in, Messages(n))
    BY <1>2, <1>3, <1>4, <2>2, WhereJoined
  <2>4. /\ Where(out, AnswersTo(n)) = {} => Where(out', AnswersTo(n)) = {}
        /\ JustOne(Where(out, AnswersTo(n))) => JustOne(Where(out', AnswersTo(n)))
    BY <1>1, <1>2, <2>1, WhereRead
  <2>5. Placed(n)
    BY DEF Counted
  <2>6. QED
    BY <2>3, <2>4, <2>5 DEF Placed
<1>7. \A n \in 1 .. sends' : Placed(n)'
  BY <1>6
<1>8. QED
  BY <1>1, <1>5, <1>7 DEF Counted

LEMMA ReceiptTyped ==
  ASSUME NEW r \in Nat
  PROVE  LET f == Bridge!Frame("RECEIPT", 0, Bridge!NoDestination, r)
         IN  f \in StompFrames /\ f.command = "RECEIPT" /\ f.receipt = r
BY FrameTyped DEF Places, Bridge!NoDestination

LEMMA AnswersKept ==
  ASSUME SendsAssumed, BridgeInv, NEW c, Bridge!Reads(c), c \in {"SUBSCRIBE", "UNSUBSCRIBE"},
         server' = [server EXCEPT !.subs = Hears(server.subs, Head(out))],
         in' = in \o <<Bridge!Frame("RECEIPT", 0, Bridge!NoDestination, Head(out).receipt)>>,
         UNCHANGED <<ready, subscriptions, destinations, receipts, counter>>,
         UNCHANGED <<sends, acks, calls, notices, premature, destroyed>>
  PROVE  BridgeInv'
<1> DEFINE f == Bridge!Frame("RECEIPT", 0, Bridge!NoDestination, Head(out).receipt)
<1>1. Stands
  BY DEF BridgeInv
<1>2. /\ out # <<>> /\ out' = Tail(out) /\ out' \in Seq(StompFrames) /\ Head(out) \in StompFrames /\ Head(out).command = c
      /\ Head(out).receipt \in Nat /\ Head(out).id \in Nat /\ Head(out).dest \in Places
  BY <1>1, IsRead
<1>3. f \in StompFrames /\ f.command = "RECEIPT" /\ f.receipt = Head(out).receipt
  BY ONLY <1>2, ReceiptTyped
<1> DEFINE v == <<f>>
<1>4. in' = in \o v /\ in' = in \o <<f>>
  OBVIOUS
<1> HIDE DEF f
<1>5. v \in Seq(StompFrames) /\ Elements(v) = {f}
  BY <1>3, One
<1> HIDE DEF v
<1>6. in \in Seq(StompFrames) /\ server \in [up : BOOLEAN, subs : SUBSET (Nat \X Places)] /\ IsFiniteSet(server.subs)
  BY <1>1 DEF Stands, BridgeTypes
<1>7. in' \in Seq(StompFrames) /\ Elements(in') = Elements(in) \cup {f}
  <2>1. in \o v \in Seq(StompFrames) /\ Elements(in \o v) = Elements(in) \cup Elements(v)
    BY ONLY <1>5, <1>6, Joined
  <2>2. QED
    BY ONLY <1>4, <1>5, <2>1
<1>8. Hears(server.subs, Head(out)) \in SUBSET (Nat \X Places)
  BY <1>2, <1>6, HearsKeeps DEF Regions
<1>9. /\ server' \in [up : BOOLEAN, subs : SUBSET (Nat \X Places)]
      /\ server'.subs = Hears(server.subs, Head(out)) /\ server'.up = server.up
  BY <1>6, <1>8
<1>10. IsFiniteSet(server'.subs)
  <2>1. CASE c = "SUBSCRIBE"
    <3>1. server'.subs = server.subs \cup {<<Head(out).id, Head(out).dest>>}
      BY <1>2, <1>9, <2>1 DEF Hears
    <3> DEFINE x == <<Head(out).id, Head(out).dest>>
               S == server.subs
    <3>2. IsFiniteSet(S) /\ server'.subs = S \cup {x}
      BY <1>6, <3>1
    <3> HIDE DEF x, S
    <3>3. IsFiniteSet(S \cup {x})
      BY <3>2, FS_AddElement
    <3>4. QED
      BY <3>2, <3>3
  <2>2. CASE c = "UNSUBSCRIBE"
    <3>1. server'.subs = {s \in server.subs : s[1] # Head(out).id}
      BY <1>2, <1>9, <2>2 DEF Hears
    <3>2. server'.subs \in SUBSET server.subs
      BY <3>1
    <3>3. QED
      BY <1>6, <3>2, FS_Subset
  <2>3. QED
    BY <2>1, <2>2
<1>11. BridgeTypes'
  BY <1>1, <1>2, <1>7, <1>9, <1>10 DEF Stands, BridgeTypes
<1>12. Linked' /\ Billed'
  BY <1>1 DEF Stands, Linked, Billed
<1>13. ASSUME Bridge!Lasting' PROVE Lasts'
  <2>1. Lasts
    BY <1>9, <1>13 DEF Bridge!Lasting, BridgeInv
  <2>2. ready
    BY <2>1, OpenOrConnect
  <2>3. Opening' /\ Owed' /\ InStep'
    <3> DEFINE new == {f}
    <3>1. /\ Elements(in') = Elements(in) \cup new /\ \A g \in new : g.command # "ERROR"
          /\ \E g \in new : g.command = "RECEIPT" /\ g.receipt = Head(out).receipt
      BY <1>3, <1>7
    <3> HIDE DEF new
    <3>2. QED
      BY <1>1, <1>9, <2>1, <2>2, <3>1, ReadInStep
  <2>4. Counted'
    BY <1>1, <1>3, <1>4, <2>1, ReplyNumbered DEF Lasts
  <2>5. QED
    BY <2>3, <2>4 DEF Lasts
<1>14. QED
  BY <1>11, <1>12, <1>13 DEF BridgeInv, Stands

LEMMA ServerHears ==
  ASSUME SendsAssumed, BridgeInv, Bridge!ServerSubscribes \/ Bridge!ServerUnsubscribes
  PROVE  BridgeInv'
<1>1. CASE Bridge!ServerSubscribes
  <2>1. /\ Bridge!Reads("SUBSCRIBE") /\ server' = [server EXCEPT !.subs = server.subs \cup {<<Head(out).id, Head(out).dest>>}]
        /\ in' = in \o <<Bridge!Frame("RECEIPT", 0, Bridge!NoDestination, Head(out).receipt)>>
        /\ UNCHANGED <<ready, subscriptions, destinations, receipts, counter>>
        /\ UNCHANGED <<sends, acks, calls, notices, premature, destroyed>>
    BY <1>1 DEF Bridge!ServerSubscribes, Bridge!Reply, Bridge!local, Bridge!history
  <2>2. Hears(server.subs, Head(out)) = server.subs \cup {<<Head(out).id, Head(out).dest>>}
    BY <2>1 DEF Hears, Bridge!Reads
  <2>3. QED
    BY <2>1, <2>2, AnswersKept
<1>2. CASE Bridge!ServerUnsubscribes
  <2>1. /\ Bridge!Reads("UNSUBSCRIBE") /\ server' = [server EXCEPT !.subs = {s \in server.subs : s[1] # Head(out).id}]
        /\ in' = in \o <<Bridge!Frame("RECEIPT", 0, Bridge!NoDestination, Head(out).receipt)>>
        /\ UNCHANGED <<ready, subscriptions, destinations, receipts, counter>>
        /\ UNCHANGED <<sends, acks, calls, notices, premature, destroyed>>
    BY <1>2 DEF Bridge!ServerUnsubscribes, Bridge!Reply, Bridge!local, Bridge!history
  <2>2. Hears(server.subs, Head(out)) = {s \in server.subs : s[1] # Head(out).id}
    BY <2>1 DEF Hears, Bridge!Reads
  <2>3. QED
    BY <2>1, <2>2, AnswersKept
<1>3. QED
  BY <1>1, <1>2

LEMMA ServerConnectsKept ==
  ASSUME SendsAssumed, BridgeInv, Bridge!ServerConnects
  PROVE  BridgeInv'
<1> DEFINE f == Bridge!Frame("CONNECTED", 0, "none", 0)
           v == <<f>>
<1>1. /\ Bridge!Reads("CONNECT") /\ in' = in \o <<f>> /\ in' = in \o v
      /\ UNCHANGED <<ready, subscriptions, destinations, receipts, counter, server>>
      /\ UNCHANGED <<sends, acks, calls, notices, premature, destroyed>>
  BY DEF Bridge!ServerConnects, Bridge!Reply, Bridge!NoDestination, Bridge!local, Bridge!history
<1>2. Stands
  BY DEF BridgeInv
<1>3. /\ out # <<>> /\ out' = Tail(out) /\ out' \in Seq(StompFrames) /\ Head(out) \in StompFrames
      /\ Head(out).command = "CONNECT"
  BY <1>1, <1>2, IsRead
<1>4. f \in StompFrames /\ f.command = "CONNECTED"
  BY FrameTyped DEF Places
<1> HIDE DEF f
<1>5. v \in Seq(StompFrames) /\ Elements(v) = {f}
  BY <1>4, One
<1> HIDE DEF v
<1>6. in \in Seq(StompFrames)
  BY <1>2 DEF Stands, BridgeTypes
<1>7. in' \in Seq(StompFrames) /\ Elements(in') = Elements(in) \cup {f}
  <2>1. in \o v \in Seq(StompFrames) /\ Elements(in \o v) = Elements(in) \cup Elements(v)
    BY ONLY <1>5, <1>6, Joined
  <2>2. QED
    BY ONLY <1>1, <1>5, <2>1
<1>8. BridgeTypes'
  BY <1>1, <1>2, <1>3, <1>7 DEF Stands, BridgeTypes
<1>9. Linked' /\ Billed'
  BY <1>1, <1>2 DEF Stands, Linked, Billed
<1>10. ASSUME Bridge!Lasting' PROVE Lasts'
  <2>1. Lasts
    BY <1>1, <1>10 DEF Bridge!Lasting, BridgeInv
  <2>2. Counted'
    BY <1>1, <1>2, <1>4, <2>1, ReplyNumbered DEF Lasts
  <2>3. Hears(server.subs, Head(out)) = server.subs /\ ~Asking(Head(out))
    BY <1>3 DEF Hears, Asking
  <2>4. Owed' /\ InStep'
    <3>1. out \in Seq(StompFrames) /\ server.subs \in Regions
      BY <1>2 DEF Stands, BridgeTypes, Regions
    <3>2. Elements(out) = {Head(out)} \cup Elements(out')
      BY <1>3, <3>1, Shifted
    <3>3. Owed'
      BY <1>1, <1>7, <2>1, <2>3, <3>2 DEF Lasts, Owed
    <3>4. Heard(server'.subs, out') = Heard(server.subs, out)
      BY <1>1, <1>3, <2>3, <3>1, HeardRead
    <3>5. InStep'
      BY <1>1, <2>1, <3>4, ComingIsHeard DEF Lasts, InStep, Shared
    <3>6. QED
      BY <3>3, <3>5
  <2>5. Opening'
    <3>1. \A g \in Elements(in') : g.command # "ERROR"
      BY <1>4, <1>7, <2>1 DEF Lasts, Opening
    <3>2. ASSUME ~ready' PROVE in' = v /\ out' = <<>>
      <4>1. in = <<>> /\ out = <<Bridge!Connect>>
        BY <1>1, <1>3, <2>1, <3>2 DEF Lasts, Opening
      <4>2. in \o v = v
        BY <1>5, <4>1
      <4>3. Tail(out) = <<>>
        BY <4>1
      <4>4. QED
        BY <1>1, <1>3, <4>2, <4>3
    <3>3. QED
      BY <3>1, <3>2 DEF Opening, v, f
  <2>6. QED
    BY <2>2, <2>4, <2>5 DEF Lasts
<1>11. QED
  BY <1>8, <1>9, <1>10 DEF BridgeInv, Stands

LEMMA AcknowledgedKept ==
  ASSUME SendsAssumed, BridgeInv, Bridge!ServerAcknowledged
  PROVE  BridgeInv'
<1> DEFINE m == Head(out).id
<1>1. /\ Bridge!Reads("ACK") \/ Bridge!Reads("NACK")
      /\ acks' = [acks EXCEPT ![m] = @ + 1]
      /\ UNCHANGED <<ready, subscriptions, destinations, receipts, counter, in, server>>
      /\ UNCHANGED <<sends, calls, notices, premature, destroyed>>
  BY DEF Bridge!ServerAcknowledged, Bridge!local
<1>2. Stands
  BY DEF BridgeInv
<1>3. PICK c \in {"ACK", "NACK"} : Bridge!Reads(c)
  BY <1>1
<1>4. /\ out # <<>> /\ out' = Tail(out) /\ out' \in Seq(StompFrames) /\ Head(out) \in StompFrames
      /\ Elements(out) = {Head(out)} \cup Elements(out') /\ Head(out).command = c /\ m \in Nat
  BY <1>2, <1>3, IsRead
<1> HIDE DEF m
<1>5. out \in Seq(StompFrames) /\ acks \in [1 .. MaxSends -> Nat]
  BY <1>2 DEF Stands, BridgeTypes
<1>6. acks' \in [1 .. MaxSends -> Nat] /\ \A n \in 1 .. MaxSends : acks'[n] = IF n = m THEN acks[n] + 1 ELSE acks[n]
  <2>1. acks' = [n \in 1 .. MaxSends |-> IF n = m THEN acks[n] + 1 ELSE acks[n]]
    BY <1>1, <1>5
  <2>2. \A n \in 1 .. MaxSends : acks[n] \in Nat /\ acks[n] + 1 \in Nat
    BY <1>5
  <2>3. QED
    BY <2>1, <2>2
<1>7. BridgeTypes'
  BY <1>1, <1>2, <1>4, <1>6 DEF Stands, BridgeTypes
<1>8. Linked' /\ Billed'
  BY <1>1, <1>2 DEF Stands, Linked, Billed
<1>9. ASSUME Bridge!Lasting' PROVE Lasts'
  <2>1. Lasts
    BY <1>1, <1>9 DEF Bridge!Lasting, BridgeInv
  <2>2. ready
    BY <1>3, <2>1, OpenOrConnect
  <2>3. Opening' /\ Owed' /\ InStep'
    <3> DEFINE new == {}
    <3>1. Elements(in') = Elements(in) \cup new /\ \A g \in new : g.command # "ERROR"
      BY <1>1
    <3>2. ~Asking(Head(out)) /\ server'.subs = Hears(server.subs, Head(out))
      BY <1>1, <1>4 DEF Asking, Hears
    <3> HIDE DEF new
    <3>3. QED
      BY <1>1, <1>2, <1>3, <2>1, <2>2, <3>1, <3>2, ReadInStep
  <2>4. Counted
    BY <2>1 DEF Lasts
  <2>5. m \in 1 .. sends /\ sends \in Nat /\ sends <= MaxSends /\ MaxSends \in Nat
    BY <1>2, <1>4, <2>4 DEF Counted, m, Stands, BridgeTypes, SendsAssumed
  <2>6. ASSUME NEW n \in 1 .. sends PROVE Placed(n)'
    <3>1. Placed(n) /\ n \in 1 .. MaxSends
      BY <2>4, <2>5 DEF Counted
    <3>2. /\ Where(out, AnswersTo(n)) = {} => Head(out) \notin AnswersTo(n) /\ Where(out', AnswersTo(n)) = {}
          /\ Head(out) \notin AnswersTo(n) /\ JustOne(Where(out, AnswersTo(n))) => JustOne(Where(out', AnswersTo(n)))
          /\ Head(out) \in AnswersTo(n) /\ JustOne(Where(out, AnswersTo(n))) => Where(out', AnswersTo(n)) = {}
      BY <1>4, <1>5, WhereRead
    <3>3. Head(out) \in AnswersTo(n) <=> m = n
      BY <1>4 DEF AnswersTo, m
    <3>4. CASE m = n
      <4>1. /\ acks[n] = 0 /\ Where(out', AnswersTo(n)) = {} /\ Where(in, Messages(n)) = {}
        BY <3>1, <3>2, <3>3, <3>4 DEF Placed
      <4>2. acks'[n] = 1
        BY <1>6, <3>1, <3>4, <4>1
      <4>3. QED
        BY <1>1, <4>1, <4>2 DEF Placed
    <3>5. CASE m # n
      <4>1. acks'[n] = acks[n]
        BY <1>6, <3>1, <3>5
      <4>2. QED
        BY <1>1, <3>1, <3>2, <3>3, <3>5, <4>1 DEF Placed
    <3>6. QED
      BY <3>4, <3>5
  <2>7. Counted'
    <3>1. \A n \in 1 .. sends' : Placed(n)'
      BY <1>1, <2>6
    <3>2. \A n \in 1 .. MaxSends : n > sends => acks'[n] = 0
      BY <1>6, <2>4, <2>5 DEF Counted
    <3>3. QED
      BY <1>1, <1>4, <2>4, <3>1, <3>2 DEF Counted
  <2>8. QED
    BY <2>3, <2>7 DEF Lasts
<1>10. QED
  BY <1>7, <1>8, <1>9 DEF BridgeInv, Stands

LEMMA EndsKept ==
  ASSUME SendsAssumed, BridgeInv, Bridge!ServerEnds
  PROVE  BridgeInv'
<1> DEFINE f == Bridge!Frame("ERROR", 0, Bridge!NoDestination, 0)
           v == IF out # <<>> /\ Head(out).command = "DISCONNECT" THEN <<>> ELSE <<f>>
<1>1. /\ server' = [up |-> FALSE, subs |-> {}] /\ in' = in \o v
      /\ UNCHANGED <<ready, subscriptions, destinations, receipts, counter, out>>
      /\ UNCHANGED <<sends, acks, calls, notices, premature, destroyed>>
  BY DEF Bridge!ServerEnds, Bridge!Reply, Bridge!local, Bridge!history
<1>2. Stands
  BY DEF BridgeInv
<1>3. v \in Seq(StompFrames)
  <2>1. f \in StompFrames
    BY FrameTyped DEF Places, Bridge!NoDestination
  <2> HIDE DEF f
  <2>2. <<f>> \in Seq(StompFrames) /\ <<>> \in Seq(StompFrames)
    BY <2>1, One, EmptySeq
  <2>3. QED
    BY <2>2
<1> HIDE DEF v
<1>4. in \in Seq(StompFrames)
  BY <1>2 DEF Stands, BridgeTypes
<1>5. in' \in Seq(StompFrames)
  BY <1>1, <1>3, <1>4, ConcatProperties
<1>6. server' \in [up : BOOLEAN, subs : SUBSET (Nat \X Places)] /\ IsFiniteSet(server'.subs) /\ ~server'.up
  BY <1>1, FS_EmptySet
<1>7. BridgeTypes'
  BY <1>1, <1>2, <1>5, <1>6 DEF Stands, BridgeTypes
<1>8. Linked' /\ Billed'
  BY <1>1, <1>2 DEF Stands, Linked, Billed
<1>9. ~Bridge!Lasting'
  BY <1>6 DEF Bridge!Lasting
<1>10. QED
  BY <1>7, <1>8, <1>9 DEF BridgeInv, Stands

(* The subscriptions of a destination, in some order.                              *)
LEMMA SomeOrder ==
  ASSUME NEW T, NEW S \in SUBSET T, IsFiniteSet(S)
  PROVE  Bridge!SetToSeq(S) \in Seq(T) /\ \A i \in 1 .. Len(Bridge!SetToSeq(S)) : Bridge!SetToSeq(S)[i] \in T
<1> DEFINE n == Cardinality(S)
           g == Bridge!SetToSeq(S)
<1>1. n \in Nat /\ ExistsBijection(1 .. n, S)
  BY FS_CardinalityType
<1>2. \E f \in [1 .. n -> S] : Bridge!IsInjective(f)
  <2>1. PICK f : f \in Bijection(1 .. n, S)
    BY <1>1 DEF ExistsBijection
  <2>2. f \in [1 .. n -> S] /\ IsInjective(f)
    BY <2>1 DEF Bijection, Injection
  <2>3. Bridge!IsInjective(f)
    BY <2>2 DEF IsInjective, Bridge!IsInjective
  <2>4. QED
    BY <2>2, <2>3
<1>3. Bridge!Cardinality(S) = n
  BY DEF Bridge!Cardinality, Cardinality
<1>4. g \in [1 .. n -> S]
  BY <1>2, <1>3 DEF Bridge!SetToSeq
<1> HIDE DEF g, n
<1>5. g \in [1 .. n -> T]
  BY <1>4
<1>6. g \in Seq(T)
  BY <1>1, <1>5, SeqDef
<1>7. \A i \in 1 .. Len(g) : g[i] \in T
  BY <1>6, ElementOfSeq
<1>8. QED
  BY <1>6, <1>7 DEF g

LEMMA DeliversKept ==
  ASSUME SendsAssumed, BridgeInv, Bridge!ServerDelivers
  PROVE  BridgeInv'
<1> DEFINE S == {s \in server.subs : s[2] = Head(out).dest}
           to == Bridge!SetToSeq(S)
           k == Len(to)
           v == [i \in DOMAIN to |-> Bridge!Frame("MESSAGE", to[i][1], to[i][2], sends + i)]
<1>1. /\ Bridge!Reads("SEND") /\ sends + k <= MaxSends /\ sends' = sends + k /\ in' = in \o v
      /\ UNCHANGED <<ready, subscriptions, destinations, receipts, counter, server>>
      /\ UNCHANGED <<acks, calls, notices, premature, destroyed>>
  BY DEF Bridge!ServerDelivers, Bridge!Reply, Bridge!local
<1>2. Stands
  BY DEF BridgeInv
<1>3. /\ out # <<>> /\ out' = Tail(out) /\ out' \in Seq(StompFrames) /\ Head(out) \in StompFrames
      /\ Elements(out) = {Head(out)} \cup Elements(out') /\ Head(out).command = "SEND"
  BY <1>1, <1>2, IsRead
<1>4. /\ in \in Seq(StompFrames) /\ out \in Seq(StompFrames) /\ server.subs \in SUBSET (Nat \X Places) /\ IsFiniteSet(server.subs)
      /\ sends \in Nat /\ MaxSends \in Nat
  BY <1>2 DEF Stands, BridgeTypes, SendsAssumed
<1>5. to \in Seq(Nat \X Places) /\ \A i \in 1 .. k : to[i] \in Nat \X Places
  <2>1. S \in SUBSET (Nat \X Places) /\ S \in SUBSET server.subs
    BY <1>4
  <2>2. IsFiniteSet(S)
    BY <1>4, <2>1, FS_Subset
  <2> HIDE DEF S
  <2>3. QED
    BY <2>1, <2>2, SomeOrder
<1> HIDE DEF to
<1>6. k \in Nat /\ DOMAIN to = 1 .. k
  BY <1>5, LenProperties
<1> HIDE DEF k
<1>7. \A i \in 1 .. k : v[i] \in StompFrames /\ v[i].command = "MESSAGE" /\ v[i].receipt = sends + i
  <2> SUFFICES ASSUME NEW i \in 1 .. k
               PROVE  v[i] \in StompFrames /\ v[i].command = "MESSAGE" /\ v[i].receipt = sends + i
    OBVIOUS
  <2> DEFINE a == to[i][1]
             b == to[i][2]
             r == sends + i
  <2>1. a \in Nat /\ b \in Places /\ r \in Nat
    BY <1>4, <1>5, <1>6
  <2>2. v[i] = Bridge!Frame("MESSAGE", a, b, r)
    BY <1>6
  <2> HIDE DEF a, b, v, r
  <2>3. v[i] \in StompFrames /\ v[i].command = "MESSAGE" /\ v[i].receipt = r
    BY <2>1, <2>2, FrameTyped
  <2>4. QED
    BY <2>3 DEF r
<1>8. v \in Seq(StompFrames) /\ Len(v) = k
  <2>1. v \in [1 .. k -> StompFrames]
    BY <1>6, <1>7
  <2> HIDE DEF v
  <2>2. v \in Seq(StompFrames)
    BY <1>6, <2>1, SeqDef
  <2>3. DOMAIN v = 1 .. k /\ DOMAIN v = 1 .. Len(v) /\ Len(v) \in Nat
    BY <2>1, <2>2, LenProperties
  <2>4. QED
    BY <1>6, <2>2, <2>3
<1> HIDE DEF v
<1>9. in' \in Seq(StompFrames) /\ Elements(in') = Elements(in) \cup Elements(v)
  <2>1. in \o v \in Seq(StompFrames) /\ Elements(in \o v) = Elements(in) \cup Elements(v)
    BY ONLY <1>4, <1>8, Joined
  <2>2. QED
    BY ONLY <1>1, <2>1
<1>10. \A g \in Elements(v) : g.command = "MESSAGE" /\ g.receipt \in 1 .. sends + k
  <2>1. ASSUME NEW g \in Elements(v) PROVE g.command = "MESSAGE" /\ g.receipt \in 1 .. sends + k
    <3>1. PICK i \in 1 .. k : v[i] = g
      BY <1>8, Listed
    <3>2. g.command = "MESSAGE" /\ g.receipt = sends + i
      BY <1>7, <3>1
    <3>3. QED
      BY <1>4, <1>6, <3>2
  <2>2. QED
    BY <2>1
<1>11. BridgeTypes'
  <2>1. sends' \in Nat /\ sends' <= MaxSends
    BY <1>1, <1>4, <1>6
  <2>2. QED
    BY <1>1, <1>2, <1>3, <1>9, <2>1 DEF Stands, BridgeTypes
<1>12. Linked' /\ Billed'
  BY <1>1, <1>2 DEF Stands, Linked, Billed
<1>13. ASSUME Bridge!Lasting' PROVE Lasts'
  <2>1. Lasts
    BY <1>1, <1>13 DEF Bridge!Lasting, BridgeInv
  <2>2. ready
    BY <1>1, <2>1, OpenOrConnect
  <2>3. Opening' /\ Owed' /\ InStep'
    <3> DEFINE new == Elements(v)
    <3>1. Elements(in') = Elements(in) \cup new /\ \A g \in new : g.command # "ERROR"
      BY <1>9, <1>10
    <3>2. ~Asking(Head(out)) /\ server'.subs = Hears(server.subs, Head(out))
      BY <1>1, <1>3 DEF Asking, Hears
    <3> HIDE DEF new
    <3>3. QED
      BY <1>1, <1>2, <2>1, <2>2, <3>1, <3>2, ReadInStep
  <2>4. Counted
    BY <2>1 DEF Lasts
  <2>5. ASSUME NEW n \in 1 .. sends PROVE Placed(n)'
    <3>1. Placed(n)
      BY <2>4 DEF Counted
    <3>2. Head(out) \notin AnswersTo(n)
      BY <1>3 DEF AnswersTo
    <3>3. /\ Where(out, AnswersTo(n)) = {} => Where(out', AnswersTo(n)) = {}
          /\ JustOne(Where(out, AnswersTo(n))) => JustOne(Where(out', AnswersTo(n)))
      BY <1>3, <1>4, <3>2, WhereRead
    <3>4. Where(v, Messages(n)) = {}
      <4>1. ASSUME NEW i \in 1 .. k PROVE v[i] \notin Messages(n)
        <5>1. v[i].receipt # n
          BY <1>4, <1>6, <1>7
        <5>2. QED
          BY <5>1 DEF Messages
      <4>2. QED
        BY <1>8, <4>1 DEF Where
    <3>5. Where(in', Messages(n)) = Where(in, Messages(n))
      BY <1>1, <1>4, <1>8, <3>4, WhereJoined
    <3>6. QED
      BY <1>1, <3>1, <3>3, <3>5 DEF Placed
  <2>6. ASSUME NEW n \in 1 .. sends + k, n > sends PROVE Placed(n)'
    <3>1. n \in 1 .. MaxSends /\ n \notin 1 .. sends /\ n - sends \in 1 .. k /\ sends + (n - sends) = n
      BY <1>1, <1>4, <1>6, <2>6
    <3>2. acks'[n] = 0
      BY <1>1, <2>4, <2>6, <3>1 DEF Counted
    <3>3. Where(out', AnswersTo(n)) = {}
      <4>1. \A f \in Elements(out') : f \notin AnswersTo(n)
        BY <1>3, <2>4, <3>1 DEF Counted, AnswersTo
      <4>2. \A i \in 1 .. Len(out') : out'[i] \in Elements(out')
        BY <1>3, Listed
      <4>3. QED
        BY <4>1, <4>2 DEF Where
    <3>4. Where(in, Messages(n)) = {}
      <4>1. \A f \in Elements(in) : f \notin Messages(n)
        BY <2>4, <3>1 DEF Counted, Messages
      <4>2. \A i \in 1 .. Len(in) : in[i] \in Elements(in)
        BY <1>4, Listed
      <4>3. QED
        BY <4>1, <4>2 DEF Where
    <3>5. JustOne(Where(v, Messages(n)))
      <4>1. ASSUME NEW i \in 1 .. k PROVE v[i] \in Messages(n) <=> i = n - sends
        <5>1. v[i] \in StompFrames /\ v[i].command = "MESSAGE" /\ v[i].receipt = sends + i
          BY <1>7
        <5>2. sends + i = n <=> i = n - sends
          BY <1>4, <1>6, <3>1
        <5>3. QED
          BY <5>1, <5>2 DEF Messages
      <4>2. Where(v, Messages(n)) = {n - sends}
        BY <1>8, <3>1, <4>1 DEF Where
      <4>3. QED
        BY <4>2 DEF JustOne
    <3>6. JustOne(Where(in', Messages(n)))
      BY <1>1, <1>4, <1>8, <3>4, <3>5, WhereJoined
    <3>7. QED
      BY <3>2, <3>3, <3>6 DEF Placed
  <2>7. Counted'
    <3>1. \A n \in 1 .. sends' : Placed(n)'
      <4>1. \A n \in 1 .. sends + k : n \in 1 .. sends \/ n > sends
        BY <1>4, <1>6
      <4>2. QED
        BY <1>1, <2>5, <2>6, <4>1
    <3>2. \A n \in 1 .. MaxSends : n > sends' => acks'[n] = 0
      BY <1>1, <1>4, <1>6, <2>4 DEF Counted
    <3>3. 1 .. sends \in SUBSET (1 .. sends')
      BY <1>1, <1>4, <1>6
    <3>4. \A f \in Elements(in') : f.command = "MESSAGE" => f.receipt \in 1 .. sends'
      BY <1>1, <1>9, <1>10, <2>4, <3>3 DEF Counted
    <3>5. \A f \in Elements(out') : f.command \in {"ACK", "NACK"} => f.id \in 1 .. sends'
      BY <1>3, <2>4, <3>3 DEF Counted
    <3>6. QED
      BY <3>1, <3>2, <3>4, <3>5 DEF Counted
  <2>8. QED
    BY <2>3, <2>7 DEF Lasts
<1>14. QED
  BY <1>11, <1>12, <1>13 DEF BridgeInv, Stands

LEMMA BridgeStarts ==
  ASSUME SendsAssumed, Bridge!Init
  PROVE  BridgeInv
<1> DEFINE f == Bridge!Frame("CONNECT", 0, "none", 0)
           v == <<f>>
<1>1. /\ ready = FALSE /\ subscriptions = <<>> /\ destinations = [d \in Destinations |-> 0]
      /\ receipts = <<>> /\ counter = 0 /\ out = v /\ out = <<Bridge!Connect>> /\ in = <<>>
      /\ server = [up |-> TRUE, subs |-> {}] /\ sends = 0 /\ acks = [n \in 1 .. MaxSends |-> 0]
      /\ calls = 0 /\ notices = 0 /\ premature = FALSE /\ destroyed = FALSE
  BY DEF Bridge!Init, Bridge!Connect, Bridge!NoDestination
<1>2. f \in StompFrames /\ f.command = "CONNECT"
  BY FrameTyped DEF Places
<1> HIDE DEF f
<1>3. v \in Seq(StompFrames) /\ Elements(v) = {f} /\ v # <<>> /\ Head(v) = f /\ Tail(v) = <<>>
  BY <1>2, One
<1> HIDE DEF v
<1>4. /\ <<>> \in [{} -> Nat] /\ <<>> \in [{} -> Shares] /\ DOMAIN <<>> = {} /\ Tickets(<<>>) = {}
  BY EmptyTable
<1>5. <<>> \in Seq(StompFrames) /\ Len(<<>>) = 0 /\ Elements(<<>>) = {}
  BY <1>4, EmptySeq DEF Elements
<1>6. BridgeTypes
  <2>1. subscriptions \in [DOMAIN subscriptions -> Shares] /\ DOMAIN subscriptions \in SUBSET (1 .. counter)
    BY <1>1, <1>4
  <2>2. receipts \in [DOMAIN receipts -> Nat] /\ DOMAIN receipts \in SUBSET (1 .. counter)
    BY <1>1, <1>4
  <2>3. server \in [up : BOOLEAN, subs : SUBSET (Nat \X Places)] /\ IsFiniteSet(server.subs)
    BY <1>1, FS_EmptySet
  <2>4. acks \in [1 .. MaxSends -> Nat] /\ destinations \in [Destinations -> Nat]
    BY <1>1
  <2>5. sends \in Nat /\ sends <= MaxSends
    BY <1>1 DEF SendsAssumed
  <2>6. QED
    BY <1>1, <1>3, <1>5, <2>1, <2>2, <2>3, <2>4, <2>5 DEF BridgeTypes
<1>7. Linked
  BY <1>1, <1>4 DEF Linked
<1>8. Billed
  <2>1. Tickets(receipts) = {}
    BY <1>1, <1>4
  <2>2. IsFiniteSet(Tickets(receipts)) /\ Cardinality(Tickets(receipts)) = 0
    BY <2>1, FS_EmptySet
  <2>3. calls = 0 /\ notices = 0
    BY <1>1
  <2>4. QED
    BY <2>2, <2>3 DEF Billed
<1>9. Opening /\ Owed
  BY <1>1, <1>4, <1>5 DEF Opening, Owed
<1>10. InStep
  <2>1. server.subs = {} /\ {} \in Regions
    BY <1>1 DEF Regions
  <2>2. Hears({}, f) = {}
    BY <1>2 DEF Hears
  <2>3. Heard(Hears({}, Head(v)), Tail(v)) = Heard({}, v)
    BY <1>3, <2>1, HeardRead
  <2>4. Heard({}, <<>>) = {}
    <3>1. PICK b : Hearing(b, {}, <<>>) /\ Heard({}, <<>>) = b[Len(<<>>)]
      BY <1>5, <2>1, HeardGoes
    <3>2. QED
      BY <1>5, <3>1 DEF Hearing
  <2>5. Heard(server.subs, out) = {}
    BY <1>1, <1>3, <2>1, <2>2, <2>3, <2>4
  <2>6. Shared = {}
    BY <1>1, <1>4 DEF Shared
  <2>7. QED
    BY <2>5, <2>6, ComingIsHeard DEF InStep
<1>11. Counted
  <2>1. sends = 0 /\ 1 .. sends = {}
    BY <1>1
  <2>2. \A n \in 1 .. MaxSends : acks[n] = 0
    BY <1>1
  <2>3. Elements(in) = {} /\ \A g \in Elements(out) : g.command \notin {"ACK", "NACK"}
    BY <1>1, <1>2, <1>3, <1>5
  <2>4. QED
    BY <2>1, <2>2, <2>3 DEF Counted
<1>12. QED
  BY <1>6, <1>7, <1>8, <1>9, <1>10, <1>11 DEF BridgeInv, Stands, Lasts

LEMMA BridgeKept ==
  ASSUME SendsAssumed, BridgeInv, [Bridge!Next]_(Bridge!vars)
  PROVE  BridgeInv'
<1>1. ASSUME NEW d \in Destinations, NEW x \in Handlers,
             \/ Bridge!SubscribeAgain(d, x) \/ Bridge!SubscribeFirst(d, x)
             \/ Bridge!UnsubscribeSome(d, x) \/ Bridge!UnsubscribeLast(d, x)
      PROVE  BridgeInv'
  BY <1>1, AgainKept, FirstKept, SomeKept, LastKept
<1>2. ASSUME NEW d \in Destinations, Bridge!Dispatch(d) PROVE BridgeInv'
  BY <1>2, DispatchKept
<1>3. CASE Bridge!Destroy
  BY <1>3, DestroyKept
<1>4. ASSUME NEW handled \in BOOLEAN, Bridge!MessageFrame(handled) PROVE BridgeInv'
  BY <1>4, MessageKept
<1>5. CASE Bridge!ReceiptFrame
  BY <1>5, ReceiptKept
<1>6. CASE Bridge!ConnectedFrame
  BY <1>6, ConnectedKept
<1>7. CASE Bridge!ErrorFrame
  BY <1>7, ErrorKept
<1>8. CASE Bridge!ServerConnects
  BY <1>8, ServerConnectsKept
<1>9. CASE Bridge!ServerSubscribes \/ Bridge!ServerUnsubscribes
  BY <1>9, ServerHears
<1>10. CASE Bridge!ServerDelivers
  BY <1>10, DeliversKept
<1>11. CASE Bridge!ServerAcknowledged
  BY <1>11, AcknowledgedKept
<1>12. CASE Bridge!ServerEnds
  BY <1>12, EndsKept
<1>13. CASE UNCHANGED Bridge!vars
  <2>1. /\ UNCHANGED <<ready, subscriptions, destinations, receipts, counter, out, in, server>>
        /\ UNCHANGED <<sends, acks, calls, notices, premature, destroyed>>
    BY <1>13 DEF Bridge!vars, Bridge!local, Bridge!history
  <2>2. Stands /\ (Bridge!Lasting => Lasts)
    BY DEF BridgeInv
  <2>3. BridgeTypes' /\ Linked' /\ Billed'
    BY <2>1, <2>2 DEF Stands, BridgeTypes, Linked, Billed
  <2>4. Bridge!Lasting' => Lasts'
    BY <2>1, <2>2, LastsSame DEF Bridge!Lasting, Shared
  <2>5. QED
    BY <2>3, <2>4 DEF BridgeInv, Stands
<1>14. QED
  BY <1>1, <1>2, <1>3, <1>4, <1>5, <1>6, <1>7, <1>8, <1>9, <1>10, <1>11, <1>12, <1>13 DEF Bridge!Next

LEMMA OnceAnswered ==
  ASSUME BridgeTypes, NEW n \in 1 .. MaxSends, Placed(n)
  PROVE  Bridge!Answers(n) = 1
<1> DEFINE A == Where(out, AnswersTo(n))
           M == Where(in, Messages(n))
<1>1. out \in Seq(StompFrames) /\ in \in Seq(StompFrames) /\ acks[n] \in Nat
  BY DEF BridgeTypes
<1>2. /\ {i \in DOMAIN out : out[i].command \in {"ACK", "NACK"} /\ out[i].id = n} = A
      /\ {i \in DOMAIN in : in[i].command = "MESSAGE" /\ in[i].receipt = n} = M
  <2>1. DOMAIN out = 1 .. Len(out) /\ \A i \in 1 .. Len(out) : out[i] \in StompFrames
    BY <1>1, LenProperties, ElementOfSeq
  <2>2. DOMAIN in = 1 .. Len(in) /\ \A i \in 1 .. Len(in) : in[i] \in StompFrames
    BY <1>1, LenProperties, ElementOfSeq
  <2>3. {i \in DOMAIN out : out[i].command \in {"ACK", "NACK"} /\ out[i].id = n} = A
    BY <2>1 DEF Where, AnswersTo
  <2>4. {i \in DOMAIN in : in[i].command = "MESSAGE" /\ in[i].receipt = n} = M
    BY <2>2 DEF Where, Messages
  <2>5. QED
    BY <2>3, <2>4
<1>3. Bridge!Answers(n) = acks[n] + Bridge!Cardinality(A) + Bridge!Cardinality(M)
  BY <1>2 DEF Bridge!Answers
<1>4. \A S : Bridge!Cardinality(S) = Cardinality(S)
  BY DEF Bridge!Cardinality, Cardinality
<1>5. Cardinality({}) = 0 /\ \A S : JustOne(S) => Cardinality(S) = 1
  BY FS_EmptySet, FS_Singleton DEF JustOne
<1> HIDE DEF A, M
<1>6. \/ acks[n] = 1 /\ A = {} /\ M = {}
      \/ acks[n] = 0 /\ JustOne(A) /\ M = {}
      \/ acks[n] = 0 /\ A = {} /\ JustOne(M)
  BY DEF Placed, A, M
<1>7. \/ acks[n] = 1 /\ Cardinality(A) = 0 /\ Cardinality(M) = 0
      \/ acks[n] = 0 /\ Cardinality(A) = 1 /\ Cardinality(M) = 0
      \/ acks[n] = 0 /\ Cardinality(A) = 0 /\ Cardinality(M) = 1
  BY <1>5, <1>6
<1>8. Bridge!Answers(n) = acks[n] + Cardinality(A) + Cardinality(M)
  BY <1>3, <1>4
<1>9. QED
  BY <1>7, <1>8

LEMMA BridgeInvHolds ==
  ASSUME SendsAssumed, BridgeInv
  PROVE  Bridge!BridgeInStep
<1>1. SUFFICES ASSUME Bridge!Lasting
               PROVE  /\ Bridge!Coming = {<<id, subscriptions[id].dest>> : id \in DOMAIN subscriptions}
                      /\ \A d \in Destinations : Bridge!Cardinality({s \in Bridge!Coming : s[2] = d}) <= 1
                      /\ \A id \in DOMAIN subscriptions : subscriptions[id].handlers # {}
                      /\ \A n \in 1 .. sends : Bridge!Answers(n) = 1
                      /\ out = <<>> /\ in = <<>> => notices = calls
  BY DEF Bridge!BridgeInStep
<1>2. Stands /\ Lasts
  BY <1>1 DEF BridgeInv
<1>3. Linked
  BY <1>2 DEF Stands
<1>4. Bridge!Coming = Shared
  BY <1>2 DEF Lasts, InStep
<1>5. Bridge!Coming = {<<id, subscriptions[id].dest>> : id \in DOMAIN subscriptions}
  BY <1>4 DEF Shared
<1>6. ASSUME NEW d \in Destinations PROVE Bridge!Cardinality({s \in Bridge!Coming : s[2] = d}) <= 1
  <2> DEFINE S == {s \in Bridge!Coming : s[2] = d}
             one == <<destinations[d], d>>
             T == {one}
  <2>1. \A s \in S : s = one
    BY <1>3, <1>5 DEF Linked
  <2> HIDE DEF S, one
  <2>2. S # {} => \E t \in T : S = {t}
    BY <2>1
  <2> HIDE DEF T
  <2>3. Cardinality(S) <= 1
    BY <2>2, AtMostOne
  <2>4. Bridge!Cardinality(S) = Cardinality(S)
    BY DEF Bridge!Cardinality, Cardinality
  <2>5. QED
    BY <2>3, <2>4 DEF S
<1>7. \A id \in DOMAIN subscriptions : subscriptions[id].handlers # {}
  BY <1>3 DEF Linked
<1>8. ASSUME NEW n \in 1 .. sends PROVE Bridge!Answers(n) = 1
  <2>1. BridgeTypes /\ sends \in Nat /\ sends <= MaxSends /\ MaxSends \in Nat /\ Placed(n)
    BY <1>2 DEF Stands, BridgeTypes, SendsAssumed, Lasts, Counted
  <2>2. n \in 1 .. MaxSends
    BY <2>1
  <2>3. QED
    BY <2>1, <2>2, OnceAnswered
<1>9. ASSUME out = <<>>, in = <<>> PROVE notices = calls
  <2>1. Elements(out) = {} /\ Elements(in) = {}
    BY <1>9, EmptyTable DEF Elements
  <2>2. DOMAIN receipts = {}
    BY <1>2, <2>1 DEF Lasts, Owed
  <2>3. Tickets(receipts) = {}
    BY <2>2 DEF Tickets
  <2>4. calls = notices + 0 /\ notices \in Nat
    BY <1>1, <1>2, <2>3, FS_EmptySet DEF Stands, Billed, BridgeTypes, Bridge!Lasting
  <2>5. QED
    BY <2>4
<1>10. QED
  BY <1>5, <1>6, <1>7, <1>8, <1>9

(* While the connection of StompBridge lasts: once the server has read what is on its  *)
(* way it has just the subscriptions that some handler here shares, one for each        *)
(* destination; every message is answered once, whether its handler threw, had gone     *)
(* or was there; and when all is still, everybody who subscribed or left has been told.  *)
THEOREM BridgeStaysInStep ==
  ASSUME SendsAssumed
  PROVE  Bridge!Spec => []Bridge!BridgeInStep
<1>1. Bridge!Init => BridgeInv
  BY BridgeStarts
<1>2. BridgeInv /\ [Bridge!Next]_(Bridge!vars) => BridgeInv'
  BY BridgeKept
<1>3. BridgeInv => Bridge!BridgeInStep
  BY BridgeInvHolds
<1>4. QED
  BY <1>1, <1>2, <1>3, PTL DEF Bridge!Spec
=============================================================================
