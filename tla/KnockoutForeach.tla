---------------------------- MODULE KnockoutForeach ----------------------------
(***************************************************************************)
(* An observable array and the rows a foreach binding keeps for it: every    *)
(* operation on the array compares what it shows now with what the rows stand *)
(* for, and moves, adds and removes only what differs.  A row is one node;    *)
(* the limit on failed comparisons, which arrays as short as the bound never  *)
(* reach, and the callbacks of animations are left out.                       *)
(***************************************************************************)
EXTENDS Integers, Sequences, FiniteSets, SequencesExt, FiniteSetsExt

CONSTANTS Items, MaxLength    \* bound: what the array grows to

VARIABLES
  array,      \* the underlying array
  destroyed,  \* the items with _destroy
  rows,       \* lastMappingResult, as [entry, node]
  children    \* the nodes in the container, in order

vars == <<array, destroyed, rows, children>>
Init == array = <<>> /\ destroyed = {} /\ rows = <<>> /\ children = <<>>

-----------------------------------------------------------------------------
(* compareSmallArrayToBigArray: the edit distance, plus one, of a prefix of one  *)
(* array from a prefix of the other, worked out in a band about the diagonal    *)
(* alone (Outside it: undefined).                                             *)
Outside == -1
Distances(small, big) ==
  LET range == IF Len(big) = Len(small) THEN 1 ELSE Len(big) - Len(small)
      far == Len(small) + Len(big) + 1
      OrFar(n) == IF n = Outside THEN far ELSE n
      distance[i \in 0 .. Len(small), j \in 0 .. Len(big)] ==
        IF j \notin i - 1 .. i + range THEN Outside
        ELSE IF j = 0 THEN i + 1
        ELSE IF i = 0 THEN j + 1
        ELSE IF small[i] = big[j] THEN distance[i - 1, j - 1]
        ELSE 1 + Min({OrFar(distance[i - 1, j]), OrFar(distance[i, j - 1])})
  IN distance

(* The way back through them: what only the big array has, what only the small   *)
(* one has, and what both do.                                                  *)
EditScript(small, big) ==
  LET distance == Distances(small, big)
      script[i \in 0 .. Len(small), j \in 0 .. Len(big)] ==
        IF i = 0 /\ j = 0 THEN <<>>
        ELSE IF j > 0 /\ distance[i, j] - 1 = distance[i, j - 1]
          THEN Append(script[i, j - 1], "big")
        ELSE IF i > 0 /\ distance[i, j] - 1 = distance[i - 1, j]
          THEN Append(script[i - 1, j], "small")
        ELSE Append(script[i - 1, j - 1], "retained")
  IN script[Len(small), Len(big)]

CompareArrays(old, new) ==
  LET oldIsSmall == Len(old) <= Len(new)
      script == EditScript(IF oldIsSmall THEN old ELSE new, IF oldIsSmall THEN new ELSE old) IN
  [i \in DOMAIN script |->
    IF script[i] = "retained" THEN "retained"
    ELSE IF (script[i] = "big") = oldIsSmall THEN "added" ELSE "deleted"]

(* The place in the new array, or the old, that an edit is about *)
Place(script, i, other) == Cardinality({k \in 1 .. i : script[k] # other})
Edited(script, status, other) ==
  {Place(script, i, other) : i \in {k \in DOMAIN script : script[k] = status}}

(* An item deleted here and added there has moved: of equal items the last with  *)
(* the last.  Beside it, a comparison that finds no moves.                     *)
NoMoves(old, new, script) == {}
Moves(old, new, script) ==
  LET deleted == Edited(script, "deleted", "added")
      added == Edited(script, "added", "deleted") IN
  {m \in deleted \X added :
    /\ old[m[1]] = new[m[2]]
    /\ Cardinality({d \in deleted : d > m[1] /\ old[d] = old[m[1]]})
         = Cardinality({a \in added : a > m[2] /\ new[a] = new[m[2]]})}

(* setDomNodeChildrenFromArrayMapping: the rows of the new array, those of items *)
(* retained or moved with the node they had.                                   *)
Free == (1 .. 2 * MaxLength) \ {rows[i].node : i \in DOMAIN rows}
Fresh(p) == CHOOSE n \in Free : Cardinality({k \in Free : k < n}) = p - 1
NewRows(new) ==
  LET old == [i \in DOMAIN rows |-> rows[i].entry]
      script == CompareArrays(old, new)
      moves == Moves(old, new, script)
      kept == moves \cup
        {<<Place(script, i, "added"), Place(script, i, "deleted")>> :
           i \in {k \in DOMAIN script : script[k] = "retained"}} IN
  [p \in DOMAIN new |->
    IF \E m \in kept : m[2] = p THEN rows[(CHOOSE m \in kept : m[2] = p)[1]]
    ELSE [entry |-> new[p], node |-> Fresh(p)]]

(* Then the nodes of deleted rows go, and the others are put after one another,  *)
(* where they are not already.  Beside it, a pass that only puts in new nodes.   *)
InsertAfter(nodes, n, last) ==
  LET others == SelectSeq(nodes, LAMBDA x : x # n)
      at == IF last = 0 THEN 1 ELSE 1 + CHOOSE i \in DOMAIN others : others[i] = last
  IN InsertAt(others, at, n)
NextSibling(nodes, n) ==
  LET i == CHOOSE k \in DOMAIN nodes : nodes[k] = n
  IN IF i = Len(nodes) THEN 0 ELSE nodes[i + 1]
PutNew(acc, n) ==
  LET nodes == IF Contains(acc.nodes, n) THEN acc.nodes ELSE InsertAfter(acc.nodes, n, acc.last)
  IN [nodes |-> nodes, next |-> NextSibling(nodes, n), last |-> n]
Put(acc, n) ==
  LET nodes == IF n = acc.next THEN acc.nodes ELSE InsertAfter(acc.nodes, n, acc.last)
  IN [nodes |-> nodes, next |-> NextSibling(nodes, n), last |-> n]
Arranged(wanted) ==
  LET left == SelectSeq(children, LAMBDA n : Contains(wanted, n))
      first == IF left = <<>> THEN 0 ELSE Head(left)
  IN FoldLeft(Put, [nodes |-> left, next |-> first, last |-> 0], wanted).nodes

(* valueHasMutated, with which every operation ends: the binding shows what is not   *)
(* marked as destroyed.                                                        *)
Shown(s, gone) == SelectSeq(s, LAMBDA x : x \notin gone)
ValueHasMutated ==
  /\ rows' = NewRows(Shown(array', destroyed'))
  /\ children' = Arranged([i \in DOMAIN rows' |-> rows'[i].node])

-----------------------------------------------------------------------------
(* The operations of an observable array; push and its like by what they do *)
Become(s) == array' = s /\ UNCHANGED destroyed
Room == Len(array) < MaxLength
Assign(s) == s # array /\ Become(s)
Push(x) == Room /\ Become(Append(array, x))
Unshift(x) == Room /\ Become(<<x>> \o array)
Pop == array # <<>> /\ Become(Front(array))
Shift == array # <<>> /\ Become(Tail(array))
ReverseItems == Become(Reverse(array))
Splice(i, x) == i \in DOMAIN array /\ Become(ReplaceAt(array, i, x))
RemoveItem(x) == Contains(array, x) /\ Become(SelectSeq(array, LAMBDA y : y # x))
RemoveEverything == Become(<<>>)
ReplaceItem(x, y) ==
  /\ Contains(array, x)
  /\ Become(ReplaceAt(array, Min({i \in DOMAIN array : array[i] = x}), y))
Destroy(x) == destroyed' = destroyed \cup ({x} \cap Range(array)) /\ UNCHANGED array
DestroyAll == destroyed' = destroyed \cup Range(array) /\ UNCHANGED array

Operation ==
  \/ \E s \in BoundedSeq(Items, MaxLength) : Assign(s)
  \/ \E x \in Items :
       Push(x) \/ Unshift(x) \/ RemoveItem(x) \/ Destroy(x) \/ \E y \in Items : ReplaceItem(x, y)
  \/ \E x \in Items, i \in 1 .. MaxLength : Splice(i, x)
  \/ Pop \/ Shift \/ ReverseItems \/ RemoveEverything \/ DestroyAll

Next == Operation /\ ValueHasMutated

Spec == Init /\ [][Next]_vars

-----------------------------------------------------------------------------
(* After every operation the container's children are the rows of the items      *)
(* shown, in order, and as many rows of an item as can stay keep their node:      *)
(* their state, focus and bindings survive.                                     *)
Count(s, x) == Cardinality({i \in DOMAIN s : s[i].entry = x})
RowsMatch ==
  /\ [i \in DOMAIN rows |-> rows[i].entry] = Shown(array, destroyed)
  /\ children = [i \in DOMAIN rows |-> rows[i].node] /\ IsInjective(children)
RowsKept == \A x \in Items :
  Cardinality({r \in Range(rows) : r.entry = x /\ r \in Range(rows')})
    = Min({Count(rows, x), Count(rows', x)})
RowsFollowArray == []RowsMatch /\ [][RowsKept]_vars
=============================================================================
