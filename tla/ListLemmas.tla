------------------------------ MODULE ListLemmas ------------------------------
(***************************************************************************)
(* Numbers, lists and folds: the facts that the proofs about the libraries of   *)
(* the pages keep needing.  A fold of the community modules goes through each  *)
(* initial part of its list, and what every step keeps it keeps.               *)
(***************************************************************************)
EXTENDS Integers, Sequences, FiniteSetTheorems, SequenceTheorems, WellFoundedInduction, TLAPS

-----------------------------------------------------------------------------
(* What a set of numbers and a set of one have.                              *)
LEMMA HasLeast ==
  ASSUME NEW S \in SUBSET Nat, S # {}
  PROVE  \E x \in S : \A y \in S : x <= y
<1>1. PICK x \in S : \A y \in S : ~ (<<y, x>> \in OpToRel(<, Nat))
  BY NatLessThanWellFounded, WFMin
<1>2. ASSUME NEW y \in S, y < x PROVE FALSE
  <2>1. <<y, x>> \in Nat \X Nat /\ <<y, x>>[1] < <<y, x>>[2]
    BY <1>2
  <2>2. QED
    BY <1>1, <2>1 DEF OpToRel
<1>3. \A y \in S : x <= y
  BY <1>2
<1>4. QED
  BY <1>3

LEMMA AtMostOne ==
  ASSUME NEW S, NEW T, S # {} => \E t \in T : S = {t}
  PROVE  Cardinality(S) <= 1
<1>1. CASE S = {}
  BY <1>1, FS_EmptySet
<1>2. CASE S # {}
  <2>1. PICK t \in T : S = {t}
    BY <1>2
  <2>2. Cardinality({t}) = 1
    BY FS_Singleton
  <2>3. QED
    BY <2>1, <2>2
<1>3. QED
  BY <1>1, <1>2

-----------------------------------------------------------------------------
(* The elements of a list, each of them once, in their order.                  *)
Elements(s) == {s[i] : i \in DOMAIN s}
Distinct(s) == \A i, j \in 1 .. Len(s) : s[i] = s[j] => i = j
Rising(s) == \A i, j \in 1 .. Len(s) : i < j => s[i] < s[j]

LEMMA Listed ==
  ASSUME NEW S, NEW s \in Seq(S)
  PROVE  /\ DOMAIN s = 1 .. Len(s) /\ Len(s) \in Nat /\ Elements(s) \in SUBSET S
         /\ \A x : x \in Elements(s) <=> \E i \in 1 .. Len(s) : s[i] = x
<1>1. DOMAIN s = 1 .. Len(s) /\ Len(s) \in Nat /\ \A i \in 1 .. Len(s) : s[i] \in S
  BY LenProperties, ElementOfSeq
<1>2. QED
  BY <1>1 DEF Elements

LEMMA Appended ==
  ASSUME NEW S, NEW s \in Seq(S), NEW x \in S
  PROVE  LET r == Append(s, x)
         IN  /\ r \in Seq(S) /\ Elements(r) = Elements(s) \cup {x} /\ Len(r) = Len(s) + 1
             /\ r[Len(s) + 1] = x /\ \A i \in 1 .. Len(s) : r[i] = s[i]
             /\ Distinct(s) /\ x \notin Elements(s) => Distinct(r)
<1> DEFINE r == Append(s, x)
<1>1. /\ r \in Seq(S) /\ Len(r) = Len(s) + 1 /\ Len(s) \in Nat
      /\ r[Len(s) + 1] = x /\ \A i \in 1 .. Len(s) : r[i] = s[i]
  BY AppendProperties, LenProperties
<1> HIDE DEF r
<1>2. /\ \A y : y \in Elements(s) <=> \E i \in 1 .. Len(s) : s[i] = y
      /\ \A y : y \in Elements(r) <=> \E i \in 1 .. Len(r) : r[i] = y
  BY <1>1, Listed
<1>3. \A y : y \in Elements(r) <=> y \in Elements(s) \/ y = x
  <2> TAKE y
  <2>1. ASSUME y \in Elements(r) PROVE y \in Elements(s) \/ y = x
    BY <1>1, <1>2, <2>1
  <2>2. ASSUME y \in Elements(s) PROVE y \in Elements(r)
    <3>1. PICK i \in 1 .. Len(s) : s[i] = y
      BY <1>2, <2>2
    <3>2. i \in 1 .. Len(r) /\ r[i] = y
      BY <1>1, <3>1
    <3>3. QED
      BY <1>2, <3>2
  <2>3. x \in Elements(r)
    <3>1. Len(s) + 1 \in 1 .. Len(r)
      BY <1>1
    <3>2. QED
      BY <1>1, <1>2, <3>1
  <2>4. QED
    BY <2>1, <2>2, <2>3
<1>4. Distinct(s) /\ x \notin Elements(s) => Distinct(r)
  BY <1>1, <1>2 DEF Distinct
<1>5. QED
  BY <1>1, <1>3, <1>4 DEF r

(* A list cut in two, and two made one.                                      *)
Fore(s, k) == SubSeq(s, 1, k)
Rear(s, k) == SubSeq(s, k + 1, Len(s))
LEMMA Halved ==
  ASSUME NEW S, NEW s \in Seq(S), NEW k \in 0 .. Len(s)
  PROVE  /\ Fore(s, k) \in Seq(S) /\ Rear(s, k) \in Seq(S)
         /\ Len(Fore(s, k)) = k /\ Len(Rear(s, k)) = Len(s) - k
         /\ Elements(s) = Elements(Fore(s, k)) \cup Elements(Rear(s, k))
         /\ Distinct(s) => /\ Distinct(Fore(s, k)) /\ Distinct(Rear(s, k))
                           /\ Elements(Fore(s, k)) \cap Elements(Rear(s, k)) = {}
<1> DEFINE n == Len(s)
           u == Fore(s, k)
           v == Rear(s, k)
<1>1. n \in Nat /\ k \in Int /\ 0 <= k /\ k <= n /\ \A a \in 1 .. n : s[a] \in S
  BY LenProperties, ElementOfSeq
<1>2. u \in Seq(S) /\ Len(u) = k /\ \A a \in 1 .. k : u[a] = s[a]
  <2>1. Len(u) = (IF 1 <= k THEN k - 1 + 1 ELSE 0) /\ u \in Seq(S) /\ \A a \in 1 .. k - 1 + 1 : u[a] = s[1 + a - 1]
    BY <1>1, SubSeqProperties DEF Fore
  <2>2. k - 1 + 1 = k /\ \A a \in 1 .. k : 1 + a - 1 = a
    BY <1>1
  <2> HIDE DEF u
  <2>3. QED
    BY <1>1, <2>1, <2>2
<1>3. v \in Seq(S) /\ Len(v) = n - k /\ \A a \in 1 .. n - k : v[a] = s[a + k]
  <2>1. k + 1 \in Int /\ \A a \in k + 1 .. n : s[a] \in S
    BY <1>1
  <2>2. /\ Len(v) = (IF k + 1 <= n THEN n - (k + 1) + 1 ELSE 0) /\ v \in Seq(S)
        /\ \A a \in 1 .. n - (k + 1) + 1 : v[a] = s[(k + 1) + a - 1]
    BY <1>1, <2>1, SubSeqProperties DEF Rear
  <2>3. n - (k + 1) + 1 = n - k /\ \A a \in 1 .. n - k : (k + 1) + a - 1 = a + k
    BY <1>1
  <2> HIDE DEF v, n
  <2>4. v \in Seq(S) /\ Len(v) = n - k
    BY <1>1, <2>2
  <2>5. \A a \in 1 .. n - k : v[a] = s[a + k]
    BY <2>2, <2>3
  <2>6. QED
    BY <2>4, <2>5
<1> HIDE DEF u, v
<1>4. /\ \A x : x \in Elements(s) <=> \E i \in 1 .. n : s[i] = x
      /\ \A x : x \in Elements(u) <=> \E i \in 1 .. k : u[i] = x
      /\ \A x : x \in Elements(v) <=> \E i \in 1 .. n - k : v[i] = x
  <2> HIDE DEF n
  <2>1. /\ \A x : x \in Elements(u) <=> \E i \in 1 .. Len(u) : u[i] = x
        /\ \A x : x \in Elements(v) <=> \E i \in 1 .. Len(v) : v[i] = x
    BY <1>2, <1>3, Listed
  <2>2. \A x : x \in Elements(s) <=> \E i \in 1 .. n : s[i] = x
    BY Listed DEF n
  <2>3. QED
    BY <1>2, <1>3, <2>1, <2>2
<1> HIDE DEF n
<1>5. ASSUME NEW x PROVE x \in Elements(s) <=> x \in Elements(u) \/ x \in Elements(v)
  <2>1. ASSUME x \in Elements(u) PROVE x \in Elements(s)
    BY <1>1, <1>2, <1>4, <2>1
  <2>2. ASSUME x \in Elements(v) PROVE x \in Elements(s)
    <3>1. PICK i \in 1 .. n - k : v[i] = x
      BY <1>4, <2>2
    <3>2. i + k \in 1 .. n /\ s[i + k] = x
      BY <1>1, <1>3, <3>1
    <3>3. QED
      BY <1>4, <3>2
  <2>3. ASSUME x \in Elements(s) PROVE x \in Elements(u) \/ x \in Elements(v)
    <3>1. PICK i \in 1 .. n : s[i] = x
      BY <1>4, <2>3
    <3>2. CASE i <= k
      <4>1. i \in 1 .. k
        BY <1>1, <3>2
      <4>2. QED
        BY <1>2, <1>4, <3>1, <4>1
    <3>3. CASE i > k
      <4>1. i - k \in 1 .. n - k /\ (i - k) + k = i
        BY <1>1, <3>3
      <4>2. v[i - k] = x
        BY <1>3, <3>1, <4>1
      <4>3. QED
        BY <1>4, <4>1, <4>2
    <3>4. QED
      BY <1>1, <3>2, <3>3
  <2>4. QED
    BY <2>1, <2>2, <2>3
<1>6. ASSUME Distinct(s)
      PROVE  Distinct(u) /\ Distinct(v) /\ Elements(u) \cap Elements(v) = {}
  <2>1. \A i, j \in 1 .. n : s[i] = s[j] => i = j
    BY <1>6 DEF Distinct, n
  <2>2. Distinct(u)
    BY <1>1, <1>2, <2>1 DEF Distinct
  <2>3. Distinct(v)
    <3> SUFFICES ASSUME NEW i \in 1 .. Len(v), NEW j \in 1 .. Len(v), v[i] = v[j] PROVE i = j
      BY DEF Distinct
    <3>1. i + k \in 1 .. n /\ j + k \in 1 .. n /\ s[i + k] = s[j + k]
      BY <1>1, <1>3
    <3>2. i + k = j + k
      BY <2>1, <3>1
    <3>3. QED
      BY <1>1, <1>3, <3>2
  <2>4. ASSUME NEW x, x \in Elements(u), x \in Elements(v) PROVE FALSE
    <3>1. PICK i \in 1 .. k : u[i] = x
      BY <1>4, <2>4
    <3>2. PICK j \in 1 .. n - k : v[j] = x
      BY <1>4, <2>4
    <3>3. i \in 1 .. n /\ j + k \in 1 .. n /\ s[i] = s[j + k] /\ i # j + k
      BY <1>1, <1>2, <1>3, <3>1, <3>2
    <3>4. QED
      BY <2>1, <3>3
  <2>5. QED
    BY <2>2, <2>3, <2>4
<1>7. QED
  BY <1>2, <1>3, <1>5, <1>6 DEF u, v, n

LEMMA Joined ==
  ASSUME NEW S, NEW u \in Seq(S), NEW v \in Seq(S)
  PROVE  LET r == u \o v
         IN  /\ r \in Seq(S) /\ Elements(r) = Elements(u) \cup Elements(v)
             /\ Distinct(u) /\ Distinct(v) /\ Elements(u) \cap Elements(v) = {} => Distinct(r)
<1> DEFINE r == u \o v
           m == Len(u)
           n == Len(v)
<1>1. /\ m \in Nat /\ n \in Nat /\ r \in Seq(S) /\ Len(r) = m + n
      /\ \A a \in 1 .. m + n : r[a] = IF a <= m THEN u[a] ELSE v[a - m]
  BY LenProperties, ConcatProperties
<1> HIDE DEF r
<1>2. /\ \A x : x \in Elements(u) <=> \E i \in 1 .. m : u[i] = x
      /\ \A x : x \in Elements(v) <=> \E i \in 1 .. n : v[i] = x
      /\ \A x : x \in Elements(r) <=> \E i \in 1 .. m + n : r[i] = x
  BY <1>1, Listed
<1>3. /\ Distinct(u) = \A i, j \in 1 .. m : u[i] = u[j] => i = j
      /\ Distinct(v) = \A i, j \in 1 .. n : v[i] = v[j] => i = j
  BY DEF Distinct
<1> HIDE DEF m, n
<1>4. \A i \in 1 .. m : i \in 1 .. m + n /\ r[i] = u[i]
  BY <1>1
<1>5. \A i \in 1 .. n : i + m \in 1 .. m + n /\ r[i + m] = v[i]
  <2> TAKE i \in 1 .. n
  <2>1. i + m \in 1 .. m + n /\ ~(i + m <= m) /\ (i + m) - m = i
    BY <1>1
  <2>2. QED
    BY <1>1, <2>1
<1>6. \A i \in 1 .. m + n : i \in 1 .. m \/ (i - m \in 1 .. n /\ r[i] = v[i - m] /\ i > m)
  BY <1>1
<1>7. ASSUME NEW x PROVE x \in Elements(r) <=> x \in Elements(u) \/ x \in Elements(v)
  <2>1. ASSUME x \in Elements(u) \/ x \in Elements(v) PROVE x \in Elements(r)
    BY <1>2, <1>4, <1>5, <2>1
  <2>2. ASSUME x \in Elements(r) PROVE x \in Elements(u) \/ x \in Elements(v)
    <3>1. PICK i \in 1 .. m + n : r[i] = x
      BY <1>2, <2>2
    <3>2. CASE i \in 1 .. m
      BY <1>2, <1>4, <3>1, <3>2
    <3>3. CASE i - m \in 1 .. n /\ r[i] = v[i - m]
      BY <1>2, <3>1, <3>3
    <3>4. QED
      BY <1>6, <3>2, <3>3
  <2>3. QED
    BY <2>1, <2>2
<1>8. ASSUME Distinct(u), Distinct(v), Elements(u) \cap Elements(v) = {} PROVE Distinct(r)
  <2> SUFFICES ASSUME NEW i \in 1 .. m + n, NEW j \in 1 .. m + n, r[i] = r[j] PROVE i = j
    BY <1>1 DEF Distinct
  <2>1. \A a \in 1 .. m, b \in 1 .. n : u[a] # v[b]
    BY <1>2, <1>8
  <2>2. CASE i \in 1 .. m /\ j \in 1 .. m
    BY <1>3, <1>4, <1>8, <2>2
  <2>3. CASE i - m \in 1 .. n /\ r[i] = v[i - m] /\ j - m \in 1 .. n /\ r[j] = v[j - m]
    <3>1. i - m = j - m
      BY <1>3, <1>8, <2>3
    <3>2. QED
      BY <1>1, <3>1
  <2>4. CASE i \in 1 .. m /\ j - m \in 1 .. n /\ r[j] = v[j - m]
    BY <1>4, <2>1, <2>4
  <2>5. CASE j \in 1 .. m /\ i - m \in 1 .. n /\ r[i] = v[i - m]
    BY <1>4, <2>1, <2>5
  <2>6. QED
    BY <1>6, <2>2, <2>3, <2>4, <2>5
<1>9. QED
  BY <1>1, <1>7, <1>8 DEF r

Without(s, i) == SubSeq(s, 1, i - 1) \o SubSeq(s, i + 1, Len(s))
LEMMA Cut ==
  ASSUME NEW S, NEW s \in Seq(S), NEW i \in 1 .. Len(s)
  PROVE  /\ Without(s, i) \in Seq(S) /\ Len(Without(s, i)) = Len(s) - 1
         /\ \A a \in 1 .. Len(s) - 1 : Without(s, i)[a] = IF a < i THEN s[a] ELSE s[a + 1]
<1> DEFINE n == Len(s)
           u == SubSeq(s, 1, i - 1)
           v == SubSeq(s, i + 1, n)
<1>1. /\ n \in Nat /\ i \in Int /\ 1 <= i /\ i <= n
      /\ \A a \in 1 .. n : s[a] \in S
  BY LenProperties, ElementOfSeq
<1>2. u \in Seq(S) /\ Len(u) = i - 1 /\ \A a \in 1 .. i - 1 : u[a] = s[a]
  BY <1>1, SubSeqProperties
<1>3. /\ v \in Seq(S) /\ Len(v) = IF i + 1 <= n THEN n - (i + 1) + 1 ELSE 0
      /\ \A a \in 1 .. n - (i + 1) + 1 : v[a] = s[(i + 1) + a - 1]
  <2>1. i + 1 \in Int /\ \A a \in i + 1 .. n : s[a] \in S
    BY <1>1
  <2>2. QED
    BY <1>1, <2>1, SubSeqProperties
<1>4. Without(s, i) = u \o v
  BY DEF Without
<1> HIDE DEF u, v, n
<1>5. Len(v) = n - i /\ \A a \in 1 .. n - i : v[a] = s[a + i]
  <2>1. n - (i + 1) + 1 = n - i /\ \A a \in 1 .. n - i : (i + 1) + a - 1 = a + i
    BY <1>1
  <2>2. QED
    BY <1>1, <1>3, <2>1
<1>6. /\ u \o v \in Seq(S) /\ Len(u \o v) = Len(u) + Len(v)
      /\ \A a \in 1 .. Len(u) + Len(v) : (u \o v)[a] = IF a <= Len(u) THEN u[a] ELSE v[a - Len(u)]
  BY <1>2, <1>3, ConcatProperties
<1>7. Len(u) + Len(v) = n - 1
  BY <1>1, <1>2, <1>5
<1>8. ASSUME NEW a \in 1 .. n - 1
      PROVE  (u \o v)[a] = IF a < i THEN s[a] ELSE s[a + 1]
  <2>1. (u \o v)[a] = IF a <= Len(u) THEN u[a] ELSE v[a - Len(u)]
    BY <1>6, <1>7, <1>8
  <2>2. CASE a < i
    <3>1. a <= Len(u) /\ a \in 1 .. i - 1
      BY <1>1, <1>2, <1>8, <2>2
    <3>2. QED
      BY <1>2, <2>1, <2>2, <3>1
  <2>3. CASE ~(a < i)
    <3>1. ~(a <= Len(u)) /\ a - Len(u) \in 1 .. n - i /\ (a - Len(u)) + i = a + 1
      BY <1>1, <1>2, <1>8, <2>3
    <3>2. QED
      BY <1>5, <2>1, <2>3, <3>1
  <2>4. QED
    BY <2>2, <2>3
<1>9. QED
  BY <1>4, <1>6, <1>7, <1>8 DEF n

(* A list is its head and what follows it.                                    *)
LEMMA Shifted ==
  ASSUME NEW S, NEW s \in Seq(S), s # <<>>
  PROVE  /\ Head(s) \in S /\ Tail(s) \in Seq(S) /\ Head(s) = s[1] /\ Len(Tail(s)) = Len(s) - 1
         /\ Elements(s) = {Head(s)} \cup Elements(Tail(s))
         /\ Distinct(s) => Distinct(Tail(s)) /\ Head(s) \notin Elements(Tail(s))
<1> DEFINE x == Head(s)
           r == Tail(s)
<1>1. /\ x \in S /\ r \in Seq(S) /\ x = s[1] /\ Len(r) = Len(s) - 1
      /\ \A i \in 1 .. Len(r) : r[i] = s[i + 1]
  BY HeadTailProperties
<1>2. Len(s) \in Nat /\ Len(s) # 0
  BY LenProperties, EmptySeq
<1> HIDE DEF x, r
<1>3. Len(r) \in Nat /\ 1 \in 1 .. Len(s)
  BY <1>1, <1>2
<1>4. \A i \in 1 .. Len(s) : i = 1 \/ (i - 1 \in 1 .. Len(r) /\ r[i - 1] = s[i])
  BY <1>1, <1>2, <1>3
<1>5. \A i \in 1 .. Len(r) : i + 1 \in 1 .. Len(s) /\ r[i] = s[i + 1] /\ i + 1 # 1
  BY <1>1, <1>2, <1>3
<1>6. /\ \A y : y \in Elements(s) <=> \E i \in 1 .. Len(s) : s[i] = y
      /\ \A y : y \in Elements(r) <=> \E i \in 1 .. Len(r) : r[i] = y
  BY <1>1, Listed
<1>7. \A y : y \in Elements(s) => y = x \/ y \in Elements(r)
  BY <1>1, <1>4, <1>6
<1>8. x \in Elements(s) /\ \A y : y \in Elements(r) => y \in Elements(s)
  BY <1>1, <1>3, <1>5, <1>6
<1>9. Elements(s) = {x} \cup Elements(r)
  BY <1>7, <1>8
<1>10. ASSUME Distinct(s) PROVE Distinct(r) /\ x \notin Elements(r)
  <2>1. \A i, j \in 1 .. Len(r) : r[i] = r[j] => i + 1 = j + 1
    BY <1>5, <1>10 DEF Distinct
  <2>2. \A i, j \in 1 .. Len(r) : i + 1 = j + 1 => i = j
    BY <1>3
  <2>3. \A i \in 1 .. Len(r) : r[i] # s[1]
    BY <1>3, <1>5, <1>10 DEF Distinct
  <2>4. QED
    BY <1>1, <1>6, <2>1, <2>2, <2>3 DEF Distinct
<1>11. QED
  BY <1>1, <1>9, <1>10 DEF x, r

LEMMA Removed ==
  ASSUME NEW S, NEW s \in Seq(S), NEW i \in 1 .. Len(s), Distinct(s)
  PROVE  Distinct(Without(s, i)) /\ Elements(Without(s, i)) = Elements(s) \ {s[i]}
<1> DEFINE n == Len(s)
           r == Without(s, i)
<1>1. /\ n \in Nat /\ i \in 1 .. n /\ \A a, b \in 1 .. n : s[a] = s[b] => a = b
  BY LenProperties DEF Distinct
<1>2. /\ r \in Seq(S) /\ Len(r) = n - 1
      /\ \A a \in 1 .. n - 1 : r[a] = IF a < i THEN s[a] ELSE s[a + 1]
  BY Cut
<1>3. /\ \A y : y \in Elements(s) <=> \E a \in 1 .. n : s[a] = y
      /\ \A y : y \in Elements(r) <=> \E a \in 1 .. n - 1 : r[a] = y
  BY <1>2, Listed
<1> HIDE DEF n, r
<1>4. ASSUME NEW a \in 1 .. n - 1
      PROVE  /\ (IF a < i THEN a ELSE a + 1) \in 1 .. n \ {i}
             /\ r[a] = s[IF a < i THEN a ELSE a + 1]
  <2>1. CASE a < i
    BY <1>1, <1>2, <1>4, <2>1
  <2>2. CASE ~(a < i)
    BY <1>1, <1>2, <1>4, <2>2
  <2>3. QED
    BY <2>1, <2>2
<1>5. ASSUME NEW a \in 1 .. n - 1, NEW b \in 1 .. n - 1, r[a] = r[b] PROVE a = b
  <2>1. (IF a < i THEN a ELSE a + 1) = (IF b < i THEN b ELSE b + 1)
    BY <1>1, <1>4, <1>5
  <2>2. QED
    BY <1>1, <1>5, <2>1
<1>6. ASSUME NEW y, y \in Elements(r) PROVE y \in Elements(s) /\ y # s[i]
  <2>1. PICK a \in 1 .. n - 1 : r[a] = y
    BY <1>3, <1>6
  <2>2. PICK b \in 1 .. n \ {i} : s[b] = y
    BY <1>4, <2>1
  <2>3. QED
    BY <1>1, <1>3, <2>2
<1>7. ASSUME NEW y, y \in Elements(s), y # s[i] PROVE y \in Elements(r)
  <2>1. PICK a \in 1 .. n : s[a] = y
    BY <1>3, <1>7
  <2> DEFINE b == IF a < i THEN a ELSE a - 1
  <2>2. b \in 1 .. n - 1 /\ (IF b < i THEN b ELSE b + 1) = a
    BY <1>1, <1>7, <2>1
  <2> HIDE DEF b
  <2>3. QED
    BY <1>3, <1>4, <2>1, <2>2
<1>8. QED
  BY <1>2, <1>5, <1>6, <1>7 DEF Distinct, r

-----------------------------------------------------------------------------
(* What holds of 0 and with each number of the next holds of all up to any.     *)
LEMMA Climbs ==
  ASSUME NEW n \in Nat, NEW good, 0 \in good, \A k \in 1 .. n : k - 1 \in good => k \in good
  PROVE  \A k \in 0 .. n : k \in good
<1> DEFINE bad == {k \in 0 .. n : k \notin good}
<1>1. CASE bad # {}
  <2>1. bad \in SUBSET Nat
    OBVIOUS
  <2>2. PICK k \in bad : \A j \in bad : k <= j
    BY <1>1, <2>1, HasLeast
  <2>3. k \in 1 .. n /\ k - 1 \in 0 .. n /\ ~(k <= k - 1)
    BY <2>2
  <2>4. k - 1 \notin bad
    BY <2>2, <2>3
  <2>5. QED
    BY <2>2, <2>3, <2>4
<1>2. QED
  BY <1>1

(* The greatest of an initial part of the numbers, and of any part of it.       *)
MaxOf(S) == CHOOSE x \in S : \A y \in S : x >= y
LEMMA MaxOfPart ==
  ASSUME NEW n \in Nat, NEW s \in SUBSET (1 .. n), s # {}
  PROVE  MaxOf(s) \in s /\ \A y \in s : MaxOf(s) >= y
<1> DEFINE T == {k \in 0 .. n : n - k \in s}
<1>1. T \in SUBSET Nat
  OBVIOUS
<1>2. T # {}
  <2>1. PICK x \in s : TRUE
    OBVIOUS
  <2>2. n - x \in 0 .. n /\ n - (n - x) = x
    BY <2>1
  <2>3. n - x \in T
    BY <2>1, <2>2
  <2>4. QED
    BY <2>3
<1>3. PICK k \in T : \A j \in T : k <= j
  BY <1>1, <1>2, HasLeast
<1>4. \A y \in s : n - k >= y
  <2> SUFFICES ASSUME NEW y \in s PROVE n - k >= y
    OBVIOUS
  <2>1. n - y \in 0 .. n /\ n - (n - y) = y
    OBVIOUS
  <2>2. n - y \in T
    BY <2>1
  <2>3. QED
    BY <1>3, <2>1, <2>2
<1>5. n - k \in s
  BY <1>3
<1>6. \E x \in s : \A y \in s : x >= y
  BY <1>4, <1>5
<1>7. QED
  BY <1>6 DEF MaxOf

(* What a fold goes through: of each part of a sequence the result of folding it.  *)
Results(op, h, w, n, f) ==
  f = [s \in SUBSET (1 .. n) |-> IF s = {} THEN h ELSE op[<<f[s \ {MaxOf(s)}], w[MaxOf(s)]>>]]
LEMMA ResultsExist ==
  ASSUME NEW S, NEW T, NEW op \in [S \X T -> S], NEW h \in S, NEW w \in Seq(T),
         NEW N \in Nat, N <= Len(w)
  PROVE  \E f \in [SUBSET (1 .. N) -> S] : Results(op, h, w, N, f)
<1> DEFINE P(n) == \E f \in [SUBSET (1 .. n) -> S] : Results(op, h, w, n, f)
           good == {n \in 0 .. N : P(n)}
<1>1. Len(w) \in Nat /\ \A i \in 1 .. Len(w) : w[i] \in T
  BY LenProperties, ElementOfSeq
<1>2. P(0)
  <2> DEFINE f == [s \in SUBSET (1 .. 0) |-> h]
  <2>1. f \in [SUBSET (1 .. 0) -> S]
    OBVIOUS
  <2>2. \A s \in SUBSET (1 .. 0) : s = {}
    OBVIOUS
  <2>3. Results(op, h, w, 0, f)
    BY <2>2 DEF Results
  <2>4. QED
    BY <2>1, <2>3
<1>3. ASSUME NEW n \in 1 .. N, P(n - 1) PROVE P(n)
  <2>1. PICK f \in [SUBSET (1 .. n - 1) -> S] : Results(op, h, w, n - 1, f)
    BY <1>3
  <2> DEFINE e == [s \in SUBSET (1 .. n) |->
                     IF n \in s THEN op[<<f[s \ {n}], w[n]>>] ELSE f[s]]
  <2>2. \A s \in SUBSET (1 .. n) : s \ {n} \in SUBSET (1 .. n - 1) /\ (n \notin s => s \in SUBSET (1 .. n - 1))
    OBVIOUS
  <2>3. w[n] \in T
    BY <1>1
  <2>4. \A s \in SUBSET (1 .. n) : f[s \ {n}] \in S /\ (n \notin s => f[s] \in S)
    BY <2>2
  <2>5. \A s \in SUBSET (1 .. n) : op[<<f[s \ {n}], w[n]>>] \in S
    BY <2>3, <2>4
  <2>6. e \in [SUBSET (1 .. n) -> S]
    BY <2>4, <2>5
  <2>7. ASSUME NEW s \in SUBSET (1 .. n)
        PROVE  e[s] = IF s = {} THEN h ELSE op[<<e[s \ {MaxOf(s)}], w[MaxOf(s)]>>]
    <3>1. CASE n \in s
      <4>1. n \in Nat
        OBVIOUS
      <4>2. MaxOf(s) = n
        <5>1. MaxOf(s) \in s /\ \A y \in s : MaxOf(s) >= y
          BY <3>1, <4>1, MaxOfPart
        <5>2. MaxOf(s) \in 1 .. n /\ MaxOf(s) >= n
          BY <3>1, <5>1
        <5>3. QED
          BY <4>1, <5>2
      <4>3. s \ {n} \in SUBSET (1 .. n) /\ n \notin s \ {n}
        OBVIOUS
      <4>4. e[s \ {n}] = f[s \ {n}]
        BY <4>3
      <4>5. QED
        BY <3>1, <4>2, <4>4
    <3>2. CASE n \notin s
      <4>1. s \in SUBSET (1 .. n - 1) /\ e[s] = f[s]
        BY <2>2, <3>2
      <4>2. s \ {MaxOf(s)} \in SUBSET (1 .. n) /\ n \notin s \ {MaxOf(s)}
        BY <3>2
      <4>3. e[s \ {MaxOf(s)}] = f[s \ {MaxOf(s)}]
        BY <4>2
      <4>4. f[s] = IF s = {} THEN h ELSE op[<<f[s \ {MaxOf(s)}], w[MaxOf(s)]>>]
        BY <2>1, <4>1 DEF Results
      <4>5. QED
        BY <4>1, <4>3, <4>4
    <3>3. QED
      BY <3>1, <3>2
  <2>8. e = [s \in SUBSET (1 .. n) |-> e[s]]
    OBVIOUS
  <2> HIDE DEF e
  <2>9. Results(op, h, w, n, e)
    BY <2>7, <2>8 DEF Results
  <2>10. QED
    BY <2>6, <2>9
<1> HIDE DEF P
<1>4. 0 \in good /\ \A n \in 1 .. N : n - 1 \in good => n \in good
  BY <1>2, <1>3
<1>5. N \in good
  <2> HIDE DEF good
  <2>1. \A n \in 0 .. N : n \in good
    BY <1>4, Climbs
  <2>2. QED
    BY <2>1
<1>6. P(N)
  BY <1>5
<1>7. QED
  BY <1>6 DEF P

(* A fold goes along its sequence, if each of its steps stays among some values.  *)
StepsAlong(op, h, w, f, S) ==
  /\ f[1 .. 0] = h
  /\ \A k \in 1 .. Len(w) : f[1 .. k - 1] \in S => f[1 .. k] = op[<<f[1 .. k - 1], w[k]>>]
Arrives(op, w, f, S) ==
  /\ f[1 .. Len(w)] \in S
  /\ Len(w) > 0 => \E x \in S : f[1 .. Len(w)] = op[<<x, w[Len(w)]>>]
LEMMA Along ==
  ASSUME NEW S, NEW T, NEW op \in [S \X T -> S], NEW h \in S, NEW w \in Seq(T), NEW f,
         StepsAlong(op, h, w, f, S)
  PROVE  Arrives(op, w, f, S)
<1> DEFINE n == Len(w)
           good == {k \in 0 .. n : f[1 .. k] \in S}
<1>1. n \in Nat /\ \A i \in 1 .. n : w[i] \in T
  BY LenProperties, ElementOfSeq
<1> HIDE DEF n
<1>2. 0 \in good
  BY <1>1 DEF StepsAlong
<1>3. \A k \in 1 .. n : k - 1 \in good => k \in good
  <2> SUFFICES ASSUME NEW k \in 1 .. n, k - 1 \in good PROVE k \in good
    OBVIOUS
  <2>1. f[1 .. k - 1] \in S /\ w[k] \in T /\ k \in 0 .. n
    BY <1>1
  <2>2. f[1 .. k] = op[<<f[1 .. k - 1], w[k]>>]
    BY <2>1 DEF n, StepsAlong
  <2>3. QED
    BY <2>1, <2>2
<1>4. \A k \in 0 .. n : k \in good
  <2> HIDE DEF good
  <2>1. QED
    BY <1>1, <1>2, <1>3, Climbs
<1>5. f[1 .. n] \in S
  BY <1>1, <1>4
<1>6. ASSUME n > 0 PROVE \E x \in S : f[1 .. n] = op[<<x, w[n]>>]
  <2>1. n \in 1 .. n /\ n - 1 \in 0 .. n
    BY <1>1, <1>6
  <2>2. f[1 .. n - 1] \in S
    BY <1>4, <2>1
  <2>3. f[1 .. n] = op[<<f[1 .. n - 1], w[n]>>]
    BY <2>1, <2>2 DEF n, StepsAlong
  <2>4. QED
    BY <2>2, <2>3
<1>7. QED
  BY <1>5, <1>6 DEF n, Arrives

LEMMA MaxUpTo ==
  ASSUME NEW n \in Nat, NEW k \in 1 .. n
  PROVE  /\ MaxOf(1 .. k) = k /\ (1 .. k) \ {k} = 1 .. k - 1
         /\ 1 .. k # {} /\ 1 .. k \in SUBSET (1 .. n)
<1>1. 1 .. k \in SUBSET (1 .. n) /\ k \in 1 .. k
  OBVIOUS
<1>2. MaxOf(1 .. k) \in 1 .. k /\ \A y \in 1 .. k : MaxOf(1 .. k) >= y
  BY <1>1, MaxOfPart
<1>3. QED
  BY <1>1, <1>2
=============================================================================
