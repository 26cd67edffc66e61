------------------------------ MODULE ListFacts -------------------------------
(***************************************************************************)
(* Facts about counting and lists that the proofs of several modules rest  *)
(* on.  A set of numbers stands for what is proved by induction.           *)
(***************************************************************************)
EXTENDS Integers, Sequences, SequencesExt, FiniteSets, FiniteSetTheorems, SequenceTheorems,
        WellFoundedInduction, TLAPS

(* Every counter of a loop is in a set with 0 and the next of each.         *)
LEMMA Counting ==
    ASSUME NEW S, 0 \in S, \A n \in Nat : n \in S => n + 1 \in S
    PROVE  Nat \subseteq S
<1> DEFINE R == OpToRel(<, Nat)
           T == Nat \ S
<1>1. SUFFICES ASSUME T # {} PROVE FALSE
  OBVIOUS
<1>2. IsWellFoundedOn(R, Nat)
  BY NatLessThanWellFounded
<1>3. \A x, y \in Nat : x < y => <<x, y>> \in R
  BY DEF OpToRel
<1> HIDE DEF R
<1>4. PICK x \in T : \A y \in T : <<y, x>> \notin R
  BY <1>1, <1>2, WFMin
<1>5. x \in Nat /\ x # 0
  BY <1>4
<1>6. x - 1 \in Nat /\ x - 1 < x
  BY <1>5
<1>7. x - 1 \in S
  BY <1>3, <1>4, <1>5, <1>6
<1>8. QED
  BY <1>4, <1>6, <1>7

(* The least of some numbers.                                               *)
LEMMA Least ==
    ASSUME NEW S \in SUBSET Nat, S # {}
    PROVE  \E x \in S : \A y \in S : x <= y
<1> DEFINE R == OpToRel(<, Nat)
<1>1. IsWellFoundedOn(R, Nat)
  BY NatLessThanWellFounded
<1>2. \A x, y \in Nat : x < y => <<x, y>> \in R
  BY DEF OpToRel
<1> HIDE DEF R
<1>3. PICK x \in S : \A y \in S : <<y, x>> \notin R
  BY <1>1, WFMin
<1>4. \A y \in S : x \in Nat /\ y \in Nat /\ ~(y < x)
  BY <1>2, <1>3
<1>5. QED
  BY <1>4

LEMMA MinOf ==
    ASSUME NEW S \in SUBSET Nat, S # {}
    PROVE  Min(S) \in S /\ Min(S) \in Nat /\ \A y \in S : Min(S) <= y
<1>1. PICK x \in S : \A y \in S : x <= y
  BY Least
<1>2. Min(S) \in S /\ \A y \in S : Min(S) <= y
  BY <1>1 DEF Min
<1>3. QED
  BY <1>2

LEMMA MaxOfTwo ==
    ASSUME NEW a \in Nat, NEW b \in Nat
    PROVE  /\ Max({a, b}) \in Nat /\ a <= Max({a, b}) /\ b <= Max({a, b})
           /\ Max({a, b}) = a \/ Max({a, b}) = b
<1> DEFINE S == {a, b}
<1>1. \E x \in S : \A y \in S : x >= y
  <2>1. CASE a >= b
    BY <2>1
  <2>2. CASE b >= a
    BY <2>2
  <2>3. QED
    BY <2>1, <2>2
<1>2. Max(S) \in S /\ \A y \in S : Max(S) >= y
  BY <1>1 DEF Max
<1>3. QED
  BY <1>2

(* A loop that goes from one value of R to the next.                        *)
StaysIn(g, R) == g \in [R -> R]
IsLoop(f, R, g, x) == f \in [Nat -> R] /\ f[0] = x /\ \A n \in Nat : f[n + 1] = g[f[n]]

LEMMA Iterates ==
    ASSUME NEW R, NEW g, NEW x \in R, StaysIn(g, R)
    PROVE  \E f : IsLoop(f, R, g, x)
<1>0. g \in [R -> R]
  BY DEF StaysIn
<1> DEFINE Runs(n) == {h \in [0..n -> R] : h[0] = x /\ \A i \in 1..n : h[i] = g[h[i - 1]]}
           A == {n \in Nat : Runs(n) # {}}
<1>1. Nat \subseteq A
  <2>1. 0 \in A
    <3>1. [i \in 0..0 |-> x] \in Runs(0)
      OBVIOUS
    <3>2. QED
      BY <3>1
  <2>2. ASSUME NEW n \in Nat, n \in A
        PROVE  n + 1 \in A
    <3>0. \A y \in R : g[y] \in R
      BY <1>0
    <3>1. PICK h \in Runs(n) : TRUE
      BY <2>2
    <3> DEFINE k == [i \in 0..(n + 1) |-> IF i = n + 1 THEN g[h[n]] ELSE h[i]]
    <3>2. h \in [0..n -> R] /\ h[0] = x /\ \A i \in 1..n : h[i] = g[h[i - 1]]
      BY <3>1
    <3>3. k \in [0..(n + 1) -> R]
      BY <3>0, <3>2
    <3>4. k[0] = x /\ \A i \in 1..(n + 1) : k[i] = g[k[i - 1]]
      BY <3>2
    <3>5. k \in Runs(n + 1)
      BY <3>3, <3>4
    <3>6. QED
      BY <3>5
  <2> HIDE DEF A
  <2>3. QED
    BY <2>1, <2>2, Counting
<1>2. ASSUME NEW m \in Nat, NEW h \in Runs(m), NEW k \in Nat, NEW j \in Runs(k), m <= k
      PROVE  j[m] = h[m]
  <2> DEFINE B == {n \in Nat : n <= m => j[n] = h[n]}
  <2>1. 0 \in B
    OBVIOUS
  <2>2. ASSUME NEW n \in Nat, n \in B
        PROVE  n + 1 \in B
    <3>1. SUFFICES ASSUME n + 1 <= m PROVE j[n + 1] = h[n + 1]
      OBVIOUS
    <3>2. n + 1 \in 1..m /\ n + 1 \in 1..k /\ j[n] = h[n] /\ (n + 1) - 1 = n
      BY <1>2, <2>2, <3>1
    <3>3. h[n + 1] = g[h[n]] /\ j[n + 1] = g[j[n]]
      BY <3>2
    <3>4. QED
      BY <3>2, <3>3
  <2>3. Nat \subseteq B
    <3> HIDE DEF B
    <3>1. QED
      BY <2>1, <2>2, Counting
  <2>4. QED
    BY <2>3
<1> DEFINE run(n) == CHOOSE h \in Runs(n) : TRUE
           f == [n \in Nat |-> run(n)[n]]
<1>3. \A n \in Nat : run(n) \in Runs(n)
  BY <1>1
<1>4. f \in [Nat -> R]
  <2>1. ASSUME NEW n \in Nat
        PROVE  run(n)[n] \in R
    <3> HIDE DEF run
    <3>1. run(n) \in [0..n -> R] /\ n \in 0..n
      BY <1>3
    <3>2. QED
      BY <3>1
  <2>2. QED
    BY <2>1
<1>5. ASSUME NEW n \in Nat
      PROVE  f[n] = IF n = 0 THEN x ELSE g[f[n - 1]]
  <2>1. run(n) \in Runs(n) /\ f[n] = run(n)[n]
    BY <1>3
  <2>2. CASE n = 0
    BY <2>1, <2>2
  <2>3. CASE n # 0
    <3> HIDE DEF run, f
    <3>1. n - 1 \in Nat /\ run(n - 1) \in Runs(n - 1) /\ n - 1 <= n
      BY <1>3, <2>3
    <3>2. f[n - 1] = run(n - 1)[n - 1]
      BY <3>1 DEF f
    <3>3. run(n)[n - 1] = run(n - 1)[n - 1]
      BY <1>2, <2>1, <3>1
    <3>4. run(n)[n] = g[run(n)[n - 1]]
      BY <2>1, <2>3
    <3>5. QED
      BY <2>1, <2>3, <3>2, <3>3, <3>4
  <2>4. QED
    BY <2>2, <2>3
<1> HIDE DEF f
<1>6. f[0] = x /\ \A n \in Nat : f[n + 1] = g[f[n]]
  <2>1. f[0] = x
    BY <1>5
  <2>2. ASSUME NEW n \in Nat PROVE f[n + 1] = g[f[n]]
    <3>1. n + 1 \in Nat /\ n + 1 # 0 /\ (n + 1) - 1 = n
      OBVIOUS
    <3>2. f[n + 1] = g[f[(n + 1) - 1]]
      BY <1>5, <3>1
    <3>3. QED
      BY <3>1, <3>2
  <2>3. QED
    BY <2>1, <2>2
<1>7. QED
  BY <1>4, <1>6 DEF IsLoop

(* One of the positions in S is its k-th.                                   *)
LEMMA Ranks ==
    ASSUME NEW n \in Nat, NEW S \in SUBSET (1..n)
    PROVE  /\ IsFiniteSet(S) /\ Cardinality(S) \in Nat /\ Cardinality(S) <= n
           /\ \A k \in 1..Cardinality(S) : \E j \in S : Cardinality({i \in S : i <= j}) = k
<1> DEFINE upTo(j) == {i \in S : i <= j}
           B == {j \in Nat : \A k \in 1..Cardinality(upTo(j)) :
                               \E i \in S : Cardinality(upTo(i)) = k}
<1>0. /\ \A i \in S : i \in Nat /\ 1 <= i /\ i <= n
      /\ \A j, i : i \in upTo(j) <=> i \in S /\ i <= j
  OBVIOUS
<1> HIDE DEF upTo
<1>1. /\ IsFiniteSet(S) /\ Cardinality(S) \in Nat /\ Cardinality(S) <= n
  <2>1. IsFiniteSet(1..n) /\ Cardinality(1..n) = n
    BY FS_Interval
  <2>2. QED
    BY <2>1, FS_Subset, FS_CardinalityType
<1>2. \A j \in Nat : IsFiniteSet(upTo(j)) /\ Cardinality(upTo(j)) \in Nat
  <2>1. \A j \in Nat : upTo(j) \in SUBSET S
    BY <1>0
  <2>2. QED
    BY <1>1, <2>1, FS_Subset, FS_CardinalityType
<1>3. 0 \in B
  <2>0. \A i \in S : ~(i <= 0)
    BY <1>0
  <2>1. upTo(0) = {}
    BY <1>0, <2>0, Zenon
  <2>2. Cardinality(upTo(0)) = 0
    BY <2>1, FS_EmptySet
  <2>3. 1..Cardinality(upTo(0)) = {}
    BY <2>2
  <2>4. QED
    BY <2>3
<1>4. ASSUME NEW j \in Nat, j \in B
      PROVE  j + 1 \in B
  <2>1. CASE j + 1 \notin S
    <3>0. \A i \in S : i <= j + 1 <=> i <= j
      BY <1>0, <2>1
    <3>1. upTo(j + 1) = upTo(j)
      BY <3>0, Zenon DEF upTo
    <3>2. QED
      BY <1>4, <3>1
  <2>2. CASE j + 1 \in S
    <3>0. j + 1 <= j + 1 /\ ~(j + 1 <= j) /\ \A i \in S : i <= j + 1 <=> i <= j \/ i = j + 1
      BY <1>0
    <3>1. upTo(j + 1) = upTo(j) \cup {j + 1} /\ j + 1 \notin upTo(j)
      BY <2>2, <3>0, Zenon DEF upTo
    <3>2. Cardinality(upTo(j + 1)) = Cardinality(upTo(j)) + 1
      BY <1>2, <3>1, FS_AddElement
    <3>3. ASSUME NEW k \in 1..Cardinality(upTo(j + 1))
          PROVE  \E i \in S : Cardinality(upTo(i)) = k
      <4>1. k = Cardinality(upTo(j + 1)) \/ k \in 1..Cardinality(upTo(j))
        BY <1>2, <3>2
      <4>2. QED
        BY <1>4, <2>2, <4>1
    <3>4. QED
      BY <3>3
  <2>3. QED
    BY <2>1, <2>2
<1>5. n \in B
  <2> HIDE DEF B
  <2>1. Nat \subseteq B
    BY <1>3, <1>4, Counting
  <2>2. QED
    BY <2>1
<1>6. upTo(n) = S
  BY <1>0
<1>7. QED
  BY <1>1, <1>5, <1>6 DEF upTo

(* Without one of its entries a list is still in order and without repeats. *)
LEMMA RemoveOne ==
    ASSUME NEW S, NEW q \in Seq(S), NEW i \in DOMAIN q
    PROVE  /\ RemoveAt(q, i) \in Seq(S)
           /\ Len(RemoveAt(q, i)) = Len(q) - 1
           /\ \A j \in 1..(Len(q) - 1) : RemoveAt(q, i)[j] = IF j < i THEN q[j] ELSE q[j + 1]
<1> DEFINE a == SubSeq(q, 1, i - 1)
           b == SubSeq(q, i + 1, Len(q))
<1>1. Len(q) \in Nat /\ i \in 1..Len(q) /\ \A j \in 1..Len(q) : q[j] \in S
  BY LenProperties, ElementOfSeq
<1>2. /\ a \in Seq(S) /\ Len(a) = i - 1
      /\ \A j \in 1..(i - 1) : a[j] = q[j]
  BY <1>1, SubSeqProperties
<1>3. /\ b \in Seq(S) /\ Len(b) = Len(q) - i
      /\ \A j \in 1..(Len(q) - i) : b[j] = q[i + j]
  BY <1>1, SubSeqProperties
<1> HIDE DEF a, b
<1>4. /\ a \o b \in Seq(S) /\ Len(a \o b) = Len(a) + Len(b)
      /\ \A j \in 1..(Len(a) + Len(b)) :
            (a \o b)[j] = IF j <= Len(a) THEN a[j] ELSE b[j - Len(a)]
  BY <1>2, <1>3, ConcatProperties
<1>5. Len(a \o b) = Len(q) - 1 /\ Len(a) + Len(b) = Len(q) - 1
  BY <1>1, <1>2, <1>3, <1>4
<1>6. ASSUME NEW j \in 1..(Len(q) - 1)
      PROVE  (a \o b)[j] = IF j < i THEN q[j] ELSE q[j + 1]
  <2>1. CASE j < i
    BY <1>1, <1>2, <1>4, <1>5, <2>1
  <2>2. CASE j >= i
    <3> DEFINE k == j - Len(a)
    <3>1. k \in 1..(Len(q) - i) /\ i + k = j + 1 /\ ~(j <= Len(a))
      BY <1>1, <1>2, <2>2
    <3>2. (a \o b)[j] = b[k]
      BY <1>4, <1>5, <3>1
    <3>3. b[k] = q[i + k]
      BY <1>3, <3>1
    <3>4. QED
      BY <2>2, <3>1, <3>2, <3>3, <1>1
  <2>3. j < i \/ j >= i
    BY <1>1
  <2>4. QED
    BY <2>1, <2>2, <2>3
<1>7. QED
  BY <1>4, <1>5, <1>6 DEF RemoveAt, a, b

===============================================================================
