----------------------------- MODULE Induction -----------------------------
(***************************************************************************)
(* Induction over the naturals, stated with a set of numbers in the place  *)
(* of a predicate, and its consequences: the largest of finitely many      *)
(* numbers, and the function that a recursive definition describes.        *)
(***************************************************************************)
EXTENDS Integers, WellFoundedInduction, TLAPS

\* A non-empty set of naturals has a least element.
LEMMA LeastElement ==
  ASSUME NEW S \in SUBSET Nat, S # {}
  PROVE  \E i \in S : \A j \in S : i <= j
<1> DEFINE R == OpToRel(<, Nat)
<1>1. \A i, j \in Nat : i < j => <<i, j>> \in R
  BY DEF OpToRel
<1>2. IsWellFoundedOn(R, Nat)
  BY NatLessThanWellFounded
<1> HIDE DEF R
<1>3. PICK i \in S : \A j \in S : ~(<<j, i>> \in R)
  BY <1>2, WFMin
<1>4. ASSUME NEW j \in S PROVE i <= j
  <2>1. i \in Nat /\ j \in Nat
    OBVIOUS
  <2>2. ~(j < i)
    BY <1>1, <1>3, <2>1, Zenon
  <2>. QED  BY <2>1, <2>2
<1>. QED  BY <1>4

\* A set that holds the first number of an interval, and with a number of the
\* interval the next, holds the interval.
LEMMA Upwards ==
  ASSUME NEW S, NEW m \in Nat, NEW n \in Nat,
         m \in S, \A i \in m..(n - 1) : i \in S => i + 1 \in S
  PROVE  \A i \in m..n : i \in S
<1> DEFINE Outside == {i \in m..n : i \notin S}
<1>1. SUFFICES ASSUME Outside # {} PROVE FALSE
  OBVIOUS
<1>2. PICK i \in Outside : \A j \in Outside : i <= j
  <2>1. Outside \in SUBSET Nat
    OBVIOUS
  <2> HIDE DEF Outside
  <2>. QED  BY <1>1, <2>1, LeastElement
<1>3. i # m /\ i - 1 \in m..(n - 1)
  OBVIOUS
<1>4. i - 1 \in S
  BY <1>2, <1>3
<1>5. (i - 1) + 1 \in S
  BY <1>3, <1>4, Zenon
<1>. QED  BY <1>5

\* The same from the last number down.
LEMMA Downwards ==
  ASSUME NEW S, NEW m \in Nat, NEW n \in Nat,
         n \in S, \A i \in m..(n - 1) : i + 1 \in S => i \in S
  PROVE  \A i \in m..n : i \in S
<1> DEFINE T == {k \in Nat : n - k \in S}
<1>1. \A k \in 0..n - m : k \in T
  <2>1. CASE n < m
    BY <2>1
  <2>2. CASE m <= n
    <3>1. 0 \in T /\ n - m \in Nat
      BY <2>2
    <3>2. ASSUME NEW k \in 0..(n - m) - 1, k \in T PROVE k + 1 \in T
      <4>1. n - (k + 1) \in m..(n - 1) /\ (n - (k + 1)) + 1 = n - k
        BY <2>2
      <4>2. n - k \in S
        BY <3>2
      <4>. QED  BY <4>1, <4>2, <2>2
    <3> HIDE DEF T
    <3>. QED  BY <3>1, <3>2, Upwards
  <2>. QED  BY <2>1, <2>2
<1>2. ASSUME NEW i \in m..n PROVE i \in S
  <2>1. n - i \in 0..n - m /\ n - (n - i) = i
    OBVIOUS
  <2>. QED  BY <1>1, <2>1
<1>. QED  BY <1>2

\* A non-empty set of naturals with a bound has a largest element.
LEMMA LargestElement ==
  ASSUME NEW S \in SUBSET Nat, S # {}, NEW n \in Nat, \A i \in S : i <= n
  PROVE  \E i \in S : \A j \in S : j <= i
<1> DEFINE T == {n - i : i \in S}
<1>1. T \in SUBSET Nat /\ T # {}
  <2>1. \A i \in S : n - i \in Nat
    OBVIOUS
  <2>2. PICK i \in S : TRUE
    OBVIOUS
  <2>3. n - i \in T
    OBVIOUS
  <2>. QED  BY <2>1, <2>3
<1>2. PICK k \in T : \A j \in T : k <= j
  <2> HIDE DEF T
  <2>. QED  BY <1>1, LeastElement
<1>3. PICK i \in S : k = n - i
  BY <1>2
<1>4. ASSUME NEW j \in S PROVE j <= i
  <2>1. k <= n - j
    BY <1>2
  <2>. QED  BY <1>3, <2>1
<1>. QED  BY <1>4

\* g[i] is what i steps make of the base.
AreIterates(g, S, base, step, n) ==
  g \in [0..n -> S] /\ g[0] = base /\ \A i \in 1..n : g[i] = step[g[i - 1]]

\* A function on a set can be iterated from any value of the set.
LEMMA Iterates ==
  ASSUME NEW S, NEW base \in S, NEW step \in [S -> S], NEW n \in Nat
  PROVE  \E g : AreIterates(g, S, base, step, n)
<1> DEFINE Good(m, g) == g[0] = base /\ \A i \in 1..m : g[i] = step[g[i - 1]]
           T == {m \in 0..n : \E g \in [0..m -> S] : Good(m, g)}
<1>1. 0 \in T
  <2> DEFINE h == [i \in 0..0 |-> base]
  <2>1. h \in [0..0 -> S]
    OBVIOUS
  <2>2. Good(0, h)
    OBVIOUS
  <2>3. 0 \in 0..n
    OBVIOUS
  <2> HIDE DEF h, Good
  <2>. QED  BY <2>1, <2>2, <2>3
<1>2. ASSUME NEW m \in 0..(n - 1), m \in T PROVE m + 1 \in T
  <2>1. PICK g \in [0..m -> S] : Good(m, g)
    BY <1>2
  <2> DEFINE h == [i \in 0..(m + 1) |-> IF i = m + 1 THEN step[g[m]] ELSE g[i]]
  <2>2. h \in [0..(m + 1) -> S]
    OBVIOUS
  <2>3. h[0] = base /\ \A i \in 0..m : h[i] = g[i]
    BY <2>1
  <2>4. ASSUME NEW i \in 1..(m + 1) PROVE h[i] = step[h[i - 1]]
    <3>1. i - 1 \in 0..m /\ (i # m + 1 => i \in 1..m)
      OBVIOUS
    <3>2. CASE i = m + 1
      <4>1. h[i] = step[g[m]] /\ h[m] = g[m] /\ i - 1 = m
        BY <2>3, <3>2
      <4> HIDE DEF h
      <4>. QED  BY <4>1
    <3>3. CASE i # m + 1
      <4> HIDE DEF h
      <4>. QED  BY <2>1, <2>3, <3>1, <3>3
    <3>. QED  BY <3>2, <3>3
  <2>5. m + 1 \in 0..n
    OBVIOUS
  <2> HIDE DEF h
  <2>. QED  BY <2>2, <2>3, <2>4, <2>5
<1>3. n \in T
  <2> HIDE DEF T
  <2>. QED  BY <1>1, <1>2, Upwards
<1>. QED  BY <1>3 DEF AreIterates
=============================================================================
