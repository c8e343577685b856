----------------------- MODULE MachineLiveness_proofs -----------------------
(***************************************************************************)
(* Liveness by paths is the least set of facts that holds the uses and is  *)
(* closed under going one step back.  That it is closed needs the number   *)
(* of steps that LiveBefore takes: as long as a register is not finished,  *)
(* each step finds it live at one more point.                              *)
(***************************************************************************)
EXTENDS MachineLiveness, Induction, FiniteSetTheorems, TLAPS

\* A function of finitely many instructions has finitely many points.
LEMMA PointsFinite ==
  ASSUME NEW f, NEW Instructions, f.code \in Seq(Seq(Instructions))
  PROVE  IsFiniteSet(Points(f))
<1> DEFINE n == Len(f.code)
           upto == [m \in 0..n |-> {p \in Points(f) : p[1] \in 1..m}]
           T == {m \in 0..n : IsFiniteSet(upto[m])}
<1>1. n \in Nat /\ DOMAIN f.code = 1..n
  OBVIOUS
<1>2. upto[0] = {}
  BY <1>1
<1>3. ASSUME NEW m \in 0..(n - 1), IsFiniteSet(upto[m])
      PROVE  IsFiniteSet(upto[m + 1])
  <2> DEFINE last == 1..Len(f.code[m + 1])
             row == {m + 1} \X last
  <2>1. f.code[m + 1] \in Seq(Instructions)
    BY <1>1
  <2>2. DOMAIN f.code[m + 1] = last /\ Len(f.code[m + 1]) \in Nat
    BY <2>1
  <2>3. IsFiniteSet(last)
    <3>1. 1 \in Int /\ Len(f.code[m + 1]) \in Int
      BY <2>2
    <3>. QED  BY <3>1, FS_Interval
  <2>4. IsFiniteSet({m + 1})
    BY FS_Singleton
  <2>5. IsFiniteSet(row)
    <3> HIDE DEF last
    <3>. QED  BY <2>3, <2>4, FS_Product
  <2>6. upto[m + 1] = upto[m] \cup row
    <3>1. m \in 0..n /\ m + 1 \in 0..n /\ m + 1 \in DOMAIN f.code
      BY <1>1
    <3>2. \A b \in DOMAIN f.code : b \in 1..(m + 1) <=> b \in 1..m \/ b = m + 1
      BY <1>1
    <3>3. \A p : p \in Points(f) <=> \E b \in DOMAIN f.code : p \in {b} \X DOMAIN f.code[b]
      BY DEF Points
    <3>. QED  BY <2>2, <3>1, <3>2, <3>3
  <2> HIDE DEF upto, row
  <2>7. IsFiniteSet(upto[m] \cup row)
    BY <1>3, <2>5, FS_Union, Zenon
  <2>. QED  BY <2>6, <2>7, Zenon
<1>4. n \in T
  <2> HIDE DEF upto, n
  <2>1. 0 \in T
    <3>1. IsFiniteSet({})
      BY FS_EmptySet, Zenon
    <3>2. 0 \in 0..n
      BY <1>1
    <3>. QED  BY <1>2, <3>1, <3>2, Zenon
  <2>2. \A m \in 0..(n - 1) : m \in T => m + 1 \in T
    BY <1>1, <1>3
  <2> HIDE DEF T
  <2>3. \A m \in 0..n : m \in T
    BY <1>1, <2>1, <2>2, Upwards
  <2>. QED  BY <1>1, <2>3
<1>5. upto[n] = Points(f)
  BY <1>1 DEF Points
<1>. QED  BY <1>4, <1>5

\* within[n] are the uses that can be reached by n steps.
IsHistory(within, f, regs, kills) ==
  LET N == Cardinality(Points(f)) IN
  /\ within \in [0..N -> SUBSET Facts(f, regs)]
  /\ within[0] = Used(f, regs)
  /\ \A n \in 1..N : within[n] = OneStepBack(f, regs, kills, within[n - 1])
  /\ LiveBefore(f, regs, kills) = within[N]

\* LiveBefore is what its recursive definition says.
LEMMA LiveBeforeHistory ==
  ASSUME NEW f, NEW regs, NEW kills, IsFiniteSet(Points(f))
  PROVE  \E within : IsHistory(within, f, regs, kills)
<1> DEFINE N == Cardinality(Points(f))
           S == SUBSET Facts(f, regs)
           step == [known \in S |-> OneStepBack(f, regs, kills, known)]
           IsWithin(g) == g = [n \in 0..N |-> IF n = 0 THEN Used(f, regs)
                                  ELSE OneStepBack(f, regs, kills, g[n - 1])]
           within == CHOOSE g : IsWithin(g)
<1>1. N \in Nat
  BY FS_CardinalityType
<1>2. Used(f, regs) \in S
  BY DEF Used
<1>3. \A known \in S : OneStepBack(f, regs, kills, known) \in S
  BY DEF OneStepBack
<1>4. PICK h : AreIterates(h, S, Used(f, regs), step, N)
  <2>1. step \in [S -> S]
    BY <1>3
  <2> HIDE DEF N, S, step
  <2>. QED  BY <1>1, <1>2, <2>1, Iterates
<1>5. IsWithin(h)
  <2>1. \A n \in 1..N : h[n - 1] \in S
    BY <1>1, <1>4 DEF AreIterates
  <2>2. \A n \in 1..N : h[n] = OneStepBack(f, regs, kills, h[n - 1])
    BY <1>4, <2>1 DEF AreIterates
  <2> HIDE DEF N, S
  <2>. QED  BY <1>1, <1>4, <2>2 DEF AreIterates
<1>6. IsWithin(within)
  <2> HIDE DEF IsWithin
  <2>. QED  BY <1>5
<1> HIDE DEF within, N
<1>7. /\ within[0] = Used(f, regs)
      /\ \A n \in 1..N : within[n] = OneStepBack(f, regs, kills, within[n - 1])
  BY <1>1, <1>6
<1>8. within \in [0..N -> S]
  <2> DEFINE T == {n \in 0..N : within[n] \in S}
  <2>1. 0 \in T
    BY <1>1, <1>2, <1>7
  <2>2. ASSUME NEW n \in 0..(N - 1), n \in T PROVE n + 1 \in T
    <3>1. n + 1 \in 1..N /\ (n + 1) - 1 = n /\ n + 1 \in 0..N
      BY <1>1
    <3>2. within[n + 1] = OneStepBack(f, regs, kills, within[n])
      BY <1>7, <3>1
    <3> HIDE DEF S
    <3>. QED  BY <1>3, <2>2, <3>1, <3>2
  <2>3. \A n \in 0..N : n \in T
    <3> HIDE DEF T
    <3>. QED  BY <1>1, <2>1, <2>2, Upwards
  <2>4. within = [n \in 0..N |-> within[n]]
    BY <1>6
  <2> HIDE DEF S
  <2>. QED  BY <2>3, <2>4
<1>9. LiveBefore(f, regs, kills) = within[N]
  BY DEF LiveBefore, within, N
<1> HIDE DEF S
<1>. QED  BY <1>7, <1>8, <1>9 DEF N, S, IsHistory

\* A set of facts with the uses, closed under one step back.
IsClosed(f, regs, kills, C) ==
  Used(f, regs) \subseteq C /\ OneStepBack(f, regs, kills, C) \subseteq C

\* What is live is in every closed set of facts.
LEMMA LiveIsLeast ==
  ASSUME NEW f, NEW regs, NEW kills, IsFiniteSet(Points(f)),
         NEW C, IsClosed(f, regs, kills, C)
  PROVE  LiveBefore(f, regs, kills) \subseteq C
<1> DEFINE N == Cardinality(Points(f))
<1>1. N \in Nat
  BY FS_CardinalityType
<1>2. PICK within : IsHistory(within, f, regs, kills)
  BY LiveBeforeHistory
<1>3. /\ within[0] = Used(f, regs)
      /\ \A n \in 1..N : within[n] = OneStepBack(f, regs, kills, within[n - 1])
      /\ LiveBefore(f, regs, kills) = within[N]
  BY <1>2 DEF IsHistory
<1> DEFINE T == {n \in 0..N : within[n] \subseteq C}
<1> HIDE DEF N
<1>4. 0 \in T
  BY <1>1, <1>3 DEF IsClosed
<1>5. ASSUME NEW n \in 0..(N - 1), n \in T PROVE n + 1 \in T
  <2>1. n + 1 \in 1..N /\ n + 1 \in 0..N /\ (n + 1) - 1 = n
    BY <1>1
  <2>2. within[n + 1] = OneStepBack(f, regs, kills, within[n])
    BY <1>3, <2>1
  <2>3. OneStepBack(f, regs, kills, within[n]) \subseteq OneStepBack(f, regs, kills, C)
    BY <1>5 DEF OneStepBack
  <2>. QED  BY <2>1, <2>2, <2>3 DEF IsClosed
<1>6. \A n \in 0..N : n \in T
  <2> HIDE DEF T
  <2>. QED  BY <1>1, <1>4, <1>5, Upwards
<1>7. N \in 0..N
  BY <1>1
<1>. QED  BY <1>3, <1>6, <1>7

\* Where a register is known to be live.
Where(f, known, r) == {p \in Points(f) : <<p, r>> \in known}

\* A step back finds a register at the points that lead to a known one.
LEMMA WhereOneStepBack ==
  ASSUME NEW f, NEW regs, NEW kills, NEW known \in SUBSET Facts(f, regs), NEW r \in regs
  PROVE  Where(f, OneStepBack(f, regs, kills, known), r) =
           Where(f, known, r) \cup
             {p \in Points(f) : r \notin kills[p] /\ \E q \in Where(f, known, r) : Follows(f, p, q)}
<1> DEFINE back == OneStepBack(f, regs, kills, known)
           before == {p \in Points(f) : r \notin kills[p]
                                          /\ \E q \in Where(f, known, r) : Follows(f, p, q)}
<1>1. ASSUME NEW p \in Points(f) PROVE <<p, r>> \in Facts(f, regs)
  BY DEF Facts
<1>2. ASSUME NEW y \in known PROVE y = <<y[1], y[2]>> /\ y[1] \in Points(f)
  BY DEF Facts
<1>3. ASSUME NEW p \in Points(f)
      PROVE  <<p, r>> \in back <=> <<p, r>> \in known \/ p \in before
  <2>1. <<p, r>>[1] = p /\ <<p, r>>[2] = r
    OBVIOUS
  <2>2. <<p, r>> \in back <=>
          \/ <<p, r>> \in known
          \/ r \notin kills[p] /\ \E y \in known : y[2] = r /\ Follows(f, p, y[1])
    BY <1>1, <2>1, Zenon DEF OneStepBack
  <2>3. (\E y \in known : y[2] = r /\ Follows(f, p, y[1]))
          <=> \E q \in Where(f, known, r) : Follows(f, p, q)
    <3>1. ASSUME NEW y \in known, y[2] = r, Follows(f, p, y[1])
          PROVE  \E q \in Where(f, known, r) : Follows(f, p, q)
      BY <1>2, <3>1, Zenon DEF Where
    <3>2. ASSUME NEW q \in Where(f, known, r), Follows(f, p, q)
          PROVE  \E y \in known : y[2] = r /\ Follows(f, p, y[1])
      <4>1. <<q, r>> \in known /\ <<q, r>>[1] = q /\ <<q, r>>[2] = r
        BY DEF Where
      <4>. QED  BY <3>2, <4>1, Zenon
    <3>. QED  BY <3>1, <3>2
  <2>. QED  BY <2>2, <2>3, Zenon
<1>4. ASSUME NEW p
      PROVE  p \in Where(f, back, r) <=> p \in Where(f, known, r) \/ p \in before
  <2> HIDE DEF back
  <2>. QED  BY <1>3, Zenon DEF Where
<1> HIDE DEF back, before
<1>5. Where(f, back, r) = Where(f, known, r) \cup before
  BY <1>4, Zenon
<1>. QED  BY <1>5 DEF back, before

\* What is live is a closed set of facts.
LEMMA LiveIsClosed ==
  ASSUME NEW f, NEW regs, NEW kills, IsFiniteSet(Points(f))
  PROVE  /\ LiveBefore(f, regs, kills) \subseteq Facts(f, regs)
         /\ IsClosed(f, regs, kills, LiveBefore(f, regs, kills))
<1> DEFINE N == Cardinality(Points(f))
<1>1. N \in Nat
  BY FS_CardinalityType
<1>2. PICK within : IsHistory(within, f, regs, kills)
  BY LiveBeforeHistory
<1>3. /\ within \in [0..N -> SUBSET Facts(f, regs)]
      /\ within[0] = Used(f, regs)
      /\ \A n \in 1..N : within[n] = OneStepBack(f, regs, kills, within[n - 1])
      /\ LiveBefore(f, regs, kills) = within[N]
  BY <1>2 DEF IsHistory
<1>4. \A n \in 0..(N - 1) : within[n] \subseteq within[n + 1]
  <2>1. ASSUME NEW n \in 0..(N - 1) PROVE within[n] \subseteq within[n + 1]
    <3>1. n + 1 \in 1..N /\ (n + 1) - 1 = n
      BY <1>1
    <3>. QED  BY <1>3, <3>1 DEF OneStepBack
  <2>. QED  BY <2>1
\* As long as a register is not finished it is found at one more point.
<1>5. ASSUME NEW r \in regs
      PROVE  Where(f, OneStepBack(f, regs, kills, within[N]), r) = Where(f, within[N], r)
  <2> DEFINE back(S) == S \cup {p \in Points(f) : r \notin kills[p] /\ \E q \in S : Follows(f, p, q)}
             found == [n \in 0..N |-> Where(f, within[n], r)]
             T == {n \in 0..N : back(found[n]) = found[n] \/ Cardinality(found[n]) > n}
  <2>1. ASSUME NEW n \in 0..N
        PROVE  /\ IsFiniteSet(found[n]) /\ found[n] \subseteq Points(f)
               /\ Cardinality(found[n]) \in Nat /\ Cardinality(found[n]) <= N
    <3>1. found[n] \in SUBSET Points(f)
      BY DEF Where
    <3> HIDE DEF found
    <3>2. IsFiniteSet(found[n]) /\ Cardinality(found[n]) <= N
      BY <3>1, FS_Subset
    <3>3. Cardinality(found[n]) \in Nat
      BY <3>2, FS_CardinalityType, Zenon
    <3>. QED  BY <3>1, <3>2, <3>3
  <2>2. ASSUME NEW n \in 0..N
        PROVE  Where(f, OneStepBack(f, regs, kills, within[n]), r) = back(found[n])
    <3>1. within[n] \in SUBSET Facts(f, regs)
      BY <1>3
    <3>. QED  BY <3>1, WhereOneStepBack
  <2>3. ASSUME NEW n \in 0..(N - 1) PROVE found[n + 1] = back(found[n])
    <3>1. n \in 0..N /\ n + 1 \in 0..N /\ n + 1 \in 1..N /\ (n + 1) - 1 = n
      BY <1>1
    <3>2. found[n + 1] = Where(f, OneStepBack(f, regs, kills, within[n]), r)
      BY <1>3, <3>1
    <3>. QED  BY <2>2, <3>1, <3>2
  <2> HIDE DEF N, found
  <2>4. 0 \in T
    <3>1. 0 \in 0..N
      BY <1>1
    <3>2. CASE found[0] = {}
      BY <3>1, <3>2
    <3>3. CASE found[0] # {}
      <4>1. Cardinality(found[0]) # 0
        BY <2>1, <3>1, <3>3, FS_EmptySet
      <4>2. Cardinality(found[0]) > 0
        BY <2>1, <3>1, <4>1
      <4>. QED  BY <3>1, <4>2
    <3>. QED  BY <3>2, <3>3
  <2>5. ASSUME NEW n \in 0..(N - 1), n \in T PROVE n + 1 \in T
    <3>1. n \in 0..N /\ n + 1 \in 0..N
      BY <1>1
    <3>2. CASE back(found[n]) = found[n]
      <4>1. found[n + 1] = found[n]
        BY <2>3, <3>2
      <4>. QED  BY <3>1, <3>2, <4>1
    <3>3. CASE back(found[n]) # found[n]
      <4>1. found[n + 1] # found[n] /\ found[n] \in SUBSET found[n + 1]
        BY <2>3, <3>3
      <4>2. Cardinality(found[n]) <= Cardinality(found[n + 1])
            /\ Cardinality(found[n]) # Cardinality(found[n + 1])
        <5>1. IsFiniteSet(found[n + 1])
          BY <2>1, <3>1
        <5>. QED  BY <4>1, <5>1, FS_Subset
      <4>3. Cardinality(found[n]) > n
        BY <2>5, <3>3
      <4>4. Cardinality(found[n + 1]) > n + 1
        BY <2>1, <3>1, <4>2, <4>3
      <4>. QED  BY <3>1, <4>4
    <3>. QED  BY <3>2, <3>3
  <2>6. N \in T
    <3> HIDE DEF T
    <3>1. \A n \in 0..N : n \in T
      BY <1>1, <2>4, <2>5, Upwards
    <3>. QED  BY <1>1, <3>1
  <2>7. N \in 0..N
    BY <1>1
  <2>8. back(found[N]) = found[N]
    BY <2>1, <2>6, <2>7
  <2>9. Where(f, OneStepBack(f, regs, kills, within[N]), r) = back(found[N])
    BY <2>2, <2>7
  <2>10. found[N] = Where(f, within[N], r)
    BY <2>7 DEF found
  <2>. QED  BY <2>8, <2>9, <2>10, Zenon
<1>6. OneStepBack(f, regs, kills, within[N]) \subseteq within[N]
  <2>1. ASSUME NEW x \in OneStepBack(f, regs, kills, within[N]) PROVE x \in within[N]
    <3>1. within[N] \subseteq Facts(f, regs)
      BY <1>1, <1>3
    <3>2. PICK p \in Points(f), r \in regs : x = <<p, r>>
      BY <3>1 DEF OneStepBack, Facts
    <3>3. p \in Where(f, OneStepBack(f, regs, kills, within[N]), r)
      BY <3>2, Zenon DEF Where
    <3>4. p \in Where(f, within[N], r)
      BY <1>5, <3>3
    <3>. QED  BY <3>2, <3>4 DEF Where
  <2>. QED  BY <2>1
<1>7. Used(f, regs) \subseteq within[N]
  <2> DEFINE T == {n \in 0..N : Used(f, regs) \subseteq within[n]}
  <2> HIDE DEF N
  <2>1. 0 \in T
    BY <1>1, <1>3
  <2>2. ASSUME NEW n \in 0..(N - 1), n \in T PROVE n + 1 \in T
    BY <1>1, <1>4, <2>2
  <2> HIDE DEF T
  <2>3. \A n \in 0..N : n \in T
    BY <1>1, <2>1, <2>2, Upwards
  <2>. QED  BY <1>1, <2>3 DEF T
<1>8. within[N] \subseteq Facts(f, regs)
  BY <1>1, <1>3
<1>. QED  BY <1>3, <1>6, <1>7, <1>8 DEF IsClosed
=============================================================================
