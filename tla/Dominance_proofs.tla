-------------------------- MODULE Dominance_proofs --------------------------
(***************************************************************************)
(* What the algorithm of Lengauer and Tarjan rests on: the tree of a       *)
(* depth-first walk, semidominators, and how they give the dominators.     *)
(* Everything that is defined by paths is stated with sets that are closed *)
(* under one step, so that a proof about all paths is a proof about one    *)
(* edge.                                                                   *)
(***************************************************************************)
EXTENDS Dominance, Induction, FiniteSetTheorems

-----------------------------------------------------------------------------
(* The tree of a walk: a record of nodes, root, edges, the number of each  *)
(* node and its parent.                                                    *)

\* The numbers go up along the parents' edges, which lead from the root to
\* every node.
IsTree(t) ==
  /\ t.root \in t.nodes
  /\ t.num \in [t.nodes -> Nat]
  /\ \A a, b \in t.nodes : t.num[a] = t.num[b] => a = b
  /\ t.edges \subseteq t.nodes \X t.nodes
  /\ \A b \in t.nodes \ {t.root} :
       /\ t.parent[b] \in t.nodes /\ <<t.parent[b], b>> \in t.edges
       /\ t.num[t.parent[b]] < t.num[b]

\* a is b, or above it in the tree: in each set that has b and parents.
Above(t, a, b) ==
  /\ b \in t.nodes
  /\ \A S \in SUBSET t.nodes :
       b \in S /\ (\A x \in S \ {t.root} : t.parent[x] \in S) => a \in S

LEMMA NumberIsNat ==
  ASSUME NEW t, IsTree(t), NEW b \in t.nodes
  PROVE  t.num[b] \in Nat
BY DEF IsTree

LEMMA ParentFacts ==
  ASSUME NEW t, IsTree(t), NEW b \in t.nodes \ {t.root}
  PROVE  /\ t.parent[b] \in t.nodes /\ <<t.parent[b], b>> \in t.edges
         /\ t.num[t.parent[b]] < t.num[b] /\ t.parent[b] # b
         /\ t.num[b] \in Nat /\ t.num[t.parent[b]] \in Nat
<1>1. /\ t.parent[b] \in t.nodes /\ <<t.parent[b], b>> \in t.edges
      /\ t.num[t.parent[b]] < t.num[b]
  BY DEF IsTree
<1>2. t.num[b] \in Nat /\ t.num[t.parent[b]] \in Nat
  BY <1>1, NumberIsNat
<1>3. t.parent[b] # b
  BY <1>1, <1>2
<1>. QED  BY <1>1, <1>2, <1>3

LEMMA AboveSelf ==
  ASSUME NEW t, NEW b \in t.nodes
  PROVE  Above(t, b, b)
BY DEF Above

\* To be above is to have a smaller number.
LEMMA AboveOrder ==
  ASSUME NEW t, IsTree(t), NEW a, NEW b, Above(t, a, b)
  PROVE  a \in t.nodes /\ b \in t.nodes /\ t.num[a] <= t.num[b]
<1> DEFINE S == {x \in t.nodes : t.num[x] <= t.num[b]}
<1>1. b \in t.nodes /\ b \in S
  BY DEF Above, IsTree
<1>2. ASSUME NEW x \in S \ {t.root} PROVE t.parent[x] \in S
  <2>1. x \in t.nodes /\ t.num[x] <= t.num[b] /\ t.num[b] \in Nat
    BY <1>1, NumberIsNat
  <2>2. /\ t.parent[x] \in t.nodes /\ t.num[t.parent[x]] < t.num[x]
        /\ t.num[x] \in Nat /\ t.num[t.parent[x]] \in Nat
    BY ParentFacts
  <2>. QED  BY <2>1, <2>2
<1>3. a \in S
  <2>1. S \in SUBSET t.nodes
    OBVIOUS
  <2> HIDE DEF S
  <2>. QED  BY <1>1, <1>2, <2>1 DEF Above
<1>. QED  BY <1>1, <1>3

LEMMA AboveTransitive ==
  ASSUME NEW t, NEW a, NEW b, NEW c, Above(t, a, b), Above(t, b, c)
  PROVE  Above(t, a, c)
BY DEF Above

LEMMA AboveParent ==
  ASSUME NEW t, IsTree(t), NEW b \in t.nodes \ {t.root}
  PROVE  Above(t, t.parent[b], b)
BY DEF Above

\* What is above a node and not the node is above its parent.
LEMMA AboveStep ==
  ASSUME NEW t, IsTree(t), NEW a, NEW b, Above(t, a, b), a # b
  PROVE  b \in t.nodes \ {t.root} /\ Above(t, a, t.parent[b])
<1>1. b \in t.nodes
  BY DEF Above
<1>2. b # t.root
  <2>1. ASSUME b = t.root PROVE FALSE
    <3>1. {b} \in SUBSET t.nodes /\ \A x \in {b} \ {t.root} : t.parent[x] \in {b}
      BY <1>1, <2>1
    <3>2. a \in {b}
      BY <3>1 DEF Above
    <3>. QED  BY <3>2
  <2>. QED  BY <2>1
<1>3. t.parent[b] \in t.nodes
  BY <1>1, <1>2 DEF IsTree
<1>4. ASSUME NEW S \in SUBSET t.nodes, t.parent[b] \in S,
             \A x \in S \ {t.root} : t.parent[x] \in S
      PROVE  a \in S
  <2>1. S \cup {b} \in SUBSET t.nodes
    BY <1>1
  <2>2. \A x \in (S \cup {b}) \ {t.root} : t.parent[x] \in S \cup {b}
    BY <1>4
  <2>3. a \in S \cup {b}
    BY <2>1, <2>2 DEF Above
  <2>. QED  BY <2>3
<1>. QED  BY <1>1, <1>2, <1>3, <1>4 DEF Above

\* A set of nodes that is not empty has one with the least number.
LEMMA LeastNode ==
  ASSUME NEW t, IsTree(t), NEW S \in SUBSET t.nodes, S # {}
  PROVE  \E x \in S : \A y \in S : t.num[x] <= t.num[y]
<1> DEFINE numbers == {t.num[x] : x \in S}
<1>1. numbers \in SUBSET Nat /\ numbers # {}
  BY DEF IsTree
<1>2. PICK n \in numbers : \A m \in numbers : n <= m
  <2> HIDE DEF numbers
  <2>. QED  BY <1>1, LeastElement
<1>3. PICK x \in S : n = t.num[x]
  OBVIOUS
<1>. QED  BY <1>2, <1>3

\* The root is above every node.
LEMMA AboveRoot ==
  ASSUME NEW t, IsTree(t), NEW b \in t.nodes
  PROVE  Above(t, t.root, b)
<1>1. ASSUME NEW S \in SUBSET t.nodes, b \in S, \A x \in S \ {t.root} : t.parent[x] \in S
      PROVE  t.root \in S
  <2>1. PICK x \in S : \A y \in S : t.num[x] <= t.num[y]
    BY <1>1, LeastNode
  <2>2. ASSUME x # t.root PROVE FALSE
    <3>1. t.parent[x] \in S
      BY <1>1, <2>2
    <3>2. /\ t.num[t.parent[x]] < t.num[x]
          /\ t.num[x] \in Nat /\ t.num[t.parent[x]] \in Nat
      BY <2>2, ParentFacts
    <3>3. t.num[x] <= t.num[t.parent[x]]
      BY <2>1, <3>1
    <3>. QED  BY <3>2, <3>3
  <2>. QED  BY <2>2
<1>. QED  BY <1>1 DEF Above

\* A node above another one has a child above it, or is that one.
LEMMA AboveChild ==
  ASSUME NEW t, IsTree(t), NEW a, NEW b, Above(t, a, b), a # b
  PROVE  \E c \in t.nodes \ {t.root} : t.parent[c] = a /\ Above(t, c, b)
<1> DEFINE S == {x \in t.nodes : Above(t, x, b) /\ Above(t, a, x) /\ a # x}
<1>1. b \in S
  BY AboveSelf DEF Above
<1>2. PICK c \in S : \A y \in S : t.num[c] <= t.num[y]
  BY <1>1, LeastNode
<1>3. c \in t.nodes \ {t.root} /\ Above(t, a, t.parent[c])
  BY AboveStep
<1>4. Above(t, t.parent[c], b)
  BY <1>3, AboveParent, AboveTransitive
<1>5. t.parent[c] = a
  <2>1. ASSUME t.parent[c] # a PROVE FALSE
    <3>1. t.parent[c] \in S
      BY <1>3, <1>4, <2>1, ParentFacts
    <3>2. /\ t.num[t.parent[c]] < t.num[c] 
          /\ t.num[c] \in Nat /\ t.num[t.parent[c]] \in Nat
      BY <1>3, ParentFacts
    <3>3. t.num[c] <= t.num[t.parent[c]]
      BY <1>2, <3>1
    <3>. QED  BY <3>2, <3>3
  <2>. QED  BY <2>1
<1>. QED  BY <1>3, <1>5

\* A tree that depth-first search makes: an edge to a larger number goes down
\* the tree, and the numbers of a subtree are an interval.
SearchTree(t) ==
  /\ IsTree(t)
  /\ \A a, b \in t.nodes : <<a, b>> \in t.edges /\ t.num[a] < t.num[b] => Above(t, a, b)
  /\ \A a, x, b \in t.nodes :
       Above(t, a, b) /\ t.num[a] <= t.num[x] /\ t.num[x] <= t.num[b] => Above(t, a, x)

\* Of two nodes above a third the one with the smaller number is above the other.
LEMMA AboveComparable ==
  ASSUME NEW t, SearchTree(t), NEW a, NEW b, NEW c, Above(t, a, c), Above(t, b, c),
         t.num[a] <= t.num[b]
  PROVE  Above(t, a, b)
<1>1. IsTree(t)
  BY DEF SearchTree
<1>2. a \in t.nodes /\ b \in t.nodes /\ c \in t.nodes /\ t.num[b] <= t.num[c]
  BY <1>1, AboveOrder
<1>. QED  BY <1>2 DEF SearchTree

-----------------------------------------------------------------------------
(* Semidominators. *)

\* S has what leads to w, and what leads to a node of S that comes after w.
HasApproaches(t, w, S) ==
  \A a, b \in t.nodes :
    <<a, b>> \in t.edges /\ (b = w \/ (b \in S /\ t.num[w] < t.num[b])) => a \in S

\* Where a path to w whose inner nodes come after w can start.
Approaches(t, w) == {x \in t.nodes : \A S \in SUBSET t.nodes : HasApproaches(t, w, S) => x \in S}

\* s is the first of them.
IsSemi(t, w, s) == s \in Approaches(t, w) /\ \A x \in Approaches(t, w) : t.num[s] <= t.num[x]

LEMMA ApproachesClosed ==
  ASSUME NEW t, NEW w \in t.nodes
  PROVE  HasApproaches(t, w, Approaches(t, w))
<1>1. ASSUME NEW a \in t.nodes, NEW b \in t.nodes, <<a, b>> \in t.edges,
             b = w \/ (b \in Approaches(t, w) /\ t.num[w] < t.num[b]),
             NEW S \in SUBSET t.nodes, HasApproaches(t, w, S)
      PROVE  a \in S
  BY <1>1 DEF HasApproaches, Approaches
<1>. QED  BY <1>1 DEF HasApproaches, Approaches

LEMMA ApproachesLeast ==
  ASSUME NEW t, NEW w, NEW S \in SUBSET t.nodes, HasApproaches(t, w, S)
  PROVE  Approaches(t, w) \subseteq S
BY DEF Approaches

LEMMA ApproachByEdge ==
  ASSUME NEW t, IsTree(t), NEW a, NEW w, <<a, w>> \in t.edges
  PROVE  a \in t.nodes /\ w \in t.nodes /\ a \in Approaches(t, w)
<1>1. a \in t.nodes /\ w \in t.nodes
  BY DEF IsTree
<1>. QED  BY <1>1, ApproachesClosed DEF HasApproaches

LEMMA ApproachLonger ==
  ASSUME NEW t, IsTree(t), NEW w \in t.nodes, NEW a, NEW b \in Approaches(t, w),
         <<a, b>> \in t.edges, t.num[w] < t.num[b]
  PROVE  a \in Approaches(t, w)
<1>1. a \in t.nodes /\ b \in t.nodes
  BY DEF IsTree
<1>. QED  BY <1>1, ApproachesClosed DEF HasApproaches

\* What leads to w and comes before it is above it.
LEMMA ApproachFromAbove ==
  ASSUME NEW t, SearchTree(t), NEW w \in t.nodes, NEW x \in Approaches(t, w),
         t.num[x] < t.num[w]
  PROVE  Above(t, x, w)
<1> DEFINE S == {y \in t.nodes : t.num[y] < t.num[w] => Above(t, y, w)}
<1>1. IsTree(t)
  BY DEF SearchTree
<1>2. ASSUME NEW a \in t.nodes, NEW b \in t.nodes, <<a, b>> \in t.edges,
             b = w \/ (b \in S /\ t.num[w] < t.num[b]), t.num[a] < t.num[w]
      PROVE  Above(t, a, w)
  <2>1. CASE b = w
    BY <1>2, <2>1 DEF SearchTree
  <2>2. CASE t.num[w] < t.num[b]
    <3>1. t.num[a] \in Nat /\ t.num[b] \in Nat /\ t.num[w] \in Nat
      BY <1>1, NumberIsNat
    <3>2. t.num[a] < t.num[b] /\ t.num[a] <= t.num[w] /\ t.num[w] <= t.num[b]
      BY <1>2, <2>2, <3>1
    <3>3. Above(t, a, b)
      BY <1>2, <3>2 DEF SearchTree
    <3>. QED  BY <3>2, <3>3 DEF SearchTree
  <2>. QED  BY <1>2, <2>1, <2>2
<1>3. S \in SUBSET t.nodes /\ HasApproaches(t, w, S)
  BY <1>2 DEF HasApproaches
<1>4. x \in S
  <2> HIDE DEF S
  <2>. QED  BY <1>3, ApproachesLeast
<1>. QED  BY <1>4

\* Up the tree as long as the nodes come after w.
LEMMA ApproachUp ==
  ASSUME NEW t, IsTree(t), NEW w \in t.nodes, NEW y \in Approaches(t, w), NEW x,
         Above(t, x, y), t.num[w] < t.num[x]
  PROVE  x \in Approaches(t, w)
<1> DEFINE S == {z \in t.nodes : t.num[z] <= t.num[w] \/ z \in Approaches(t, w)}
<1>1. ASSUME NEW z \in S \ {t.root} PROVE t.parent[z] \in S
  <2>1. /\ t.parent[z] \in t.nodes /\ <<t.parent[z], z>> \in t.edges
        /\ t.num[t.parent[z]] < t.num[z] /\ t.num[z] \in Nat /\ t.num[t.parent[z]] \in Nat
    BY ParentFacts
  <2>2. t.num[w] \in Nat
    BY NumberIsNat
  <2>3. CASE t.num[z] <= t.num[w]
    BY <2>1, <2>2, <2>3
  <2>4. CASE z \in Approaches(t, w) /\ t.num[w] < t.num[z]
    <3>1. t.parent[z] \in Approaches(t, w)
      BY <2>1, <2>4, ApproachLonger
    <3>. QED  BY <2>1, <3>1
  <2>. QED  BY <2>1, <2>2, <2>3, <2>4
<1>2. y \in S /\ S \in SUBSET t.nodes
  BY DEF Approaches
<1>3. x \in S
  <2> HIDE DEF S
  <2>. QED  BY <1>1, <1>2 DEF Above
<1>4. t.num[x] \in Nat /\ t.num[w] \in Nat
  BY <1>3, NumberIsNat
<1>. QED  BY <1>3, <1>4

\* What leads to a node that leads to w leads to w.
LEMMA ApproachThrough ==
  ASSUME NEW t, IsTree(t), NEW w \in t.nodes, NEW x \in Approaches(t, w), t.num[w] < t.num[x]
  PROVE  Approaches(t, x) \subseteq Approaches(t, w)
<1>1. x \in t.nodes
  BY DEF Approaches
<1>2. ASSUME NEW a \in t.nodes, NEW b \in t.nodes, <<a, b>> \in t.edges,
             b = x \/ (b \in Approaches(t, w) /\ t.num[x] < t.num[b])
      PROVE  a \in Approaches(t, w)
  <2>1. t.num[w] \in Nat /\ t.num[x] \in Nat /\ t.num[b] \in Nat
    BY <1>1, NumberIsNat
  <2>2. b \in Approaches(t, w) /\ t.num[w] < t.num[b]
    BY <1>2, <2>1
  <2>. QED  BY <1>2, <2>2, ApproachLonger
<1>3. Approaches(t, w) \in SUBSET t.nodes /\ HasApproaches(t, x, Approaches(t, w))
  BY <1>2 DEF HasApproaches, Approaches
<1>. QED  BY <1>3, ApproachesLeast

LEMMA SemiAbove ==
  ASSUME NEW t, SearchTree(t), NEW w \in t.nodes \ {t.root}, NEW s, IsSemi(t, w, s)
  PROVE  s \in t.nodes /\ t.num[s] < t.num[w] /\ Above(t, s, w)
<1>1. IsTree(t)
  BY DEF SearchTree
<1>2. /\ t.parent[w] \in t.nodes /\ <<t.parent[w], w>> \in t.edges
      /\ t.num[t.parent[w]] < t.num[w] /\ t.num[w] \in Nat /\ t.num[t.parent[w]] \in Nat
  BY <1>1, ParentFacts
<1>3. t.parent[w] \in Approaches(t, w)
  BY <1>1, <1>2, ApproachByEdge
<1>4. s \in t.nodes /\ s \in Approaches(t, w) /\ t.num[s] <= t.num[t.parent[w]]
  BY <1>3 DEF IsSemi, Approaches
<1>5. t.num[s] < t.num[w]
  <2>1. t.num[s] \in Nat
    BY <1>1, <1>4, NumberIsNat
  <2>. QED  BY <1>2, <1>4, <2>1
<1>. QED  BY <1>4, <1>5, ApproachFromAbove

\* The semidominator of a node from those of the nodes after it: the least of
\* its predecessors before it, and of the semidominators of the nodes after it
\* that are above its other predecessors.
LEMMA SemiFromPredecessors ==
  ASSUME NEW t, SearchTree(t), NEW w \in t.nodes \ {t.root}, NEW sem,
         \A x \in t.nodes : t.num[w] < t.num[x] => IsSemi(t, x, sem[x]),
         NEW s \in t.nodes,
         \A u \in t.nodes : <<u, w>> \in t.edges =>
           /\ t.num[u] <= t.num[w] => t.num[s] <= t.num[u]
           /\ \A x \in t.nodes : Above(t, x, u) /\ t.num[w] < t.num[x] => t.num[s] <= t.num[sem[x]],
         \E u \in t.nodes : <<u, w>> \in t.edges /\
           \/ s = u
           \/ \E x \in t.nodes : Above(t, x, u) /\ t.num[w] < t.num[x] /\ s = sem[x]
  PROVE  IsSemi(t, w, s)
<1>1. IsTree(t)
  BY DEF SearchTree
<1>2. s \in Approaches(t, w)
  <2>1. PICK u \in t.nodes : <<u, w>> \in t.edges /\
          \/ s = u
          \/ \E x \in t.nodes : Above(t, x, u) /\ t.num[w] < t.num[x] /\ s = sem[x]
    OBVIOUS
  <2>2. u \in Approaches(t, w)
    BY <1>1, <2>1, ApproachByEdge
  <2>3. CASE s = u
    BY <2>2, <2>3
  <2>4. ASSUME NEW x \in t.nodes, Above(t, x, u), t.num[w] < t.num[x], s = sem[x]
        PROVE  s \in Approaches(t, w)
    <3>1. x \in Approaches(t, w)
      BY <1>1, <2>2, <2>4, ApproachUp
    <3>2. Approaches(t, x) \subseteq Approaches(t, w)
      BY <1>1, <2>4, <3>1, ApproachThrough
    <3>3. s \in Approaches(t, x)
      BY <2>4 DEF IsSemi
    <3>. QED  BY <3>2, <3>3
  <2>. QED  BY <2>1, <2>3, <2>4
<1> DEFINE Over(x) == \E u \in t.nodes : <<u, w>> \in t.edges /\ Above(t, x, u) /\ t.num[w] < t.num[x]
           S == {v \in t.nodes : <<v, w>> \in t.edges
                                 \/ \E x \in t.nodes : Over(x) /\ v \in Approaches(t, x)}
<1>3. ASSUME NEW a \in t.nodes, NEW b \in t.nodes, <<a, b>> \in t.edges,
             b = w \/ (b \in S /\ t.num[w] < t.num[b])
      PROVE  a \in S
  <2>1. CASE b = w
    BY <1>3, <2>1
  <2>2. CASE t.num[w] < t.num[b] /\ <<b, w>> \in t.edges
    <3>1. Over(b)
      BY <2>2, AboveSelf
    <3>2. a \in Approaches(t, b)
      BY <1>1, <1>3, ApproachByEdge
    <3>. QED  BY <3>1, <3>2
  <2>3. ASSUME t.num[w] < t.num[b], NEW x \in t.nodes, Over(x), b \in Approaches(t, x)
        PROVE  a \in S
    <3>1. t.num[b] \in Nat /\ t.num[x] \in Nat
      BY <1>1, NumberIsNat
    <3>2. CASE t.num[x] < t.num[b]
      <4>1. a \in Approaches(t, x)
        BY <1>1, <1>3, <2>3, <3>2, ApproachLonger
      <4>. QED  BY <2>3, <4>1
    <3>3. CASE b = x
      <4>1. a \in Approaches(t, x)
        BY <1>1, <1>3, <3>3, ApproachByEdge
      <4>. QED  BY <2>3, <4>1
    <3>4. CASE t.num[b] < t.num[x]
      <4>1. Above(t, b, x)
        BY <2>3, <3>4, ApproachFromAbove
      <4>2. Over(b)
        BY <2>3, <4>1, AboveTransitive
      <4>3. a \in Approaches(t, b)
        BY <1>1, <1>3, ApproachByEdge
      <4>. QED  BY <4>2, <4>3
    <3>5. t.num[b] = t.num[x] => b = x
      BY <1>1 DEF IsTree
    <3>. QED  BY <3>1, <3>2, <3>3, <3>4, <3>5
  <2>. QED  BY <1>3, <2>1, <2>2, <2>3
<1>4. ASSUME NEW v \in S PROVE t.num[s] <= t.num[v]
  <2>0. t.num[v] \in Nat /\ t.num[s] \in Nat /\ t.num[w] \in Nat
    BY <1>1, NumberIsNat
  <2>1. ASSUME NEW x \in t.nodes, Over(x), NEW y \in Approaches(t, x)
        PROVE  t.num[s] <= t.num[y]
    <3>1. t.num[s] <= t.num[sem[x]] /\ IsSemi(t, x, sem[x])
      BY <2>1
    <3>2. t.num[sem[x]] <= t.num[y] /\ sem[x] \in t.nodes /\ y \in t.nodes
      BY <3>1 DEF IsSemi, Approaches
    <3>3. t.num[sem[x]] \in Nat /\ t.num[y] \in Nat
      BY <1>1, <3>2, NumberIsNat
    <3>. QED  BY <2>0, <3>1, <3>2, <3>3
  <2>2. CASE <<v, w>> \in t.edges /\ t.num[v] <= t.num[w]
    BY <2>2
  <2>3. CASE <<v, w>> \in t.edges /\ t.num[w] < t.num[v]
    <3>1. Over(v)
      BY <2>3, AboveSelf
    <3>2. v # t.root
      <4>1. ASSUME v = t.root PROVE FALSE
        <5>1. t.num[t.root] <= t.num[w]
          BY <1>1, AboveRoot, AboveOrder
        <5>. QED  BY <2>0, <2>3, <4>1, <5>1
      <4>. QED  BY <4>1
    <3>3. <<t.parent[v], v>> \in t.edges /\ t.num[t.parent[v]] < t.num[v] /\ t.num[t.parent[v]] \in Nat
      BY <1>1, <3>2, ParentFacts
    <3>4. t.parent[v] \in Approaches(t, v)
      BY <1>1, <3>3, ApproachByEdge
    <3>5. t.num[s] <= t.num[t.parent[v]]
      BY <2>1, <3>1, <3>4
    <3>. QED  BY <2>0, <3>3, <3>5
  <2>. QED  BY <2>0, <2>1, <2>2, <2>3
<1>5. S \in SUBSET t.nodes /\ HasApproaches(t, w, S)
  BY <1>3 DEF HasApproaches
<1>6. Approaches(t, w) \subseteq S
  <2> HIDE DEF S
  <2>. QED  BY <1>5, ApproachesLeast
<1>. QED  BY <1>2, <1>4, <1>6 DEF IsSemi

-----------------------------------------------------------------------------
(* Dominance. *)

\* S has the root, and what an edge leads to from S unless it leads to d.
Around(t, d, S) ==
  t.root \in S /\ \A a, b \in t.nodes : <<a, b>> \in t.edges /\ a \in S /\ b # d => b \in S

\* No path around d leads to b.
Dom(t, d, b) == d = t.root \/ \E S \in SUBSET t.nodes : Around(t, d, S) /\ b \notin S

\* d is the last strict dominator of b.
IsIdom(t, d, b) ==
  /\ d \in t.nodes /\ d # b /\ Dom(t, d, b)
  /\ \A a \in t.nodes : a # b /\ Dom(t, a, b) => Dom(t, a, d)

LEMMA DomSelf ==
  ASSUME NEW t, IsTree(t), NEW b \in t.nodes
  PROVE  Dom(t, b, b)
<1>1. CASE b # t.root
  <2>1. Around(t, b, t.nodes \ {b}) /\ b \notin t.nodes \ {b} /\ t.nodes \ {b} \in SUBSET t.nodes
    BY <1>1 DEF Around, IsTree
  <2>. QED  BY <2>1 DEF Dom
<1>. QED  BY <1>1 DEF Dom

\* What dominates a node and is another one dominates its predecessors.
LEMMA DomPredecessor ==
  ASSUME NEW t, NEW a \in t.nodes, NEW b \in t.nodes, <<a, b>> \in t.edges,
         NEW d, Dom(t, d, b), d # b
  PROVE  Dom(t, d, a)
BY DEF Dom, Around

\* What dominates a node is above it.
LEMMA DomAbove ==
  ASSUME NEW t, IsTree(t), NEW b \in t.nodes, NEW d, Dom(t, d, b)
  PROVE  Above(t, d, b)
<1>1. CASE d = t.root
  BY <1>1, AboveRoot
<1>2. ASSUME NEW S \in SUBSET t.nodes, Around(t, d, S), b \notin S
      PROVE  Above(t, d, b)
  <2> DEFINE Out == {x \in t.nodes : Above(t, x, b) /\ x \notin S}
  <2>1. b \in Out
    BY <1>2, AboveSelf
  <2>2. PICK x \in Out : \A y \in Out : t.num[x] <= t.num[y]
    BY <2>1, LeastNode
  <2>3. x \in t.nodes \ {t.root}
    BY <1>2 DEF Around
  <2>4. /\ t.parent[x] \in t.nodes /\ <<t.parent[x], x>> \in t.edges
        /\ t.num[t.parent[x]] < t.num[x] /\ t.num[x] \in Nat /\ t.num[t.parent[x]] \in Nat
    BY <2>3, ParentFacts
  <2>5. Above(t, t.parent[x], b)
    BY <2>3, AboveParent, AboveTransitive
  <2>6. t.parent[x] \in S
    <3>1. ASSUME t.parent[x] \notin S PROVE FALSE
      <4>1. t.parent[x] \in Out
        BY <2>4, <2>5, <3>1
      <4>2. t.num[x] <= t.num[t.parent[x]]
        BY <2>2, <4>1
      <4>. QED  BY <2>4, <4>2
    <3>. QED  BY <3>1
  <2>7. x = d
    BY <1>2, <2>3, <2>4, <2>6 DEF Around
  <2>. QED  BY <2>7
<1>. QED  BY <1>1, <1>2 DEF Dom

LEMMA DomAntisymmetric ==
  ASSUME NEW t, IsTree(t), NEW a \in t.nodes, NEW b \in t.nodes, Dom(t, a, b), Dom(t, b, a)
  PROVE  a = b
<1>1. t.num[a] <= t.num[b] /\ t.num[b] <= t.num[a]
  BY DomAbove, AboveOrder
<1>2. t.num[a] \in Nat /\ t.num[b] \in Nat
  BY NumberIsNat
<1>3. t.num[a] = t.num[b]
  BY <1>1, <1>2
<1>. QED  BY <1>3 DEF IsTree

LEMMA DomTransitive ==
  ASSUME NEW t, IsTree(t), NEW a \in t.nodes, NEW b \in t.nodes, NEW c \in t.nodes,
         Dom(t, a, b), Dom(t, b, c)
  PROVE  Dom(t, a, c)
<1>1. CASE a = t.root
  BY <1>1 DEF Dom
<1>2. CASE b = t.root
  <2>1. Above(t, a, t.root)
    BY <1>2, DomAbove
  <2>2. a = t.root
    BY <2>1, AboveStep
  <2>. QED  BY <2>2 DEF Dom
<1>3. ASSUME a # t.root, b # t.root PROVE Dom(t, a, c)
  <2>1. PICK S \in SUBSET t.nodes : Around(t, a, S) /\ b \notin S
    BY <1>3 DEF Dom
  <2>2. PICK R \in SUBSET t.nodes : Around(t, b, R) /\ c \notin R
    BY <1>3 DEF Dom
  <2>3. Around(t, a, S \cap R) /\ c \notin S \cap R /\ S \cap R \in SUBSET t.nodes
    BY <2>1, <2>2 DEF Around
  <2>. QED  BY <2>3 DEF Dom
<1>. QED  BY <1>1, <1>2, <1>3

\* What dominates w and comes before it dominates all that leads to w.
LEMMA DomApproaches ==
  ASSUME NEW t, IsTree(t), NEW w \in t.nodes, NEW a \in t.nodes, Dom(t, a, w),
         t.num[a] < t.num[w], NEW x \in Approaches(t, w)
  PROVE  Dom(t, a, x)
<1> DEFINE S == {y \in t.nodes : Dom(t, a, y)}
<1>1. ASSUME NEW y \in t.nodes, NEW b \in t.nodes, <<y, b>> \in t.edges,
             b = w \/ (b \in S /\ t.num[w] < t.num[b])
      PROVE  y \in S
  <2>1. t.num[a] \in Nat /\ t.num[b] \in Nat /\ t.num[w] \in Nat
    BY NumberIsNat
  <2>2. a # b /\ Dom(t, a, b)
    BY <1>1, <2>1
  <2>. QED  BY <1>1, <2>2, DomPredecessor
<1>2. S \in SUBSET t.nodes /\ HasApproaches(t, w, S)
  BY <1>1 DEF HasApproaches
<1>3. x \in S
  <2> HIDE DEF S
  <2>. QED  BY <1>2, ApproachesLeast
<1>. QED  BY <1>3

\* What dominates w dominates what is between it and w in the tree.
LEMMA DomBetween ==
  ASSUME NEW t, IsTree(t), NEW w \in t.nodes, NEW a \in t.nodes, Dom(t, a, w),
         NEW u, Above(t, u, w), t.num[a] < t.num[u]
  PROVE  Dom(t, a, u)
<1> DEFINE S == {x \in t.nodes : t.num[x] <= t.num[a] \/ Dom(t, a, x)}
<1>1. ASSUME NEW x \in S \ {t.root} PROVE t.parent[x] \in S
  <2>1. /\ t.parent[x] \in t.nodes /\ <<t.parent[x], x>> \in t.edges
        /\ t.num[t.parent[x]] < t.num[x] /\ t.num[x] \in Nat /\ t.num[t.parent[x]] \in Nat
    BY ParentFacts
  <2>2. t.num[a] \in Nat
    BY NumberIsNat
  <2>3. CASE t.num[x] <= t.num[a]
    BY <2>1, <2>2, <2>3
  <2>4. CASE t.num[a] < t.num[x] /\ Dom(t, a, x)
    <3>1. a # x
      BY <2>2, <2>4
    <3>2. Dom(t, a, t.parent[x])
      BY <2>1, <2>4, <3>1, DomPredecessor
    <3>. QED  BY <2>1, <3>2
  <2>. QED  BY <2>1, <2>2, <2>3, <2>4
<1>2. w \in S /\ S \in SUBSET t.nodes
  OBVIOUS
<1>3. u \in S
  <2> HIDE DEF S
  <2>. QED  BY <1>1, <1>2 DEF Above
<1>4. t.num[a] \in Nat /\ t.num[u] \in Nat
  BY <1>3, NumberIsNat
<1>. QED  BY <1>3, <1>4

\* A path around z that does not lead to u leads to nothing between z and u.
LEMMA AroundBetween ==
  ASSUME NEW t, IsTree(t), NEW z \in t.nodes, NEW u \in t.nodes,
         NEW S \in SUBSET t.nodes, Around(t, z, S), u \notin S,
         NEW y, Above(t, y, u), t.num[z] < t.num[y]
  PROVE  y \notin S
<1> DEFINE T == {x \in t.nodes : t.num[x] <= t.num[z] \/ x \notin S}
<1>1. ASSUME NEW x \in T \ {t.root} PROVE t.parent[x] \in T
  <2>1. /\ t.parent[x] \in t.nodes /\ <<t.parent[x], x>> \in t.edges
        /\ t.num[t.parent[x]] < t.num[x] /\ t.num[x] \in Nat /\ t.num[t.parent[x]] \in Nat
    BY ParentFacts
  <2>2. t.num[z] \in Nat
    BY NumberIsNat
  <2>3. CASE t.num[x] <= t.num[z]
    BY <2>1, <2>2, <2>3
  <2>4. CASE t.num[z] < t.num[x] /\ x \notin S
    <3>1. z # x
      BY <2>2, <2>4
    <3>2. t.parent[x] \notin S
      BY <2>1, <2>4, <3>1 DEF Around
    <3>. QED  BY <2>1, <3>2
  <2>. QED  BY <2>1, <2>2, <2>3, <2>4
<1>2. u \in T /\ T \in SUBSET t.nodes
  OBVIOUS
<1>3. y \in T
  <2> HIDE DEF T
  <2>. QED  BY <1>1, <1>2 DEF Above
<1>4. t.num[z] \in Nat /\ t.num[y] \in Nat
  BY <1>3, NumberIsNat
<1>. QED  BY <1>3, <1>4

-----------------------------------------------------------------------------
(* From semidominators to dominators. *)

\* The nodes above w that are below s.
Between(t, s, w) == {x \in t.nodes : Above(t, s, x) /\ x # s /\ Above(t, x, w)}

\* These nodes, and what leads to one of them and comes after it.
Enclosed(t, s, w) ==
  {v \in t.nodes : \/ v \in Between(t, s, w)
                   \/ \E x \in Between(t, s, w) : v \in Approaches(t, x) /\ t.num[x] < t.num[v]}

\* An edge enters these nodes only from above one of them.
LEMMA EdgeToEnclosed ==
  ASSUME NEW t, SearchTree(t), NEW s, NEW w, NEW a \in t.nodes, NEW b \in Enclosed(t, s, w),
         <<a, b>> \in t.edges, a \notin Enclosed(t, s, w)
  PROVE  \E x \in Between(t, s, w) : a \in Approaches(t, x) /\ Above(t, a, x) /\ Above(t, a, w)
<1>1. IsTree(t) /\ b \in t.nodes
  BY DEF SearchTree, Enclosed
<1>2. PICK x \in Between(t, s, w) : a \in Approaches(t, x)
  <2>1. CASE b \in Between(t, s, w)
    <3>1. a \in Approaches(t, b)
      BY <1>1, ApproachByEdge
    <3>. QED  BY <2>1, <3>1
  <2>2. ASSUME NEW x \in Between(t, s, w), b \in Approaches(t, x), t.num[x] < t.num[b]
        PROVE  a \in Approaches(t, x)
    <3>1. x \in t.nodes
      BY DEF Between
    <3>. QED  BY <1>1, <2>2, <3>1, ApproachLonger
  <2>. QED  BY <2>1, <2>2 DEF Enclosed
<1>3. x \in t.nodes /\ Above(t, x, w)
  BY DEF Between
<1>4. ~(t.num[x] < t.num[a]) /\ a # x
  BY <1>2 DEF Enclosed
<1>5. t.num[x] \in Nat /\ t.num[a] \in Nat /\ t.num[a] # t.num[x]
  BY <1>1, <1>3, <1>4, NumberIsNat DEF IsTree
<1>6. t.num[a] < t.num[x]
  BY <1>4, <1>5
<1>7. Above(t, a, x)
  BY <1>2, <1>3, <1>6, ApproachFromAbove
<1>8. Above(t, a, w)
  BY <1>3, <1>7, AboveTransitive
<1>. QED  BY <1>2, <1>7, <1>8

\* When no node between has a smaller semidominator, the semidominator of w
\* is its dominator.
LEMMA IdomIsSemi ==
  ASSUME NEW t, SearchTree(t), NEW w \in t.nodes \ {t.root}, NEW s, IsSemi(t, w, s), NEW sem,
         \A x \in Between(t, s, w) : IsSemi(t, x, sem[x]) /\ t.num[s] <= t.num[sem[x]]
  PROVE  IsIdom(t, s, w)
<1>1. IsTree(t)
  BY DEF SearchTree
<1>2. s \in t.nodes /\ t.num[s] < t.num[w] /\ Above(t, s, w)
  BY SemiAbove
<1>3. s # w /\ t.num[s] \in Nat /\ t.num[w] \in Nat
  BY <1>1, <1>2, NumberIsNat
<1>4. Dom(t, s, w)
  <2> DEFINE S == t.nodes \ (Enclosed(t, s, w) \cup {s})
  <2>1. CASE s = t.root
    BY <2>1 DEF Dom
  <2>2. ASSUME s # t.root PROVE Dom(t, s, w)
    <3>1. w \in Enclosed(t, s, w)
      BY <1>2, <1>3, AboveSelf DEF Enclosed, Between
    <3>2. t.root \notin Enclosed(t, s, w)
      <4>1. t.root \notin Between(t, s, w)
        <5>1. ~Above(t, s, t.root)
          BY <1>1, <2>2, AboveStep
        <5>. QED  BY <5>1 DEF Between
      <4>2. ASSUME NEW x \in Between(t, s, w) PROVE ~(t.num[x] < t.num[t.root])
        <5>1. x \in t.nodes /\ t.root \in t.nodes
          BY <1>1 DEF Between, IsTree
        <5>2. t.num[x] \in Nat /\ t.num[t.root] \in Nat /\ t.num[t.root] <= t.num[x]
          BY <1>1, <5>1, NumberIsNat, AboveRoot, AboveOrder
        <5>. QED  BY <5>2
      <4>. QED  BY <4>1, <4>2 DEF Enclosed
    <3>3. ASSUME NEW a \in t.nodes, NEW b \in t.nodes, <<a, b>> \in t.edges, a \in S, b # s
          PROVE  b \in S
      <4>1. ASSUME b \in Enclosed(t, s, w) PROVE FALSE
        <5>1. a \notin Enclosed(t, s, w) /\ a # s
          BY <3>3
        <5>2. PICK x \in Between(t, s, w) :
                a \in Approaches(t, x) /\ Above(t, a, x) /\ Above(t, a, w)
          BY <3>3, <4>1, <5>1, EdgeToEnclosed
        <5>3. t.num[s] <= t.num[sem[x]] /\ t.num[sem[x]] <= t.num[a] /\ sem[x] \in t.nodes
          BY <5>2 DEF IsSemi, Approaches
        <5>4. t.num[s] <= t.num[a]
          <6>1. t.num[sem[x]] \in Nat /\ t.num[a] \in Nat
            BY <1>1, <5>3, NumberIsNat
          <6>. QED  BY <1>3, <5>3, <6>1
        <5>5. Above(t, s, a)
          BY <1>2, <5>2, <5>4, AboveComparable
        <5>6. a \in Between(t, s, w)
          BY <5>1, <5>2, <5>5 DEF Between
        <5>. QED  BY <5>1, <5>6 DEF Enclosed
      <4>. QED  BY <3>3, <4>1
    <3>4. Around(t, s, S) /\ w \notin S
      <4>1. t.root \in S
        BY <1>1, <2>2, <3>2 DEF IsTree
      <4>2. w \notin S
        BY <3>1
      <4> HIDE DEF S
      <4>. QED  BY <3>3, <4>1, <4>2 DEF Around
    <3>. QED  BY <3>4 DEF Dom
  <2>. QED  BY <2>1, <2>2
<1>5. ASSUME NEW a \in t.nodes, a # w, Dom(t, a, w) PROVE Dom(t, a, s)
  <2>1. t.num[a] <= t.num[w] /\ t.num[a] \in Nat /\ t.num[a] # t.num[w]
    BY <1>1, <1>5, DomAbove, AboveOrder, NumberIsNat DEF IsTree
  <2>2. t.num[a] < t.num[w]
    BY <1>3, <2>1
  <2>3. s \in Approaches(t, w)
    BY DEF IsSemi
  <2>. QED  BY <1>1, <1>5, <2>2, <2>3, DomApproaches
<1>. QED  BY <1>2, <1>3, <1>4, <1>5 DEF IsIdom

\* Otherwise it is the dominator of a node between whose semidominator is the
\* smallest.
LEMMA IdomFromBetween ==
  ASSUME NEW t, SearchTree(t), NEW w \in t.nodes \ {t.root}, NEW s, IsSemi(t, w, s), NEW sem,
         NEW u \in Between(t, s, w), t.num[sem[u]] < t.num[s],
         \A x \in Between(t, s, w) : IsSemi(t, x, sem[x]) /\ t.num[sem[u]] <= t.num[sem[x]],
         NEW z, IsIdom(t, z, u)
  PROVE  IsIdom(t, z, w)
<1>1. IsTree(t)
  BY DEF SearchTree
<1>2. s \in t.nodes /\ t.num[s] < t.num[w] /\ Above(t, s, w)
  BY SemiAbove
<1>3. u \in t.nodes /\ Above(t, s, u) /\ u # s /\ Above(t, u, w) /\ z \in t.nodes
  BY DEF Between, IsIdom
<1>4. t.num[s] \in Nat /\ t.num[w] \in Nat /\ t.num[u] \in Nat /\ t.num[z] \in Nat
  BY <1>1, <1>2, <1>3, NumberIsNat
<1>5. t.num[s] < t.num[u] /\ t.num[u] <= t.num[w]
  <2>1. t.num[s] <= t.num[u] /\ t.num[s] # t.num[u] /\ t.num[u] <= t.num[w]
    BY <1>1, <1>2, <1>3, AboveOrder DEF IsTree
  <2>. QED  BY <1>4, <2>1
<1>6. Above(t, z, u) /\ t.num[z] < t.num[u]
  <2>1. Above(t, z, u) /\ z # u
    BY <1>1, <1>3, DomAbove DEF IsIdom
  <2>2. t.num[z] <= t.num[u] /\ t.num[z] # t.num[u]
    BY <1>1, <1>3, <2>1, AboveOrder DEF IsTree
  <2>. QED  BY <1>4, <2>1, <2>2
<1>7. sem[u] \in t.nodes /\ t.num[sem[u]] \in Nat /\ t.num[z] <= t.num[sem[u]]
  <2>1. sem[u] \in Approaches(t, u) /\ sem[u] \in t.nodes
    BY DEF IsSemi, Approaches
  <2>2. Dom(t, z, sem[u])
    BY <1>1, <1>3, <1>6, <2>1, DomApproaches DEF IsIdom
  <2>. QED  BY <1>1, <2>1, <2>2, NumberIsNat, DomAbove, AboveOrder
<1>8. z # w /\ z # u
  BY <1>4, <1>5, <1>6
<1>9. Dom(t, z, w)
  <2>1. CASE z = t.root
    BY <2>1 DEF Dom
  <2>2. ASSUME z # t.root PROVE Dom(t, z, w)
    <3>1. PICK R \in SUBSET t.nodes : Around(t, z, R) /\ u \notin R
      BY <2>2 DEF IsIdom, Dom
    <3> DEFINE S == R \ (Enclosed(t, s, w) \cup {z})
    <3>2. w \in Enclosed(t, s, w)
      <4>1. s # w
        BY <1>2, <1>4
      <4>. QED  BY <1>2, <4>1, AboveSelf DEF Enclosed, Between
    <3>3. t.root \notin Enclosed(t, s, w)
      <4>1. t.root \notin Between(t, s, w)
        <5>1. Above(t, s, t.root) => s = t.root
          BY <1>1, AboveStep
        <5>. QED  BY <5>1 DEF Between
      <4>2. ASSUME NEW x \in Between(t, s, w) PROVE ~(t.num[x] < t.num[t.root])
        <5>1. x \in t.nodes /\ t.root \in t.nodes
          BY <1>1 DEF Between, IsTree
        <5>2. t.num[x] \in Nat /\ t.num[t.root] \in Nat /\ t.num[t.root] <= t.num[x]
          BY <1>1, <5>1, NumberIsNat, AboveRoot, AboveOrder
        <5>. QED  BY <5>2
      <4>. QED  BY <4>1, <4>2 DEF Enclosed
    <3>4. ASSUME NEW a \in t.nodes, NEW b \in t.nodes, <<a, b>> \in t.edges, a \in S, b # z
          PROVE  b \in S
      <4>1. b \in R
        BY <3>1, <3>4 DEF Around
      <4>2. ASSUME b \in Enclosed(t, s, w) PROVE FALSE
        <5>1. a \in R /\ a \notin Enclosed(t, s, w) /\ a # z
          BY <3>4
        <5>2. PICK x \in Between(t, s, w) :
                a \in Approaches(t, x) /\ Above(t, a, x) /\ Above(t, a, w)
          BY <3>4, <4>2, <5>1, EdgeToEnclosed
        <5>3. t.num[sem[u]] <= t.num[sem[x]] /\ t.num[sem[x]] <= t.num[a] /\ sem[x] \in t.nodes
          BY <5>2 DEF IsSemi, Approaches
        <5>4. t.num[z] < t.num[a] /\ t.num[a] \in Nat
          <6>1. t.num[sem[x]] \in Nat /\ t.num[a] \in Nat /\ t.num[a] # t.num[z]
            BY <1>1, <1>3, <5>1, <5>3, NumberIsNat DEF IsTree
          <6>. QED  BY <1>4, <1>7, <5>3, <6>1
        <5>5. ~Above(t, a, u)
          BY <1>1, <1>3, <3>1, <5>1, <5>4, AroundBetween
        <5>6. t.num[u] < t.num[a]
          <6>1. t.num[a] <= t.num[u] => Above(t, a, u)
            BY <1>3, <5>2, AboveComparable
          <6>. QED  BY <1>4, <5>4, <5>5, <6>1
        <5>7. Above(t, s, a) /\ a # s
          <6>1. t.num[s] <= t.num[a] /\ a # s
            BY <1>4, <1>5, <5>4, <5>6
          <6>. QED  BY <1>2, <5>2, <6>1, AboveComparable
        <5>8. a \in Between(t, s, w)
          BY <5>2, <5>7 DEF Between
        <5>. QED  BY <5>1, <5>8 DEF Enclosed
      <4>. QED  BY <3>4, <4>1, <4>2
    <3>5. Around(t, z, S) /\ w \notin S /\ S \in SUBSET t.nodes
      <4>1. t.root \in S
        BY <2>2, <3>1, <3>3 DEF Around
      <4>2. w \notin S /\ S \in SUBSET t.nodes
        BY <3>2
      <4> HIDE DEF S
      <4>. QED  BY <3>4, <4>1, <4>2 DEF Around
    <3>. QED  BY <3>5 DEF Dom
  <2>. QED  BY <2>1, <2>2
<1>10. ASSUME NEW a \in t.nodes, a # w, Dom(t, a, w) PROVE Dom(t, a, z)
  <2>1. t.num[a] <= t.num[w] /\ t.num[a] \in Nat /\ t.num[a] # t.num[w]
    BY <1>1, <1>10, DomAbove, AboveOrder, NumberIsNat DEF IsTree
  <2>2. t.num[a] < t.num[w]
    BY <1>4, <2>1
  <2>3. Dom(t, a, s)
    BY <1>1, <1>10, <2>2, DomApproaches DEF IsSemi
  <2>4. t.num[a] <= t.num[s]
    BY <1>1, <1>2, <2>3, DomAbove, AboveOrder
  <2>5. t.num[a] < t.num[u] /\ a # u
    BY <1>4, <1>5, <2>1, <2>4
  <2>6. Dom(t, a, u)
    BY <1>1, <1>3, <1>10, <2>5, DomBetween
  <2>. QED  BY <2>5, <2>6 DEF IsIdom
<1>. QED  BY <1>3, <1>8, <1>9, <1>10 DEF IsIdom

-----------------------------------------------------------------------------
(* Closure is the least set that has the given one and is closed.          *)

IsClosed(edges, avoid, C) ==
  \A e \in edges : e[1] \in C /\ e[2] \notin avoid => e[2] \in C

\* within[n] is what n steps reach.
IsHistory(within, edges, set, avoid, V) ==
  LET N == Cardinality(edges) IN
  /\ within \in [0..N -> SUBSET V]
  /\ within[0] = set
  /\ \A n \in 1..N : within[n] = OneStep(edges, avoid, within[n - 1])
  /\ Closure(edges, set, avoid) = within[N]

LEMMA ClosureHistory ==
  ASSUME NEW V, NEW edges, edges \subseteq V \X V, IsFiniteSet(edges),
         NEW set \in SUBSET V, NEW avoid
  PROVE  \E within : IsHistory(within, edges, set, avoid, V)
<1> DEFINE N == Cardinality(edges)
           S == SUBSET V
           step == [known \in S |-> OneStep(edges, avoid, known)]
           IsWithin(g) == g = [n \in 0..N |-> IF n = 0 THEN set
                                  ELSE OneStep(edges, avoid, g[n - 1])]
           within == CHOOSE g : IsWithin(g)
<1>1. N \in Nat
  BY FS_CardinalityType
<1>2. set \in S
  OBVIOUS
<1>3. \A known \in S : OneStep(edges, avoid, known) \in S
  <2>1. \A e \in edges : e[2] \in V
    OBVIOUS
  <2>. QED  BY <2>1 DEF OneStep
<1>4. PICK h : AreIterates(h, S, set, step, N)
  <2>1. step \in [S -> S]
    BY <1>3
  <2> HIDE DEF N, S, step
  <2>. QED  BY <1>1, <1>2, <2>1, Iterates
<1>5. IsWithin(h)
  <2>1. \A n \in 1..N : h[n - 1] \in S
    BY <1>1, <1>4 DEF AreIterates
  <2>2. \A n \in 1..N : h[n] = OneStep(edges, avoid, h[n - 1])
    BY <1>4, <2>1 DEF AreIterates
  <2> HIDE DEF N, S
  <2>. QED  BY <1>1, <1>4, <2>2 DEF AreIterates
<1>6. IsWithin(within)
  <2> HIDE DEF IsWithin
  <2>. QED  BY <1>5
<1> HIDE DEF within, N
<1>7. /\ within[0] = set
      /\ \A n \in 1..N : within[n] = OneStep(edges, avoid, within[n - 1])
  BY <1>1, <1>6
<1>8. within \in [0..N -> S]
  <2> DEFINE T == {n \in 0..N : within[n] \in S}
  <2>1. 0 \in T
    BY <1>1, <1>2, <1>7
  <2>2. ASSUME NEW n \in 0..(N - 1), n \in T PROVE n + 1 \in T
    <3>1. n + 1 \in 1..N /\ (n + 1) - 1 = n /\ n + 1 \in 0..N
      BY <1>1
    <3>2. within[n + 1] = OneStep(edges, avoid, within[n])
      BY <1>7, <3>1
    <3> HIDE DEF S
    <3>. QED  BY <1>3, <2>2, <3>1, <3>2
  <2>3. \A n \in 0..N : n \in T
    <3> HIDE DEF T
    <3>. QED  BY <1>1, <2>1, <2>2, Upwards
  <2>4. within = [n \in 0..N |-> within[n]]
    BY <1>6
  <2> HIDE DEF S
  <2>. QED  BY <2>3, <2>4
<1>9. Closure(edges, set, avoid) = within[N]
  BY DEF Closure, within, N
<1> HIDE DEF S
<1>. QED  BY <1>7, <1>8, <1>9 DEF N, S, IsHistory

\* What is reached is in every closed set that has the start.
LEMMA ClosureLeast ==
  ASSUME NEW V, NEW edges, edges \subseteq V \X V, IsFiniteSet(edges),
         NEW set \in SUBSET V, NEW avoid,
         NEW C, set \subseteq C, IsClosed(edges, avoid, C)
  PROVE  Closure(edges, set, avoid) \subseteq C
<1> DEFINE N == Cardinality(edges)
<1>1. N \in Nat
  BY FS_CardinalityType
<1>2. PICK within : IsHistory(within, edges, set, avoid, V)
  BY ClosureHistory
<1>3. /\ within[0] = set
      /\ \A n \in 1..N : within[n] = OneStep(edges, avoid, within[n - 1])
      /\ Closure(edges, set, avoid) = within[N]
  BY <1>2 DEF IsHistory
<1> DEFINE T == {n \in 0..N : within[n] \subseteq C}
<1> HIDE DEF N
<1>4. 0 \in T
  BY <1>1, <1>3
<1>5. ASSUME NEW n \in 0..(N - 1), n \in T PROVE n + 1 \in T
  <2>1. n + 1 \in 1..N /\ n + 1 \in 0..N /\ (n + 1) - 1 = n
    BY <1>1
  <2>2. within[n + 1] = OneStep(edges, avoid, within[n])
    BY <1>3, <2>1
  <2>3. OneStep(edges, avoid, within[n]) \subseteq C
    BY <1>5 DEF OneStep, IsClosed
  <2>. QED  BY <2>1, <2>2, <2>3
<1>6. \A n \in 0..N : n \in T
  <2> HIDE DEF T
  <2>. QED  BY <1>1, <1>4, <1>5, Upwards
<1>7. N \in 0..N
  BY <1>1
<1>. QED  BY <1>3, <1>6, <1>7

\* What is reached is closed.
LEMMA ClosureIsClosed ==
  ASSUME NEW V, NEW edges, edges \subseteq V \X V, IsFiniteSet(edges),
         NEW set \in SUBSET V, NEW avoid
  PROVE  /\ set \subseteq Closure(edges, set, avoid) /\ Closure(edges, set, avoid) \subseteq V
         /\ IsClosed(edges, avoid, Closure(edges, set, avoid))
<1> DEFINE N == Cardinality(edges)
<1>1. N \in Nat
  BY FS_CardinalityType
<1>2. PICK within : IsHistory(within, edges, set, avoid, V)
  BY ClosureHistory
<1>3. /\ within \in [0..N -> SUBSET V]
      /\ within[0] = set
      /\ \A n \in 1..N : within[n] = OneStep(edges, avoid, within[n - 1])
      /\ Closure(edges, set, avoid) = within[N]
  BY <1>2 DEF IsHistory
<1> DEFINE ends == [n \in 0..N |-> {e \in edges : e[2] \in within[n]}]
           T == {n \in 0..N : /\ set \subseteq within[n]
                              /\ \/ OneStep(edges, avoid, within[n]) = within[n]
                                 \/ Cardinality(ends[n]) >= n}
<1>4. ASSUME NEW n \in 0..N
      PROVE  /\ IsFiniteSet(ends[n]) /\ ends[n] \subseteq edges
             /\ Cardinality(ends[n]) \in Nat /\ Cardinality(ends[n]) <= N
             /\ Cardinality(ends[n]) = N => ends[n] = edges
  <2>1. ends[n] \in SUBSET edges
    OBVIOUS
  <2> HIDE DEF ends
  <2>2. IsFiniteSet(ends[n]) /\ Cardinality(ends[n]) <= N
        /\ (Cardinality(ends[n]) = N => ends[n] = edges)
    BY <2>1, FS_Subset
  <2>3. Cardinality(ends[n]) \in Nat
    BY <2>2, FS_CardinalityType, Zenon
  <2>. QED  BY <2>1, <2>2, <2>3
<1>5. \A n \in 0..N : ends[n] = {e \in edges : e[2] \in within[n]}
  OBVIOUS
<1> HIDE DEF N, ends
<1>6. 0 \in T
  BY <1>1, <1>3, <1>4
<1>7. ASSUME NEW n \in 0..(N - 1), n \in T PROVE n + 1 \in T
  <2>1. n \in 0..N /\ n + 1 \in 0..N /\ n + 1 \in 1..N /\ (n + 1) - 1 = n
    BY <1>1
  <2>2. within[n + 1] = OneStep(edges, avoid, within[n])
    BY <1>3, <2>1
  <2>3. set \subseteq within[n + 1]
    BY <1>7, <2>2 DEF OneStep
  <2>4. CASE within[n + 1] = within[n]
    BY <2>1, <2>2, <2>3, <2>4
  <2>5. CASE within[n + 1] # within[n]
    <3>1. PICK e \in edges : e[2] \in within[n + 1] /\ e[2] \notin within[n]
      BY <2>2, <2>5 DEF OneStep
    <3>2. ends[n] \in SUBSET ends[n + 1] /\ ends[n] # ends[n + 1]
      BY <1>5, <2>1, <2>2, <3>1 DEF OneStep
    <3>3. Cardinality(ends[n]) <= Cardinality(ends[n + 1])
          /\ Cardinality(ends[n]) # Cardinality(ends[n + 1])
      <4>1. IsFiniteSet(ends[n + 1])
        BY <1>4, <2>1
      <4>. QED  BY <3>2, <4>1, FS_Subset
    <3>4. Cardinality(ends[n]) >= n
      BY <1>7, <2>2, <2>5
    <3>5. Cardinality(ends[n + 1]) >= n + 1
      BY <1>4, <2>1, <3>3, <3>4
    <3>. QED  BY <2>1, <2>3, <3>5
  <2>. QED  BY <2>4, <2>5
<1>8. N \in T
  <2> HIDE DEF T
  <2>1. \A n \in 0..N : n \in T
    BY <1>1, <1>6, <1>7, Upwards
  <2>. QED  BY <1>1, <2>1
<1>9. N \in 0..N /\ within[N] \subseteq V
  BY <1>1, <1>3
<1>10. IsClosed(edges, avoid, within[N])
  <2>1. CASE OneStep(edges, avoid, within[N]) = within[N]
    BY <2>1 DEF OneStep, IsClosed
  <2>2. CASE Cardinality(ends[N]) >= N
    <3>1. ends[N] = edges
      BY <1>1, <1>4, <1>9, <2>2
    <3>. QED  BY <1>5, <1>9, <3>1 DEF IsClosed
  <2>. QED  BY <1>8, <2>1, <2>2
<1>. QED  BY <1>3, <1>8, <1>9, <1>10

\* R is closed, and some are the edges from it.
EdgesFrom(V, edges, R, some) ==
  /\ edges \subseteq V \X V /\ IsFiniteSet(edges)
  /\ IsClosed(edges, {}, R)
  /\ some \subseteq edges /\ \A e \in edges : e[1] \in R <=> e \in some

\* The other edges do not matter to what can be reached within R.
LEMMA ClosureOfReached ==
  ASSUME NEW V, NEW edges, NEW R, NEW some, EdgesFrom(V, edges, R, some),
         NEW set, set \subseteq V, set \subseteq R, NEW avoid
  PROVE  Closure(edges, set, avoid) = Closure(some, set, avoid)
<1>0. /\ edges \subseteq V \X V /\ IsFiniteSet(edges) /\ IsClosed(edges, {}, R)
      /\ some \subseteq edges /\ \A e \in edges : e[1] \in R <=> e \in some
      /\ set \in SUBSET V
  BY DEF EdgesFrom
<1> DEFINE all == Closure(edges, set, avoid)
           few == Closure(some, set, avoid)
<1>1. some \subseteq V \X V /\ IsFiniteSet(some)
  BY <1>0, FS_Subset
<1>2. set \subseteq all /\ IsClosed(edges, avoid, all)
  BY <1>0, ClosureIsClosed
<1>3. set \subseteq few /\ IsClosed(some, avoid, few)
  BY <1>0, <1>1, ClosureIsClosed
<1>4. few \subseteq all
  <2>1. IsClosed(some, avoid, all)
    BY <1>0, <1>2 DEF IsClosed
  <2> HIDE DEF all
  <2>. QED  BY <1>0, <1>1, <1>2, <2>1, ClosureLeast
<1>5. few \subseteq R
  <2>1. IsClosed(some, avoid, R)
    BY <1>0 DEF IsClosed
  <2>. QED  BY <1>0, <1>1, <2>1, ClosureLeast
<1>6. all \subseteq few
  <2>1. IsClosed(edges, avoid, few)
    <3>1. ASSUME NEW e \in edges, e[1] \in few, e[2] \notin avoid PROVE e[2] \in few
      <4>1. e \in some
        BY <1>0, <1>5, <3>1
      <4> HIDE DEF few
      <4>. QED  BY <1>3, <3>1, <4>1 DEF IsClosed
    <3> HIDE DEF few
    <3>. QED  BY <3>1 DEF IsClosed
  <2> HIDE DEF few
  <2>. QED  BY <1>0, <1>3, <2>1, ClosureLeast
<1>7. all = few
  <2> HIDE DEF all, few
  <2>. QED  BY <1>4, <1>6
<1>. QED  BY <1>7

\* A tree reaches all of its nodes.
LEMMA TreeReaches ==
  ASSUME NEW t, IsTree(t), IsFiniteSet(t.edges)
  PROVE  Closure(t.edges, {t.root}, {}) = t.nodes
<1> DEFINE C == Closure(t.edges, {t.root}, {})
<1>1. t.edges \subseteq t.nodes \X t.nodes /\ {t.root} \in SUBSET t.nodes
  BY DEF IsTree
<1>2. t.root \in C /\ C \subseteq t.nodes /\ IsClosed(t.edges, {}, C)
  <2>1. /\ {t.root} \subseteq C /\ C \subseteq t.nodes
        /\ IsClosed(t.edges, {}, C)
    BY <1>1, ClosureIsClosed
  <2>. QED  BY <2>1
<1>3. ASSUME NEW b \in t.nodes PROVE b \in C
  <2> HIDE DEF C
  <2> DEFINE S == t.nodes \ C
  <2>1. ASSUME S # {} PROVE FALSE
    <3>1. PICK x \in S : \A y \in S : t.num[x] <= t.num[y]
      BY <2>1, LeastNode
    <3>2. x \in t.nodes \ {t.root}
      BY <1>2
    <3>3. /\ t.parent[x] \in t.nodes /\ <<t.parent[x], x>> \in t.edges
          /\ t.num[t.parent[x]] < t.num[x] /\ t.num[x] \in Nat /\ t.num[t.parent[x]] \in Nat
      BY <3>2, ParentFacts
    <3>4. t.parent[x] \in S
      <4>1. t.parent[x] \in C => x \in C
        BY <1>2, <3>3 DEF IsClosed
      <4>. QED  BY <3>3, <4>1
    <3>5. t.num[x] <= t.num[t.parent[x]]
      BY <3>1, <3>4
    <3>. QED  BY <3>3, <3>5
  <2>. QED  BY <2>1
<1>. QED  BY <1>2, <1>3

\* Dominance by paths is dominance by closed sets.
LEMMA DominatedIsDom ==
  ASSUME NEW t, IsTree(t), IsFiniteSet(t.edges), NEW d, NEW b
  PROVE  b \in DominatedBy(t.edges, t.root, d) <=> b \in t.nodes /\ Dom(t, d, b)
<1> DEFINE C == Closure(t.edges, {t.root}, {d})
<1>1. t.edges \subseteq t.nodes \X t.nodes /\ {t.root} \in SUBSET t.nodes
  BY DEF IsTree
<1>2. t.root \in C /\ C \subseteq t.nodes /\ IsClosed(t.edges, {d}, C)
  <2>1. /\ {t.root} \subseteq C /\ C \subseteq t.nodes
        /\ IsClosed(t.edges, {d}, C)
    BY <1>1, ClosureIsClosed
  <2>. QED  BY <2>1
<1>3. CASE d = t.root
  BY <1>3, TreeReaches DEF DominatedBy, Dom
<1>4. CASE d # t.root
  <2>1. b \in DominatedBy(t.edges, t.root, d) <=> b \in t.nodes /\ b \notin C
    BY <1>4, TreeReaches DEF DominatedBy
  <2>2. ASSUME b \notin C PROVE Dom(t, d, b)
    <3>1. Around(t, d, C)
      <4> HIDE DEF C
      <4>. QED  BY <1>2 DEF Around, IsClosed
    <3>. QED  BY <1>2, <2>2, <3>1 DEF Dom
  <2>3. ASSUME NEW S \in SUBSET t.nodes, Around(t, d, S), b \notin S PROVE b \notin C
    <3>1. IsClosed(t.edges, {d}, S) /\ {t.root} \subseteq S
      <4>1. ASSUME NEW e \in t.edges, e[1] \in S, e[2] \notin {d} PROVE e[2] \in S
        <5>1. e = <<e[1], e[2]>> /\ e[1] \in t.nodes /\ e[2] \in t.nodes
          BY <1>1
        <5>. QED  BY <2>3, <4>1, <5>1 DEF Around
      <4>. QED  BY <2>3, <4>1 DEF Around, IsClosed
    <3>2. C \subseteq S
      BY <1>1, <3>1, ClosureLeast
    <3>. QED  BY <2>3, <3>2
  <2>. QED  BY <1>4, <2>1, <2>2, <2>3 DEF Dom
<1>. QED  BY <1>3, <1>4

LEMMA IdomIsParent ==
  ASSUME NEW t, IsTree(t), IsFiniteSet(t.edges), NEW b \in t.nodes, NEW d, IsIdom(t, d, b)
  PROVE  IsParent(t.edges, t.root, d, b)
<1>1. Closure(t.edges, {t.root}, {}) = t.nodes
  BY TreeReaches
<1>2. \A a, x : x \in DominatedBy(t.edges, t.root, a) <=> x \in t.nodes /\ Dom(t, a, x)
  BY DominatedIsDom
<1>. QED  BY <1>1, <1>2 DEF IsParent, IsIdom

-----------------------------------------------------------------------------
(* The frontiers. *)

\* b is in the frontier of what dominates a predecessor of it and not b itself.
CoversEdges(s, edges, front) ==
  \A c, p, b \in s.nodes :
    <<p, b>> \in edges /\ Dom(s, c, p) /\ ~(c # b /\ Dom(s, c, b)) => b \in front[c]

\* Frontiers of a graph with more edges, iterated from a, have the block where
\* the dominance of a ends in the graph itself.
LEMMA JoinsCovered ==
  ASSUME NEW s, IsTree(s), NEW l, IsTree(l), s.nodes = l.nodes, s.root = l.root,
         l.edges \subseteq s.edges, NEW front, CoversEdges(s, l.edges, front),
         NEW a \in l.nodes, NEW D, front[a] \subseteq D, \A y \in D \cap l.nodes : front[y] \subseteq D,
         NEW x, NEW y, <<x, y>> \in l.edges, Dom(l, a, x), ~Dom(l, a, y) \/ y = a
  PROVE  y \in D
<1>0. x \in l.nodes /\ y \in l.nodes
  BY DEF IsTree
\* What dominates with more edges dominates with fewer.
<1>1. ASSUME NEW c \in l.nodes, NEW v \in l.nodes, Dom(s, c, v) PROVE Dom(l, c, v)
  <2>1. ASSUME NEW S \in SUBSET s.nodes, Around(s, c, S), v \notin S PROVE Around(l, c, S)
    BY <2>1 DEF Around
  <2>. QED  BY <1>1, <2>1 DEF Dom
<1> DEFINE Near(c) == c \in l.nodes /\ (c = a \/ c \in D) /\ Dom(l, a, c)
           Z == {v \in l.nodes : Dom(l, a, v) /\ \E c \in l.nodes : Near(c) /\ Dom(s, c, v)}
<1>2. a \in Z
  <2>1. Dom(l, a, a) /\ Dom(s, a, a)
    BY DomSelf
  <2>. QED  BY <2>1
<1>3. ASSUME NEW c \in l.nodes, Near(c) PROVE front[c] \subseteq D
  BY <1>3
<1>4. ASSUME NEW v \in Z, NEW u \in l.nodes, <<v, u>> \in l.edges, Dom(l, a, u)
      PROVE  u \in Z
  <2>1. PICK c \in l.nodes : Near(c) /\ Dom(s, c, v)
    OBVIOUS
  <2>2. CASE c # u /\ Dom(s, c, u)
    BY <1>4, <2>1, <2>2
  <2>3. CASE ~(c # u /\ Dom(s, c, u))
    <3>1. u \in front[c]
      BY <1>4, <2>1, <2>3 DEF CoversEdges
    <3>2. u \in D
      BY <1>3, <2>1, <3>1
    <3>3. Near(u) /\ Dom(s, u, u)
      BY <1>4, <3>2, DomSelf
    <3>. QED  BY <1>4, <3>3
  <2>. QED  BY <2>2, <2>3
\* So is every node that a dominates.
<1>5. x \in Z
  <2> DEFINE O == {v \in l.nodes : Dom(l, a, v) /\ v \notin Z}
  <2> HIDE DEF Z
  <2>1. ASSUME NEW v \in O \ {l.root} PROVE l.parent[v] \in O
    <3>1. l.parent[v] \in l.nodes /\ <<l.parent[v], v>> \in l.edges
      BY ParentFacts
    <3>2. a # v
      BY <1>2
    <3>3. Dom(l, a, l.parent[v])
      BY <3>1, <3>2, DomPredecessor
    <3>4. l.parent[v] \notin Z
      BY <1>4, <3>1
    <3>. QED  BY <3>1, <3>3, <3>4
  <2>2. l.root \notin O
    <3>1. Dom(l, a, l.root) => a = l.root
      <4>1. Dom(l, a, l.root) => Above(l, a, l.root)
        BY DomAbove DEF IsTree
      <4>. QED  BY <4>1, AboveStep
    <3>. QED  BY <1>2, <3>1
  <2>3. Above(l, l.root, x) /\ O \in SUBSET l.nodes
    BY <1>0, AboveRoot
  <2>4. x \notin O
    <3> HIDE DEF O
    <3>. QED  BY <2>1, <2>2, <2>3 DEF Above
  <2>. QED  BY <1>0, <2>4
<1>6. PICK c \in l.nodes : Near(c) /\ Dom(s, c, x)
  BY <1>5
<1>7. ~(c # y /\ Dom(s, c, y))
  <2>1. ASSUME c # y, Dom(s, c, y) PROVE FALSE
    <3>1. Dom(l, c, y) /\ Dom(l, a, c)
      BY <1>0, <1>1, <1>6, <2>1
    <3>2. Dom(l, a, y)
      BY <1>0, <3>1, DomTransitive
    <3>3. y = a
      BY <3>2
    <3>4. c = a
      BY <3>1, <3>3, DomAntisymmetric
    <3>. QED  BY <2>1, <3>3, <3>4
  <2>. QED  BY <2>1
<1>8. y \in front[c]
  BY <1>0, <1>6, <1>7 DEF CoversEdges
<1>. QED  BY <1>3, <1>6, <1>8

=============================================================================
