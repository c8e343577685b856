------------------------ MODULE GraphColoring_proofs ------------------------
(***************************************************************************)
(* Theorems about GraphColoring for any finite set of virtual registers,   *)
(* any register file and any classes.                                      *)
(*                                                                         *)
(* Select looks only at the connections that Remove left in a node, so the *)
(* invariant records which of a node's neighbours those must contain: all  *)
(* that were removed after it (Frozen).  Since nodes are popped in the     *)
(* reverse order, every neighbour already coloured is among them, and the  *)
(* degree the node was pushed with bounds the registers they can block     *)
(* (LowDegree, with the pigeonhole principle in SelectFindsARegister).     *)
(***************************************************************************)
EXTENDS GraphColoring, Induction, FiniteSetTheorems, TLAPS

OnStack == {stack[i] : i \in DOMAIN stack}

\* The nodes already taken from the work stack.
Popped == VRegs \ (inGraph \cup spills \cup OnStack)

Phases ==
  /\ pc = "sort" => /\ inGraph = VRegs /\ conns = adj
                    /\ stack = <<>> /\ spills = {}
  /\ pc \in {"sort", "simplify"} => Colored = {}
  /\ pc \notin {"sort", "simplify"} => inGraph = {}
  /\ pc \in {"commit", "done"} => stack = <<>>
  /\ pc # "done" => vp = [v \in {} |-> v]
  /\ pc = "done" => vp = [v \in VRegs \ spills |-> phys[v]]

\* A node is in one place at a time.
Placement ==
  /\ \A i, j \in DOMAIN stack : stack[i] = stack[j] => i = j
  /\ inGraph \cap spills = {}
  /\ \A i \in DOMAIN stack : stack[i] \notin inGraph \cup spills
  /\ Colored = Popped

\* What connections still contain.
Frozen ==
  /\ \A v \in VRegs : conns[v] \subseteq adj[v] /\ adj[v] \cap PRegs \subseteq conns[v]
  /\ \A v, w \in inGraph : w \in adj[v] => w \in conns[v]
  /\ \A i \in DOMAIN stack : \A w \in inGraph \cup Colored :
        w \in adj[stack[i]] => w \in conns[stack[i]]
  /\ \A i, j \in DOMAIN stack :
        i < j /\ stack[j] \in adj[stack[i]] => stack[j] \in conns[stack[i]]

LowDegree ==
  \A i \in DOMAIN stack : Degree(stack[i]) < Len(Available[Class[stack[i]]])

InClass ==
  \A v \in Colored : \E i \in DOMAIN Available[Class[v]] : phys[v] = Available[Class[v]][i]

\* The inductive invariant.
IInv == TypeOK /\ Phases /\ Placement /\ Frozen /\ LowDegree /\ InClass
        /\ ProperColoring /\ NeverFails

-----------------------------------------------------------------------------
(* Facts about one node. *)

\* FirstFree returns a register no connection blocks whenever there is one.
LEMMA FirstFreeIsFree ==
  ASSUME RegistersAssumption, NEW v \in VRegs, FreeSlots(v) # {}
  PROVE  \E i \in DOMAIN Available[Class[v]] :
            /\ FirstFree(v) = Available[Class[v]][i]
            /\ ~Blocked(v, Available[Class[v]][i])
<1>1. FreeSlots(v) \in SUBSET Nat
  BY DEF FreeSlots, RegistersAssumption
<1>2. \E i \in FreeSlots(v) : \A j \in FreeSlots(v) : i <= j
  BY <1>1, LeastElement
<1>3. (CHOOSE i \in FreeSlots(v) : \A j \in FreeSlots(v) : i <= j) \in FreeSlots(v)
  BY <1>2
<1>. QED  BY <1>3 DEF FirstFree, FreeSlots

\* The pigeonhole argument of Chaitin's simplification, with connections of
\* any class: each connection blocks at most one register of v's class, and
\* there are fewer connections than registers.
LEMMA SelectFindsARegister ==
  ASSUME RegistersAssumption, TypeOK, NEW v \in VRegs,
         Degree(v) < Len(Available[Class[v]])
  PROVE  FreeSlots(v) # {}
<1> DEFINE A == Available[Class[v]]
           n == Len(A)
           blocks(c, i) == \/ c \in PRegs /\ IsSameRegister(c, A[i])
                           \/ c \in Colored /\ IsSameRegister(phys[c], A[i])
<1>1. A \in Seq(PRegs) /\ n \in Nat /\ DOMAIN A = 1..n
  BY DEF RegistersAssumption
<1>2. IsFiniteSet(conns[v])
  <2>1. IsFiniteSet(VRegs \cup PRegs)
    BY FS_Union DEF RegistersAssumption
  <2>2. conns[v] \in SUBSET (VRegs \cup PRegs)
    BY DEF TypeOK, CanonicalPRegs
  <2>. QED  BY <2>1, <2>2, FS_Subset
<1>3. IsFiniteSet(1..n) /\ Cardinality(1..n) = n
  BY <1>1, FS_Interval
<1>4. SUFFICES ASSUME FreeSlots(v) = {}
               PROVE  FALSE
  OBVIOUS
<1>5. \A i \in 1..n : \E c \in conns[v] : blocks(c, i)
  BY <1>1, <1>4 DEF FreeSlots, Blocked
<1> DEFINE f == [i \in 1..n |-> CHOOSE c \in conns[v] : blocks(c, i)]
<1>6. \A i \in 1..n : f[i] \in conns[v] /\ blocks(f[i], i)
  BY <1>5
<1>7. f \in [1..n -> conns[v]]
  BY <1>6
<1>8. PICK i, j \in 1..n : i # j /\ f[i] = f[j]
  <2> DEFINE S == 1..n
             T == conns[v]
  <2>1. Cardinality(T) < Cardinality(S)
    BY <1>3 DEF Degree
  <2>2. IsFiniteSet(S) /\ IsFiniteSet(T) /\ f \in [S -> T]
    BY <1>2, <1>3, <1>7
  <2> HIDE DEF S, T, f
  <2>3. \E i, j \in S : i # j /\ f[i] = f[j]
    BY <2>1, <2>2, FS_PigeonHole
  <2>. QED  BY <2>3 DEF S
<1>9. Canonical[A[i]] = Canonical[A[j]]
  <2>1. f[i] \in PRegs => f[i] \notin Colored
    BY DEF Colored, RegistersAssumption
  <2>2. blocks(f[i], i) /\ blocks(f[i], j)
    BY <1>6, <1>8
  <2> HIDE DEF f
  <2>. QED  BY <2>1, <2>2 DEF IsSameRegister
<1>10. Class[v] \in Classes
  BY DEF RegistersAssumption
<1>11. i \in DOMAIN A /\ j \in DOMAIN A
  BY <1>1
<1>. QED  BY <1>8, <1>9, <1>10, <1>11 DEF RegistersAssumption
-----------------------------------------------------------------------------
(* The invariant is inductive: one lemma per action that moves a node. *)

\* The invariant holds before the nodes are sorted.
LEMMA InitInvariant == RegistersAssumption /\ Init => IInv
<1>. SUFFICES ASSUME RegistersAssumption, Init PROVE IInv
  OBVIOUS
<1>1. TypeOK
  BY DEF Init, InitWith, TypeOK, IsInterference
<1>2. Colored = {}
  BY DEF Init, InitWith, Colored
<1>3. Phases /\ Placement
  BY <1>2 DEF Init, InitWith, Phases, Placement, Popped, OnStack
<1>4. Frozen /\ LowDegree /\ InClass
  BY <1>2 DEF Init, InitWith, Frozen, LowDegree, InClass
<1>5. ProperColoring /\ NeverFails
  BY <1>2 DEF Init, InitWith, ProperColoring, NeverFails
<1>. QED  BY <1>1, <1>3, <1>4, <1>5 DEF IInv

\* What Remove leaves of the invariant's facts about connections.
LEMMA RemoveKeeps ==
  ASSUME RegistersAssumption, IInv, NEW v \in inGraph, Remove(v), adj' = adj
  PROVE  /\ inGraph' = inGraph \ {v}
         /\ conns' \in [VRegs -> SUBSET (VRegs \cup CanonicalPRegs)]
         /\ \A w \in VRegs : conns'[w] \subseteq conns[w]
         /\ \A w \in VRegs : \A x \in conns[w] : x # v => x \in conns'[w]
         /\ \A w \in VRegs \ inGraph : conns'[w] = conns[w]
         /\ conns'[v] = conns[v]
<1>1. v \notin conns[v]
  BY DEF IInv, Frozen, TypeOK, IsInterference
<1>2. conns \in [VRegs -> SUBSET (VRegs \cup CanonicalPRegs)] /\ inGraph \subseteq VRegs
  BY DEF IInv, TypeOK
<1>3. \A w \in VRegs : conns'[w] = IF w \in inGraph THEN conns[w] \ {v} ELSE conns[w]
  BY DEF Remove
<1>4. conns' \in [VRegs -> SUBSET (VRegs \cup CanonicalPRegs)]
  BY <1>2 DEF Remove
<1>5. conns'[v] = conns[v]
  <2>1. v \in VRegs /\ v \in inGraph
    BY <1>2
  <2>2. conns'[v] = conns[v] \ {v}
    BY <1>3, <2>1
  <2>3. conns[v] \ {v} = conns[v]
    BY <1>1, Zenon
  <2>. QED  BY <2>2, <2>3, Zenon
<1>. QED  BY <1>2, <1>3, <1>4, <1>5 DEF Remove

\* Pushing a node: its remaining connections are the nodes that outlive it.
LEMMA PushInvariant ==
  ASSUME RegistersAssumption, IInv, NEW v \in VRegs, Push(v)
  PROVE  IInv'
<1>. USE DEF Push
<1>1. v \in inGraph /\ Remove(v) /\ adj' = adj /\ spills' = spills /\ phys' = phys
  BY DEF Simplifiable
<1>2. /\ inGraph' = inGraph \ {v}
      /\ conns' \in [VRegs -> SUBSET (VRegs \cup CanonicalPRegs)]
      /\ \A w \in VRegs : conns'[w] \subseteq conns[w]
      /\ \A w \in VRegs : \A x \in conns[w] : x # v => x \in conns'[w]
      /\ \A w \in VRegs \ inGraph : conns'[w] = conns[w]
      /\ conns'[v] = conns[v]
  BY <1>1, RemoveKeeps
<1> DEFINE n == Len(stack)
<1>3. /\ stack \in Seq(VRegs) /\ n \in Nat /\ DOMAIN stack = 1..n
      /\ stack' \in Seq(VRegs) /\ DOMAIN stack' = 1..(n + 1)
      /\ stack'[n + 1] = v
      /\ \A i \in 1..n : stack'[i] = stack[i] /\ stack[i] \in VRegs
  BY DEF IInv, TypeOK
<1>4. OnStack' = OnStack \cup {v}
  <2>1. \A x : x \in OnStack' <=> \E i \in 1..(n + 1) : x = stack'[i]
    BY <1>3 DEF OnStack
  <2>2. \A x : x \in OnStack <=> \E i \in 1..n : x = stack[i]
    BY <1>3 DEF OnStack
  <2>3. \A i : i \in 1..(n + 1) <=> i \in 1..n \/ i = n + 1
    BY <1>3
  <2>. QED  BY <1>3, <2>1, <2>2, <2>3
<1>5. Colored = {} /\ Colored' = {}
  BY <1>1 DEF IInv, Phases, Colored
<1>6. TypeOK'
  BY <1>1, <1>2, <1>3 DEF IInv, TypeOK, IsInterference
<1>7. Phases'
  BY <1>1, <1>5 DEF IInv, Phases
<1>8. Placement'
  <2>1. Popped' = Popped
    BY <1>1, <1>2, <1>4 DEF Popped
  <2>2. \A i \in 1..n : stack[i] \notin inGraph \cup spills
    BY <1>3 DEF IInv, Placement
  <2>3. \A i, j \in 1..n : stack[i] = stack[j] => i = j
    BY <1>3 DEF IInv, Placement
  <2>4. \A i, j \in DOMAIN stack' : stack'[i] = stack'[j] => i = j
    BY <1>1, <1>3, <2>2, <2>3
  <2>5. \A i \in DOMAIN stack' : stack'[i] \notin inGraph' \cup spills'
    BY <1>1, <1>2, <1>3, <2>2 DEF IInv, Placement
  <2>. QED  BY <1>1, <1>2, <1>5, <2>1, <2>4, <2>5 DEF IInv, Placement
<1>9. Frozen'
  <2>1. \A w \in VRegs : conns'[w] \subseteq adj'[w] /\ adj'[w] \cap PRegs \subseteq conns'[w]
    BY <1>1, <1>2 DEF IInv, Frozen, RegistersAssumption
  <2>2. \A w, x \in inGraph' : x \in adj'[w] => x \in conns'[w]
    BY <1>1, <1>2 DEF IInv, Frozen, TypeOK
  <2>3. ASSUME NEW i \in DOMAIN stack', NEW w \in inGraph', w \in adj'[stack'[i]]
        PROVE  w \in conns'[stack'[i]]
    <3>1. CASE i = n + 1
      BY <1>1, <1>2, <1>3, <2>3, <3>1 DEF IInv, Frozen
    <3>2. CASE i \in 1..n
      <4>1. stack[i] \in VRegs \ inGraph
        BY <1>3, <3>2 DEF IInv, Placement
      <4>2. w \in conns[stack[i]]
        BY <1>1, <1>2, <1>3, <2>3, <3>2 DEF IInv, Frozen
      <4>. QED  BY <1>2, <1>3, <3>2, <4>1, <4>2
    <3>. QED  BY <1>3, <3>1, <3>2
  <2>4. ASSUME NEW i \in DOMAIN stack', NEW j \in DOMAIN stack',
               i < j, stack'[j] \in adj'[stack'[i]]
        PROVE  stack'[j] \in conns'[stack'[i]]
    <3>1. i \in 1..n
      BY <1>3, <2>4
    <3>2. stack[i] \in VRegs \ inGraph
      BY <1>3, <3>1 DEF IInv, Placement
    <3>3. CASE j = n + 1
      <4>1. v \in conns[stack[i]]
        BY <1>1, <1>3, <2>4, <3>1, <3>3 DEF IInv, Frozen
      <4>. QED  BY <1>2, <1>3, <3>1, <3>2, <3>3, <4>1
    <3>4. CASE j \in 1..n
      <4>1. stack[j] \in conns[stack[i]]
        BY <1>1, <1>3, <2>4, <3>1, <3>4 DEF IInv, Frozen
      <4>. QED  BY <1>2, <1>3, <3>1, <3>2, <3>4, <4>1
    <3>. QED  BY <1>3, <3>3, <3>4
  <2>. QED  BY <1>5, <2>1, <2>2, <2>3, <2>4 DEF Frozen
<1>10. LowDegree'
  <2>1. ASSUME NEW i \in DOMAIN stack'
        PROVE  Cardinality(conns'[stack'[i]]) < Len(Available[Class[stack'[i]]])
    <3>1. CASE i = n + 1
      BY <1>2, <1>3, <3>1 DEF Degree, Simplifiable
    <3>2. CASE i \in 1..n
      <4>1. stack[i] \in VRegs \ inGraph
        BY <1>3, <3>2 DEF IInv, Placement
      <4>. QED  BY <1>2, <1>3, <3>2, <4>1 DEF IInv, LowDegree, Degree
    <3>. QED  BY <1>3, <3>1, <3>2
  <2>. QED  BY <2>1 DEF LowDegree, Degree
<1>11. InClass' /\ ProperColoring' /\ NeverFails'
  BY <1>5 DEF IInv, InClass, ProperColoring, NeverFails
<1>. QED  BY <1>6, <1>7, <1>8, <1>9, <1>10, <1>11 DEF IInv
\* Spilling a node takes it out of everybody's way.
LEMMA SpillInvariant ==
  ASSUME RegistersAssumption, IInv, NEW v \in VRegs, SpillNode(v)
  PROVE  IInv'
<1>. USE DEF SpillNode
<1>1. v \in inGraph /\ Remove(v) /\ adj' = adj /\ phys' = phys /\ stack' = stack
  OBVIOUS
<1>2. /\ inGraph' = inGraph \ {v}
      /\ conns' \in [VRegs -> SUBSET (VRegs \cup CanonicalPRegs)]
      /\ \A w \in VRegs : conns'[w] \subseteq conns[w]
      /\ \A w \in VRegs : \A x \in conns[w] : x # v => x \in conns'[w]
      /\ \A w \in VRegs \ inGraph : conns'[w] = conns[w]
      /\ conns'[v] = conns[v]
  BY <1>1, RemoveKeeps
<1>3. \A i \in DOMAIN stack : stack[i] \in VRegs \ inGraph
  BY DEF IInv, TypeOK, Placement
<1>4. Colored = {} /\ Colored' = {}
  BY <1>1 DEF IInv, Phases, Colored
<1>5. TypeOK'
  BY <1>1, <1>2 DEF IInv, TypeOK, IsInterference
<1>6. Phases'
  BY <1>1, <1>4 DEF IInv, Phases
<1>7. Placement'
  <2>1. OnStack' = OnStack
    BY <1>1 DEF OnStack
  <2>2. Popped' = Popped
    BY <1>1, <1>2, <2>1 DEF Popped
  <2>3. \A i \in DOMAIN stack' : stack'[i] \notin inGraph' \cup spills'
    BY <1>1, <1>2, <1>3 DEF IInv, Placement
  <2>. QED  BY <1>1, <1>2, <1>4, <2>2, <2>3 DEF IInv, Placement
<1>8. Frozen'
  <2>1. \A w \in VRegs : conns'[w] \subseteq adj'[w] /\ adj'[w] \cap PRegs \subseteq conns'[w]
    BY <1>1, <1>2 DEF IInv, Frozen, RegistersAssumption
  <2>2. \A w, x \in inGraph' : x \in adj'[w] => x \in conns'[w]
    BY <1>1, <1>2 DEF IInv, Frozen, TypeOK
  <2>3. \A i \in DOMAIN stack' : \A w \in inGraph' \cup Colored' :
          w \in adj'[stack'[i]] => w \in conns'[stack'[i]]
    BY <1>1, <1>2, <1>3, <1>4 DEF IInv, Frozen
  <2>4. \A i, j \in DOMAIN stack' :
          i < j /\ stack'[j] \in adj'[stack'[i]] => stack'[j] \in conns'[stack'[i]]
    BY <1>1, <1>2, <1>3 DEF IInv, Frozen
  <2>. QED  BY <2>1, <2>2, <2>3, <2>4 DEF Frozen
<1>9. LowDegree'
  BY <1>1, <1>2, <1>3 DEF IInv, LowDegree, Degree
<1>10. InClass' /\ ProperColoring' /\ NeverFails'
  BY <1>4 DEF IInv, InClass, ProperColoring, NeverFails
<1>. QED  BY <1>5, <1>6, <1>7, <1>8, <1>9, <1>10 DEF IInv

\* Colouring the top of the stack: what may clash with the new colour has
\* either frozen the node among its connections or is one of the node's own.
LEMMA SelectInvariant ==
  ASSUME RegistersAssumption, IInv, Select
  PROVE  IInv'
<1> DEFINE n == Len(stack)
           v == stack[n]
<1>1. /\ stack \in Seq(VRegs) /\ n \in Nat \ {0} /\ DOMAIN stack = 1..n
      /\ stack' \in Seq(VRegs) /\ DOMAIN stack' = 1..(n - 1)
      /\ \A i \in 1..(n - 1) : stack'[i] = stack[i]
      /\ v \in VRegs /\ n \in 1..n /\ \A i \in 1..n : stack[i] \in VRegs
  BY DEF IInv, TypeOK, Select
<1>0. /\ n \in DOMAIN stack
      /\ \A i \in DOMAIN stack' : i \in DOMAIN stack /\ i < n /\ stack'[i] = stack[i]
      /\ \A i \in DOMAIN stack : i # n => i \in DOMAIN stack'
  BY <1>1
<1>2. /\ adj' = adj /\ pc' = pc /\ inGraph' = inGraph /\ conns' = conns
      /\ spills' = spills /\ vp' = vp /\ rank' = rank
      /\ pc = "select" /\ phys' = [phys EXCEPT ![v] = FirstFree(v)]
  BY DEF Select
<1> HIDE DEF n, v
<1>3. inGraph = {}
  BY <1>2 DEF IInv, Phases
<1>4. PICK k \in DOMAIN Available[Class[v]] :
        /\ FirstFree(v) = Available[Class[v]][k]
        /\ ~Blocked(v, Available[Class[v]][k])
  <2>1. Degree(v) < Len(Available[Class[v]])
    BY <1>1 DEF IInv, LowDegree, v
  <2>2. FreeSlots(v) # {}
    BY <1>1, <2>1, SelectFindsARegister DEF IInv
  <2>. QED  BY <1>1, <2>2, FirstFreeIsFree
<1> DEFINE q == Available[Class[v]][k]
<1>5. q \in PRegs /\ q # Unset
  BY <1>1, <1>4 DEF RegistersAssumption
<1>6. phys' \in [VRegs -> PRegs \cup {Unset}]
  BY <1>2, <1>4, <1>5 DEF IInv, TypeOK
<1>7. phys'[v] = q /\ \A w \in VRegs : w # v => phys'[w] = phys[w]
  BY <1>1, <1>2, <1>4 DEF IInv, TypeOK
<1>8. Colored' = Colored \cup {v} /\ v \notin Colored
  <2>1. v \in OnStack
    BY <1>1 DEF OnStack, v
  <2>. QED  BY <1>1, <1>5, <1>7, <2>1 DEF Colored, IInv, Placement, Popped
<1> HIDE DEF q
<1>9. TypeOK'
  BY <1>1, <1>2, <1>6 DEF IInv, TypeOK, IsInterference
<1>10. Phases'
  BY <1>2, <1>3 DEF IInv, Phases
<1>11. Placement'
  <2>1. \A i, j \in 1..n : stack[i] = stack[j] => i = j
    BY <1>1 DEF IInv, Placement
  <2>2. OnStack' = OnStack \ {v}
    <3>1. \A i \in DOMAIN stack : stack[i] = v <=> i = n
      BY <1>0, <1>1, <2>1 DEF v
    <3>2. ASSUME NEW x \in OnStack' PROVE x \in OnStack \ {v}
      <4>1. PICK i \in DOMAIN stack' : x = stack'[i]
        BY DEF OnStack
      <4>2. i \in DOMAIN stack /\ i # n /\ x = stack[i]
        BY <1>0, <1>1, <4>1
      <4>. QED  BY <3>1, <4>2 DEF OnStack
    <3>3. OnStack \ {v} \subseteq OnStack'
      BY <1>0, <3>1 DEF OnStack
    <3>. QED  BY <3>2, <3>3
  <2>3. v \in OnStack /\ v \notin inGraph \cup spills
    BY <1>1 DEF OnStack, IInv, Placement, v
  <2>4. Popped' = Popped \cup {v}
    BY <1>1, <1>2, <2>2, <2>3 DEF Popped
  <2>5. \A i, j \in DOMAIN stack' : stack'[i] = stack'[j] => i = j
    BY <1>1, <2>1
  <2>6. \A i \in DOMAIN stack' : stack'[i] \notin inGraph' \cup spills'
    BY <1>1, <1>2 DEF IInv, Placement
  <2>. QED  BY <1>2, <1>8, <2>4, <2>5, <2>6 DEF IInv, Placement
<1>12. Frozen'
  <2>1. \A i \in DOMAIN stack' : v \in adj[stack[i]] => v \in conns[stack[i]]
    BY <1>0 DEF IInv, Frozen, v
  <2>2. ASSUME NEW i \in DOMAIN stack', NEW w \in inGraph' \cup Colored',
               w \in adj'[stack'[i]]
        PROVE  w \in conns'[stack'[i]]
    <3>1. stack'[i] = stack[i] /\ i \in DOMAIN stack
      BY <1>0
    <3>2. CASE w = v
      BY <1>2, <2>1, <2>2, <3>1, <3>2
    <3>3. CASE w \in Colored
      BY <1>2, <2>2, <3>1, <3>3 DEF IInv, Frozen
    <3>. QED  BY <1>2, <1>3, <1>8, <3>2, <3>3
  <2>3. \A i, j \in DOMAIN stack' :
          i < j /\ stack'[j] \in adj'[stack'[i]] => stack'[j] \in conns'[stack'[i]]
    BY <1>0, <1>2 DEF IInv, Frozen
  <2>. QED  BY <1>2, <2>2, <2>3 DEF IInv, Frozen
<1>13. LowDegree'
  BY <1>0, <1>2 DEF IInv, LowDegree, Degree
<1>14. InClass'
  BY <1>1, <1>4, <1>7, <1>8 DEF IInv, InClass, q, Colored
<1>15. ProperColoring'
  <2>1. \A p \in adj[v] \cap PRegs : ~IsSameRegister(q, p)
    <3>1. adj[v] \cap PRegs \subseteq conns[v]
      BY <1>1 DEF IInv, Frozen
    <3>. QED  BY <1>4, <3>1 DEF Blocked, IsSameRegister, q
  <2>2. \A w \in Colored : w \in adj[v] => ~IsSameRegister(q, phys[w])
    <3>1. \A w \in Colored : w \in adj[v] => w \in conns[v]
      BY <1>1 DEF IInv, Frozen, v
    <3>. QED  BY <1>4, <3>1 DEF Blocked, IsSameRegister, q
  <2>3. v \notin adj[v] /\ \A w \in VRegs : v \in adj[w] => w \in adj[v]
    BY <1>1 DEF IInv, TypeOK, IsInterference
  <2>4. Colored \subseteq VRegs
    BY DEF Colored
  <2>5. ASSUME NEW w \in Colored', NEW p \in adj'[w] \cap PRegs
        PROVE  ~IsSameRegister(phys'[w], p)
    BY <1>2, <1>7, <1>8, <2>1, <2>4, <2>5 DEF IInv, ProperColoring
  <2>6. ASSUME NEW w \in Colored', NEW x \in Colored', x \in adj'[w]
        PROVE  ~IsSameRegister(phys'[w], phys'[x])
    <3>1. CASE w = v
      BY <1>2, <1>7, <1>8, <2>2, <2>3, <2>4, <2>6, <3>1
    <3>2. CASE x = v
      BY <1>2, <1>7, <1>8, <2>2, <2>3, <2>4, <2>6, <3>2 DEF IsSameRegister
    <3>3. CASE w # v /\ x # v
      BY <1>2, <1>7, <1>8, <2>4, <2>6, <3>3 DEF IInv, ProperColoring
    <3>. QED  BY <3>1, <3>2, <3>3
  <2>. QED  BY <2>5, <2>6 DEF ProperColoring, IsSameRegister
<1>16. NeverFails'
  BY <1>2 DEF IInv, NeverFails
<1>. QED  BY <1>9, <1>10, <1>11, <1>12, <1>13, <1>14, <1>15, <1>16 DEF IInv

\* The actions that leave the nodes where they are.
LEMMA PhaseInvariant ==
  ASSUME RegistersAssumption, IInv, Sort \/ Simplified \/ Selected \/ Commit \/ UNCHANGED vars
  PROVE  IInv'
<1>1. /\ adj' = adj /\ inGraph' = inGraph /\ conns' = conns /\ stack' = stack
      /\ spills' = spills /\ phys' = phys
  BY DEF Sort, Simplified, Selected, Commit, vars
<1>2. OnStack' = OnStack /\ Popped' = Popped /\ Colored' = Colored
  BY <1>1 DEF OnStack, Popped, Colored
<1>3. Placement' /\ Frozen' /\ LowDegree' /\ InClass' /\ ProperColoring'
  BY <1>1, <1>2 DEF IInv, Placement, Frozen, LowDegree, Degree, InClass,
                    ProperColoring, IsSameRegister
<1>4. CASE Sort
  <2>1. rank' \in [VRegs -> Nat]
    <3>1. Cardinality(VRegs) \in Nat
      BY FS_CardinalityType DEF RegistersAssumption
    <3>. QED  BY <1>4, <3>1 DEF Sort
  <2>2. TypeOK'
    BY <1>1, <1>4, <2>1 DEF IInv, TypeOK, IsInterference, Sort
  <2>. QED  BY <1>1, <1>2, <1>3, <1>4, <2>2 DEF IInv, Phases, NeverFails, Sort
<1>5. CASE Simplified
  <2>1. TypeOK'
    BY <1>1, <1>5 DEF IInv, TypeOK, IsInterference, Simplified
  <2>. QED  BY <1>1, <1>2, <1>3, <1>5, <2>1 DEF IInv, Phases, NeverFails, Simplified
<1>6. CASE Selected
  <2>1. TypeOK'
    BY <1>1, <1>6 DEF IInv, TypeOK, IsInterference, Selected
  <2>. QED  BY <1>1, <1>2, <1>3, <1>6, <2>1 DEF IInv, Phases, NeverFails, Selected
<1>7. CASE Commit
  <2>1. inGraph = {} /\ OnStack = {} /\ Colored = VRegs \ spills
    BY <1>7 DEF Commit, IInv, Phases, Placement, Popped, OnStack
  <2>2. /\ pc' = "done" /\ rank' = rank
        /\ vp' = [v \in VRegs \ spills |-> phys[v]]
    BY <1>7, <2>1 DEF Commit, Colored
  <2>3. vp' \in [VRegs \ spills -> PRegs]
    BY <2>1, <2>2 DEF IInv, TypeOK, Colored
  <2>4. TypeOK'
    BY <1>1, <2>2, <2>3 DEF IInv, TypeOK, IsInterference
  <2>. QED  BY <1>1, <1>2, <1>3, <1>7, <2>1, <2>2, <2>4 DEF IInv, Phases, NeverFails, Commit
<1>8. CASE UNCHANGED vars
  <2>1. TypeOK'
    BY <1>1, <1>8 DEF IInv, TypeOK, IsInterference, vars
  <2>. QED  BY <1>1, <1>2, <1>3, <1>8, <2>1 DEF IInv, Phases, NeverFails, vars
<1>. QED  BY <1>4, <1>5, <1>6, <1>7, <1>8

-----------------------------------------------------------------------------
\* The invariant holds in every reachable state.
THEOREM Invariance == Spec => []IInv
<1>1. Init => IInv
  BY InitInvariant, RegistersAssumption
<1>2. IInv /\ [Next]_vars => IInv'
  <2>. SUFFICES ASSUME IInv, [Next]_vars PROVE IInv'
    OBVIOUS
  <2>. USE RegistersAssumption
  <2>1. CASE Sort \/ Simplified \/ Selected \/ Commit \/ UNCHANGED vars
    BY <2>1, PhaseInvariant
  <2>2. ASSUME NEW v \in VRegs, Push(v) PROVE IInv'
    BY <2>2, PushInvariant
  <2>3. ASSUME NEW v \in VRegs, SpillNode(v) PROVE IInv'
    BY <2>3, SpillInvariant
  <2>4. CASE Select
    BY <2>4, SelectInvariant
  <2>. QED  BY <2>1, <2>2, <2>3, <2>4 DEF Next
<1>. QED  BY <1>1, <1>2, PTL DEF Spec

\* Type correctness of the allocator's state, on any graph.
THEOREM TypeCorrect == Spec => []TypeOK
<1>1. IInv => TypeOK
  BY DEF IInv
<1>. QED  BY <1>1, Invariance, PTL

\* No two registers that are live together are ever given aliasing physical
\* registers, whatever the graph, the classes and the pinned registers.
THEOREM Coloring == Spec => []ProperColoring
<1>1. IInv => ProperColoring
  BY DEF IInv
<1>. QED  BY <1>1, Invariance, PTL

\* "Failed to allocate register" is never thrown.
THEOREM NoFailure == Spec => []NeverFails
<1>1. IInv => NeverFails
  BY DEF IInv
<1>. QED  BY <1>1, Invariance, PTL

\* The initial states of analyze are initial states of a round.
LEMMA RoundInit == ASSUME Init PROVE Round!Init
<1>1. adj \in [VRegs -> SUBSET (VRegs \cup PRegs)]
  BY DEF Init, InitWith, IsInterference, CanonicalPRegs
<1>. QED  BY <1>1 DEF Init, InitWith, Round!Init

\* The step that commits hands out a proper assignment, all others stutter.
LEMMA RoundStep ==
  ASSUME RegistersAssumption, IInv, IInv', [Next]_vars
  PROVE  [Round!Next]_Round!vars
<1>1. CASE Commit
  <2>1. pc = "commit" /\ pc' = "done" /\ adj' = adj /\ spills' = spills /\ phys' = phys
    BY <1>1 DEF Commit, IInv, NeverFails
  <2>2. vp' = [v \in VRegs \ spills |-> phys[v]]
    BY <1>1, <2>1 DEF Commit
  <2>3. Colored = VRegs \ spills
    BY <2>1 DEF IInv, Phases, Placement, Popped, OnStack
  <2>4. vp' \in [VRegs \ spills -> PRegs]
    BY <2>2, <2>3 DEF Colored, IInv, TypeOK
  <2>5. \A v \in VRegs \ spills :
          vp'[v] \in {Available[Class[v]][i] : i \in DOMAIN Available[Class[v]]}
    BY <2>2, <2>3 DEF IInv, InClass
  <2>6. \A v \in VRegs \ spills : Class[v] \in Classes
    BY DEF RegistersAssumption
  <2>7. Round!Proper(adj, vp')
    BY <2>2, <2>3, <2>5, <2>6 DEF Round!Proper, Round!Alias, IInv, ProperColoring, IsSameRegister
  <2>. QED
    BY <2>1, <2>4, <2>7 DEF Round!Next, Round!Assign, IInv, TypeOK
<1>2. CASE ~Commit
  <2>1. pc' = pc \/ (pc = "sort" /\ pc' = "simplify")
        \/ (pc = "simplify" /\ pc' = "select") \/ (pc = "select" /\ pc' = "commit")
    BY <1>2 DEF Next, vars, Sort, Push, SpillNode, Simplified, Select, Selected
  <2>2. vp' = vp /\ adj' = adj /\ (pc' = "done" => spills' = spills)
    BY <1>2 DEF Next, vars, Sort, Push, SpillNode, Simplified, Select, Selected
  <2>. QED  BY <2>1, <2>2 DEF Round!vars, IInv, NeverFails
<1>. QED  BY <1>1, <1>2

\* GraphColorRegalloc::analyze implements the contract of a round.
THEOREM Implements == Spec => ImplementsRound
<1>1. Init => Round!Init
  BY RoundInit
<1>2. IInv /\ IInv' /\ [Next]_vars => [Round!Next]_Round!vars
  BY RoundStep, RegistersAssumption
<1>3. Spec => Round!Init /\ [][Round!Next]_Round!vars
  BY <1>1, <1>2, Invariance, PTL DEF Spec
<1>. QED  BY <1>3 DEF ImplementsRound, Round!Spec
=============================================================================
