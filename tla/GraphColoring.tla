---------------------------- MODULE GraphColoring ----------------------------
(***************************************************************************)
(* GraphColorRegalloc::analyze of src/src/codegen/graph_color_regalloc.cpp *)
(* from the finished interference graph to the virtual-to-physical map:    *)
(* sort the nodes by degree, simplify (push a node of low degree on the    *)
(* work stack, or give up on the most connected one and spill it), select  *)
(* (pop, take the first register no neighbour blocks), and commit.         *)
(*                                                                         *)
(* A node's m_canonicalConnections holds virtual registers and canonical   *)
(* physical registers together; both count towards its degree.  ColorGraph *)
(* keeps its nodes in a vector: here a set, inGraph, and the place rank[v] *)
(* that std::sort gave to v, which never changes afterwards.               *)
(***************************************************************************)
EXTENDS Naturals, FiniteSets, Sequences

CONSTANTS
  VRegs,      \* virtual register ids with a live range
  PRegs,      \* physical registers, sub-registers included
  Classes,    \* register classes
  Class,      \* VRegInfo::m_class of each virtual register
  Available,  \* getAvailableRegisters: a sequence of registers per class
  Canonical,  \* getCanonicalRegister on physical registers
  Unset       \* GraphNode::m_physicalRegister before select (SPILL - 1)

\* The code relies on these facts of the target's tables: two registers of one
\* allocation order never alias (x64_register_info.cpp:224-249), and a virtual
\* id is never a physical one (VREG_START).
ASSUME RegistersAssumption ==
  /\ IsFiniteSet(VRegs) /\ IsFiniteSet(PRegs)
  /\ VRegs \cap PRegs = {}
  /\ Unset \notin PRegs
  /\ Class \in [VRegs -> Classes]
  /\ Canonical \in [PRegs -> PRegs]
  /\ Available \in [Classes -> Seq(PRegs)]
  /\ \A c \in Classes : \A i, j \in DOMAIN Available[c] :
        Canonical[Available[c][i]] = Canonical[Available[c][j]] => i = j

VARIABLES
  adj,      \* the interference graph as built; a history variable
  pc,       \* "sort", "simplify", "select", "commit", "done" or "failed"
  rank,     \* place of each node in m_nodes after ColorGraph::sort
  inGraph,  \* nodes still in ColorGraph::m_nodes during simplify
  conns,    \* m_canonicalConnections of each node
  stack,    \* workStack
  spills,   \* RegisterInfo::m_spills
  phys,     \* m_physicalRegister of each node, Unset until coloured
  vp        \* RegisterInfo::m_virtualToPhysical

vars == <<adj, pc, rank, inGraph, conns, stack, spills, phys, vp>>

\* RegisterInfo::isSameRegister on physical registers.
IsSameRegister(p, q) == Canonical[p] = Canonical[q]

CanonicalPRegs == {p \in PRegs : Canonical[p] = p}

\* getOverlaps compares ranges both ways, so the relation between virtual
\* registers is symmetric and a register never overlaps itself.
IsInterference(g) ==
  /\ g \in [VRegs -> SUBSET (VRegs \cup CanonicalPRegs)]
  /\ \A v \in VRegs : v \notin g[v]
  /\ \A v, w \in VRegs : w \in g[v] => v \in g[w]

Colored == {v \in VRegs : phys[v] # Unset}

Degree(v) == Cardinality(conns[v])

-----------------------------------------------------------------------------
InitWith(graphs) ==
  /\ adj \in graphs
  /\ IsInterference(adj)
  /\ pc = "sort"
  /\ rank = [v \in VRegs |-> 0]
  /\ inGraph = VRegs
  /\ conns = adj
  /\ stack = <<>>
  /\ spills = {}
  /\ phys = [v \in VRegs |-> Unset]
  /\ vp = [v \in {} |-> v]

Init == InitWith([VRegs -> SUBSET (VRegs \cup CanonicalPRegs)])

\* ColorGraph::sort: decreasing degree.  std::sort is not stable, so nodes of
\* one degree end up in any order.
Sort ==
  /\ pc = "sort"
  /\ \E r \in [VRegs -> 1..Cardinality(VRegs)] :
       /\ \A v, w \in VRegs : r[v] = r[w] => v = w
       /\ \A v, w \in VRegs : Degree(v) > Degree(w) => r[v] < r[w]
       /\ rank' = r
  /\ pc' = "simplify"
  /\ UNCHANGED <<adj, inGraph, conns, stack, spills, phys, vp>>

\* Mutant: removal reaches the nodes on the work stack too.
RemoveEverywhere(v) ==
  /\ conns' = [w \in VRegs |-> conns[w] \ {v}]
  /\ inGraph' = inGraph \ {v}

\* ColorGraph::remove: only the nodes still in the graph forget v; the
\* connections of a node already on the work stack are frozen.
Remove(v) ==
  /\ conns' = [w \in VRegs |->
                 IF w \in inGraph THEN conns[w] \ {v} ELSE conns[w]]
  /\ inGraph' = inGraph \ {v}

\* Mutant: off by one.
SimplifiableLoose(v) ==
  /\ v \in inGraph
  /\ Degree(v) <= Len(Available[Class[v]])

Simplifiable(v) ==
  /\ v \in inGraph
  /\ Degree(v) < Len(Available[Class[v]])

\* The first node in vector order whose degree is below the number of
\* registers of its class.
Push(v) ==
  /\ pc = "simplify"
  /\ Simplifiable(v)
  /\ \A w \in inGraph : Simplifiable(w) => rank[v] <= rank[w]
  /\ stack' = Append(stack, v)
  /\ Remove(v)
  /\ UNCHANGED <<adj, pc, rank, spills, phys, vp>>

\* Mutant: the spilled node stays in the graph.
SpillAndKeep(v) ==
  /\ pc = "simplify"
  /\ v \in inGraph
  /\ \A w \in inGraph : ~Simplifiable(w) /\ Degree(w) <= Degree(v)
  /\ spills' = spills \cup {v}
  /\ UNCHANGED <<adj, pc, rank, inGraph, conns, stack, phys, vp>>

\* No node is simplifiable: mostRelevantNode, the first of maximal degree.
SpillNode(v) ==
  /\ pc = "simplify"
  /\ v \in inGraph
  /\ \A w \in inGraph : ~Simplifiable(w)
  /\ \A w \in inGraph : \/ Degree(w) < Degree(v)
                        \/ Degree(w) = Degree(v) /\ rank[v] <= rank[w]
  /\ spills' = spills \cup {v}
  /\ Remove(v)
  /\ UNCHANGED <<adj, pc, rank, stack, phys, vp>>

Simplified ==
  /\ pc = "simplify"
  /\ inGraph = {}
  /\ pc' = "select"
  /\ UNCHANGED <<adj, rank, inGraph, conns, stack, spills, phys, vp>>

\* Mutant: the pinned registers are forgotten.
BlockedByColours(v, p) ==
  \E c \in conns[v] \cap Colored : IsSameRegister(phys[c], p)

\* Register p is taken by a physical connection of v or by the colour of a
\* connection that already has one.
Blocked(v, p) ==
  \E c \in conns[v] :
    \/ c \in PRegs /\ IsSameRegister(c, p)
    \/ c \in Colored /\ IsSameRegister(phys[c], p)

FreeSlots(v) ==
  {i \in DOMAIN Available[Class[v]] : ~Blocked(v, Available[Class[v]][i])}

\* The first free register of v's class in allocation order, Unset if none is.
FirstFree(v) ==
  IF FreeSlots(v) = {} THEN Unset
  ELSE Available[Class[v]][CHOOSE i \in FreeSlots(v) :
                             \A j \in FreeSlots(v) : i <= j]

\* Pop a node and colour it.
Select ==
  /\ pc = "select"
  /\ stack # <<>>
  /\ LET v == stack[Len(stack)]
     IN  phys' = [phys EXCEPT ![v] = FirstFree(v)]
  /\ stack' = SubSeq(stack, 1, Len(stack) - 1)
  /\ UNCHANGED <<adj, pc, rank, inGraph, conns, spills, vp>>

Selected ==
  /\ pc = "select"
  /\ stack = <<>>
  /\ pc' = "commit"
  /\ UNCHANGED <<adj, rank, inGraph, conns, stack, spills, phys, vp>>

\* Mutant: the loop runs over all nodes and checks none.
CommitAll ==
  /\ pc = "commit"
  /\ vp' = phys
  /\ pc' = "done"
  /\ UNCHANGED <<adj, rank, inGraph, conns, stack, spills, phys>>

\* The closing loop over the popped nodes: setVPMapping for each, or the
\* exception "Failed to allocate register" at the first one without a colour.
Commit ==
  /\ pc = "commit"
  /\ IF \A v \in VRegs \ spills : phys[v] # Unset
     THEN /\ vp' = [v \in VRegs \ spills |-> phys[v]]
          /\ pc' = "done"
     ELSE /\ pc' = "failed"
          /\ vp' = vp
  /\ UNCHANGED <<adj, rank, inGraph, conns, stack, spills, phys>>

Next ==
  \/ Sort
  \/ \E v \in VRegs : Push(v) \/ SpillNode(v)
  \/ Simplified
  \/ Select
  \/ Selected
  \/ Commit

Spec == Init /\ [][Next]_vars

\* analyze is one straight call: it keeps running until it returns or throws.
FairSpec == Spec /\ WF_vars(Next)
-----------------------------------------------------------------------------
\* Every variable keeps its type; only registers of the target, never the Unset
\* of a spilled node, are committed to m_virtualToPhysical.
TypeOK ==
  /\ IsInterference(adj)
  /\ pc \in {"sort", "simplify", "select", "commit", "done", "failed"}
  /\ rank \in [VRegs -> Nat]
  /\ inGraph \subseteq VRegs
  /\ conns \in [VRegs -> SUBSET (VRegs \cup CanonicalPRegs)]
  /\ stack \in Seq(VRegs)
  /\ spills \subseteq VRegs
  /\ phys \in [VRegs -> PRegs \cup {Unset}]
  /\ vp \in [DOMAIN vp -> PRegs] /\ DOMAIN vp \subseteq VRegs

\* Registers that are live together never share bits of a physical register:
\* neither two coloured nodes, whatever the widths of their classes, nor a
\* coloured node and a physical register the code pinned (a call's argument or
\* clobber).  Select only looks at the connections that Remove left in each
\* node, so this is about the order in which nodes left the graph.
ProperColoring ==
  /\ \A v \in Colored : \A p \in adj[v] \cap PRegs : ~IsSameRegister(phys[v], p)
  /\ \A v, w \in Colored : w \in adj[v] => ~IsSameRegister(phys[v], phys[w])

\* The exception "Failed to allocate register" of analyze is unreachable: a
\* node pushed with degree below the size of its class still finds a register
\* when it is popped, although the colours around it come from other classes.
NeverFails == pc # "failed"

\* The outcome of a round, as the contract of one round states it.
Round == INSTANCE RegisterAssignment WITH
  Allocatable <- [c \in Classes |-> {Available[c][i] : i \in DOMAIN Available[c]}],
  status <- IF pc \in {"done", "failed"} THEN pc ELSE "pending",
  spills <- IF pc \in {"done", "failed"} THEN spills ELSE {}

\* analyze implements that contract: all the intermediate steps stutter, and
\* the step that commits hands out a proper assignment of all other registers.
ImplementsRound == Round!Spec

\* The call ends with every register placed or spilled: each turn of the
\* simplify loop takes a node out of the graph, spill or not.
Terminates == <>(pc = "done" /\ DOMAIN vp \cup spills = VRegs)
=============================================================================
