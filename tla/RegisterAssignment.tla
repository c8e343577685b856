------------------------- MODULE RegisterAssignment -------------------------
(***************************************************************************)
(* What one round of register allocation promises, and nothing about how:  *)
(* RegallocBase::run (src/src/codegen/regalloc_base.cpp) calls analyze()   *)
(* once per round and then relies on its outcome alone, namely that every  *)
(* virtual register either has an entry in m_virtualToPhysical or is in    *)
(* m_spills, and that the entries can be written into the operands without *)
(* two values that are live together landing in one physical register.     *)
(***************************************************************************)
EXTENDS FiniteSets

CONSTANTS
  VRegs,        \* the virtual registers of the function
  PRegs,        \* the physical registers of the target, sub-registers included
  Class,        \* [VRegs -> register classes]
  Allocatable,  \* [register classes -> SUBSET PRegs]
  Canonical     \* [PRegs -> PRegs], the widest register of each alias group

VARIABLES
  adj,      \* [VRegs -> SUBSET (VRegs \cup PRegs)], who is live with whom
  status,   \* "pending", then "done"
  vp,       \* m_virtualToPhysical: a function on the registers that got one
  spills    \* m_spills

vars == <<adj, status, vp, spills>>

\* Two physical registers that share bits.
Alias(p, q) == Canonical[p] = Canonical[q]

\* An assignment that respects the interference graph g.
Proper(g, f) ==
  /\ \A v \in DOMAIN f : f[v] \in Allocatable[Class[v]]
  /\ \A v \in DOMAIN f : \A p \in g[v] \cap PRegs : ~Alias(f[v], p)
  /\ \A v, w \in DOMAIN f : w \in g[v] => ~Alias(f[v], f[w])

Init ==
  /\ adj \in [VRegs -> SUBSET (VRegs \cup PRegs)]
  /\ status = "pending"
  /\ vp = [v \in {} |-> v]
  /\ spills = {}

Assign ==
  /\ status = "pending"
  /\ status' = "done"
  /\ spills' \subseteq VRegs
  /\ vp' \in [VRegs \ spills' -> PRegs]
  /\ Proper(adj, vp')
  /\ adj' = adj

Next == Assign

Spec == Init /\ [][Next]_vars
=============================================================================
