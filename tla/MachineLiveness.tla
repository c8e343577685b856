-------------------------- MODULE MachineLiveness --------------------------
(* Liveness of the registers of a machine function, by paths: the definition *)
(* the ranges of the allocator are measured against.                         *)
(*                                                                           *)
(* A function f has blocks 1, 2, ...; f.code[b] is the sequence of the       *)
(* instructions of block b and f.succs[b] the set of its successors. An      *)
(* instruction tells which registers it uses and how it writes others (defs, *)
(* and for a call rets and clobbers), whether it is a jump, the blocks among *)
(* its operands (targets) and whether control may fall to the next one. A    *)
(* point is a block with a position in it.                                   *)
EXTENDS Integers, Sequences, FiniteSets

Points(f) == UNION {{b} \X DOMAIN f.code[b] : b \in DOMAIN f.code}
Instruction(f, p) == f.code[p[1]][p[2]]

\* A jump without a block operand may lead to any successor.
Follows(f, p, q) ==
  LET i == Instruction(f, p) IN
  \/ i.falls /\ q = <<p[1], p[2] + 1>>
  \/ /\ i.jump
     /\ q[2] = 1
     /\ q[1] \in IF i.targets = {} THEN f.succs[p[1]] ELSE i.targets

Facts(f, regs) == {<<p, r>> : p \in Points(f), r \in regs}

\* The points that use a register.
Used(f, regs) == {x \in Facts(f, regs) : x[2] \in Instruction(f, x[1]).uses}

\* One step back along the paths; kills[p] are the registers that p overwrites.
OneStepBack(f, regs, kills, known) ==
  known \cup {x \in Facts(f, regs) :
    /\ x[2] \notin kills[x[1]]
    /\ \E y \in known : y[2] = x[2] /\ Follows(f, x[1], y[1])}

\* The points paired with what is live there: a register that some path from
\* the point uses before any instruction of the path kills it.
LiveBefore(f, regs, kills) ==
  LET within[n \in 0..Cardinality(Points(f))] ==
        IF n = 0 THEN Used(f, regs)
        ELSE LET known == within[n - 1] IN OneStepBack(f, regs, kills, known)
  IN  within[Cardinality(Points(f))]

LiveAfter(f, live, p) == {y[2] : y \in {z \in live : Follows(f, p, z[1])}}
=============================================================================
