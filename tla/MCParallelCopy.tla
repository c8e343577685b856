--------------------------- MODULE MCParallelCopy ---------------------------
(***************************************************************************)
(* Edges of up to three copies among four registers and an immediate, in   *)
(* every order: swaps, chains, circles, several readers of one register.   *)
(***************************************************************************)
EXTENDS ParallelCopy

CONSTANTS a, b, c, d, imm

MCRegs == {a, b, c, d}
MCImms == {imm}

Lists(n) ==
  {l \in [1..n -> [dst : MCRegs, src : MCRegs \cup MCImms]] :
     \A i, j \in 1..n : l[i].dst = l[j].dst => i = j}

AllLists == UNION {Lists(n) : n \in 1..3}
=============================================================================
