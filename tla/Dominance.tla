------------------------------ MODULE Dominance ------------------------------
(***************************************************************************)
(* Reachability and dominance in a graph, defined by its paths: what the   *)
(* algorithms of the code are measured against, and what a model uses when *)
(* the algorithm itself is checked elsewhere.                              *)
(***************************************************************************)
EXTENDS Integers, FiniteSets

\* The set, and what one edge leads to from it without entering avoid.
OneStep(edges, avoid, set) ==
  set \cup {e[2] : e \in {e \in edges : e[1] \in set /\ e[2] \notin avoid}}

\* What can be reached from the set along edges without entering avoid.  Until
\* nothing is new, each step finds the end of another edge.
Closure(edges, set, avoid) ==
  LET within[n \in 0..Cardinality(edges)] ==
        IF n = 0 THEN set ELSE OneStep(edges, avoid, within[n - 1])
  IN  within[Cardinality(edges)]

\* Blocks reached from the entry, but on no path around d.
DominatedBy(edges, entry, d) ==
  Closure(edges, {entry}, {}) \ (IF d = entry THEN {} ELSE Closure(edges, {entry}, {d}))

\* d is the last strict dominator on every path to b.
IsParent(edges, entry, d, b) ==
  LET strict == {a \in Closure(edges, {entry}, {}) \ {b} : b \in DominatedBy(edges, entry, a)}
  IN  d \in strict /\ \A a \in strict : d \in DominatedBy(edges, entry, a)

\* The blocks where the dominance of a ends.
FrontierOf(edges, entry, a) ==
  LET under == DominatedBy(edges, entry, a)
  IN  {e[2] : e \in {e \in edges : e[1] \in under /\ (e[2] \notin under \/ e[2] = a)}}
=============================================================================
