---------------------------- MODULE MCDominators ----------------------------
(* Graphs for Dominators. *)
EXTENDS Dominators

\* Every graph of four blocks of which each has at most two successors.
Small == [1..4 -> {s \in SUBSET (2..4) : Cardinality(s) <= 2}]

\* Graphs of more blocks: the example of Lengauer and Tarjan's paper without
\* its third successors, an irreducible loop, loops within loops, and a loop
\* of two latches on its own.
Large == {
  << {2, 3}, {4}, {5, 6}, {7}, {7, 8}, {8}, {9, 3}, {6, 9}, {2} >>,
  << {2, 3}, {4, 5}, {5, 6}, {6}, {4, 7}, {7}, {2, 8}, {} >>,
  << {2}, {3, 6}, {4}, {4, 5}, {3, 2}, {7}, {} >>,
  << {2}, {3, 4}, {2}, {2, 5}, {} >> }

MCGraphs == Small \cup Large

\* for(;;) { while(x) { if(y) continue; if(z) break; } if(w) return; }
TwoLatches == { << {2}, {3, 5}, {3, 4}, {3, 5}, {2, 6}, {} >> }

\* Three loops in one another.
ThreeDeep == { << {2}, {3, 4}, {2, 8}, {5, 6}, {3, 4}, {5, 7}, {5, 6}, {} >> }
=============================================================================
