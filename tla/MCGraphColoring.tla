--------------------------- MODULE MCGraphColoring ---------------------------
(***************************************************************************)
(* A target of two alias groups, A and B, each with a wide and a narrow    *)
(* register, and a reserved register R that is never handed out but does   *)
(* count as a connection.  The wide class hands out both groups, the       *)
(* narrow one in the opposite order; the single class only group A, so a   *)
(* node may have to dodge the colour of a node of another class.           *)
(***************************************************************************)
EXTENDS GraphColoring

CONSTANTS n1, n2, n3, n4, A64, A32, B64, B32, R64

MCVRegs == {n1, n2, n3, n4}
MCPRegs == {A64, A32, B64, B32, R64}
MCClasses == {"wide", "narrow", "single"}
MCClass == [v \in MCVRegs |->
              CASE v \in {n1, n2} -> "wide" [] v = n3 -> "narrow" [] OTHER -> "single"]
MCAvailable == [c \in MCClasses |->
                  CASE c = "wide"   -> <<A64, B64>>
                    [] c = "narrow" -> <<B32, A32>>
                    [] OTHER        -> <<A32>>]
MCCanonical == [p \in MCPRegs |->
                  CASE p \in {A64, A32} -> A64 [] p \in {B64, B32} -> B64 [] OTHER -> R64]

\* All graphs on the four nodes, with any of A and R pinned beside each node.
MCGraphs ==
  {[v \in MCVRegs |-> {w \in MCVRegs : {v, w} \in edges} \cup pinned[v]] :
     edges \in SUBSET {e \in SUBSET MCVRegs : Cardinality(e) = 2},
     pinned \in [MCVRegs -> {{}, {A64}, {R64}}]}

MCInit == InitWith(MCGraphs)
MCSpec == MCInit /\ [][Next]_vars /\ WF_vars(Next)
=============================================================================
