------------------------------ MODULE CFGPasses ------------------------------
(***************************************************************************)
(* The passes that rewrite the control flow of one function, in the order  *)
(* the target machine runs them (x64_target_machine.cpp:86-104) and under  *)
(* the repetition of PassManager::run: at O1                               *)
(*   CFGSemplification; ConstantFolder; FixPhis                            *)
(* until none of the three reports a change, and then, at every level,     *)
(* SplitCriticalEdge.  The passes of the O1 group that leave a function    *)
(* without calls to inline, stack slots and dead values as it is are not   *)
(* steps here.                                                             *)
(*                                                                         *)
(* An action is one turn of a pass's own loop, and no pass is left in      *)
(* the middle of a primitive, so every state is one the next turn sees.    *)
(***************************************************************************)
EXTENDS IRSemantics, Dominance

CONSTANTS
  Programs,   \* what is compiled: records of a function ir and a level 0 or 1
  Inputs,     \* values for their arguments
  Fuel        \* blocks visited when a function is run, a bound of the model

\* The first block a front end inserts is the entry; none of the repository's
\* front ends jumps back to it, and the passes make no edge to it.
ASSUME EntryAssumption == \A p \in Programs : BagToSet(p.ir.pred[Entry(p.ir)]) = {}

VARIABLES
  ir,       \* the function
  pc,       \* the pass, or the part of it, that runs
  cur,      \* block index of ConstantFolder and SplitCriticalEdge
  preds,    \* SplitCriticalEdge: predecessors still in the copied map
  changed,  \* anyChange of the group
  weight,   \* Weight of the function when the group last started; history
  meaning   \* what the function computes on each input; history

vars == <<ir, pc, cur, preds, changed, weight, meaning>>

\* Blocks count before operands: forwarding a phi over an empty block may add
\* operands, but takes the block out.
MostOperands == 1000
Weight(f) ==
  MostOperands * Len(f.blocks) + FoldSet(LAMBDA i, n : n + Len(f.args[i]), 0, DOMAIN f.args)

Init ==
  /\ \E p \in Programs : ir = p.ir /\ pc = IF p.level = 1 THEN "merge" ELSE "split"
  /\ cur = 1
  /\ preds = {}
  /\ changed = FALSE
  /\ weight = Weight(ir)
  /\ meaning = [input \in Inputs |-> Run(ir, input, Fuel)]

Running(pass) == pc = pass /\ ir.fault = ""

-----------------------------------------------------------------------------
(* CFGSemplification. *)

Graph(f) == {e \in LiveBlocks(f) \X LiveBlocks(f) : BagIn(e[2], f.succ[e[1]])}

\* The loops LoopAnalysis knows: a block that jumps to itself, and the natural
\* loop of an edge to the block's immediate dominator.  An edge to a dominator
\* further up makes none.  Every change of an edge has the analysis done again.
LoopBlocks(f) ==
  LET edges == Graph(f)
      backwards == {<<e[2], e[1]>> : e \in edges}
      backEdges == {e \in edges : e[1] # e[2] /\ IsParent(edges, Entry(f), e[2], e[1])}
  IN  {e[1] : e \in {e \in edges : e[1] = e[2]}}
        \cup UNION {{e[2]} \cup Closure(backwards, {e[1]}, {e[2]}) : e \in backEdges}

\* Heuristics::isLoop.
IsLoop(f, b) == b \in LoopBlocks(f)

\* A block that ends in an unconditional jump to a block without other
\* predecessors that is in no loop, neither as its header nor inside.
Mergeable(b) ==
  LET t == Term(ir, b)
      to == ir.args[t][1]
  IN  /\ ir.op[t] = "jump" /\ Len(ir.args[t]) = 1
      /\ Cardinality(BagToSet(ir.pred[to])) <= 1
      /\ ~IsLoop(ir, to)

\* mergeBlocks: the first mergeable block swallows its successor.
Merge ==
  /\ Running("merge")
  /\ \E n \in DOMAIN ir.blocks :
       LET b  == ir.blocks[n]
           to == ir.args[Term(ir, b)][1]
       IN  /\ Mergeable(b)
           /\ \A m \in 1..(n - 1) : ~Mergeable(ir.blocks[m])
           /\ ir' = MergeBlocks(Replace(RemoveInstruction(ir, b, Term(ir, b)), to, b), b, to)
  /\ changed' = TRUE
  /\ UNCHANGED <<pc, cur, preds, weight, meaning>>

\* removeNoPredecessors, once nothing is left to merge.
NoPredecessors == {b \in LiveBlocks(ir) : b # Entry(ir) /\ BagToSet(ir.pred[b]) = {}}

RemoveNoPredecessors ==
  /\ Running("merge")
  /\ \A b \in LiveBlocks(ir) : ~Mergeable(b)
  /\ LET toRemove == SelectSeq(ir.blocks, LAMBDA b : b \in NoPredecessors)
     IN  /\ ir' = FoldLeft(RemoveBlock, ir, toRemove)
         /\ changed' = (changed \/ toRemove # <<>>)
  /\ pc' = "empty"
  /\ UNCHANGED <<cur, preds, weight, meaning>>

\* The entries of replaceEmpty: blocks that only jump on, with the phis of
\* their targets at that time.
EmptyEntries ==
  LET empty(b) == LET t == Term(ir, b) IN
        /\ Len(ir.code[b]) = 1
        /\ ir.op[t] = "jump" /\ Len(ir.args[t]) = 1
        /\ b # Entry(ir) /\ ir.args[t][1] # b
      entry(b) == LET to == ir.args[Term(ir, b)][1]
                  IN  [block |-> b, target |-> to, phis |-> Phis(ir, to)]
      chosen == SelectSeq(ir.blocks, empty)
  IN  [n \in DOMAIN chosen |-> entry(chosen[n])]

IncomingBlocks(f, phi) == {f.args[phi][k] : k \in {k \in DOMAIN f.args[phi] : k % 2 = 0}}

\* The value a phi has for the empty block is given to each of its
\* predecessors instead; their order in the hash map does not matter.
ForwardPhi(f, phi, b) ==
  LET at == {k \in DOMAIN f.args[phi] : k % 2 = 0 /\ f.args[phi][k] = b}
      value == f.args[phi][Min(at) - 1]
      add(g, p) == AddUse(AddUse([g EXCEPT !.args[phi] = @ \o <<value, p>>], value, phi), p, phi)
  IN  IF at = {} THEN f
      ELSE FoldLeft(add, RemoveOperand(f, phi, b), SetToSeq(BagToSet(f.pred[b])))

\* replaceEmpty.  An entry is skipped if a phi of the target already hears from
\* a predecessor of the block.  Later entries follow a replaced block to its
\* target, but keep the phis they recorded.
ReplaceEmpty ==
  LET turn(acc, n) ==
        LET e == acc.entries[n]
            skip == \E k \in DOMAIN e.phis :
                      IncomingBlocks(acc.ir, e.phis[k]) \cap BagToSet(acc.ir.pred[e.block]) # {}
            told == FoldLeft(LAMBDA f, phi : ForwardPhi(f, phi, e.block), acc.ir, e.phis)
            redirect(x) == [x EXCEPT
              !.block  = IF @ = e.block THEN e.target ELSE @,
              !.target = IF @ = e.block THEN e.target ELSE @]
        IN  IF e.block = e.target \/ skip THEN acc ELSE
            [ir |-> RemoveBlock(Replace(told, e.block, e.target), e.block),
             entries |-> [m \in DOMAIN acc.entries |->
                            IF m > n THEN redirect(acc.entries[m]) ELSE acc.entries[m]],
             any |-> TRUE]
      end == FoldLeftDomain(turn, [ir |-> ir, entries |-> EmptyEntries, any |-> FALSE],
                            EmptyEntries)
  IN  /\ Running("empty")
      /\ ir' = end.ir
      /\ changed' = (changed \/ end.any)
      /\ pc' = "fold" /\ cur' = 1
      /\ UNCHANGED <<preds, weight, meaning>>

-----------------------------------------------------------------------------
(* ConstantFolder, on jumps and phis. *)

FoldableJump(i) ==
  /\ ir.op[i] = "jump" /\ Len(ir.args[i]) = 3
  /\ \/ ir.args[i][1] = ir.args[i][2]
     \/ ir.args[i][3][1] = "const"

FoldablePhi(i) == ir.op[i] = "phi" /\ Len(ir.args[i]) <= 2

\* The block a foldable jump always takes.
Taken(i) == IF ir.args[i][3] = <<"const", 0>> THEN ir.args[i][2] ELSE ir.args[i][1]

\* The first instruction of the block that folds, after which the pass starts
\* the block again: a jump on a constant or with equal targets becomes an
\* unconditional one, a phi of one entry becomes its value.
Fold ==
  LET b == ir.blocks[cur] IN
  /\ Running("fold")
  /\ cur <= Len(ir.blocks)
  /\ \E n \in DOMAIN ir.code[b] :
       LET i == ir.code[b][n] IN
       /\ FoldableJump(i) \/ FoldablePhi(i)
       /\ \A m \in 1..(n - 1) : ~FoldableJump(ir.code[b][m]) /\ ~FoldablePhi(ir.code[b][m])
       /\ ir' = IF FoldableJump(i)
                THEN RemoveInstruction(Insert(ir, b, n + 1, "jump", <<Taken(i)>>), b, i)
                ELSE IF ir.args[i] = <<>> THEN Fail(ir, "out_of_range")
                ELSE RemoveInstruction(Replace(ir, i, ir.args[i][1]), b, i)
  /\ changed' = TRUE
  /\ UNCHANGED <<pc, cur, preds, weight, meaning>>

FoldNextBlock ==
  /\ Running("fold")
  /\ cur <= Len(ir.blocks)
  /\ \A i \in ToSet(ir.code[ir.blocks[cur]]) : ~FoldableJump(i) /\ ~FoldablePhi(i)
  /\ cur' = cur + 1
  /\ UNCHANGED <<ir, pc, preds, changed, weight, meaning>>

-----------------------------------------------------------------------------
(* FixPhis and the end of the group. *)

\* FixPhis: drop each entry whose block is not a predecessor.
FixPhi(f, b, phi) ==
  FoldLeftDomain(LAMBDA g, k :
                   IF k % 2 = 0 /\ ~BagIn(f.args[phi][k], f.pred[b])
                   THEN RemoveOperand(g, phi, f.args[phi][k]) ELSE g,
                 f, f.args[phi])

\* Mutant: the group always starts over.
AgainAlways(fixed) == TRUE

\* anyChange && m_repeat.
Again(fixed) == changed \/ fixed.args # ir.args

FixPhis ==
  LET fix(f, b) == FoldLeft(LAMBDA g, phi : FixPhi(g, b, phi), f, Phis(f, b))
      fixed == FoldLeft(fix, ir, ir.blocks)
  IN  /\ Running("fold")
      /\ cur > Len(ir.blocks)
      /\ ir' = fixed
      /\ changed' = FALSE
      /\ pc' = IF Again(fixed) THEN "merge" ELSE "split"
      /\ cur' = 1
      /\ weight' = Weight(fixed)
      /\ UNCHANGED <<preds, meaning>>

-----------------------------------------------------------------------------
(* SplitCriticalEdge. *)

\* A block with several predecessors: the pass copies their map.
SplitBlock ==
  /\ Running("split")
  /\ cur <= Len(ir.blocks)
  /\ LET of == BagToSet(ir.pred[ir.blocks[cur]])
     IN  preds' = IF Cardinality(of) <= 1 THEN {} ELSE of
  /\ pc' = "edges"
  /\ UNCHANGED <<ir, cur, changed, weight, meaning>>

\* Mutant: the phis keep the old predecessor.
SplitKeepPhis(p, b) ==
  LET opened   == InsertBlockAfter(ir, b)
      redirect == <<"blk", ir.next>>
  IN  ReplaceInBlock(AppendTo(opened, redirect, "jump", <<b>>), p, b, redirect)

\* A block on the edge from p to b; p's operands are redirected by replace,
\* those of b's phis one by one.
SplitEdge(p, b) ==
  LET opened   == InsertBlockAfter(ir, b)
      redirect == <<"blk", ir.next>>
      turned   == ReplaceInBlock(AppendTo(opened, redirect, "jump", <<b>>), p, b, redirect)
      tell(f, phi) == FoldLeftDomain(LAMBDA g, k :
                        IF g.args[phi][k] = p THEN ReplaceOperand(g, b, phi, k, redirect) ELSE g,
                        f, f.args[phi])
  IN  FoldLeft(tell, turned, Phis(turned, b))

\* One predecessor, in the order of the hash map.
VisitEdge(p) ==
  LET b == ir.blocks[cur] IN
  /\ Running("edges")
  /\ p \in preds
  /\ preds' = preds \ {p}
  /\ ir' = IF Cardinality(BagToSet(ir.succ[p])) > 1 /\ Phis(ir, b) # <<>>
           THEN SplitEdge(p, b) ELSE ir
  /\ UNCHANGED <<pc, cur, changed, weight, meaning>>

SplitNextBlock ==
  /\ Running("edges")
  /\ preds = {}
  /\ cur' = cur + 1
  /\ pc' = "split"
  /\ UNCHANGED <<ir, preds, changed, weight, meaning>>

-----------------------------------------------------------------------------
(* What is left for instruction selection. *)

\* emitCondJumpImmediate: a jump on a constant goes to the operand that the
\* constant numbers, counting from 0.
Selected(f) ==
  LET constant(i) == f.op[i] = "jump" /\ Len(f.args[i]) = 3 /\ f.args[i][3][1] = "const"
  IN  [f EXCEPT !.args = [i \in DOMAIN @ |->
         IF constant(i) THEN <<@[i][@[i][3][2] + 1]>> ELSE @[i]]]

Finish ==
  /\ Running("split")
  /\ cur > Len(ir.blocks)
  /\ pc' = "done"
  /\ UNCHANGED <<ir, cur, preds, changed, weight, meaning>>

Next ==
  \/ Merge \/ RemoveNoPredecessors \/ ReplaceEmpty
  \/ Fold \/ FoldNextBlock
  \/ FixPhis
  \/ SplitBlock \/ (\E p \in preds : VisitEdge(p)) \/ SplitNextBlock
  \/ Finish

Spec == Init /\ [][Next]_vars
-----------------------------------------------------------------------------
\* No pass makes a map's at() throw, erases what it did not find, or touches
\* an instruction that was deleted.
NoFault == ir.fault = ""

\* The function is well formed, the passes' own state is in range, and nothing
\* failed on the way.
TypeOK ==
  /\ NoFault
  /\ pc \in {"merge", "empty", "fold", "split", "edges", "done"}
  /\ cur \in 1..(Len(ir.blocks) + 1)
  /\ preds \subseteq LiveBlocks(ir)
  /\ DOMAIN ir.code = LiveBlocks(ir)
  /\ DOMAIN ir.succ = LiveBlocks(ir) /\ DOMAIN ir.pred = LiveBlocks(ir)
  /\ DOMAIN ir.args = Instructions(ir) /\ DOMAIN ir.op = Instructions(ir)

\* The successor and predecessor maps, which Block::replace, onAdd and
\* beforeRemove update edge by edge, stay each other's mirror and agree with
\* the terminators, from which no pass ever recomputes them; use lists and
\* operands agree (the verifier's "uses operand n. but was not found in the
\* operands uses"), so that replacing or removing an object reaches everybody
\* who mentions it.
GraphAgrees ==
  ir.fault = "" =>
    EdgesMirrored(ir) /\ EdgesOfTerminators(ir) /\ OperandsRegistered(ir) /\ UsersHaveOperand(ir)

\* Between the passes, and as instruction selection takes it over, the function
\* computes what the front end wrote, at every optimisation level: jumps go where they went and every phi has the value of
\* the edge it was entered by, under whatever names the edge has now.  Inside
\* CFGSemplification and ConstantFolder it need not: a merged phi waits there
\* to be folded.
AtRest == \/ pc \in {"split", "done"}
          \/ pc = "merge" /\ ~changed
MeaningKept ==
  AtRest /\ ir.fault = "" =>
    LET f == IF pc = "done" THEN Selected(ir) ELSE ir
    IN  \A input \in Inputs : Agree(meaning[input], Run(f, input, Fuel))

\* PassManager repeats the group while a pass reports a change: every
\* repetition finds a smaller function, so the passes never undo each other's
\* work nor report what they did not do, and the group comes to an end.
Repeats == pc = "fold" /\ pc' = "merge"
GroupShrinks == [][Repeats => weight' < weight]_vars
=============================================================================
