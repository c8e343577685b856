------------------------------- MODULE IRGraph -------------------------------
(***************************************************************************)
(* The in-memory IR of one function and the primitives every IR pass is    *)
(* written with (src/src/IR/value.hpp, instruction.cpp, block.cpp,         *)
(* function.cpp).  The same facts are kept three times and each primitive  *)
(* must update all of them:                                                *)
(*   - the operands of the instructions;                                   *)
(*   - the use list of every value, one entry per operand;                 *)
(*   - successor and predecessor counts of the blocks, which follow from   *)
(*     the block operands of the terminators.                              *)
(*                                                                         *)
(* A function is a record ir, and a primitive maps a function to a         *)
(* function:                                                               *)
(*   blocks  m_blocks, in layout order, the entry first                    *)
(*   code    m_instructions of each block                                  *)
(*   op      opcode: "phi", "call", "jump", "switch" or "ret"; a call is   *)
(*           any instruction that is neither a phi nor a terminator        *)
(*   args    m_operands; a phi alternates values and blocks                *)
(*   uses    m_uses of blocks and instructions                             *)
(*   succ, pred   m_successors and m_predecessors, as bags                 *)
(*   next    the name of the next object to be created                     *)
(*   fault   "" until the code runs into undefined behaviour or an         *)
(*           uncaught exception; the state after it means nothing          *)
(* Values are pairs: <<"blk", n>>, <<"ins", n>>, <<"const", n>> and        *)
(* <<"arg", n>>.  The use lists of constants and arguments, which nothing  *)
(* reads, are left out.                                                    *)
(***************************************************************************)
EXTENDS Naturals, BagsExt, SequencesExt

IsBlock(v) == v[1] = "blk"
HasUses(v) == v[1] \in {"blk", "ins"}

Fail(ir, what) == [ir EXCEPT !.fault = IF @ = "" THEN what ELSE @]

Entry(ir) == ir.blocks[1]
Term(ir, b) == Last(ir.code[b])
Phis(ir, b) == SelectSeq(ir.code[b], LAMBDA i : ir.op[i] = "phi")
Without(f, x) == [y \in DOMAIN f \ {x} |-> f[y]]

\* The block operands of a jump or a switch, one per edge.
Targets(ir, i) ==
  IF ir.op[i] \in {"jump", "switch"} THEN SelectSeq(ir.args[i], IsBlock) ELSE <<>>

-----------------------------------------------------------------------------
(* Use lists. *)

\* Value::addUse, and removeFromUses, which drops every entry of the user.
AddUse(ir, v, i) ==
  IF ~HasUses(v) THEN ir
  ELSE IF v \in DOMAIN ir.uses THEN [ir EXCEPT !.uses[v] = Append(@, i)]
  ELSE Fail(ir, "use after free")

DropUse(ir, v, i) ==
  IF ~HasUses(v) THEN ir
  ELSE IF v \in DOMAIN ir.uses THEN [ir EXCEPT !.uses[v] = Remove(@, i)]
  ELSE Fail(ir, "use after free")

\* Instruction::removeOperand after PhiInstruction::removeOperand: a phi first
\* erases the value in front of the first such block, whose use stays listed.
\* std::find must succeed, or erase(end()) is undefined.
RemoveOperand(ir, i, v) ==
  IF i \notin DOMAIN ir.args THEN Fail(ir, "use after free") ELSE
  LET all   == ir.args[i]
      pairs == {k \in DOMAIN all : k % 2 = 0 /\ all[k] = v}
      rest  == IF ir.op[i] = "phi" /\ IsBlock(v) /\ pairs # {}
               THEN RemoveAt(all, Min(pairs) - 1) ELSE all
      found == {k \in DOMAIN rest : rest[k] = v}
  IN  IF found = {} THEN Fail(ir, "erase(end)")
      ELSE DropUse([ir EXCEPT !.args[i] = RemoveAt(rest, Min(found))], v, i)

\* for(auto& instr : v->getUses()) instr->removeOperand(v): the loop runs over
\* the slots the vector had when it started while removeFromUses compacts it;
\* a slot behind the new end keeps the pointer it held.
RemoveFromUsers(ir, v) ==
  LET visit(acc, k) ==
        LET done == RemoveOperand(acc.ir, acc.slots[k], v)
            live == done.uses[v]
        IN  [ir    |-> done,
             slots |-> live \o SubSeq(acc.slots, Len(live) + 1, Len(acc.slots))]
  IN  FoldLeftDomain(visit, [ir |-> ir, slots |-> ir.uses[v]], ir.uses[v]).ir

-----------------------------------------------------------------------------
(* Edges. *)

\* addSuccessor and addPredecessor.
AddEdge(ir, a, b) ==
  [ir EXCEPT !.succ[a] = BagAdd(@, b), !.pred[b] = BagAdd(@, a)]

\* removeSuccessor and removePredecessor: m_successors.at() throws on a block
\* that is not there.
RemoveEdge(ir, a, b) ==
  IF b \in DOMAIN ir.pred /\ BagIn(b, ir.succ[a]) /\ BagIn(a, ir.pred[b])
  THEN [ir EXCEPT !.succ[a] = BagRemove(@, b), !.pred[b] = BagRemove(@, a)]
  ELSE Fail(ir, "out_of_range")

-----------------------------------------------------------------------------
(* Instructions in blocks. *)

\* Block::addInstruction and its variants: the new instruction is put at place
\* k of the block, its operands learn of the use (addOperand), and onAdd of a
\* jump or a switch enters the edges.
Insert(ir, b, k, op, args) ==
  LET i    == <<"ins", ir.next>>
      put  == [ir EXCEPT !.next = @ + 1,
                         !.op   = @ @@ (i :> op),
                         !.args = @ @@ (i :> args),
                         !.uses = @ @@ (i :> <<>>),
                         !.code[b] = InsertAt(@, k, i)]
      used == FoldLeft(LAMBDA r, v : AddUse(r, v, i), put, args)
  IN  FoldLeft(LAMBDA r, t : AddEdge(r, b, t), used, Targets(put, i))

AppendTo(ir, b, op, args) == Insert(ir, b, Len(ir.code[b]) + 1, op, args)

\* beforeRemove of a jump or switch, then Instruction::beforeRemove.
BeforeRemove(ir, b, i) ==
  LET cut    == FoldLeft(LAMBDA r, t : RemoveEdge(r, b, t), ir, Targets(ir, i))
      unused == FoldLeft(LAMBDA r, v : DropUse(r, v, i), cut, ir.args[i])
  IN  RemoveFromUsers(unused, i)

Free(ir, i) ==
  [ir EXCEPT !.op = Without(@, i), !.args = Without(@, i), !.uses = Without(@, i)]

\* Block::removeInstruction.
RemoveInstruction(ir, b, i) ==
  LET cut == BeforeRemove(ir, b, i)
  IN  Free([cut EXCEPT !.code[b] = Remove(@, i)], i)

\* Block::clearInstructions.
ClearInstructions(ir, b) ==
  LET cut == FoldLeft(LAMBDA r, i : BeforeRemove(r, b, i), ir, ir.code[b])
  IN  [FoldLeft(Free, cut, ir.code[b]) EXCEPT !.code[b] = <<>>]

\* Mutant: the edges are changed for the new block only.
ReplaceOperandOneWay(ir, b, i, k, with) ==
  LET old   == ir.args[i][k]
      moved == AddUse([DropUse(ir, old, i) EXCEPT !.args[i][k] = with], with, i)
  IN  IF IsBlock(with) /\ ir.op[i] = "jump" THEN AddEdge(moved, b, with) ELSE moved

\* One operand of Block::replace: the use moves to the new value, and the edge
\* with it if the instruction is a jump -- but not if it is a switch.
ReplaceOperand(ir, b, i, k, with) ==
  LET old   == ir.args[i][k]
      moved == AddUse([DropUse(ir, old, i) EXCEPT !.args[i][k] = with], with, i)
  IN  IF IsBlock(with) /\ ir.op[i] = "jump"
      THEN AddEdge(RemoveEdge(moved, b, old), b, with) ELSE moved

\* Block::replace and Function::replace.
ReplaceInBlock(ir, b, old, with) ==
  FoldLeft(LAMBDA r, i :
             FoldLeftDomain(LAMBDA s, k : IF s.args[i][k] = old
                                          THEN ReplaceOperand(s, b, i, k, with)
                                          ELSE s,
                            r, r.args[i]),
           ir, ir.code[b])

Replace(ir, old, with) ==
  FoldLeft(LAMBDA r, b : ReplaceInBlock(r, b, old, with), ir, ir.blocks)

-----------------------------------------------------------------------------
(* Blocks. *)

\* Function::insertBlockAfter.
InsertBlockAfter(ir, after) ==
  LET b == <<"blk", ir.next>>
  IN  [ir EXCEPT !.next   = @ + 1,
                 !.blocks = InsertAt(@, SelectInSeq(@, LAMBDA c : c = after) + 1, b),
                 !.code   = @ @@ (b :> <<>>),
                 !.uses   = @ @@ (b :> <<>>),
                 !.succ   = @ @@ (b :> EmptyBag),
                 !.pred   = @ @@ (b :> EmptyBag)]

\* Mutant: the predecessors keep the removed block as a successor.
RemoveBlockHalf(ir, b) ==
  LET users == RemoveFromUsers(ir, b)
  IN  [users EXCEPT !.blocks = Remove(@, b),
                    !.code = Without(@, b), !.uses = Without(@, b),
                    !.pred = [x \in DOMAIN @ \ {b} |-> BagRemoveAll(@[x], b)],
                    !.succ = Without(@, b)]

\* Function::removeBlock.
RemoveBlock(ir, b) ==
  LET users == RemoveFromUsers(ir, b)
      clear == ClearInstructions(users, b)
      cut   == [clear EXCEPT
                  !.succ = [x \in DOMAIN @ |-> IF BagIn(x, clear.pred[b])
                                               THEN BagRemoveAll(@[x], b) ELSE @[x]],
                  !.pred = [x \in DOMAIN @ |-> IF BagIn(x, clear.succ[b])
                                               THEN BagRemoveAll(@[x], b) ELSE @[x]]]
  IN  [cut EXCEPT !.blocks = Remove(@, b),
                  !.code = Without(@, b), !.uses = Without(@, b),
                  !.succ = Without(@, b), !.pred = Without(@, b)]

\* Function::mergeBlocks: clone the instructions of from to the end of into,
\* point everything at the clones, remove from.
MergeBlocks(ir, into, from) ==
  LET originals == ir.code[from]
      cloned == FoldLeft(LAMBDA r, i : AppendTo(r, into, r.op[i], r.args[i]), ir, originals)
      clone(k) == cloned.code[into][Len(ir.code[into]) + k]
  IN  RemoveBlock(
        FoldLeftDomain(LAMBDA r, k : Replace(r, originals[k], clone(k)), cloned, originals),
        from)

-----------------------------------------------------------------------------
(* What the primitives are to keep in agreement. *)

LiveBlocks(ir) == ToSet(ir.blocks)
Instructions(ir) == UNION {ToSet(ir.code[b]) : b \in LiveBlocks(ir)}

\* A block is a successor of another as often as that one is its predecessor.
EdgesMirrored(ir) ==
  \A a, b \in LiveBlocks(ir) : CopiesIn(b, ir.succ[a]) = CopiesIn(a, ir.pred[b])

\* The edges are those of the terminators, and lead to blocks of the function.
EdgesOfTerminators(ir) ==
  \A b \in LiveBlocks(ir) :
    /\ \A t \in LiveBlocks(ir) :
         CopiesIn(t, ir.succ[b]) = Len(SelectSeq(Targets(ir, Term(ir, b)), LAMBDA x : x = t))
    /\ BagToSet(ir.succ[b]) \cup BagToSet(ir.pred[b]) \subseteq LiveBlocks(ir)

\* Every operand knows its user, and is an object of the function.
OperandsRegistered(ir) ==
  \A i \in Instructions(ir) : \A v \in ToSet(ir.args[i]) :
    HasUses(v) => v \in DOMAIN ir.uses /\ Contains(ir.uses[v], i)

\* Every registered user still has the operand.
UsersHaveOperand(ir) ==
  \A v \in DOMAIN ir.uses : \A i \in ToSet(ir.uses[v]) :
    i \in Instructions(ir) /\ Contains(ir.args[i], v)
=============================================================================
