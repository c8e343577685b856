---------------------------- MODULE MemoryPasses ----------------------------
(***************************************************************************)
(* Mem2Reg (src/src/IR/mem2reg.cpp) and DeadCodeElimination                *)
(* (src/src/IR/dce.cpp) in the O1 group, repeated while one of them        *)
(* reports a change, after a FunctionInlining that may bring in the stack  *)
(* slot of a callee.  The dominator tree is the one dominance by paths     *)
(* defines; that the code computes it is checked in Dominators.            *)
(*                                                                         *)
(* Opcodes here: "alloca", "load" <<pointer>>, "store" <<pointer, value>>, *)
(* "inline", a call of which the callee stores its argument in a slot and  *)
(* calls with what it loads, "call", phis and terminators.  A pointer the  *)
(* function did not make is <<"ptr", n>>; its use list is what names it.   *)
(***************************************************************************)
EXTENDS IRSemantics, Dominance

CONSTANTS
  Programs,        \* IR functions
  Inputs,          \* values for their arguments
  Fuel,            \* blocks visited when a function is run, a bound of the model
  ReuseAddresses   \* a new slot may get the address of a deleted one

VARIABLES
  ir,
  pc,
  phiFor,     \* m_phiForValues and m_valueForPhis: triples of block, slot, phi
  promoted,   \* slots to be promoted
  seen,       \* slots isAllocaPromotable was asked about
  stack,      \* values of the promoted slots, the innermost last
  todo,       \* calls of rename to come, and stack heights to return to
  changed,    \* anyChange of the group
  freed,      \* addresses of deleted slots
  meaning     \* what the function computed at first; history

vars == <<ir, pc, phiFor, promoted, seen, stack, todo, changed, freed, meaning>>

-----------------------------------------------------------------------------
(* What a function with memory computes. *)

Content(s, a) == IF a \in DOMAIN s.mem THEN s.mem[a] ELSE Undefined

\* Of two entries for the edge taken, lowerPhis copies the later one last.
LastPhiValue(f, input, s, i) ==
  LET entries == {k \in DOMAIN f.args[i] : k % 2 = 0 /\ f.args[i][k] = s.from}
  IN  IF entries = {} THEN Undefined ELSE ValueOf(input, s.held, f.args[i][Max(entries) - 1])

\* A slot is one place of the frame, wherever its alloca is executed.
ExecuteM(f, input, s, i) ==
  LET v(k) == ValueOf(input, s.env, f.args[i][k]) IN
  CASE f.op[i] = "alloca" -> [s EXCEPT !.env = (i :> <<"slot", i[2]>>) @@ @]
    [] f.op[i] = "load"   -> [s EXCEPT !.env = (i :> Content(s, v(1))) @@ @]
    [] f.op[i] = "store"  -> [s EXCEPT !.mem = (v(1) :> v(2)) @@ @]
    [] f.op[i] = "phi"    -> [s EXCEPT !.env = (i :> LastPhiValue(f, input, s, i)) @@ @]
    [] f.op[i] = "inline" -> [s EXCEPT !.out = Append(@, v(1))]
    [] OTHER -> Execute(f, input, s, i)

\* What others see: the calls, and at the end what the caller's pointers hold.
RunM(f, input) ==
  LET visit(s, n) == IF ~IsBlock(s.at) THEN s
                     ELSE FoldLeft(LAMBDA t, i : ExecuteM(f, input, t, i),
                                   [s EXCEPT !.held = s.env], f.code[s.at])
      start == [at |-> Entry(f), from |-> Entry(f), env |-> <<>>, held |-> <<>>,
                out |-> <<>>, mem |-> <<>>]
      end == FoldLeft(visit, start, [n \in 1..Fuel |-> n])
      seenByCaller == {a \in DOMAIN end.mem : a[1] = "ptr" /\ end.mem[a][1] # "slot"}
  IN  [out |-> end.out \o (IF IsBlock(end.at) THEN <<>>
                           ELSE <<[a \in seenByCaller |-> end.mem[a]]>>),
       ended |-> ~IsBlock(end.at)]

-----------------------------------------------------------------------------
BlockOf(f, i) == CHOOSE b \in LiveBlocks(f) : Contains(f.code[b], i)
Graph(f) == {e \in LiveBlocks(f) \X LiveBlocks(f) : BagIn(e[2], f.succ[e[1]])}
Allocations(f) == {i \in Instructions(f) : f.op[i] = "alloca"}
Users(f, v) ==
  IF HasUses(v) THEN ToSet(f.uses[v]) ELSE {i \in Instructions(f) : Contains(f.args[i], v)}

Init ==
  /\ ir \in Programs
  /\ pc = "inline"
  /\ phiFor = {} /\ promoted = {} /\ seen = {} /\ stack = <<>> /\ todo = <<>>
  /\ changed = FALSE
  /\ freed = {}
  /\ meaning = [input \in Inputs |-> RunM(ir, input)]

Running(phase) == pc = phase /\ ir.fault = ""

\* FunctionInlining: it may inline a call in this round, in a later one or
\* never, and does not report it.  The slot of the callee is a new object,
\* which the allocator may place where a deleted one was.
InlineAs(f, b, i, name) ==
  LET k     == SelectInSeq(f.code[b], LAMBDA x : x = i)
      arg   == f.args[i][1]
      slot  == Insert([f EXCEPT !.next = name], b, k, "alloca", <<>>)
      z     == <<"ins", name>>
      fresh == [slot EXCEPT !.next = IF name = f.next THEN f.next + 1 ELSE f.next]
      put   == Insert(fresh, b, k + 1, "store", <<z, arg>>)
      got   == Insert(put, b, k + 2, "load", <<z>>)
  IN  RemoveInstruction(Insert(got, b, k + 3, "call", <<got.code[b][k + 2]>>), b, i)

Inline ==
  /\ Running("inline")
  /\ \E b \in LiveBlocks(ir) : \E i \in ToSet(ir.code[b]) :
       /\ ir.op[i] = "inline"
       /\ \E name \in {ir.next} \cup (IF ReuseAddresses THEN freed ELSE {}) :
            /\ ir' = InlineAs(ir, b, i, name)
            /\ freed' = freed \ {name}
  /\ UNCHANGED <<pc, phiFor, promoted, seen, stack, todo, changed, meaning>>

StartMem2Reg ==
  /\ Running("inline")
  /\ pc' = "promote"
  /\ UNCHANGED <<ir, phiFor, promoted, seen, stack, todo, changed, freed, meaning>>

-----------------------------------------------------------------------------
(* Mem2Reg. *)

\* isAllocaPromotable: loaded from and stored to, never anything else, and not
\* in a block that has no predecessors.  The type it looks at is that of the
\* pointer, which is never an array or a struct.
Promotable(f, a) ==
  /\ \A i \in Users(f, a) :
       /\ f.op[i] \in {"load", "store"}
       /\ f.args[i][1] = a
       /\ BlockOf(f, i) # Entry(f) => BagToSet(f.pred[BlockOf(f, i)]) # {}
  /\ \E i \in Users(f, a) : f.op[i] = "load"
  /\ \E i \in Users(f, a) : f.op[i] = "store"

\* Mutant: only the frontier of the stores gets phis, not the frontier's own.
JoinsOnce(f, a) ==
  LET defining == {BlockOf(f, i) : i \in {i \in Users(f, a) : f.op[i] = "store"}}
  IN  UNION {FrontierOf(Graph(f), Entry(f), b) : b \in defining}

\* The iterated dominance frontier of the blocks that store.
Joins(f, a) ==
  LET defining == {BlockOf(f, i) : i \in {i \in Users(f, a) : f.op[i] = "store"}}
      frontier(b) == FrontierOf(Graph(f), Entry(f), b)
      edges == UNION {{b} \X frontier(b) : b \in LiveBlocks(f)}
  IN  Closure(edges, UNION {frontier(b) : b \in defining}, {})

\* A new phi goes behind the last one of the block.
AddPhi(f, b) ==
  LET phis == {k \in DOMAIN f.code[b] : f.op[f.code[b][k]] = "phi"}
  IN  Insert(f, b, IF phis = {} THEN 1 ELSE Max(phis) + 1, "phi", <<>>)

Promote ==
  /\ Running("promote")
  /\ \E a \in Allocations(ir) \ seen :
       LET joins == SetToSeq(Joins(ir, a)) IN
       /\ seen' = seen \cup {a}
       /\ IF Promotable(ir, a)
          THEN /\ promoted' = promoted \cup {a}
               /\ ir' = FoldLeft(AddPhi, ir, joins)
               /\ phiFor' = {t \in phiFor : ~(t[2] = a /\ Contains(joins, t[1]))} \cup
                            {<<joins[n], a, <<"ins", ir.next + n - 1>> >> : n \in DOMAIN joins}
          ELSE UNCHANGED <<promoted, ir, phiFor>>
  /\ UNCHANGED <<pc, stack, todo, changed, freed, meaning>>

StartRename ==
  /\ Running("promote")
  /\ Allocations(ir) \subseteq seen
  /\ stack' = [a \in promoted |-> <<>>]
  /\ todo' = IF promoted = {} THEN <<>> ELSE <<[block |-> Entry(ir)]>>
  /\ pc' = "rename"
  /\ UNCHANGED <<ir, phiFor, promoted, seen, changed, freed, meaning>>

Pushed(s, a, v) == (a :> Append(IF a \in DOMAIN s THEN s[a] ELSE <<>>, v)) @@ s
Top(s, a) == IF s[a] = <<>> THEN Undefined ELSE Last(s[a])

\* A load of a slot that holds nothing yet gives it an undefined value.
AfterLoad(r, a) == IF r.stack[a] = <<>> THEN Pushed(r.stack, a, Undefined) ELSE r.stack

\* One instruction of a block: r.dead is removed when the block is through.
RenameInstruction(r, b, i) ==
  LET a == r.ir.args[i][1]
      of == {t \in phiFor : t[1] = b /\ t[3] = i}
  IN  CASE r.ir.op[i] = "store" /\ a \in promoted ->
             [r EXCEPT !.stack = Pushed(@, a, r.ir.args[i][2]), !.dead = Append(@, i)]
        [] r.ir.op[i] = "load" /\ a \in promoted ->
             LET s == AfterLoad(r, a)
             IN  [r EXCEPT !.stack = s, !.dead = Append(@, i),
                           !.ir = Replace(@, i, Top(s, a))]
        [] r.ir.op[i] = "phi" /\ of # {} ->
             [r EXCEPT !.stack = Pushed(@, (CHOOSE t \in of : TRUE)[2], i)]
        [] OTHER -> r

\* Mutant: the block does not learn that the phi uses it.
TellValuesOnly(f, b, s) ==
  LET told == {t \in phiFor : BagIn(t[1], f.succ[b]) /\ t[2] \in promoted}
      tell(t, g) == AddUse([g EXCEPT !.args[t[3]] = @ \o <<Top(s, t[2]), b>>], Top(s, t[2]), t[3])
  IN  FoldSet(tell, f, told)

\* The phis of a successor hear what its slots hold at the end of the block,
\* once, however many edges lead there.
TellSuccessors(f, b, s) ==
  LET told == {t \in phiFor : BagIn(t[1], f.succ[b]) /\ t[2] \in promoted}
      tell(t, g) == LET v == Top(s, t[2]) IN
        IF t[3] \notin DOMAIN g.args THEN Fail(g, "use after free")
        ELSE AddUse(AddUse([g EXCEPT !.args[t[3]] = @ \o <<v, b>>], v, t[3]), b, t[3])
  IN  FoldSet(tell, f, told)

\* stackSize: what the stacks of the promoted slots are cut back to.
Heights(s) == [a \in promoted |-> Len(s[a])]

\* rename, for one block: then for its children in the dominator tree.
Rename ==
  LET b == Head(todo).block
      r == FoldLeft(LAMBDA x, i : RenameInstruction(x, b, i),
                    [ir |-> ir, stack |-> stack, dead |-> <<>>], ir.code[b])
      left == FoldLeft(LAMBDA f, i : RemoveInstruction(f, b, i), r.ir, r.dead)
      children == SelectSeq(ir.blocks, LAMBDA c : IsParent(Graph(ir), Entry(ir), b, c))
  IN  /\ Running("rename")
      /\ todo # <<>> /\ "block" \in DOMAIN Head(todo)
      /\ ir' = TellSuccessors(left, b, r.stack)
      /\ stack' = r.stack
      /\ todo' = [n \in DOMAIN children |-> [block |-> children[n]]] \o
                   <<[heights |-> Heights(stack)]>> \o Tail(todo)
      /\ UNCHANGED <<pc, phiFor, promoted, seen, changed, freed, meaning>>

\* The end of a call of rename.
PopValues ==
  /\ Running("rename")
  /\ todo # <<>> /\ "heights" \in DOMAIN Head(todo)
  /\ stack' = [a \in DOMAIN stack |->
                 IF a \in promoted /\ Len(stack[a]) > Head(todo).heights[a]
                 THEN SubSeq(stack[a], 1, Head(todo).heights[a]) ELSE stack[a]]
  /\ todo' = Tail(todo)
  /\ UNCHANGED <<ir, pc, phiFor, promoted, seen, changed, freed, meaning>>

\* assert(alloca->getUses().empty()), and the slots go.
RemoveSlots ==
  LET remove(a, f) == IF f.uses[a] # <<>> THEN Fail(f, "assert")
                      ELSE RemoveInstruction(f, BlockOf(f, a), a)
  IN  /\ Running("rename")
      /\ todo = <<>>
      /\ ir' = FoldSet(remove, ir, promoted)
      /\ freed' = freed \cup {a[2] : a \in promoted}
      /\ changed' = (promoted # {})
      /\ promoted' = {} /\ seen' = {} /\ stack' = <<>>
      /\ pc' = "dce"
      /\ UNCHANGED <<phiFor, todo, meaning>>

-----------------------------------------------------------------------------
(* DeadCodeElimination and the end of the round. *)

\* isDead: a store is, if only stores use its pointer, unless the pointer was
\* computed; anything else is if it has no side effect and no use.
Dead(f, i) ==
  IF f.op[i] = "store"
  THEN LET p == f.args[i][1] IN
       /\ p[1] = "ins" => f.op[p] = "alloca"
       /\ \A u \in Users(f, p) : f.op[u] = "store"
  ELSE f.op[i] \in {"alloca", "load", "phi"} /\ f.uses[i] = <<>>

\* Mutant: what died is no reason for another round.
AgainIfPromoted(dead) == changed

\* anyChange && m_repeat.
Again(dead) == changed \/ dead # <<>>

\* The worklist is emptied from the back; what dies of it waits for the next
\* round, since operands are asked about while the dead still use them.
Eliminate ==
  LET all  == FlattenSeq([n \in DOMAIN ir.blocks |-> ir.code[ir.blocks[n]]])
      dead == SelectSeq(all, LAMBDA i : Dead(ir, i))
  IN  /\ Running("dce")
      /\ ir' = FoldLeft(LAMBDA f, i : RemoveInstruction(f, BlockOf(f, i), i), ir, Reverse(dead))
      /\ freed' = freed \cup {i[2] : i \in {i \in ToSet(dead) : ir.op[i] = "alloca"}}
      /\ pc' = IF Again(dead) THEN "inline" ELSE "done"
      /\ UNCHANGED <<phiFor, promoted, seen, stack, todo, changed, meaning>>

Next == \/ Inline \/ StartMem2Reg
        \/ Promote \/ StartRename \/ Rename \/ PopValues \/ RemoveSlots
        \/ Eliminate

Spec == Init /\ [][Next]_vars

-----------------------------------------------------------------------------
\* No pass reaches a deleted phi or slot, and Mem2Reg finds a slot it removes
\* without uses (mem2reg.cpp:68): every load and store of it was on the walk.
NoFault == ir.fault = ""

\* The passes' own state fits the function, and nothing failed on the way.
TypeOK ==
  /\ NoFault
  /\ pc \in {"inline", "promote", "rename", "dce", "done"}
  /\ promoted \subseteq seen
  /\ ir.fault = "" => /\ promoted \subseteq Allocations(ir)
                      /\ DOMAIN ir.args = Instructions(ir) /\ DOMAIN ir.op = Instructions(ir)
                      /\ OperandsRegistered(ir) /\ UsersHaveOperand(ir)

\* Each load gets what the last store on the path taken put there, whatever
\* the passes made of it; the calls, and what is left behind the caller's
\* pointers, are those of the program that was written.
MeaningKept ==
  pc \in {"inline", "dce", "done"} /\ ir.fault = "" =>
    \A input \in Inputs : Agree(meaning[input], RunM(ir, input))

\* When the group ends no slot is left that could be promoted, and nothing
\* that is only kept by dead code: what one round cannot see the next one does.
NothingLeft ==
  pc = "done" /\ ir.fault = "" =>
    \A i \in Instructions(ir) : ~Dead(ir, i) /\ (ir.op[i] = "alloca" => ~Promotable(ir, i))

\* What the group is for: all of the work that can be done is done (the repetition
\* in pass_manager.cpp:65), and none that changes what the function does.
Optimised == MeaningKept /\ NothingLeft
=============================================================================
