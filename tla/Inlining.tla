------------------------------ MODULE Inlining ------------------------------
(***************************************************************************)
(* FunctionInlining (src/src/IR/function_inlining.cpp) on the functions of *)
(* a unit, with CallAnalysis and the cached heuristics it works from, and  *)
(* the removal of unreachable blocks by CFGSemplification between its      *)
(* rounds.                                                                 *)
(*                                                                         *)
(* Opcodes here: "alloca", "load", "store", phis and terminators, "call"   *)
(* for a call of a function without a body, and the name of a function of  *)
(* the unit for a call of it.                                              *)
(***************************************************************************)
EXTENDS IRSemantics, Integers

CONSTANTS
  Units,      \* functions from names to IR functions
  Order,      \* the functions in the order of the unit
  Inputs,     \* arguments of the first function
  Fuel,       \* blocks visited in one call, a bound of the model
  Depth,      \* calls in one another when a unit is run, a bound of the model
  CallBenefit, ConstBonus, TinySize, TinyBonus,   \* the weights of the score
  Budget      \* instructions a round may add

VARIABLES
  unit,      \* the functions
  pc,        \* "inline", "clean" or "done"
  cur,       \* the function that is compiled, by its place in Order
  sites,     \* m_callSites of each function's heuristics: call, location, callee
  recursive, \* m_isRecursive
  dirty,     \* m_heuristicsDirty
  added,     \* m_totalInstructionsAdded
  meaning    \* what the unit computed at first; history

vars == <<unit, pc, cur, sites, recursive, dirty, added, meaning>>

Names == {Order[n] : n \in DOMAIN Order}
Size(f) == FoldSet(LAMBDA b, n : n + Len(f.code[b]), 0, LiveBlocks(f))

-----------------------------------------------------------------------------
(* What a unit computes. *)

RECURSIVE Invoke(_, _, _, _)

\* A value of a call with the arguments args.
ValueIn(args, s, v) == IF v[1] = "arg" THEN args[v[2]] ELSE ValueOf(<<>>, s.env, v)

ExecuteIn(u, args, depth, s, i, f) ==
  LET v(k) == ValueIn(args, s, f.args[i][k])
      n == Len(f.args[i])
  IN CASE s.stuck -> s
       [] f.op[i] = "alloca" -> [s EXCEPT !.env = (i :> <<"slot", i>>) @@ @]
       [] f.op[i] = "load" ->
            [s EXCEPT !.env = (i :> IF v(1) \in DOMAIN s.mem THEN s.mem[v(1)] ELSE Undefined) @@ @]
       [] f.op[i] = "store" -> [s EXCEPT !.mem = (v(1) :> v(2)) @@ @]
       [] f.op[i] = "call" -> [s EXCEPT !.out = Append(@, v(1)),
                                        !.env = (i :> <<"result", v(1)>>) @@ @]
       [] f.op[i] \in Names ->
            LET r == Invoke(u, f.op[i], [k \in 1..n |-> v(k)], depth - 1)
            IN  [s EXCEPT !.out = @ \o r.out, !.env = (i :> r.value) @@ @, !.stuck = ~r.ended]
       [] f.op[i] = "phi" ->
            LET at == {k \in 1..n : k % 2 = 0 /\ f.args[i][k] = s.from}
            IN  [s EXCEPT !.env = (i :> IF at = {} THEN Undefined
                                        ELSE ValueIn(args, [s EXCEPT !.env = s.held],
                                                     f.args[i][Min(at) - 1])) @@ @]
       [] f.op[i] = "jump" ->
            [s EXCEPT !.from = s.at,
                      !.at = IF n = 1 \/ v(3) # <<"const", 0>> THEN f.args[i][1] ELSE f.args[i][2]]
       [] f.op[i] = "ret" -> [s EXCEPT !.at = i, !.value = IF n = 0 THEN @ ELSE v(1)]

Invoke(u, name, args, depth) ==
  LET f == u[name]
      visit(s, k) ==
        IF s.stuck \/ ~IsBlock(s.at) THEN s
        ELSE FoldLeft(LAMBDA t, i : ExecuteIn(u, args, depth, t, i, f),
                      [s EXCEPT !.held = s.env], f.code[s.at])
      start == [at |-> Entry(f), from |-> Entry(f), env |-> <<>>, held |-> <<>>, mem |-> <<>>,
                out |-> <<>>, value |-> Undefined, stuck |-> depth = 0]
      end == FoldLeft(visit, start, [k \in 1..Fuel |-> k])
  IN  [out |-> end.out, value |-> end.value, ended |-> ~end.stuck /\ ~IsBlock(end.at)]

RunUnit(u, input) == Invoke(u, Order[1], [k \in DOMAIN input |-> <<"const", input[k]>>], Depth)

-----------------------------------------------------------------------------
(* The call sites. *)

Init ==
  /\ unit \in Units
  /\ pc = "inline" /\ cur = 1
  /\ sites = [f \in Names |-> <<>>]
  /\ recursive = [f \in Names |-> FALSE]
  /\ dirty = [f \in Names |-> TRUE]
  /\ added = 0
  /\ meaning = [input \in Inputs |-> RunUnit(unit, input)]

NoFaultIn(u) == \A f \in Names : u[f].fault = ""
Caller == Order[cur]

\* CallAnalysis, of the calls of functions that have a body.
CallSites(f) ==
  FlattenSeq([n \in DOMAIN f.blocks |->
    LET b == f.blocks[n]
        calls == SelectSeq(f.code[b], LAMBDA i : f.op[i] \in Names)
    IN  [k \in DOMAIN calls |-> [call |-> calls[k], location |-> b, callee |-> f.op[calls[k]]]]])

\* getHeuristics: computed when an edge has changed since the last time.
Sites(name) == IF dirty[name] THEN CallSites(unit[name]) ELSE sites[name]
Recursive(name) ==
  IF name = Caller /\ dirty[name]
  THEN \E s \in ToSet(CallSites(unit[name])) : s.callee = name ELSE recursive[name]

\* The score of a site outside nested loops: a loop that is in no other has
\* depth 0.
Score(site) ==
  LET args == unit[Caller].args[site.call]
      size == Size(unit[site.callee])
  IN  CallBenefit + ConstBonus * Len(SelectSeq(args, LAMBDA v : v[1] = "const"))
        + (IF size <= TinySize THEN TinyBonus ELSE 0) - size

\* Mutant: the budget is asked about without the callee.
BudgetLeft(site) == added <= Budget

WithinBudget(site) == added + Size(unit[site.callee]) <= Budget

Profitable(site) == Score(site) >= 0 /\ WithinBudget(site)

-----------------------------------------------------------------------------
(* Inlining one call. *)

\* A new block that is not in the function yet.
NewBlock(f) ==
  LET b == <<"blk", f.next>>
  IN  [f EXCEPT !.next = @ + 1, !.code = @ @@ (b :> <<>>), !.uses = @ @@ (b :> <<>>),
                !.succ = @ @@ (b :> EmptyBag), !.pred = @ @@ (b :> EmptyBag)]

\* Everybody is turned from the instructions of tail to their clones in merge.
Swap(f, merge, tail) ==
  LET swap(r, n) == LET clone == f.code[merge][n]
                    IN  Replace(ReplaceInBlock(r, merge, tail[n], clone), tail[n], clone)
  IN  FoldLeftDomain(swap, f, tail)

\* Block::split: what follows the call is cloned into a new block, everybody is
\* turned to the clones, and the originals are removed from the back.
Split(f, b, at) ==
  LET merge == <<"blk", f.next>>
      tail  == SubSeq(f.code[b], SelectInSeq(f.code[b], LAMBDA i : i = at) + 1, Len(f.code[b]))
      put   == FoldLeft(LAMBDA r, i : AppendTo(r, merge, r.op[i], r.args[i]), NewBlock(f), tail)
  IN  FoldLeft(LAMBDA r, i : RemoveInstruction(r, b, i), Swap(put, merge, tail), Reverse(tail))

\* The blocks of the callee are cloned behind a block; vmap turns operands to
\* arguments of the call and to clones, before the edges are entered.
CloneBody(f, g, after, actual) ==
  LET body  == FlattenSeq([n \in DOMAIN g.blocks |-> g.code[g.blocks[n]]])
      names == g.blocks \o body
      vmap  == [v \in ToSet(names) |->
                  <<v[1], f.next + SelectInSeq(names, LAMBDA x : x = v) - 1>>]
      with(v) == IF v[1] = "arg" THEN actual[v[2]]
                 ELSE IF v \in DOMAIN vmap THEN vmap[v] ELSE v
      at(m)   == [n \in DOMAIN m |-> with(m[n])]
      clones(F) == [v \in {vmap[x] : x \in ToSet(body)} |->
                      F[CHOOSE x \in ToSet(body) : vmap[x] = v]]
      blocks  == at(g.blocks)
      put     == [f EXCEPT
        !.next   = @ + Len(names),
        !.blocks = LET k == SelectInSeq(@, LAMBDA b : b = after)
                   IN  SubSeq(@, 1, k) \o blocks \o SubSeq(@, k + 1, Len(@)),
        !.code = @ @@ [b \in ToSet(blocks) |->
                         at(g.code[CHOOSE x \in LiveBlocks(g) : vmap[x] = b])],
        !.op   = @ @@ clones(g.op),
        !.args = @ @@ [v \in DOMAIN clones(g.op) |-> at(clones(g.args)[v])],
        !.uses = @ @@ [v \in {vmap[x] : x \in ToSet(names)} |-> <<>>],
        !.succ = @ @@ [b \in ToSet(blocks) |-> EmptyBag],
        !.pred = @ @@ [b \in ToSet(blocks) |-> EmptyBag]]
      used(r, i) == FoldLeft(LAMBDA q, v : AddUse(q, v, i), r, put.args[i])
      edged(r, b) == FoldLeft(LAMBDA q, t : AddEdge(q, b, t), r, Targets(put, Last(put.code[b])))
  IN  FoldLeft(edged, FoldLeft(used, put, at(body)), blocks)

\* A return of the callee stores its value and jumps to the merge block.
TurnReturn(f, b, slot, merge) ==
  LET r == Last(f.code[b])
      k == Len(f.code[b])
      stored == IF f.args[r] = <<>> THEN f
                ELSE Insert(f, b, k + 1, "store", <<slot, f.args[r][1]>>)
  IN  IF f.op[r] # "ret" THEN f
      ELSE RemoveInstruction(AppendTo(stored, b, "jump", <<merge>>), b, r)

\* Mutant: phis behind the call go on to expect the first half of the block.
RenameIncomingNot(f, phi, location, merge) == f

\* Mutant: the operand is overwritten and the use lists are left alone.
RenameSilently(f, phi, location, merge) ==
  [f EXCEPT !.args[phi] = [k \in DOMAIN @ |-> IF @[k] = location THEN merge ELSE @[k]]]

\* A phi behind the call hears from the merge block now.
RenameIncoming(f, phi, location, merge) ==
  FoldLeftDomain(LAMBDA r, k :
      IF k % 2 = 0 /\ r.args[phi][k] = location
      THEN AddUse([DropUse(r, location, phi) EXCEPT !.args[phi][k] = merge], merge, phi) ELSE r,
    f, f.args[phi])

\* The body stands between the halves of the block; its returns lead to merge.
Return(f, blocks, slot, merge) ==
  LET returned == FoldLeft(LAMBDA r, c : TurnReturn(r, c, slot, merge), f, blocks)
  IN  [returned EXCEPT !.blocks =
         InsertAt(@, SelectInSeq(@, LAMBDA x : x = Last(blocks)) + 1, merge)]

\* The call gives way to a load of what was returned, and to a jump.
GiveWay(f, b, call, merge, first) ==
  LET turned == Replace(f, call, f.code[merge][1])
  IN  AppendTo(RemoveInstruction(turned, b, call), b, "jump", <<first>>)

\* f is split at the call already.
Embed(f, g, site, actual, merge) ==
  LET slot   == <<"ins", f.next>>
      blocks == [n \in DOMAIN g.blocks |-> <<"blk", f.next + n>>]
      copy   == CloneBody(AppendTo(f, site.location, "alloca", <<>>), g, site.location, actual)
  IN  GiveWay(Insert(Return(copy, blocks, slot, merge), merge, 1, "load", <<slot>>),
              site.location, site.call, merge, blocks[1])

InlineCall(f, g, site) ==
  LET b     == site.location
      merge == <<"blk", f.next>>
      phis  == FlattenSeq([n \in DOMAIN f.blocks |->
                 IF BagIn(f.blocks[n], f.succ[b]) THEN Phis(f, f.blocks[n]) ELSE <<>>])
  IN  FoldLeft(LAMBDA r, phi : RenameIncoming(r, phi, b, merge),
               Embed(Split(f, b, site.call), g, site, f.args[site.call], merge), phis)

-----------------------------------------------------------------------------
(* The passes. *)

Running(phase) == pc = phase /\ NoFaultIn(unit)

\* Callees known to call themselves are passed over.
Open(site) == ~Recursive(site.callee)

\* The call of a site is asked for its arguments, whether it was deleted or not.
Deleted(site) == site.call \notin DOMAIN unit[Caller].op
Stops(site) == Open(site) /\ (Deleted(site) \/ Profitable(site))

Analysed ==
  /\ sites' = [sites EXCEPT ![Caller] = Sites(Caller)]
  /\ recursive' = [recursive EXCEPT ![Caller] = Recursive(Caller)]

\* The first site that is worth it is inlined, and the sites are found anew.
Inline ==
  /\ Running("inline") /\ cur <= Len(Order)
  /\ \E n \in DOMAIN Sites(Caller) :
       LET s == Sites(Caller)[n] IN
       /\ Stops(s)
       /\ \A m \in 1..(n - 1) : ~Stops(Sites(Caller)[m])
       /\ unit' = [unit EXCEPT ![Caller] =
                     IF Deleted(s) THEN Fail(@, "use after free")
                     ELSE InlineCall(@, unit[s.callee], s)]
       /\ added' = added + Size(unit'[Caller]) - Size(unit[Caller])
  /\ Analysed
  /\ dirty' = [dirty EXCEPT ![Caller] = TRUE]
  /\ UNCHANGED <<pc, cur, meaning>>

NextFunction ==
  /\ Running("inline") /\ cur <= Len(Order)
  /\ \A n \in DOMAIN Sites(Caller) : ~Stops(Sites(Caller)[n])
  /\ Analysed
  /\ dirty' = [dirty EXCEPT ![Caller] = FALSE]
  /\ cur' = cur + 1
  /\ UNCHANGED <<unit, pc, added, meaning>>

EndOfPass ==
  /\ Running("inline") /\ cur > Len(Order)
  /\ pc' = "clean"
  /\ UNCHANGED <<unit, cur, sites, recursive, dirty, added, meaning>>

\* Mutant: removing a jump does not mark the heuristics either.
NeverMarked(f, gone) == FALSE

\* Only removing a jump marks the heuristics; removing a block does not.
JumpsRemoved(f, gone) ==
  \E b \in ToSet(gone) : f.op[Term(f, b)] = "jump"

\* removeNoPredecessors, on every function; a change starts the group again.
Clean ==
  LET dead(f) == SelectSeq(f.blocks, LAMBDA b : b # Entry(f) /\ BagToSet(f.pred[b]) = {})
      clean(f) == FoldLeft(RemoveBlock, f, dead(f))
  IN  /\ Running("clean")
      /\ unit' = [f \in Names |-> clean(unit[f])]
      /\ dirty' = [f \in Names |-> dirty[f] \/ JumpsRemoved(unit[f], dead(unit[f]))]
      /\ IF \E f \in Names : dead(unit[f]) # <<>>
         THEN pc' = "inline" /\ cur' = 1 /\ added' = 0
         ELSE pc' = "done" /\ UNCHANGED <<cur, added>>
      /\ UNCHANGED <<sites, recursive, meaning>>

Next == Inline \/ NextFunction \/ EndOfPass \/ Clean

Spec == Init /\ [][Next]_vars

-----------------------------------------------------------------------------
\* The inliner never works on a call site whose call was deleted.
NoFault == NoFaultIn(unit)

\* The functions of the unit are whole, and nothing failed on the way.
TypeOK ==
  /\ NoFault
  /\ pc \in {"inline", "clean", "done"} /\ cur \in 1..(Len(Order) + 1) /\ added \in Nat
  /\ NoFaultIn(unit) => \A n \in Names :
       LET f == unit[n] IN
       /\ DOMAIN f.args = Instructions(f) /\ DOMAIN f.op = Instructions(f)
       /\ DOMAIN f.code = LiveBlocks(f)

\* After a call is replaced by a body, the split block, the cloned blocks and
\* the callee agree on edges and uses: nobody was left with an instruction of
\* the other function or of the removed half.
GraphsAgree ==
  NoFaultIn(unit) => \A n \in Names :
    LET f == unit[n] IN
    EdgesMirrored(f) /\ EdgesOfTerminators(f) /\ OperandsRegistered(f) /\ UsersHaveOperand(f)

\* The unit computes what it did, whichever calls were inlined in which order.
MeaningKept ==
  NoFaultIn(unit) => \A input \in Inputs : Agree(meaning[input], RunUnit(unit, input))

\* What ends inlining when functions call each other in a circle is the budget:
\* it is overrun by no more than what is made around the last body.  No
\* function grows by its own body: one that calls itself is known to when its
\* turn comes, whatever was inlined into it.
BudgetKept ==
  added' > added => \E n \in Names \ {Caller} : added' <= Budget + 2 + Len(unit[n].blocks)
NotIntoItself ==
  \A n \in DOMAIN Order : n = cur /\ unit'[Order[n]] # unit[Order[n]] /\ pc = "inline" =>
    \A s \in ToSet(CallSites(unit[Order[n]])) : s.callee = Order[n] =>
      s.call \in DOMAIN unit'[Order[n]].op
GrowthBounded == [][BudgetKept /\ NotIntoItself]_vars
=============================================================================
