---------------------------- MODULE MCCFGPasses ----------------------------
(***************************************************************************)
(* Small functions to compile.  A shape gives each block its terminator    *)
(* and what else it holds: nothing, a call, or phis and a call with the    *)
(* first of them.  A phi has an entry for each predecessor: what the       *)
(* predecessor's call returned, or a constant of its own.  Functions are   *)
(* put together with the primitives of IRGraph, as a front end does with   *)
(* Builder.                                                                *)
(***************************************************************************)
EXTENDS CFGPasses

CONSTANTS
  Shapes,       \* the shapes to compile
  Levels,       \* those they are compiled at if no jump depends on a constant
  ConstantJumpLevels, \* and if one does
  LocalValues,  \* phis take what calls return, or constants only
  PhisPerBlock

Blk(n) == <<"blk", n>>
Const(n) == <<"const", n>>
Cond(n) == <<"arg", n>>

TargetsOf(t) == IF t[1] = "ret" THEN {} ELSE IF t[1] = "jump" THEN {t[2]} ELSE {t[2], t[3]}

TermOp(t) == IF t[1] = "cond" THEN "jump" ELSE t[1]
TermArgs(t) ==
  CASE t[1] = "ret"    -> <<>>
    [] t[1] = "jump"   -> <<Blk(t[2])>>
    [] t[1] = "cond"   -> <<Blk(t[2]), Blk(t[3]), t[4]>>
    [] t[1] = "switch" -> <<t[4], Blk(t[2]), Const(1), Blk(t[3])>>

Names(shape) == DOMAIN shape.term
PredsOf(shape, b) == {p \in Names(shape) : b \in TargetsOf(shape.term[p])}

Empty(shape) ==
  LET names == {Blk(b) : b \in Names(shape)}
  IN  [blocks |-> [b \in Names(shape) |-> Blk(b)],
       code |-> [b \in names |-> <<>>], op |-> <<>>, args |-> <<>>,
       uses |-> [b \in names |-> <<>>],
       succ |-> [b \in names |-> EmptyBag], pred |-> [b \in names |-> EmptyBag],
       next |-> 10, fault |-> ""]

WithTerminators(shape) ==
  FoldLeftDomain(LAMBDA f, b : AppendTo(f, Blk(b), TermOp(shape.term[b]), TermArgs(shape.term[b])),
           Empty(shape), shape.term)

WithCalls(shape) ==
  FoldLeftDomain(LAMBDA f, b : IF shape.body[b] = "call"
                         THEN Insert(f, Blk(b), 1, "call", <<Const(20 + b)>>) ELSE f,
           WithTerminators(shape), shape.term)

Incoming(f, shape, j, p) ==
  IF LocalValues /\ shape.body[p] = "call" THEN f.code[Blk(p)][1] ELSE Const(30 + 10 * j + p)

PhiArgs(f, shape, b, j) ==
  FlattenSeq([k \in 1..Cardinality(PredsOf(shape, b)) |->
                LET p == SetToSortSeq(PredsOf(shape, b), <)[k]
                IN  <<Incoming(f, shape, j, p), Blk(p)>>])

WithPhis(f, shape, b) ==
  LET phis == FoldLeft(LAMBDA g, j : Insert(g, Blk(b), j, "phi", PhiArgs(f, shape, b, j)),
                       f, [j \in 1..PhisPerBlock |-> j])
  IN  Insert(phis, Blk(b), PhisPerBlock + 1, "call", <<phis.code[Blk(b)][1]>>)

Build(shape) ==
  FoldLeftDomain(LAMBDA f, b : IF shape.body[b] = "phi" THEN WithPhis(f, shape, b) ELSE f,
           WithCalls(shape), shape.term)

-----------------------------------------------------------------------------
Rets == {<<"ret">>}
Jumps(to) == {<<"jump", t>> : t \in to}
Conds(to, conds) == {<<"cond", t[1], t[2], c>> : t \in to \X to, c \in conds}
TwoWay(to, conds) == {t \in Conds(to, conds) : t[2] < t[3]}

\* Every block can be reached along edges.
Reachable(shape) ==
  LET reach[n \in 0..Len(shape.term)] ==
        IF n = 0 THEN {1}
        ELSE reach[n - 1] \cup UNION {TargetsOf(shape.term[b]) : b \in reach[n - 1]}
  IN  reach[Len(shape.term)] = Names(shape)

\* Functions of three blocks, most of them with loops.
LoopShapes ==
  {s \in [term : {<<t1, t2, t3>> :
                    t1 \in Jumps(2..3) \cup Conds(2..3, {Const(0), Cond(1)}),
                    t2 \in Rets \cup Jumps(2..3) \cup Conds(2..3, {Const(0), Cond(2)}),
                    t3 \in Rets \cup Jumps(2..3) \cup Conds(2..3, {Cond(1)})},
          body : {<<"call", k2, k3>> : k2, k3 \in {"none", "phi"}}] : Reachable(s)}

\* Functions of four blocks laid out so that jumps go forward.
ForwardShapes ==
  {s \in [term : {<<t1, t2, t3, <<"ret">> >> :
                    t1 \in Jumps(2..4) \cup TwoWay(2..4, {Const(0), Const(1), Cond(1)}),
                    t2 \in Rets \cup Jumps(3..4) \cup TwoWay(3..4, {Const(0), Cond(2)}),
                    t3 \in Rets \cup Jumps(4..4)},
          body : {<<"call", k2, k3, k4>> : k2, k3 \in {"none", "call", "phi"}, k4 \in {"call", "phi"}}] :
     Reachable(s)}

\* Loops that lead back over two or three blocks, of which LoopAnalysis finds
\* only those whose header is the latch's immediate dominator, also one within
\* the other.
FarLoopShapes ==
  {s \in [term : {<< <<"jump", 2>>, t2, t3, t4, <<"ret">> >> :
                    t2 \in Jumps({3}) \cup {<<"cond", 3, 5, Cond(2)>>},
                    t3 \in Jumps({4}) \cup {<<"cond", 4, 5, Cond(1)>>, <<"cond", 2, 4, Cond(2)>>},
                    t4 \in {<<"cond", 2, 5, Cond(1)>>, <<"cond", 5, 2, Cond(2)>>, <<"cond", 3, 5, Cond(1)>>}},
          body : {<<"call", k2, k3, k4, k5>> :
                    k2, k3, k5 \in {"none", "phi"}, k4 \in {"none", "call"}}] : Reachable(s)}

\* A block with phis ends in a conditional jump to one of the blocks its phis
\* hear from, and that one has phis too: the shape that SplitCriticalEdge's
\* replace gets wrong.
PhiNamesTarget(s) ==
  \E p, b \in Names(s) :
    /\ p # b
    /\ s.body[p] = "phi" /\ s.body[b] = "phi"
    /\ s.term[p][1] = "cond" /\ p \in PredsOf(s, b)
    /\ b \in PredsOf(s, p)

CompiledShapes == ForwardShapes \cup {s \in LoopShapes \cup FarLoopShapes : ~PhiNamesTarget(s)}
BackEdgeShapes == {s \in LoopShapes : PhiNamesTarget(s)}

\* A jump on a constant, written either way round.
ConstantJumpShapes ==
  {[term |-> << <<"cond", 2, 3, Const(c)>>, <<"jump", 3>>, <<"ret">> >>,
    body |-> <<"call", "call", "call">>] : c \in {0, 1}}

\* if(false) x = f() else x = g(); h(x)
DeadArmShapes ==
  {[term |-> << <<"cond", 2, 3, Const(0)>>, <<"jump", 4>>, <<"jump", 4>>, <<"ret">> >>,
    body |-> <<"none", "call", "call", "phi">>]}

ConstantJump(s) == \E b \in Names(s) : s.term[b][1] = "cond" /\ s.term[b][4][1] = "const"

\* A program keeps its shape: TLC then tells programs apart without comparing
\* whole functions.
MCPrograms ==
  {[shape |-> s, ir |-> Build(s), level |-> l] : s \in {s \in Shapes : ~ConstantJump(s)}, l \in Levels}
  \cup
  {[shape |-> s, ir |-> Build(s), level |-> l] : s \in {s \in Shapes : ConstantJump(s)}, l \in ConstantJumpLevels}

\* Conditions are drawn from two arguments.
MCInputs == [1..2 -> {0, 1}]
=============================================================================
