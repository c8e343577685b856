----------------------------- MODULE MCInlining -----------------------------
(* Small units for Inlining. *)
EXTENDS Inlining

Blk(n) == <<"blk", n>>
Const(n) == <<"const", n>>
Arg(n) == <<"arg", n>>
Ins(n) == <<"ins", n>>

\* A function from a list of blocks of instructions <<name, opcode, operands>>.
Function(blocks) ==
  LET names == {Blk(b) : b \in DOMAIN blocks}
      all   == FlattenSeq(blocks)
      empty == [blocks |-> [b \in DOMAIN blocks |-> Blk(b)],
                code |-> [b \in names |-> [k \in DOMAIN blocks[b[2]] |-> Ins(blocks[b[2]][k][1])]],
                op   |-> [i \in {Ins(x[1]) : x \in ToSet(all)} |->
                            (CHOOSE x \in ToSet(all) : Ins(x[1]) = i)[2]],
                args |-> [i \in {Ins(x[1]) : x \in ToSet(all)} |->
                            (CHOOSE x \in ToSet(all) : Ins(x[1]) = i)[3]],
                uses |-> [v \in names \cup {Ins(x[1]) : x \in ToSet(all)} |-> <<>>],
                succ |-> [b \in names |-> EmptyBag], pred |-> [b \in names |-> EmptyBag],
                next |-> 100, fault |-> ""]
      used(f, x) == FoldLeft(LAMBDA g, v : AddUse(g, v, Ins(x[1])), f, x[3])
      edged(f, b) == FoldLeft(LAMBDA g, t : AddEdge(g, b, t), f, Targets(f, Last(f.code[b])))
  IN  FoldLeft(edged, FoldLeft(used, empty, all), empty.blocks)

\* f calls out and returns what came back.
Plain == Function(<< << <<1, "call", <<Arg(1)>> >>, <<2, "ret", <<Ins(1)>> >> >> >>)

\* f returns one thing or another, from two blocks.
TwoReturns == Function(<<
  << <<1, "jump", <<Blk(2), Blk(3), Arg(1)>> >> >>,
  << <<2, "call", <<Const(7)>> >>, <<3, "ret", <<Ins(2)>> >> >>,
  << <<4, "ret", <<Const(8)>> >> >> >>)

\* f has a slot and a phi.
Joining == Function(<<
  << <<1, "alloca", <<>> >>, <<2, "store", <<Ins(1), Arg(1)>> >>,
     <<3, "jump", <<Blk(2), Blk(3), Arg(1)>> >> >>,
  << <<4, "call", <<Const(7)>> >>, <<5, "jump", <<Blk(3)>> >> >>,
  << <<6, "phi", <<Arg(1), Blk(1), Ins(4), Blk(2)>> >>, <<7, "load", <<Ins(1)>> >>,
     <<8, "call", <<Ins(6)>> >>, <<9, "ret", <<Ins(7)>> >> >> >>)

\* f is too large to be inlined.
Large == Function(<< [n \in 1..12 |-> IF n < 12 THEN <<n, "call", <<Arg(1)>> >> ELSE <<12, "ret", <<>> >>] >>)

\* f passes its argument on to another function, and does not return a value.
Calling(name) == Function(<<
  << <<1, name, <<Arg(1)>> >>, <<2, "call", <<Ins(1)>> >>, <<3, "ret", <<>> >> >> >>)

\* f calls a function if its argument is not 0.
CallingIf(name) == Function(<<
  << <<1, "jump", <<Blk(2), Blk(3), Arg(1)>> >> >>,
  << <<2, name, <<Const(0)>> >>, <<3, "jump", <<Blk(3)>> >> >>,
  << <<4, "phi", <<Const(5), Blk(1), Ins(2), Blk(2)>> >>,
     <<5, "call", <<Ins(4)>> >>, <<6, "ret", <<Ins(4)>> >> >> >>)

\* Calls before a branch, in a block that jumps to itself, and one after another.
Straight == Function(<<
  << <<1, "f", <<Arg(1)>> >>, <<2, "f", <<Ins(1)>> >>, <<3, "call", <<Ins(2)>> >>,
     <<4, "ret", <<>> >> >> >>)
Branching == Function(<<
  << <<1, "f", <<Arg(1)>> >>, <<2, "jump", <<Blk(2), Blk(3), Arg(1)>> >> >>,
  << <<3, "f", <<Const(3)>> >>, <<4, "jump", <<Blk(3)>> >> >>,
  << <<5, "phi", <<Ins(1), Blk(1), Ins(3), Blk(2)>> >>,
     <<6, "call", <<Ins(5)>> >>, <<7, "ret", <<>> >> >> >>)
SelfLoop == Function(<<
  << <<1, "jump", <<Blk(2)>> >> >>,
  << <<2, "phi", <<Arg(1), Blk(1), Ins(3), Blk(2)>> >>, <<3, "f", <<Ins(2)>> >>,
     <<4, "call", <<Ins(3)>> >>, <<5, "jump", <<Blk(2), Blk(3), Ins(3)>> >> >>,
  << <<6, "call", <<Ins(3)>> >>, <<7, "ret", <<>> >> >> >>)
Dead == Function(<<
  << <<1, "f", <<Arg(1)>> >>, <<2, "ret", <<>> >> >>,
  << <<3, "f", <<Const(1)>> >>, <<4, "jump", <<Blk(3)>> >> >>,
  << <<5, "call", <<Const(2)>> >>, <<6, "ret", <<>> >> >> >>)

Callers == {Straight, Branching, SelfLoop}
Callees == {Plain, TwoReturns, Joining}
Unit(m, f, g) == [n \in {"m", "f", "g"} |-> IF n = "m" THEN m ELSE IF n = "f" THEN f ELSE g]

MCUnits ==
  {Unit(Dead, f, g) : f \in {Plain, Large}, g \in Callees} \cup
  {Unit(m, f, g) : m \in Callers, f \in Callees \cup {Calling("g"), CallingIf("g")}, g \in Callees} \cup
  {Unit(m, CallingIf(n), CallingIf("f")) : m \in Callers, n \in {"f", "g"}} \cup
  {Unit(Straight, CallingIf("g"), CallingIf("g")), Unit(CallingIf("m"), Plain, Calling("f"))}

\* return; g(1): the callee is too large to be inlined.
DeadCall == {Unit(Function(<< << <<1, "call", <<Const(1)>> >>, <<2, "ret", <<>> >> >>,
                              << <<3, "f", <<Arg(1)>> >>, <<4, "ret", <<>> >> >> >>),
                  Joining, Plain)}

\* return; f(1): the callee stores what it returns in two places.
DeadBody == {Unit(Dead, TwoReturns, Plain)}

MCOrder == <<"m", "f", "g">>
MCInputs == [1..1 -> {0, 1}]
=============================================================================
