---------------------------- MODULE MCLiveRanges ----------------------------
(* Two virtual registers, a 64-bit and a 32-bit name of one physical         *)
(* register, and functions of three or four blocks.                          *)
EXTENDS LiveRanges

CONSTANTS v, w, rdi, edi

MCAliases == (rdi :> <<edi>>) @@ (edi :> <<rdi>>)
MCCanonical == [r \in {v, w, rdi, edi} |-> IF r = edi THEN rdi ELSE r]

Plain == [uses |-> {}, defs |-> {}, rets |-> {}, clobbers |-> {}, targets |-> {},
          jump |-> FALSE, falls |-> TRUE, call |-> FALSE]

Op(uses, defs) == [Plain EXCEPT !.uses = uses, !.defs = defs]
Call == [Plain EXCEPT !.clobbers = {rdi}, !.call = TRUE]
CallReturning == [Call EXCEPT !.rets = {edi}]

Jump(b) == [Plain EXCEPT !.targets = {b}, !.jump = TRUE, !.falls = FALSE]
CondJump(b) == [Plain EXCEPT !.targets = {b}, !.jump = TRUE]
Indirect(r) == [Plain EXCEPT !.uses = {r}, !.jump = TRUE, !.falls = FALSE]
Ret == [Plain EXCEPT !.falls = FALSE]

Function(bodies, ends, succs, liveIns) ==
  [code |-> [b \in DOMAIN bodies |-> bodies[b] \o ends[b]], succs |-> succs, liveIns |-> liveIns]

Ones(S) == {<<i>> : i \in S}

Ops == {Op({v}, {}), Op({}, {v}), Op({v}, {w}), Op({v}, {v}), Op({w}, {v}), Op({w}, {})}
Moves == {Op({}, {edi}), Op({rdi}, {v}), Op({edi}, {}), Op({rdi}, {})}
Start == {<<Op({}, {v}), Op({}, {w})>>, <<Op({}, {w}), Op({w}, {v})>>}

\* A loop of one block.
Loops ==
  {Function(<<x, y, z>>,
            <<<<Jump(2)>>, <<CondJump(2), Jump(3)>>, <<Ret>>>>,
            <<{2}, {2, 3}, {}>>, {rdi}) :
     x \in Start \cup {<<Op({}, {v})>>},
     y \in {<<i, j>> : i \in Ops \cup {Call}, j \in Ops \cup Moves},
     z \in Ones(Ops \cup {Op({rdi}, {})})}

\* A loop of two blocks that is left from its head.
LongLoops ==
  {Function(<<x, y, z, u>>,
            <<<<Jump(2)>>, <<CondJump(4), Jump(3)>>, <<Jump(2)>>, <<Ret>>>>,
            <<{2}, {3, 4}, {2}, {}>>, {edi}) :
     x \in Start,
     y \in Ones(Ops),
     z \in Ones(Ops \cup {Call, CallReturning}),
     u \in Ones({Op({v}, {}), Op({w}, {}), Op({edi}, {})})}

\* A switch: a jump through a register after the jump to the default.
Switches ==
  {Function(<<x, y, z, u>>,
            <<<<CondJump(2), Indirect(w)>>, <<Jump(4)>>, <<Jump(4)>>, <<Ret>>>>,
            <<{2, 3}, {4}, {4}, {}>>, {rdi}) :
     x \in {s \o <<i>> : s \in Start, i \in {Op({v}, {w}), Call, CallReturning}},
     y \in Ones(Ops \cup {Call}),
     z \in Ones(Ops),
     u \in Ones({Op({v}, {}), Op({w}, {}), Op({rdi}, {})})}

\* An argument that is used after a call.
CallsBetween(bodies, a) ==
  {Function(<<x>>, <<<<Ret>>>>, <<{}>>, {a}) : x \in bodies}

Arguments ==
  LET bodies == {s \o <<i, Call, j, k>> : s \in Start, i \in Moves, j \in Ops, k \in Moves}
  IN  CallsBetween(bodies, rdi) \cup CallsBetween(bodies, edi)

\* A jump on a constant, as instruction selection leaves it: one of the two
\* successors has no jump any more.
ConstantJumps ==
  {Function(<<x, y, z>>,
            <<<<Jump(2)>>, <<Ret>>, <<Ret>>>>,
            <<{2, 3}, {}, {}>>, {rdi}) :
     x \in Start, y \in Ones(Ops), z \in Ones({Op({w}, {}), Op({}, {v}), Op({rdi}, {})})}

MCPrograms ==
  {f \in Loops \cup LongLoops \cup Switches \cup Arguments \cup ConstantJumps : Strict(f)}

ASSUME EdgesAssumption == \A f \in MCPrograms \ ConstantJumps : EdgesTaken(f)

\* An argument of the register's full width that is used after a call, and a
\* virtual register that is written before it.
WideArguments ==
  {f \in CallsBetween({<<i, j, Call, k>> : i \in Ops, j \in Ops, k \in Moves}, rdi) : Strict(f)}

\* An argument of the full width that is used by its narrow name only, which
\* is a read of a part of what the caller wrote.
NarrowUses ==
  LET Between == {Call, Op({v}, {}), Op({}, {v}), Op({v}, {v})}
  IN  CallsBetween({<<Op({}, {v}), i, j, k, Op({edi}, {})>> : i \in Between, j \in Between, k \in Between}, rdi)

\* A register that is written by its narrow name before a call, and widened
\* by the instruction behind it.
Widened == CallsBetween({<<Op({}, {edi}), Call, Op({edi}, {rdi}), Op({rdi}, {})>>}, rdi)
=============================================================================
