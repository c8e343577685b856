---------------------------- MODULE A64Patterns ----------------------------
(* The patterns of AArch64_patterns.cpp, on the cases of X64Patterns.  An    *)
(* instruction has an opcode, the width its register names have (there are   *)
(* names of four and of eight bytes only, and the printer leaves the width   *)
(* to them), a destination and up to three operands <<"r", name>>, <<"w",    *)
(* name>> (the four-byte name of an eight-byte place) or <<"i", v>>.         *)
(* tmp is the reserved register.                                             *)
EXTENDS MachineArithmetic

R(name) == <<"r", name>>
IsImm(o) == o[1] = "i"
I(op, w, d, a) == [op |-> op, w |-> w, d |-> d, a |-> a]
Ret == R("ret")
Tmp == R("tmp")
Zero == R("zero")
Half(n) == <<"i", n>>

\* The class of a value's virtual register: GPR64 for eight bytes, else GPR32
Width(s) == IF s = 8 THEN 8 ELSE 4
Left(c) == IF IsImm(c.l) THEN c.l ELSE R("left")
Right(c) == IF IsImm(c.r) THEN c.r ELSE R("right")

------------------------------------------------------------------------------
\* Chunk n of sixteen bits of a value extended to 64 bits
Chunk(v, n) == (v \div 2 ^ (n * Bits[2])) % 2 ^ Bits[2]
\* movz or movn of the lowest chunk, whichever leaves the smaller number, then a
\* movk for every chunk that is not what that made it
Materialize(v, s) ==
    LET top == 2 ^ Bits[2] - 1
        negated == top - Chunk(v, 0) < Chunk(v, 0)
        rest == IF negated THEN top ELSE 0
        wrong == SelectSeq(IF s <= 4 THEN <<1>> ELSE <<1, 2, 3>>, LAMBDA n : Chunk(v, n) # rest)
        w == Width(s)
    IN  <<IF negated THEN I("movn", w, Tmp, <<<<"i", top - Chunk(v, 0)>>>>)
                     ELSE I("movz", w, Tmp, <<<<"i", Chunk(v, 0)>>>>)>>
          \o [k \in 1..Len(wrong) |-> I("movk", w, Tmp, <<<<"i", Chunk(v, wrong[k])>>, Half(wrong[k])>>)]

\* getImmediate: a constant of one byte stays an immediate, any other goes to
\* the reserved register
Immediate(o, s) ==
    IF IsImm(o) /\ s > 1 THEN [code |-> Materialize(o[2], s), op |-> Tmp] ELSE [code |-> <<>>, op |-> o]
\* Where an instruction takes registers only
InRegister(o, s) ==
    IF ~IsImm(o) THEN [code |-> <<>>, op |-> o]
    ELSE IF s > 1 THEN Immediate(o, s)
    ELSE [code |-> <<I("movz", 4, Tmp, <<o>>)>>, op |-> Tmp]

\* move between registers is an orr with the zero register
Move(w, from, to) == <<I("orr", w, to, <<from, Zero>>)>>

\* --------------------------------------------------------------- two operands
\* A result of one instruction: the operand that may be a constant is fetched
\* first.  Two constants of one byte become a movz; wider ones return the
\* reserved register and leave the result unwritten.
Three(op, c, a, b) ==
    LET x == Immediate(a, c.s)
        y == Immediate(b, c.s)
    IN  x.code \o y.code \o <<I(op, Width(c.s), Ret, <<x.op, y.op>>)>>
TwoConstants(v, s) ==
    IF s > 1 THEN Immediate(<<"i", v>>, s).code ELSE <<I("movz", 4, Ret, <<<<"i", v>>>>)>>
EmitAdd(c) ==
    CASE IsImm(c.l) /\ IsImm(c.r) -> TwoConstants(c.l[2] + c.r[2], c.s)
      [] IsImm(c.l) /\ ~IsImm(c.r) -> Three("add", c, Right(c), Left(c))
      [] OTHER -> Three("add", c, Left(c), Right(c))
EmitSub(c) ==
    IF IsImm(c.l) /\ IsImm(c.r) THEN TwoConstants(c.l[2] - c.r[2], c.s) ELSE Three("sub", c, Left(c), Right(c))
EmitMul(c) ==
    LET x == InRegister(Left(c), c.s)
        y == InRegister(Right(c), c.s)
    IN  IF IsImm(c.l) /\ IsImm(c.r) THEN TwoConstants(c.l[2] * c.r[2], c.s)
        ELSE x.code \o y.code \o <<I("mul", Width(c.s), Ret, <<x.op, y.op>>)>>

\* Mutant: the remainder's product goes to the reserved register, where the divisor is
RemainderInTmp(c) ==
    LET x == InRegister(Left(c), c.s)
        y == InRegister(Right(c), c.s)
        op == IF c.k \in {"IDiv", "IRem"} THEN "sdiv" ELSE "udiv"
    IN  x.code \o y.code
          \o (IF c.k \in {"IDiv", "UDiv"} THEN <<I(op, Width(c.s), Ret, <<x.op, y.op>>)>>
              ELSE <<I(op, Width(c.s), Tmp, <<x.op, y.op>>),
                     I("msub", Width(c.s), Ret, <<Tmp, y.op, x.op>>)>>)
\* A quotient, and for a remainder what the quotient leaves.  Two constants throw.
EmitDivision(c) ==
    LET x == InRegister(Left(c), c.s)
        y == InRegister(Right(c), c.s)
        op == IF c.k \in {"IDiv", "IRem"} THEN "sdiv" ELSE "udiv"
    IN  x.code \o y.code
          \o <<I(op, Width(c.s), Ret, <<x.op, y.op>>)>>
          \o (IF c.k \in {"IDiv", "UDiv"} THEN <<>> ELSE <<I("msub", Width(c.s), Ret, <<Ret, y.op, x.op>>)>>)

\* A count in a register: lslv, lsrv, asrv.  A constant count becomes a bit field
\* move; the one for ShiftLeft rotates by bytes where it should by bits.
ShiftOp(k) == CASE k = "ShiftLeft" -> "lslv" [] k = "LShiftRight" -> "lsrv" [] k = "AShiftRight" -> "asrv"
ShiftRegister(c) == <<I(ShiftOp(c.k), Width(c.s), Ret, <<Left(c), Right(c)>>)>>
ShiftImmediate(c) ==
    LET w == Width(c.s)
        n == c.r[2] % Bits[w]
    IN  <<I(IF c.k = "AShiftRight" THEN "sbfm" ELSE "ubfm", w, Ret,
            <<Left(c), <<"i", IF c.k = "ShiftLeft" THEN w - n ELSE n>>, <<"i", Bits[w] - 1>>>>)>>
EmitShift(c) == IF IsImm(c.r) THEN ShiftImmediate(c) ELSE ShiftRegister(c)

\* Xor of a two-byte value with a constant has the opcode of Or
LogicOp(c) ==
    CASE c.k = "And" -> "and"
      [] c.k = "Or" -> "orr"
      [] c.k = "Xor" -> IF c.s = 2 /\ IsImm(c.r) THEN "orr" ELSE "eor"
EmitLogic(c) == Three(LogicOp(c), c, Left(c), Right(c))

\* ---------------------------------------------------------- comparisons, jumps
\* The condition of a branch after subs of integers or fcmp of floats
ConditionCode(k) ==
    CASE k \in {"ICmpEq", "FCmpEq"} -> "eq"  [] k \in {"ICmpNe", "FCmpNe"} -> "ne"
      [] k = "ICmpGt" -> "gt"                [] k \in {"UCmpGt", "FCmpGt"} -> "hi"
      [] k = "ICmpGe" -> "ge"                [] k \in {"UCmpGe", "FCmpGe"} -> "cs"
      [] k = "ICmpLt" -> "lt"                [] k \in {"UCmpLt", "FCmpLt"} -> "cc"
      [] k = "ICmpLe" -> "le"                [] k \in {"UCmpLe", "FCmpLe"} -> "ls"
\* csinc of two zeroes is 1 when its condition fails
Reverse(code) ==
    CASE code = "eq" -> "ne" [] code = "ne" -> "eq" [] code = "gt" -> "le" [] code = "le" -> "gt"
      [] code = "ge" -> "lt" [] code = "lt" -> "ge" [] code = "hi" -> "ls" [] code = "ls" -> "hi"
      [] code = "cs" -> "cc" [] code = "cc" -> "cs"

\* subs into the zero register, the constant second whichever side it was on
Compare(c) ==
    LET constant == Immediate(IF IsImm(c.l) THEN Left(c) ELSE Right(c), c.s)
    IN  constant.code \o <<I("subs", Width(c.s), Zero, <<IF IsImm(c.l) THEN Right(c) ELSE Left(c), constant.op>>)>>
Branch(code) == <<I("bcc", 8, <<"then">>, <<<<code>>>>), I("b", 8, <<"else">>, <<>>)>>
EmitCondJump(c) ==
    CASE c.l[1] = "f" -> <<I("fcmp", 8, R("fleft"), <<R("fright")>>)>> \o Branch(ConditionCode(c.k))
      [] IsImm(c.l) /\ IsImm(c.r) ->
            <<I("b", 8, IF Relation(c.k, c.l[2], c.r[2]) THEN <<"then">> ELSE <<"else">>, <<>>)>>
      [] OTHER -> Compare(c) \o Branch(ConditionCode(c.k))
EmitCondJumpRegister(c) == <<I("subs", Width(c.s), Zero, <<Left(c), <<"i", 0>>>>)>> \o Branch("ne")
\* As a value: csinc with the zero register of the operands' width.  Of two
\* registers the subs gets two operands only.
EmitCmp(c) ==
    CASE IsImm(c.l) /\ IsImm(c.r) ->
            <<I("movz", 4, Ret,
                <<<<"i", Truth(CompareMeaning(c.k, 8, Mod(c.l[2], 8), Mod(c.r[2], 8)))>>>>)>>
      [] IsImm(c.l) # IsImm(c.r) ->
            Compare(c) \o <<I("csinc", Width(c.s), <<"w", "ret">>, <<Zero, Zero, <<Reverse(ConditionCode(c.k))>>>>)>>
      [] OTHER ->
            <<I("subs", Width(c.s), Left(c), <<Right(c)>>),
              I("csinc", Width(c.s), <<"w", "ret">>, <<Zero, Zero, <<Reverse(ConditionCode(c.k))>>>>)>>

\* ---------------------------------------------------------------------- casts
\* The width of the operand is that of its register, so one and two bytes count
\* as four: c.s is the size of the operand's type, c.to of the result
EmitZext(c) ==
    CASE c.to = 8 /\ c.s < 8 -> Move(4, Left(c), <<"w", "ret">>)
      [] c.to = 4 -> <<I("and", 4, Ret, <<Left(c), <<"i", 2 ^ Bits[2] - 1>>>>)>>
      [] c.to = 2 -> <<I("ubfm", 4, Ret, <<Left(c), <<"i", 0>>, <<"i", Bits[1] - 1>>>>)>>
      [] OTHER -> <<>>
EmitSext(c) == <<I("sbfm", Width(c.to), Ret, <<Left(c), <<"i", 0>>, <<"i", Bits[Width(c.s)] - 1>>>>)>>
\* To four bytes under the narrow name, else the field, of a source that keeps its name
EmitTrunc(c) ==
    IF c.to = 4 THEN Move(4, <<"w", "left">>, Ret)
    ELSE <<I("ubfm", 4, Ret, <<IF c.s = 8 THEN <<"x", "left">> ELSE Left(c), <<"i", 0>>, <<"i", Bits[c.to] - 1>>>>)>>

\* --------------------------------------------------------------------- floats
EmitFloat(c) ==
    <<I(CASE c.k = "FAdd" -> "fadd" [] c.k = "FSub" -> "fsub" [] c.k = "FMul" -> "fmul" [] c.k = "FDiv" -> "fdiv",
        8, R("fret"), <<R("fleft"), R("fright")>>)>>
EmitFptoi(c) == <<I(IF c.k = "Fptosi" THEN "fcvtzs" ELSE "fcvtzu", Width(c.to), Ret, <<R("fleft")>>)>>
EmitItofp(c) == <<I(IF c.k = "Sitofp" THEN "scvtf" ELSE "ucvtf", Width(c.s), R("fret"), <<Left(c)>>)>>
EmitFpcast(c) == <<I("fcvt", 8, R("fret"), <<R("fleft")>>)>>

\* --------------------------------------------------------------------- memory
\* adrp and add of the symbol put a global's address into the reserved register
Base(c) == CASE c.base = "frame" -> R("x29") [] c.base = "ptr" -> R("ptr") [] c.base = "global" -> Tmp
Offset(c, n) == <<"i", (IF c.base = "frame" THEN -c.offset ELSE 0) + n>>
GlobalAddress(c) ==
    IF c.base # "global" THEN <<>>
    ELSE <<I("adrp", 8, Tmp, <<<<"i", c.offset - (c.offset % 2 ^ Bits[2])>>>>),
           I("add", 8, Tmp, <<Tmp, <<"i", c.offset % 2 ^ Bits[2]>>>>)>>
\* The constant is fetched after the global's address, into the same register;
\* the address of a slot is computed and then stored nowhere.  The opcode has the
\* width of the pointer, but the text names a register, and that has the value's
EmitStore(c) ==
    LET value == InRegister(Left(c), c.s)
    IN  GlobalAddress(c)
          \o (IF c.l[1] = "slot" THEN <<I("sub", 8, Tmp, <<R("x29"), <<"i", c.l[2]>>>>)>>
              ELSE value.code \o <<I("str", Width(c.s), value.op, <<Base(c), Offset(c, 0)>>)>>)
EmitLoad(c) == GlobalAddress(c) \o <<I("ldr", Width(c.s), Ret, <<Base(c), Offset(c, 0)>>)>>
\* The second part is as far behind the first as its register is wide
EmitLoadMulti(c) ==
    GlobalAddress(c)
      \o <<I("ldr", Width(c.s), Ret, <<Base(c), Offset(c, 0)>>),
           I("ldr", Width(c.s), R("ret2"), <<Base(c), Offset(c, Width(c.s))>>)>>

\* As in X64Patterns, constants only: a register index is added to the base
\* itself, and a total of 0 leaves the result unwritten
Distance(type, n) ==
    LET before[i \in 0..Len(type[3])] == IF i = 0 THEN 0 ELSE before[i - 1] + type[3][i][2]
    IN  IF type[1] = "struct" THEN before[n] ELSE (IF n < 0 THEN -n ELSE n) * type[3][1][2]
EmitGEP(c) ==
    LET start == [off |-> IF c.base = "frame" THEN -c.offset ELSE 0, type |-> c.type, code |-> <<>>]
        index(step, o) ==
            IF IsImm(o)
            THEN [step EXCEPT !.off = @ + Distance(step.type, o[2]),
                              !.type = step.type[3][IF step.type[1] = "struct" THEN o[2] + 1 ELSE 1]]
            ELSE [step EXCEPT !.off = 0,
                    !.code = @ \o Move(8, R("right"), R("index"))
                               \o Materialize(IF step.type[3][1][1] = "array" THEN c.pointer ELSE step.type[3][1][2], 8)
                               \o <<I("mul", 8, R("index"), <<R("index"), Tmp>>),
                                    I("add", 8, Base(c), <<Base(c), R("index")>>)>>]
        step[n \in 0..Len(c.path)] == IF n = 0 THEN start ELSE index(step[n - 1], c.path[n])
        end == step[Len(c.path)]
        size == IF end.off < 0 THEN -end.off ELSE end.off
    IN  end.code
          \o (IF size = 0 THEN <<>>
              ELSE IF FitsSigned(end.off, 1)
              THEN <<I(IF end.off < 0 THEN "sub" ELSE "add", 8, Ret, <<Base(c), <<"i", size>>>>)>>
              ELSE Materialize(size, 4)
                     \o <<I(IF end.off < 0 THEN "sub" ELSE "add", 8, Ret, <<Base(c), <<"w", "tmp">>>>)>>)
\* The number of bytes in a virtual register of its own
EmitDynamicAllocation(c) ==
    Materialize(c.size, 8)
      \o <<I("mul", 8, R("size"), <<R("left"), Tmp>>)>>
      \o (IF c.size % c.align # 0
          THEN <<I("add", 8, R("size"), <<R("size"), <<"i", c.align - 1>>>>),
                 I("and", 8, R("size"), <<R("size"), <<"i", -c.align>>>>)>> ELSE <<>>)
      \o <<I("sub", 8, R("rsp"), <<R("rsp"), R("size")>>),
           I("add", 8, Ret, <<R("rsp"), <<"i", 0>>>>)>>

\* The table of patterns by opcode
EmitA64(c) ==
    CASE c.k = "Add" -> EmitAdd(c)
      [] c.k = "Sub" -> EmitSub(c)
      [] c.k \in {"IMul", "UMul"} -> EmitMul(c)
      [] c.k \in {"IDiv", "UDiv", "IRem", "URem"} -> EmitDivision(c)
      [] c.k \in {"ShiftLeft", "LShiftRight", "AShiftRight"} -> EmitShift(c)
      [] c.k \in {"And", "Or", "Xor"} -> EmitLogic(c)
      [] c.k \in Compares \union FCompares -> IF c.jump THEN EmitCondJump(c) ELSE EmitCmp(c)
      [] c.k = "Jump" -> EmitCondJumpRegister(c)
      [] c.k = "Zext" -> EmitZext(c)
      [] c.k = "Sext" -> EmitSext(c)
      [] c.k = "Trunc" -> EmitTrunc(c)
      [] c.k \in {"FAdd", "FSub", "FMul", "FDiv"} -> EmitFloat(c)
      [] c.k \in {"Fptosi", "Fptoui"} -> EmitFptoi(c)
      [] c.k \in {"Sitofp", "Uitofp"} -> EmitItofp(c)
      [] c.k \in {"Fptrunc", "Fpext"} -> EmitFpcast(c)
      [] c.k = "Store" -> EmitStore(c)
      [] c.k = "Load" -> EmitLoad(c)
      [] c.k = "LoadMulti" -> EmitLoadMulti(c)
      [] c.k = "GetElementPtr" -> EmitGEP(c)
      [] c.k = "Allocate" -> EmitDynamicAllocation(c)
==============================================================================
