---------------------------- MODULE X64Patterns ----------------------------
(* The patterns of x64_patterns.cpp: for an IR operation, the machine        *)
(* instructions it becomes.  A case c is an operation with its operands:     *)
(*   k, s      opcode, size of the result (of the operands in a comparison)  *)
(*   l, r      operands, <<"r", v>> a register that holds v, <<"i", v>> a    *)
(*             constant of value v                                           *)
(*   opt       optimisation level                                            *)
(* and what single kinds need besides.  An instruction is an opcode without  *)
(* its size suffix, its size and two operands; an operand is <<"r", name>>,  *)
(* <<"i", v>>, a memory operand <<"m", base, index, scale, displacement>>, or *)
(* <<"x", name, v>>, a register and an immediate.                            *)
(* Virtual registers are left, right and ret (f... for floats); tmp is r15,  *)
(* the reserved register every pattern shares.                               *)
EXTENDS MachineArithmetic

R(name) == <<"r", name>>
IsImm(o) == o[1] = "i"
I(op, s, d, a) == [op |-> op, s |-> s, d |-> d, a |-> a]
None == <<"none">>
Ret == R("ret")
Tmp == R("tmp")

Left(c) == IF IsImm(c.l) THEN c.l ELSE R("left")
Right(c) == IF IsImm(c.r) THEN c.r ELSE R("right")

\* InstructionInfo::move of an operand to a register.  An immediate of eight
\* bytes is a movabs if immSizeFromValue says so, else a mov of a signed imm32.
Move(s, from, to) ==
    <<I(IF IsImm(from) /\ s = 8 /\ ~FitsSigned(from[2], 4) THEN "movabs" ELSE "mov", s, to, from)>>

\* ---------------------------------------------------------- sums, differences
\* The constant is on the left: the commutative patterns take the operands in
\* the other order
Swapped(c) == IsImm(c.l)
Variable(c) == IF Swapped(c) THEN Right(c) ELSE Left(c)
Constant(c) == IF Swapped(c) THEN Left(c) ELSE Right(c)

AddImmediates(c) == Move(c.s, <<"i", c.l[2] + c.r[2]>>, Ret)
AddRegisters(c) == <<I("mov", c.s, Ret, Left(c)), I("add", c.s, Ret, Right(c))>>
AddRegistersLea(c) == <<I("lea", c.s, Ret, <<"m", "left", "right", 1, 0>>)>>
AddRegisterImmediate(c) == <<I("mov", c.s, Ret, Variable(c)), I("add", c.s, Ret, Constant(c))>>

\* Mutant: lea is taken for every size
AddLeaAlways(c) == IF IsImm(c.l) \/ IsImm(c.r) THEN AddRegisterImmediate(c) ELSE AddRegistersLea(c)
\* Lea costs 9, the others 10; it needs O1 and a size that lea has
EmitAdd(c) ==
    CASE IsImm(c.l) /\ IsImm(c.r) -> AddImmediates(c)
      [] IsImm(c.l) # IsImm(c.r) -> AddRegisterImmediate(c)
      [] OTHER -> IF c.opt > 0 /\ c.s > 1 THEN AddRegistersLea(c) ELSE AddRegisters(c)

SubImmediates(c) == Move(c.s, <<"i", c.l[2] - c.r[2]>>, Ret)
\* Mutant: the difference is computed in the left operand
SubInPlace(c) == <<I("sub", c.s, Left(c), Right(c)), I("mov", c.s, Ret, Left(c))>>
SubRegisters(c) == <<I("mov", c.s, Ret, Left(c)), I("sub", c.s, Ret, Right(c))>>
SubRegisterImmediate(c) == Move(c.s, Left(c), Ret) \o <<I("sub", c.s, Ret, Right(c))>>

EmitSub(c) ==
    CASE IsImm(c.l) /\ IsImm(c.r) -> SubImmediates(c)
      [] IsImm(c.l) # IsImm(c.r) -> SubRegisterImmediate(c)
      [] OTHER -> SubRegisters(c)

\* ------------------------------------------------------------------- products
\* There is no imul of one byte with two operands: selectOpcode gives opcode 0
IMulOp(s, op) == IF s = 1 THEN "none" ELSE op
IMulRegisterImmediate(c) ==
    <<I(IMulOp(c.s, "imul3"), c.s, Ret, <<"x", Variable(c)[2], Constant(c)[2]>>)>>
IMulRegisterRegister(c) == Move(c.s, Left(c), Ret) \o <<I(IMulOp(c.s, "imul"), c.s, Ret, Right(c))>>
EmitIMul(c) == IF IsImm(c.l) \/ IsImm(c.r) THEN IMulRegisterImmediate(c) ELSE IMulRegisterRegister(c)
EmitUMul(c) ==
    Move(c.s, Left(c), R("rax")) \o Move(c.s, Right(c), Tmp)
      \o <<I("mul", c.s, None, Tmp)>> \o Move(c.s, R("rax"), Ret)

\* ------------------------------------------------------ quotients, remainders
\* The dividend in rax (signed: extended into rdx; unsigned: rdx zeroed with an
\* instruction of eight bytes), the divisor in the reserved register
Dividend(c) ==
    Move(c.s, Left(c), R("rax")) \o Move(c.s, Right(c), Tmp)
      \o IF c.k \in {"IDiv", "IRem"} THEN <<I("extend", c.s, None, None)>>
         ELSE <<I("xor", 8, R("rdx"), R("rdx"))>>
EmitDivision(c) ==
    Dividend(c)
      \o <<I(IF c.k \in {"IDiv", "IRem"} THEN "idiv" ELSE "div", c.s, None, Tmp)>>
      \o Move(c.s, IF c.k \in {"IDiv", "UDiv"} THEN R("rax") ELSE R("rdx"), Ret)

\* --------------------------------------------------------------------- shifts
ShiftOp(k) == CASE k = "ShiftLeft" -> "shl" [] k = "LShiftRight" -> "shr" [] k = "AShiftRight" -> "sar"

ShiftImmediate(c) == Move(c.s, Left(c), Ret) \o <<I(ShiftOp(c.k), c.s, Ret, Right(c))>>
\* Mutant: the value is moved before the count, which is in the same register
ShiftInCounter(c) ==
    Move(c.s, Left(c), R("rcx")) \o Move(1, Right(c), R("rcx"))
      \o <<I(ShiftOp(c.k), c.s, R("rcx"), R("rcx"))>> \o Move(c.s, R("rcx"), Ret)
ShiftRegister(c) ==
    Move(1, Right(c), R("rcx")) \o Move(c.s, Left(c), Ret)
      \o <<I(ShiftOp(c.k), c.s, Ret, R("rcx"))>>
\* The table registers emitLShiftRightImmediateInv for AShiftRight as well
ShiftImmediateInv(c) ==
    Move(1, Right(c), R("rcx")) \o Move(c.s, Left(c), Ret)
      \o <<I(IF c.k = "AShiftRight" THEN "shr" ELSE ShiftOp(c.k), c.s, Ret, R("rcx"))>>
EmitShift(c) ==
    CASE IsImm(c.r) -> ShiftImmediate(c)
      [] IsImm(c.l) -> ShiftImmediateInv(c)
      [] OTHER -> ShiftRegister(c)

\* ---------------------------------------------------------------- and, or, xor
LogicOp(k) == CASE k = "And" -> "and" [] k = "Or" -> "or" [] k = "Xor" -> "xor"

LogicRegister(c) == Move(c.s, Left(c), Ret) \o <<I(LogicOp(c.k), c.s, Ret, Right(c))>>
\* The instruction of eight bytes takes registers only.  emitXorImmediate asks
\* whether its opcode is Or64rr, and so leaves the immediate where it is.
LogicImmediate(c) ==
    Move(c.s, Left(c), Ret)
      \o (IF c.s = 8 /\ c.k # "Xor"
          THEN Move(8, Right(c), Tmp) \o <<I(LogicOp(c.k), 8, Ret, Tmp)>>
          ELSE <<I(IF c.s = 8 THEN "xor64rr" ELSE LogicOp(c.k), c.s, Ret, Right(c))>>)
EmitLogic(c) == IF IsImm(c.r) THEN LogicImmediate(c) ELSE LogicRegister(c)

\* ---------------------------------------------------------- comparisons, jumps
\* The condition after the kind of a comparison, the same for jcc and setcc
ConditionCode(k) ==
    CASE k \in {"ICmpEq", "FCmpEq"} -> "e"   [] k \in {"ICmpNe", "FCmpNe"} -> "ne"
      [] k = "ICmpGt" -> "g"                 [] k \in {"UCmpGt", "FCmpGt"} -> "a"
      [] k = "ICmpGe" -> "ge"                [] k \in {"UCmpGe", "FCmpGe"} -> "ae"
      [] k = "ICmpLt" -> "l"                 [] k \in {"UCmpLt", "FCmpLt"} -> "b"
      [] k = "ICmpLe" -> "le"                [] k \in {"UCmpLe", "FCmpLe"} -> "be"

\* cmp of a register with a constant, the constant always second.  An immediate
\* of eight bytes goes through the reserved register.
CompareImmediate(c) ==
    IF c.s # 8 THEN <<I("cmp", c.s, Variable(c), Constant(c))>>
    ELSE Move(8, Constant(c), Tmp) \o <<I("cmp", 8, Variable(c), Tmp)>>
CompareRegisters(c) == <<I("cmp", c.s, Left(c), Right(c))>>

\* The result of a comparison as a value
CmpImmediateImmediate(c) ==
    <<I("mov", 1, Ret, <<"i", Truth(CompareMeaning(c.k, 8, Mod(c.l[2], 8), Mod(c.r[2], 8)))>>)>>
EmitCmp(c) ==
    CASE IsImm(c.l) /\ IsImm(c.r) -> CmpImmediateImmediate(c)
      [] OTHER -> (IF IsImm(c.l) \/ IsImm(c.r) THEN CompareImmediate(c) ELSE CompareRegisters(c))
                    \o <<I("set", 1, Ret, <<ConditionCode(c.k)>>)>>

\* A jump that covers the comparison it depends on; "then" is operand 0
JumpOn(code) == <<I("jcc", 8, <<"then">>, <<code>>), I("jmp", 8, <<"else">>, None)>>
CondJumpComparisonII(c) ==
    <<I("jmp", 8, IF Relation(c.k, c.l[2], c.r[2]) THEN <<"then">> ELSE <<"else">>, None)>>
EmitCondJump(c) ==
    CASE c.l[1] = "f" -> <<I("ucomi", c.s, R("fleft"), R("fright"))>> \o JumpOn(ConditionCode(c.k))
      [] IsImm(c.l) /\ IsImm(c.r) -> CondJumpComparisonII(c)
      [] IsImm(c.l) # IsImm(c.r) -> CompareImmediate(c) \o JumpOn(ConditionCode(c.k))
      [] OTHER -> CompareRegisters(c) \o JumpOn(ConditionCode(c.k))
\* A jump on a register: i1 is a byte that holds 0 or 1
EmitCondJumpRegister(c) == <<I("test", c.s, Left(c), Left(c))>> \o JumpOn("ne")

\* ---------------------------------------------------------------------- casts
\* c.s is the size of the operand, c.to of the result
\* Writing the four-byte name of the result clears the rest of it
EmitZext(c) ==
    CASE c.to = 1 -> <<>>
      [] c.to = 8 /\ c.s = 4 -> <<I("mov", 4, Ret, Left(c))>>
      [] OTHER -> <<I("movzx", c.to, Ret, <<"n", "left", c.s>>)>>
EmitSext(c) ==
    IF c.to = 1 THEN <<>> ELSE <<I("movsx", c.to, Ret, <<"n", "left", c.s>>)>>
\* The source under its narrow name
EmitTrunc(c) == Move(c.to, Left(c), Ret)

\* --------------------------------------------------------------------- floats
\* c.k names the operation, operands are fleft and fright
EmitFloat(c) ==
    <<I("movs", 8, R("fret"), R("fleft")),
      I(CASE c.k = "FAdd" -> "adds" [] c.k = "FSub" -> "subs"
          [] c.k = "FMul" -> "muls" [] c.k = "FDiv" -> "divs", 8, R("fret"), R("fright"))>>
\* cvtss2si and cvtsd2si round as MXCSR says; both signednesses use them.
\* The other sizes throw.
EmitFptoi(c) ==
    IF c.to \in {1, 4} THEN <<I("cvt2si", 4, Ret, R("fleft"))>> ELSE <<I("none", 8, Ret, R("fleft"))>>
\* Less than four bytes: the register under its four-byte name
EmitSitofp(c) == <<I("cvtsi2", IF c.s < 4 THEN 4 ELSE c.s, R("fret"), R("left"))>>
EmitUitofp(c) ==
    IF c.s \in {1, 4} THEN <<I("cvtsi2", 4, R("fret"), R("left"))>> ELSE <<I("none", 8, R("fret"), R("left"))>>
\* Single and double have the same values here
EmitFpcast(c) == <<I("movs", 8, R("fret"), R("fleft"))>>

\* --------------------------------------------------------------------- memory
\* c.base is what holds the address: a stack slot ("frame"), a register ("ptr")
\* or a global, whose address goes into the reserved register
Place(c) ==
    CASE c.base = "frame" -> <<"m", "rbp", "zero", 1, -c.offset>>
      [] c.base = "ptr" -> <<"m", "ptr", "zero", 1, 0>>
      [] c.base = "global" -> <<"m", "tmp", "zero", 1, 0>>
\* emitGlobalValue; the address of the global itself is relative to rip
GlobalAddress(c) ==
    IF c.base = "global" THEN <<I("lea", 8, Tmp, <<"m", "rip", "zero", 1, c.offset>>)>> ELSE <<>>
\* The address of a slot as a value, or a constant that needs a movabs (only a
\* store into a slot makes one), is fetched before the address of the global
StoredValue(c) ==
    CASE c.l[1] = "slot" -> <<I("lea", 8, Tmp, <<"m", "rbp", "zero", 1, -c.l[2]>>)>>
      [] IsImm(c.l) /\ c.base = "frame" /\ ~FitsSigned(c.l[2], 4) -> Move(8, c.l, Tmp)
      [] OTHER -> <<>>
EmitStore(c) ==
    StoredValue(c) \o GlobalAddress(c)
      \o <<I("store", c.s, Place(c), IF StoredValue(c) = <<>> THEN Left(c) ELSE Tmp)>>
EmitLoad(c) == GlobalAddress(c) \o <<I("load", c.s, Ret, Place(c))>>
\* An aggregate of two registers: each part c.s further on
EmitLoadMulti(c) ==
    LET part(n) == <<"m", Place(c)[2], "zero", 1, Place(c)[5] + n * c.s>>
    IN  GlobalAddress(c) \o <<I("load", c.s, Ret, part(0)), I("load", c.s, R("ret2"), part(1))>>

\* A type is <<kind, size, parts>>: one part for a pointer or an array, one per
\* field for a struct.  The distance from the start of a type to its part n, the
\* sign of n ignored.
Distance(type, n) ==
    LET before[i \in 0..Len(type[3])] == IF i = 0 THEN 0 ELSE before[i - 1] + type[3][i][2]
    IN  IF type[1] = "struct" THEN before[n] ELSE (IF n < 0 THEN -n ELSE n) * type[3][1][2]
\* Constants add up in curOff and step into the type.  A register index steps
\* over parts with a lea from what came before and starts curOff again; a scale
\* the addressing cannot express is multiplied in rax, and an array in an array
\* counts as a pointer.
Index(step, index, pointerSize) ==
    IF IsImm(index)
    THEN [step EXCEPT
            !.off = @ + Distance(step.type, index[2]),
            !.type = step.type[3][IF step.type[1] = "struct" THEN index[2] + 1 ELSE 1]]
    ELSE LET part == step.type[3][1]
             scale == IF part[1] = "array" THEN pointerSize ELSE part[2]
         IN  [step EXCEPT
                !.off = 0, !.base = "ret",
                !.code = @ \o (IF scale > 8
                               THEN Move(8, R("right"), R("rax")) \o Move(8, <<"i", scale>>, Tmp)
                                      \o <<I("mul", 8, None, Tmp),
                                           I("lea", 8, Ret, <<"m", step.base, "rax", 1, 0>>)>>
                               ELSE <<I("lea", 8, Ret, <<"m", step.base, "right", scale, 0>>)>>)]
EmitGEP(c) ==
    LET start == [off |-> IF c.base = "frame" THEN -c.offset ELSE 0,
                  base |-> IF c.base = "frame" THEN "rbp" ELSE "ptr",
                  type |-> c.type, code |-> <<>>]
        step[n \in 0..Len(c.path)] == IF n = 0 THEN start ELSE Index(step[n - 1], c.path[n], c.pointer)
        end == step[Len(c.path)]
    IN  end.code \o (IF end.off = 0 THEN Move(8, R(end.base), Ret)
                      ELSE <<I("lea", 8, Ret, <<"m", end.base, "zero", 1, end.off>>)>>)

\* An allocation of l elements of c.size bytes, rounded up to the alignment of
\* the stack unless the element is a multiple of it
EmitDynamicAllocation(c) ==
    <<I("imul3", 8, Tmp, <<"x", "left", c.size>>)>>
      \o (IF c.size % c.align # 0
          THEN <<I("add", 8, Tmp, <<"i", c.align - 1>>), I("and", 8, Tmp, <<"i", -c.align>>)>> ELSE <<>>)
      \o <<I("sub", 8, R("rsp"), Tmp)>> \o Move(8, R("rsp"), Ret)

\* selectPattern: the table of patterns by opcode
EmitX64(c) ==
    CASE c.k = "Add" -> EmitAdd(c)
      [] c.k = "Sub" -> EmitSub(c)
      [] c.k = "IMul" -> EmitIMul(c)
      [] c.k = "UMul" -> EmitUMul(c)
      [] c.k \in {"IDiv", "UDiv", "IRem", "URem"} -> EmitDivision(c)
      [] c.k \in {"ShiftLeft", "LShiftRight", "AShiftRight"} -> EmitShift(c)
      [] c.k \in {"And", "Or", "Xor"} -> EmitLogic(c)
      [] c.k \in Compares \union FCompares -> IF c.jump THEN EmitCondJump(c) ELSE EmitCmp(c)
      [] c.k = "Jump" -> EmitCondJumpRegister(c)
      [] c.k = "Zext" -> EmitZext(c)
      [] c.k = "Sext" -> EmitSext(c)
      [] c.k = "Trunc" -> EmitTrunc(c)
      [] c.k \in {"FAdd", "FSub", "FMul", "FDiv"} -> EmitFloat(c)
      [] c.k \in {"Fptosi", "Fptoui"} -> EmitFptoi(c)
      [] c.k = "Sitofp" -> EmitSitofp(c)
      [] c.k = "Uitofp" -> EmitUitofp(c)
      [] c.k \in {"Fptrunc", "Fpext"} -> EmitFpcast(c)
      [] c.k = "Store" -> EmitStore(c)
      [] c.k = "Load" -> EmitLoad(c)
      [] c.k = "LoadMulti" -> EmitLoadMulti(c)
      [] c.k = "GetElementPtr" -> EmitGEP(c)
      [] c.k = "Allocate" -> EmitDynamicAllocation(c)
==============================================================================
