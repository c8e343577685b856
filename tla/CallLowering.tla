---------------------------- MODULE CallLowering ----------------------------
(* What TargetLowering, the spiller and TargetLoweringPRA make of the calls, *)
(* returns, switches and intrinsics of a machine function, on both targets.  *)
(*                                                                           *)
(* A function under way is a record u:                                       *)
(*   cc        its calling convention, "SysV", "Win64" or "AAPCS64"          *)
(*   code      its instructions, block after block, a label before each      *)
(*   frame     its stack slots, with their offsets below the frame pointer   *)
(*   size      by how much the prologue lowers the stack pointer             *)
(*   prologue, epilogue  their lengths                                       *)
(* Operands are <<"r", physical>>, <<"v", virtual>>, <<"i", value>> and      *)
(* <<"fi", slot>>; None stands where there is none.  How wide a value is and *)
(* the name it has in a register of that width are left to X64Patterns.      *)
EXTENDS Integers, Sequences, SequencesExt, FiniteSets

None == <<"none", 0>>
R(r) == <<"r", r>>
Imm(n) == <<"i", <<"n", n>>>>

\* d and a are operands, n a number, tags the calls that begin here
\* whose marked instructions are those the allocator saw, with what is live there
I(op, d, a, n) ==
    [op |-> op, d |-> d, a |-> a, b |-> None, n |-> n, size |-> 8, tags |-> {}, marked |-> FALSE, live |-> {}]
Mov(d, a) == I("mov", d, a, 0)
Memory(op, d, base, offset, size) == [I(op, d, base, offset) EXCEPT !.size = size]

X64(cc) == cc \in {"SysV", "Win64"}
Sp(cc) == R(IF X64(cc) THEN "rsp" ELSE "sp")
Fp(cc) == R(IF X64(cc) THEN "rbp" ELSE "x29")

\* x64_register_info.cpp, AArch64_register_info.cpp: the registers that are
\* allocated first, last and never
Reserved(cc) == R(IF X64(cc) THEN "r14" ELSE "x14")
Spare(cc) == R(IF X64(cc) THEN "r15" ELSE "x15")
CallerSaved(cc) ==
    IF X64(cc) THEN <<"rax", "rcx", "rdx", "rsi", "rdi", "r8", "r9", "r10", "r11">>
    ELSE <<"x0", "x1", "x2", "x3", "x4", "x5", "x6", "x7", "x9", "x10", "x11", "x12", "x13", "x14", "x15">>
CalleeSaved(cc) ==
    IF X64(cc) THEN <<"r12", "r13", "r14", "r15", "rbx", "rbp">>
    ELSE <<"x19", "x20", "x21", "x22", "x23", "x24", "x25", "x26", "x27", "x28">>

------------------------------------------------------------------------------
(* Calling conventions: where each argument and each part of the result is.  *)

IntArguments(cc) ==
    CASE cc = "SysV" -> <<"rdi", "rsi", "rdx", "rcx", "r8", "r9">>
      [] cc = "Win64" -> <<"rcx", "rdx", "r8", "r9">>
      [] cc = "AAPCS64" -> <<"x0", "x1", "x2", "x3", "x4", "x5", "x6", "x7">>
FltArguments(cc) ==
    CASE cc = "SysV" -> <<"xmm0", "xmm1", "xmm2", "xmm3", "xmm4", "xmm5">>
      [] cc = "Win64" -> <<"xmm0", "xmm1", "xmm2", "xmm3">>
      [] cc = "AAPCS64" -> <<"d0", "d1", "d2", "d3", "d4", "d5", "d6", "d7">>
IntResults(cc) == IF X64(cc) THEN <<"rax", "rdx">> ELSE <<"x0", "x1">>
FltResults(cc) == IF X64(cc) THEN <<"xmm0", "xmm1">> ELSE <<"d0", "d1">>

Of(t, ints, flts) == IF t = "flt" THEN flts ELSE ints
Nth(types, k) == Cardinality({j \in 1..k : types[j] = types[k]})
\* The k-th argument: the next register of its kind, or None for the stack
Assigned(cc, types) ==
    [k \in DOMAIN types |->
        LET registers == Of(types[k], IntArguments(cc), FltArguments(cc))
        IN  IF Nth(types, k) <= Len(registers) THEN R(registers[Nth(types, k)]) ELSE None]
RetAssigned(cc, types) ==
    [k \in DOMAIN types |-> R(Of(types[k], IntResults(cc), FltResults(cc))[Nth(types, k)])]

------------------------------------------------------------------------------
(* The frame.                                                                *)

GetSize(frame) ==
    LET add(size, slot) ==
            IF slot.offset < 0 THEN size
            ELSE size + (IF slot.align > 0 THEN size % slot.align ELSE 0) + slot.size
    IN  FoldLeft(add, 0, frame)
AddStackSlot(frame, size, align) ==
    LET longer == Append(frame, [size |-> size, align |-> align, offset |-> 0])
    IN  [longer EXCEPT ![Len(longer)].offset = GetSize(longer)]

ToSlot(cc, r, slot) == Memory("store", r, Fp(cc), -slot.offset, slot.size)
FromSlot(cc, r, slot) == Memory("load", r, Fp(cc), -slot.offset, slot.size)
SlotAddress(cc, r, slot) == I("lea", r, Fp(cc), -slot.offset)

\* Instructions from position n on move behind the new ones
InsertCode(code, n, new) == SubSeq(code, 1, n - 1) \o new \o SubSeq(code, n, Len(code))
ReplaceCode(code, n, new) == SubSeq(code, 1, n - 1) \o new \o SubSeq(code, n + 1, Len(code))
Mapped(code, F(_)) == FlattenSeq([n \in DOMAIN code |-> F(code[n])])

------------------------------------------------------------------------------
(* Calls.                                                                    *)

\* An argument on its way to a register
MoveTo(u, r, op) == IF op[1] = "fi" THEN SlotAddress(u.cc, r, u.frame[op[2]]) ELSE Mov(r, op)

\* An immediate of more than four bytes is pushed in two halves, eight bytes each
Pushed(u, op) ==
    CASE op[1] = "fi" -> <<SlotAddress(u.cc, Spare(u.cc), u.frame[op[2]]), I("push", Spare(u.cc), None, 0)>>
      [] op[1] = "i" /\ op[2][1] = "wide" -> <<I("push", op, None, 0), I("push", Imm(2147483647), None, 0)>>
      [] OTHER -> <<I("push", op, None, 0)>>

\* Win64 addresses the slot from the frame pointer of the caller.  The place of
\* insertion stays put at a store of a register, which so ends up behind the call
Homed(u, op, k) ==
    LET slot == [size |-> 8, align |-> 8, offset |-> -(32 + 8 * k)]
    IN  CASE op[1] = "fi" -> [before |-> <<SlotAddress(u.cc, Spare(u.cc), u.frame[op[2]])>>,
                              behind |-> <<ToSlot(u.cc, Spare(u.cc), slot)>>]
          [] op[1] = "i" -> [before |-> <<ToSlot(u.cc, op, slot)>>, behind |-> <<>>]
          [] OTHER -> [before |-> <<>>, behind |-> <<ToSlot(u.cc, op, slot)>>]

\* AArch64 adds a slot to its own frame.  An immediate comes into the spare register
\* behind the store; a register is stored and then cast to an immediate
ToOwnSlot(u, op, slot) ==
    CASE op[1] = "fi" -> <<SlotAddress(u.cc, Spare(u.cc), u.frame[op[2]]), ToSlot(u.cc, Spare(u.cc), slot)>>
      [] op[1] = "i" -> <<ToSlot(u.cc, Spare(u.cc), slot), Mov(Spare(u.cc), op)>>
      [] OTHER -> <<ToSlot(u.cc, op, slot), I("fault", None, None, 0)>>

\* Mutant: the first one before the others
OnStackInOrder(call, at) == SelectSeq([k \in DOMAIN at |-> k], LAMBDA k : at[k] = None)
\* The stack arguments come first, the last one before the others
OnStack(call, at) == Reverse(SelectSeq([k \in DOMAIN at |-> k], LAMBDA k : at[k] = None))
InRegisters(call, at) == SelectSeq([k \in DOMAIN at |-> k], LAMBDA k : at[k] # None)

\* The code of a call: what stands before it, how far it raises the stack
\* pointer after it, what Win64 leaves behind it, and the frame
ToRegisters(u, call, at) ==
    LET ks == InRegisters(call, at) IN [n \in DOMAIN ks |-> MoveTo(u, at[ks[n]], call.args[ks[n]])]
SysVArguments(u, call, at, stack) ==
    [before |-> FlattenSeq([n \in DOMAIN stack |-> Pushed(u, call.args[stack[n]])])
                  \o ToRegisters(u, call, at)
                  \o (IF call.vararg
                      THEN <<Mov(R("rax"), Imm(Cardinality({k \in DOMAIN at : at[k] # None /\ call.types[k] = "flt"})))>>
                      ELSE <<>>),
     used |-> 8 * Len(stack), behind |-> <<>>, frame |-> u.frame]
Win64Arguments(u, call, at, stack) ==
    LET homed == [n \in DOMAIN stack |-> Homed(u, call.args[stack[n]], n - 1)]
    IN  [before |-> FlattenSeq([n \in DOMAIN stack |-> homed[n].before]) \o ToRegisters(u, call, at),
         used |-> 0, behind |-> FlattenSeq(Reverse([n \in DOMAIN stack |-> homed[n].behind])), frame |-> u.frame]
\* In the order of the list, whether in a register or not
A64Arguments(u, call, at) ==
    LET place(s, k) ==
            IF at[k] # None THEN [s EXCEPT !.before = Append(@, MoveTo(u, at[k], call.args[k]))]
            ELSE LET frame == AddStackSlot(s.frame, 8, 8)
                 IN  [s EXCEPT !.before = @ \o ToOwnSlot(u, call.args[k], Last(frame)), !.frame = frame]
    IN  FoldLeftDomain(place, [before |-> <<>>, used |-> 0, behind |-> <<>>, frame |-> u.frame], at)
Arguments(u, call, at) ==
    CASE call.cc = "SysV" -> SysVArguments(u, call, at, OnStack(call, at))
      [] call.cc = "Win64" -> Win64Arguments(u, call, at, OnStack(call, at))
      [] call.cc = "AAPCS64" -> A64Arguments(u, call, at)

\* lowerCall.  The call remembers the instruction that stood at its place before
\* it was inserted: the first of its arguments', or else whatever came next
LowerCall(u, n) ==
    LET call == u.code[n]
        parts == Arguments(u, call, Assigned(call.cc, call.types))
        results == RetAssigned(call.cc, call.rets)
        callee == I("call", None, call.target, 0)
                    @@ [returns |-> {results[k][2] : k \in DOMAIN results}, call |-> call]
        after == (IF parts.used > 0 THEN <<I("add", Sp(u.cc), None, parts.used)>> ELSE <<>>)
                   \o (IF call.ret = <<>> THEN <<>> ELSE [k \in DOMAIN results |-> Mov(call.ret[k], results[k])])
        start(code) == [code EXCEPT ![1].tags = @ \union {call.id}]
        rest == parts.behind \o SubSeq(u.code, n + 1, Len(u.code))
    IN  [u EXCEPT !.frame = parts.frame,
                  !.code = SubSeq(@, 1, n - 1)
                             \o (IF parts.before # <<>> THEN start(parts.before) ELSE <<>>) \o <<callee>> \o after
                             \o (IF parts.before # <<>> \/ rest = <<>> THEN rest ELSE start(rest))]

\* lowerReturn; the removed instruction takes the tags along
LowerReturn(u, n) ==
    LET at == RetAssigned(u.cc, u.retTypes)
    IN  [u EXCEPT !.code = ReplaceCode(@, n,
            [k \in DOMAIN at |-> Mov(at[k], u.code[n].args[k])] \o <<I("ret", None, None, 0)>>)]

\* lowerSwitch: a table from the least to the greatest case.  The index is copied
\* if it is going to change, or is no register; AArch64 takes an immediate for one
\* in the spare register, where the bounds come too, and shifts the index where it is
Least(switch) == CHOOSE k \in DOMAIN switch.cases : \A j \in DOMAIN switch.cases : k <= j
Greatest(switch) == CHOOSE k \in DOMAIN switch.cases : \A j \in DOMAIN switch.cases : k >= j
Table(switch) ==
    [k \in 0..Greatest(switch) - Least(switch) |->
        IF k + Least(switch) \in DOMAIN switch.cases THEN switch.cases[k + Least(switch)] ELSE switch.default]
ToDefault(op, switch) == [I(op, None, None, 0) EXCEPT !.a = <<"b", switch.default>>]
TableAddress == <<"v", "table">>
LoadTable(table) == I("tableaddress", TableAddress, None, 0) @@ [table |-> table]
ThroughTable(index, scale, table) ==
    <<[I("tableload", TableAddress, TableAddress, scale) EXCEPT !.b = index],
      I("tablejump", TableAddress, None, 0) @@ [table |-> table]>>
SwitchX64(switch) ==
    LET min == Least(switch)
        copied == min # 0 \/ switch.d[1] = "i"
        index == IF copied THEN <<"v", "index">> ELSE switch.d
    IN  <<LoadTable(Table(switch))>>
          \o (IF copied THEN <<Mov(index, switch.d)>> ELSE <<>>)
          \o <<I("cmp", index, None, min), ToDefault("jl", switch),
               I("cmp", index, None, Greatest(switch)), ToDefault("jg", switch)>>
          \o (IF min # 0 THEN <<I("sub", index, None, min)>> ELSE <<>>)
          \o ThroughTable(index, 8, Table(switch))
SwitchA64(switch) ==
    LET min == Least(switch)
        spare == Spare("AAPCS64")
        given == IF switch.d[1] = "i" THEN spare ELSE switch.d
        index == IF min # 0 THEN <<"v", "index">> ELSE given
    IN  <<LoadTable(Table(switch))>>
          \o (IF switch.d[1] = "i" THEN <<Mov(spare, switch.d)>> ELSE <<>>)
          \o (IF min # 0 THEN <<Mov(index, given)>> ELSE <<>>)
          \o <<Mov(spare, Imm(min)), I("cmp", index, spare, 0), ToDefault("jl", switch),
               Mov(spare, Imm(Greatest(switch))), I("cmp", index, spare, 0), ToDefault("jg", switch)>>
          \o (IF min # 0 THEN <<Mov(spare, Imm(min)), I("sub", index, spare, 0)>> ELSE <<>>)
          \o <<I("shift", index, None, 8)>>
          \o ThroughTable(index, 1, Table(switch))
LowerSwitch(u, n) ==
    [u EXCEPT !.code = ReplaceCode(@, n, IF X64(u.cc) THEN SwitchX64(@[n]) ELSE SwitchA64(@[n]))]

------------------------------------------------------------------------------
(* Names and registers.                                                      *)

\* A register read under another name: nothing but its name changes
Renamed(i, from, to) ==
    [i EXCEPT !.d = IF @ = from THEN to ELSE @, !.a = IF @ = from THEN to ELSE @,
              !.b = IF @ = from THEN to ELSE @]

\* Operands an instruction reads, and the one it assigns; some do both with d
Changing == {"op2", "sub", "add", "shift"}
Assigning == Changing \union {"mov", "load", "lea", "op3", "pop", "tableaddress", "tableload"}
Defines(i) == IF i.op \in Assigning THEN {i.d} ELSE IF i.op = "call" THEN {R(r) : r \in i.returns} ELSE {}
Uses(i) == ({i.a, i.b} \union (IF i.op \in Assigning \ Changing THEN {} ELSE {i.d})) \ {None}

\* Spiller::spill: the reserved register stands in for the spilled one, which is
\* stored behind an instruction that assigns it and loaded before any other; one
\* operand of an instruction is looked at
Spill(u, v, slot) ==
    LET r == Reserved(u.cc)
        at(i) ==
            CASE i.d = v -> IF i.op \in Assigning THEN <<[i EXCEPT !.d = r], ToSlot(u.cc, r, slot)>>
                            ELSE <<FromSlot(u.cc, r, slot), [i EXCEPT !.d = r]>>
              [] i.a = v -> <<FromSlot(u.cc, r, slot), [i EXCEPT !.a = r]>>
              [] i.b = v -> <<FromSlot(u.cc, r, slot), [i EXCEPT !.b = r]>>
              [] OTHER -> <<i>>
    IN  [u EXCEPT !.code = Mapped(@, at)]

------------------------------------------------------------------------------
(* The function itself.                                                      *)

\* An argument in a register is that register from now on; one on the stack is
\* spilled to where the caller put it
SettleArgument(u, k, at) ==
    IF at[k] # None THEN [u EXCEPT !.code = Mapped(@, LAMBDA i : <<Renamed(i, u.params[k], at[k])>>)]
    ELSE LET before == Cardinality({j \in 1..k - 1 : at[j] = None})
         IN  Spill(u, u.params[k],
                   [size |-> 8, align |-> 8,
                    offset |-> IF X64(u.cc) THEN -16 - 8 * before ELSE -8 * (before + 1)])
SettleArguments(u) ==
    FoldLeftDomain(LAMBDA v, k : SettleArgument(v, k, Assigned(u.cc, u.types)), u, u.types)

Reserve(u, size) == [u EXCEPT !.frame = AddStackSlot(@, size, 16)]
\* Room for what a callee may use, and for the registers of a variadic function
Frame(u) ==
    LET settled == SettleArguments(IF u.calls /\ X64(u.cc) THEN Reserve(u, IF u.cc = "Win64" THEN 32 ELSE 16) ELSE u)
    IN  IF u.vararg /\ u.cc = "SysV" THEN Reserve(settled, 176) ELSE settled
Rounded(size) == size + (IF size % 16 = 0 THEN 0 ELSE 16 - (size % 16))

\* The register save area of a variadic function: the floats only if al says so
SaveArea(u) ==
    LET off == -Last(u.frame).offset
    IN  IF ~u.vararg THEN <<>>
        ELSE [k \in 1..6 |-> Memory("store", R(IntArguments("SysV")[k]), R("rbp"), off + 8 * (k - 1), 8)]
               \o <<I("test", R("rax"), None, 0), [I("je", None, None, 0) EXCEPT !.a = <<"b", "body">>]>>
               \o [k \in 1..8 |-> [Memory("store", R(<<"xmm0", "xmm1", "xmm2", "xmm3", "xmm4", "xmm5", "xmm6", "xmm7">>[k]),
                                          R("rbp"), off + 48 + 16 * (k - 1), 16) EXCEPT !.op = "movaps"]]
\* Win64 keeps its four in the space above the return address
HomeArea(u) ==
    IF u.vararg THEN [k \in 1..4 |-> Memory("store", R(IntArguments("Win64")[k]), R("rsp"), 8 * k, 8)] ELSE <<>>

Lowered(n, r) == IF n > 0 THEN <<I("sub", r, None, n)>> ELSE <<>>
Raised(n, r) == IF n > 0 THEN <<I("add", r, None, n)>> ELSE <<>>
PrologueX64(u) == <<I("push", R("rbp"), None, 0), Mov(R("rbp"), R("rsp"))>> \o Lowered(u.size, R("rsp"))
PrologueA64(u) ==
    <<[I("stp", R("x29"), None, -16) EXCEPT !.a = R("x30")], Mov(R("x29"), R("sp"))>> \o Lowered(u.size, R("sp"))
Prologue(u) == IF X64(u.cc) THEN PrologueX64(u) ELSE PrologueA64(u)
EpilogueX64(u) == Raised(u.size, R("rsp")) \o <<I("pop", R("rbp"), None, 0)>>
EpilogueA64(u) == Raised(u.size, R("sp")) \o <<[I("ldp", R("x29"), None, 16) EXCEPT !.b = R("x30")]>>
Epilogue(u) == IF X64(u.cc) THEN EpilogueX64(u) ELSE EpilogueA64(u)

\* lowerFunction
Enclose(u) ==
    LET home == IF u.cc = "Win64" THEN HomeArea(u) ELSE <<>>
        save == IF u.cc = "SysV" THEN SaveArea(u) ELSE <<>>
        returns(i) == IF i.op = "ret" THEN Epilogue(u) \o <<i>> ELSE <<i>>
    IN  [u EXCEPT !.code = home \o Prologue(u) \o save \o Mapped(@, returns),
                  !.prologue = Len(home) + Len(Prologue(u)), !.epilogue = Len(Epilogue(u))]
LowerFunction(u) == LET framed == Frame(u) IN Enclose([framed EXCEPT !.size = Rounded(GetSize(framed.frame))])

------------------------------------------------------------------------------
(* Intrinsics.                                                               *)

\* The offsets count eight bytes for a float register as for an integer one
VaStart(u, va) ==
    LET at == Assigned(u.cc, u.types)
        used(t) == Cardinality({k \in DOMAIN at : at[k] # None /\ u.types[k] = t})
    IN  IF u.cc = "Win64" THEN <<I("lea", R("rax"), R("rbp"), 24), Mov(va, R("rax"))>>
        ELSE <<Memory("store", Imm(8 * used("int")), va, 0, 4),
               Memory("store", Imm(8 * used("flt") + 48), va, 4, 4),
               SlotAddress(u.cc, R("rax"), Last(u.frame)), Memory("store", R("rax"), va, 16, 8),
               I("lea", R("rax"), R("rbp"), 16), Memory("store", R("rax"), va, 8, 8)>>

\* lowerIntrinsic, before register allocation; a copy of memory is left for later
IntrinsicCode(u, i) ==
    CASE i.name = "vastart" -> VaStart(u, i.d)
      [] i.name = "stackget" -> <<Mov(i.d, Sp(u.cc))>>
      [] i.name = "stackset" -> <<Mov(Sp(u.cc), i.d)>>
      [] i.name = "memcpy" -> <<i>>
\* The search for the next intrinsic of a block ends at a copy of memory
Reached(code, n) ==
    \A k \in 1..n - 1 :
        code[k].op = "intrinsic" /\ code[k].name = "memcpy" => \E j \in k..n : code[j].op = "label"
LowerIntrinsics(u) ==
    [u EXCEPT !.code = FlattenSeq([n \in DOMAIN @ |->
        IF @[n].op = "intrinsic" /\ (Reached(@, n) \/ ~X64(u.cc)) THEN IntrinsicCode(u, @[n]) ELSE <<@[n]>>])]

\* After register allocation only the copies of memory are looked at; what else
\* is left goes away.  All three registers are saved if the first is live
Copy(u, i) ==
    LET saved == IF R("rdi") \in i.live THEN <<"rdi", "rsi", "rcx">> ELSE <<>>
    IN  [k \in DOMAIN saved |-> I("push", R(saved[k]), None, 0)]
          \o <<MoveTo(u, R("rdi"), i.d), MoveTo(u, R("rsi"), i.a), Mov(R("rcx"), i.b), I("movsb", None, None, 0)>>
          \o [k \in DOMAIN saved |-> I("pop", R(Reverse(saved)[k]), None, 0)]
\* Mutant: copies of memory wait for a pass that does not come
LowerCopiesLater(u) == u
LowerCopies(u) ==
    [u EXCEPT !.code = Mapped(@, LAMBDA i : IF i.op # "intrinsic" THEN <<i>>
                                            ELSE IF i.name = "memcpy" /\ X64(u.cc) THEN Copy(u, i) ELSE <<>>)]

------------------------------------------------------------------------------
(* Saving registers.                                                         *)

\* Mutant: an odd number is not padded
PushOdd(regs) == [k \in DOMAIN regs |-> I("push", R(regs[k]), None, 0)]
\* x64 pads an odd number of eight bytes; AArch64 gives each register sixteen
PushX64(regs) == [k \in DOMAIN regs |-> I("push", R(regs[k]), None, 0)] \o Lowered(8 * (Len(regs) % 2), R("rsp"))
PopX64(regs) ==
    Raised(8 * (Len(regs) % 2), R("rsp")) \o [k \in DOMAIN regs |-> I("pop", R(Reverse(regs)[k]), None, 0)]
PushA64(regs) == [k \in DOMAIN regs |-> [I("stp", R(regs[k]), None, -16) EXCEPT !.a = R("xzr")]]
PopA64(regs) == [k \in DOMAIN regs |-> [I("ldp", R(Reverse(regs)[k]), None, 16) EXCEPT !.b = R("xzr")]]
Push(cc, regs) == IF X64(cc) THEN PushX64(regs) ELSE PushA64(regs)
Pop(cc, regs) == IF X64(cc) THEN PopX64(regs) ELSE PopA64(regs)

\* Registers of the caller are pushed behind the prologue
EverLive(u, r) == \E n \in DOMAIN u.code : R(r) \in Defines(u.code[n]) \union Uses(u.code[n])
\* Mutant: they come back only where the last block returns
SaveCalleeSavedLast(u) ==
    LET saved == SelectSeq(CalleeSaved(u.cc), LAMBDA r : r # "rbp" /\ EverLive(u, r))
        end == Len(u.code) - u.epilogue
    IN  [u EXCEPT !.code = SubSeq(@, 1, u.prologue) \o Push(u.cc, saved)
                             \o SubSeq(@, u.prologue + 1, end - 1) \o Pop(u.cc, saved) \o SubSeq(@, end, Len(@))]
SaveCalleeSaved(u) ==
    LET saved == SelectSeq(CalleeSaved(u.cc), LAMBDA r : r # "rbp" /\ EverLive(u, r))
        restored(code, n) == IF n + u.epilogue \in DOMAIN code /\ code[n + u.epilogue].op = "ret"
                             THEN Pop(u.cc, saved) ELSE <<>>
    IN  [u EXCEPT !.code = SubSeq(@, 1, u.prologue) \o Push(u.cc, saved)
                             \o FlattenSeq([k \in 1..Len(@) - u.prologue |->
                                    restored(@, k + u.prologue) \o <<@[k + u.prologue]>>])]

\* Registers live after a call are pushed where the call starts and popped right
\* behind it
Index(found) == IF found = {} THEN 0 ELSE CHOOSE n \in found : \A k \in found : n <= k
CallAt(code, id) == Index({n \in DOMAIN code : code[n].op = "call" /\ code[n].call.id = id})
StartAt(code, id) == Index({n \in DOMAIN code : id \in code[n].tags})
LiveBehind(code, n) ==
    LET marked == {k \in n + 1..Len(code) : code[k].marked}
    IN  IF marked = {} THEN {} ELSE code[CHOOSE k \in marked : \A j \in marked : k <= j].live
SaveAround(u, call, start, regs) ==
    LET pushed == InsertCode(u.code, start, Push(u.cc, regs))
    IN  [u EXCEPT !.code = InsertCode(pushed, (IF start <= call THEN call + Len(Push(u.cc, regs)) ELSE call) + 1, Pop(u.cc, regs))]
\* Mutant: the registers of the results are saved with the others
SaveCallResults(u, id) ==
    LET call == CallAt(u.code, id)
        start == StartAt(u.code, id)
        regs == SelectSeq(CallerSaved(u.cc), LAMBDA r : R(r) \in LiveBehind(u.code, call))
    IN  IF start = 0 THEN [u EXCEPT !.fault = "the start of the call is gone"] ELSE SaveAround(u, call, start, regs)
SaveCall(u, id) ==
    LET call == CallAt(u.code, id)
        start == StartAt(u.code, id)
        regs == SelectSeq(CallerSaved(u.cc), LAMBDA r :
                    r \notin u.code[call].returns /\ R(r) \in LiveBehind(u.code, call))
    IN  IF start = 0 THEN [u EXCEPT !.fault = "the start of the call is gone"] ELSE SaveAround(u, call, start, regs)
==============================================================================
