---------------------------- MODULE MCObjectCode ----------------------------
(* Units for TLC: functions of one block that hold a family of instructions, *)
(* for many operands, and units whose functions, data and externals refer to *)
(* each other.  What the passing run leaves out is in the README.            *)
EXTENDS ObjectCode

Gpr(n, s) == <<"gp", n, s>>
Xmm(n) == <<"xmm", n>>
Imm(v) == <<"imm", v>>
Sym(name) == <<"sym", name>>
Mem(base, index, scale, off) == <<"mem", base, index, scale, off>>
At(base, off) == Mem(Gpr(base, 8), None, 1, off)
Indexed(base, index, scale) == Mem(Gpr(base, 8), Gpr(index, 8), scale, 0)
OfSymbol(name) == Mem(Sym(name), None, 1, 0)

Ret == I("ret", "", 0, <<>>)
Straight(instructions) ==
  [format |-> "ELF", globals |-> <<>>, externals |-> {},
   functions |-> << [name |-> "f", blocks |-> << [name |-> "f1", code |-> instructions] >>] >>]

\* Without REX the byte registers 4 to 7 are ah to bh.
HasByte(n) == n \notin 4..7
Rest(mns, form, size, ops) == [k \in DOMAIN mns |-> I(mns[k], form, size, ops)]

TwoRegisters(a, b) ==
  FlattenSeq([k \in 1..3 |->
     Rest(<<"mov", "add", "sub", "and", "or", "xor", "cmp", "test", "imul">>, "rr", 2 ^ k,
          <<Gpr(a, 2 ^ k), Gpr(b, 2 ^ k)>>)])
  \o <<I("movsxd", "rr", 8, <<Gpr(a, 8), Gpr(b, 4)>>), I("movsx", "rr", 8, <<Gpr(a, 8), Gpr(b, 2)>>),
       I("movzx", "rr", 4, <<Gpr(a, 4), Gpr(b, 2)>>), I("movsx", "rr", 4, <<Gpr(a, 4), Gpr(b, 2)>>)>>
  \o (IF HasByte(b)
      THEN FlattenSeq([k \in 1..3 |-> Rest(<<"movzx", "movsx">>, "rr", 2 ^ k, <<Gpr(a, 2 ^ k), Gpr(b, 1)>>)])
      ELSE <<>>)
  \o (IF HasByte(a) /\ HasByte(b)
      THEN Rest(<<"mov", "add", "sub", "and", "or", "xor", "cmp", "test">>, "rr", 1, <<Gpr(a, 1), Gpr(b, 1)>>)
      ELSE <<>>)

OneRegister(a) ==
  Rest(<<"push", "pop", "call", "jmp", "not", "mul", "div", "idiv">>, "r", 8, <<Gpr(a, 8)>>)
  \o Rest(<<"mul", "div", "idiv">>, "r", 4, <<Gpr(a, 4)>>) \o Rest(<<"mul", "div", "idiv">>, "r", 2, <<Gpr(a, 2)>>)
  \o FlattenSeq([k \in 1..3 |-> Rest(<<"shl", "shr", "sar">>, "rCL", 2 ^ k, <<Gpr(a, 2 ^ k), Gpr(1, 1)>>)])
  \* setcc has a REX byte of its own, so every byte register can be named.
  \o Rest(<<"setb", "setae", "sete", "setne", "setbe", "seta", "setl", "setge", "setle", "setg">>, "r", 8, <<Gpr(a, 1)>>)
  \o (IF HasByte(a)
      THEN Rest(<<"mul", "div", "idiv">>, "r", 1, <<Gpr(a, 1)>>) \o <<I("not", "r", 8, <<Gpr(a, 1)>>)>>
           \o Rest(<<"shl", "shr", "sar">>, "rCL", 1, <<Gpr(a, 1), Gpr(1, 1)>>)
      ELSE <<>>)

Alus == <<"add", "sub", "and", "or", "xor", "cmp">>
WithImmediate(a, v) ==
  Rest(Alus, "ri", 4, <<Gpr(a, 4), Imm(v)>>)
  \o Rest(<<"add", "sub", "and", "cmp", "mov">>, "r32i", 8, <<Gpr(a, 8), Imm(v)>>)
  \o <<I("mov", "ri", 8, <<Gpr(a, 8), Imm(v)>>), I("mov", "ri", 4, <<Gpr(a, 4), Imm(v)>>),
       I("imul", "rri", 8, <<Gpr(a, 8), Gpr(7, 8), Imm(v)>>), I("imul", "rri", 4, <<Gpr(9, 4), Gpr(a, 4), Imm(v)>>),
       I("push", "i", 4, <<Imm(v)>>)>>
  \o (IF v \in -128..127
      THEN Rest(<<"add", "sub", "and">>, "r8i", 8, <<Gpr(a, 8), Imm(v)>>)
           \o Rest(<<"shl", "shr", "sar">>, "ri", 8, <<Gpr(a, 8), Imm(v)>>)
           \o Rest(<<"shl", "shr", "sar">>, "ri", 4, <<Gpr(a, 4), Imm(v)>>)
           \o Rest(<<"shl", "shr", "sar">>, "ri", 2, <<Gpr(a, 2), Imm(v)>>)
           \o <<I("push", "i", 1, <<Imm(v)>>)>>
           \o (IF HasByte(a) THEN Rest(Alus \o <<"mov", "shl", "shr", "sar">>, "ri", 1, <<Gpr(a, 1), Imm(v)>>) ELSE <<>>)
      ELSE <<>>)
  \o (IF v \in -32768..32767
      THEN Rest(Alus \o <<"mov">>, "ri", 2, <<Gpr(a, 2), Imm(v)>>)
           \o <<I("imul", "rri", 2, <<Gpr(a, 2), Gpr(a, 2), Imm(v)>>)>>
      ELSE <<>>)

OnMemory(a, m) ==
  FlattenSeq([k \in 1..3 |->
     Rest(<<"mov", "add", "sub", "cmp", "lea">>, "rm", 2 ^ k, <<Gpr(a, 2 ^ k), m>>)
     \o Rest(<<"mov", "add", "sub">>, "mr", 2 ^ k, <<m, Gpr(a, 2 ^ k)>>)])
  \o (IF HasByte(a)
      THEN Rest(<<"mov", "add", "sub", "cmp">>, "rm", 1, <<Gpr(a, 1), m>>)
           \o Rest(<<"mov", "add", "sub">>, "mr", 1, <<m, Gpr(a, 1)>>)
      ELSE <<>>)
  \o <<I("movaps", "rm", 16, <<Xmm(a), m>>), I("movaps", "mr", 16, <<m, Xmm(a)>>)>>

ImmediateToMemory(m) ==
  <<I("mov", "mi", 8, <<m, Imm(-5)>>), I("mov", "mi", 4, <<m, Imm(70000)>>), I("mov", "mi", 2, <<m, Imm(-300)>>),
    I("mov", "mi", 1, <<m, Imm(7)>>), I("add", "mi", 4, <<m, Imm(-1)>>), I("add", "mi", 2, <<m, Imm(9)>>),
    I("add", "mi", 1, <<m, Imm(-128)>>)>>

\* REX before the prefix that tells floats of 4 and 8 bytes apart is lost, so
\* the first eight registers only; where it comes after, all of them.
Floats(a, b) ==
  Rest(<<"addss", "subss", "mulss", "divss", "movss", "cvtss2sd">>, "rr", 4, <<Xmm(a), Xmm(b)>>)
  \o Rest(<<"addsd", "subsd", "mulsd", "divsd", "movsd", "ucomisd", "cvtsd2ss">>, "rr", 8, <<Xmm(a), Xmm(b)>>)
  \o <<I("ucomiss", "rr", 4, <<Xmm(a), Xmm(b)>>), I("cmpss", "rri", 4, <<Xmm(a), Xmm(b), Imm(1)>>),
       I("cmpsd", "rri", 8, <<Xmm(a), Xmm(b), Imm(6)>>),
       I("cvtsi2ss", "rr", 4, <<Xmm(a), Gpr(b, 4)>>), I("cvtsd2si", "rr", 4, <<Gpr(a, 4), Xmm(b)>>)>>
AnyFloats(a, b) ==
  <<I("movaps", "rr", 16, <<Xmm(a), Xmm(b)>>), I("ucomiss", "rr", 4, <<Xmm(a), Xmm(b)>>),
    I("cvtsi2ss", "rr", 8, <<Xmm(a), Gpr(b, 8)>>), I("cvtsi2sd", "rr", 8, <<Xmm(a), Gpr(b, 8)>>),
    I("cvtss2si", "rr", 8, <<Gpr(a, 8), Xmm(b)>>), I("cvtsd2si", "rr", 8, <<Gpr(a, 8), Xmm(b)>>)>>
FloatMemory(a, m) ==
  Rest(<<"movss", "addss", "subss">>, "rm", 4, <<Xmm(a), m>>) \o Rest(<<"movsd", "addsd">>, "rm", 8, <<Xmm(a), m>>)
  \o <<I("movss", "mr", 4, <<m, Xmm(a)>>), I("movsd", "mr", 8, <<m, Xmm(a)>>)>>

Plain == <<I("cqo", "", 8, <<>>), I("cdq", "", 4, <<>>), I("cwd", "", 2, <<>>), I("rep movsb", "", 0, <<>>), Ret>>

Offsets == {0, 1, -1, 127, 128, -128, -129, 70000}
Sweep ==
  {TwoRegisters(a, b) : a, b \in {0, 3, 4, 5, 7, 8, 12, 13, 15}}
  \cup {OneRegister(a) : a \in 0..15} \cup {Plain}
  \cup {WithImmediate(a, v) : a \in {0, 4, 5, 7, 8, 13}, v \in {0, 1, -1, 127, 128, -128, -129, 32767, -70000}}
  \cup {OnMemory(a, At(base, off)) : a \in {0, 5, 12}, base \in {0, 5, 7, 8, 13, 15}, off \in Offsets}
  \cup {OnMemory(a, Indexed(base, index, scale)) :
          a \in {2, 9}, base \in {0, 4, 7}, index \in {1, 5}, scale \in {1, 2, 4, 8}}
  \cup {OnMemory(a, At(4, 0)) : a \in {1, 14}}
  \cup {ImmediateToMemory(At(base, off)) : base \in {0, 5, 13, 15}, off \in Offsets}
  \cup {Floats(a, b) : a, b \in {0, 4, 7}} \cup {AnyFloats(a, b) : a, b \in {0, 5, 8, 15}}
  \cup {FloatMemory(a, At(base, off)) : a \in {0, 7}, base \in {3, 5}, off \in {0, 8, -200}}

-----------------------------------------------------------------------------
Go(mn, name) == I(mn, "s", 8, <<Sym(name)>>)
LeaOf(r, name) == I("lea", "rm", 8, <<Gpr(r, 8), OfSymbol(name)>>)
B(name, instructions) == [name |-> name, code |-> instructions]
F(name, blocks) == [name |-> name, blocks |-> blocks]
Whole(bytes, v) == <<"int", bytes, v>>

\* A loop, a call of a function that comes later and one of an external, globals
\* of both kinds, and a table of addresses; cond is the conditional jump.
Loop(cond) ==
  F("f", <<B("f1", <<I("push", "r", 8, <<Gpr(5, 8)>>), LeaOf(15, "table"), Go("jmp", "f2")>>),
           B("f2", <<I("cmp", "ri", 4, <<Gpr(0, 4), Imm(100)>>), Go(cond, "f4"), Go("call", "g")>>),
           B("f3", <<Go("call", "puts"), LeaOf(7, "text"), Go("jmp", "f2")>>),
           B("f4", <<I("movsd", "rm", 8, <<Xmm(2), OfSymbol("pi")>>), LeaOf(0, "g"), Ret>>)>>)
After ==
  F("g", <<B("g1", <<LeaOf(12, "errno"), Go("call", "f"), LeaOf(2, "f"), Go("jne", "g2")>>),
           B("g2", <<I("movss", "rm", 4, <<Xmm(0), OfSymbol("pi")>>), Go("call", "g"), Go("jmp", "g2")>>)>>)

Globals ==
  <<[name |-> "text", value |-> <<"list", <<Whole(1, 104), Whole(1, 105), Whole(1, 0)>> >>],
    [name |-> "table", value |-> <<"list", <<Whole(4, -2), <<"address", "text", 1>>, <<"address", "g", 0>>,
                                             <<"list", <<Whole(2, 300), <<"null">>, <<"address", "puts", 0>> >> >> >> >>],
    [name |-> "pi", value |-> <<"bits", <<24, 45, 68, 84, 251, 33, 9, 64>> >>]>>

Linked(globals, functions) ==
  [format |-> "ELF", globals |-> globals, externals |-> {"puts", "errno"}, functions |-> functions]

\* Without externals and addresses the COFF writer leaves nothing to the linker.
Alone ==
  [format |-> "COFF", externals |-> {},
   globals |-> <<[name |-> "n", value |-> <<"list", <<Whole(8, -1), Whole(4, 70000)>> >>]>>,
   functions |-> <<F("f", <<B("f1", <<Go("call", "g"), Go("jb", "f3"), Go("jmp", "f2")>>),
                            B("f2", <<LeaOf(0, "f"), Go("jmp", "f2")>>),
                            B("f3", <<LeaOf(9, "g"), Go("jmp", "f2")>>)>>),
                   F("g", <<B("g1", <<Go("call", "f"), Ret>>)>>)>>]

\* The addend of an address in the data is written over the code, zeros over zeros here.
Table ==
  [format |-> "COFF", externals |-> {"puts"},
   globals |-> <<[name |-> "text", value |-> <<"list", <<Whole(1, 104), Whole(1, 105), Whole(1, 0)>> >>],
                 [name |-> "table", value |-> <<"address", "puts", 0>>]>>,
   functions |-> <<F("f", <<B("f1", <<I("mov", "r32i", 8, <<Gpr(0, 8), Imm(0)>>), Ret>>)>>)>>]

Together ==
  {Linked(Globals, <<Loop(cond), After>>) : cond \in DOMAIN JumpOn}
  \cup {Linked(Reverse(Globals), <<Loop(cond), After>>) : cond \in DOMAIN JumpOn}

MCUnits == {Straight(code_) : code_ \in Sweep} \cup Together \cup {Alone, Table}

MCLayouts ==
  {[text |-> 4096, data |-> 300000, ext |-> [puts |-> 100, errno |-> 700000]],
   [text |-> 65536, data |-> 256, ext |-> [puts |-> 900000, errno |-> 16]]}
=============================================================================
