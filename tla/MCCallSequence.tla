--------------------------- MODULE MCCallSequence ---------------------------
(* Functions for TLC, as the instruction selector leaves them, on the three  *)
(* platforms.  What the passing run leaves out is in the README.             *)
EXTENDS CallSequence

V(n) == <<"v", n>>
B(n) == I("label", <<"b", n>>, None, 0)
Fi(k) == <<"fi", k>>
Op2(d, a) == I("op2", d, a, 0)
Op3(d, a, b) == [I("op3", d, a, 0) EXCEPT !.b = b]
Ret(args) == I("return_lower", None, None, 0) @@ [args |-> args]
Intrinsic(name, d, a, b) == [I("intrinsic", d, a, 0) EXCEPT !.b = b] @@ [name |-> name]
CallTo(cc, id, target, args, types, ret) ==
    I("call_lower", None, None, 0) @@
        [cc |-> cc, id |-> id, target |-> target, args |-> args, types |-> types, vararg |-> FALSE,
         ret |-> ret, rets |-> [k \in DOMAIN ret |-> "int"]]
Switch(d, cases, default) == I("switch_lower", d, None, 0) @@ [cases |-> cases, default |-> default]
Fn(cc, params, slots, regs, body) ==
    [cc |-> cc, params |-> params, types |-> [k \in DOMAIN params |-> "int"], vararg |-> FALSE, retTypes |-> <<"int">>,
     slots |-> slots, body |-> <<B("body")>> \o body, regs |-> regs, flts |-> {}, floats |-> {}, spills |-> <<>>, homes |-> FALSE]

G == <<"i", <<"g", "callee">>>>
Ints(n) == [k \in 1..n |-> "int"]
All == {"SysV", "Win64", "AAPCS64"}
Regs(cc) == IF X64(cc) THEN {"rax", "rbx", "rcx", "r12"} ELSE {"x0", "x1", "x19", "x20"}
Preserved(cc) == IF X64(cc) THEN {"rbx", "r12", "r13"} ELSE {"x19", "x20", "x21"}

\* Values and formals that outlive calls, two calls in a row, a call through a register
Across(cc) ==
    Fn(cc, <<V("a"), V("b")>>, <<<<4, 4>>>>, Regs(cc),
       <<Op3(V("1"), V("a"), V("b")),
         CallTo(cc, 1, G, <<V("1"), Imm(5)>>, Ints(2), <<V("2")>>),
         Op3(V("3"), V("2"), V("1")),
         Ret(<<V("3")>>)>>)
Indirect(cc) ==
    Fn(cc, <<V("a"), V("b")>>, <<>>, Regs(cc),
       <<Mov(V("1"), V("b")), Mov(V("t"), V("a")),
         CallTo(cc, 1, V("t"), <<Imm(1)>>, Ints(1), <<>>),
         CallTo(cc, 2, V("1"), <<V("1")>>, Ints(1), <<V("2")>>),
         Ret(<<V("2")>>)>>)
\* A formal in its register, live behind the call
FormalAcross(cc) ==
    Fn(cc, <<V("a"), V("b"), V("c")>>, <<<<16, 8>>>>, Regs(cc),
       <<CallTo(cc, 1, G, <<V("a"), Imm(7)>>, Ints(2), <<V("1")>>),
         Op3(V("2"), V("1"), V("c")),
         Ret(<<V("2")>>)>>)
\* Two results, and two returns
TwoResults(cc) ==
    [Fn(cc, <<V("a")>>, <<<<8, 8>>>>, Regs(cc),
       <<CallTo(cc, 1, G, <<V("a"), Fi(1)>>, Ints(2), <<V("1"), V("2")>>),
         Ret(<<V("2"), V("1")>>)>>)
     EXCEPT !.retTypes = Ints(2), !.regs = Preserved(cc)]
\* A slot of the frame, written before a call and read after it
SlotKept(cc) ==
    Fn(cc, <<V("a"), V("b")>>, <<<<8, 8>>, <<8, 8>>>>, Regs(cc),
       <<I("store", V("a"), Fi(1), 0), I("store", V("b"), Fi(2), 0),
         CallTo(cc, 1, G, <<Imm(3)>>, Ints(1), <<>>),
         I("load", V("1"), Fi(1), 0), I("load", V("2"), Fi(2), 0),
         Op3(V("3"), V("1"), V("2")),
         Ret(<<V("3")>>)>>)
\* A spilled value that fits what the frame was rounded up by
Spilled(cc) ==
    [Fn(cc, <<V("a"), V("b")>>, IF X64(cc) THEN <<<<4, 4>>>> ELSE <<<<8, 8>>>>, Preserved(cc),
       <<Op3(V("1"), V("a"), V("b")),
         CallTo(cc, 1, G, <<V("1"), Imm(5)>>, Ints(2), <<V("2")>>),
         Op3(V("3"), V("2"), V("1")),
         Ret(<<V("3")>>)>>)
     EXCEPT !.spills = <<V("1")>>]
\* Integers and floats, each in registers of their own
Floats(cc) ==
    [Fn(cc, <<V("a"), V("x")>>, <<>>, Preserved(cc),
       <<Mov(V("y"), V("x")),
         CallTo(cc, 1, G, <<V("y"), V("a"), V("y")>>, <<"flt", "int", "flt">>, <<V("1")>>),
         Ret(<<V("1")>>)>>)
     EXCEPT !.types = <<"int", "flt">>, !.floats = {V("y")},
            !.flts = IF X64(cc) THEN {"xmm0", "xmm1", "xmm2"} ELSE {"d0", "d1", "d2"}]

\* Callees write their home space: nothing is pushed that would be in it
HomeSpace ==
    [SlotKept("Win64") EXCEPT !.regs = {"rax", "rcx"}, !.homes = TRUE]

\* Cases with holes, from 0 and from elsewhere, every index in and around them,
\* and an index that is a constant; each case returns, one of them the index
Arms(ns) == FlattenSeq([k \in DOMAIN ns |-> <<B(ns[k][1]), Ret(<<ns[k][2]>>)>>])
Choose3(cc, index, cases, kind) ==
    Fn(cc, <<V("a")>>, <<<<8, 8>>>>, Regs(cc),
       (IF kind = "constant" THEN <<>> ELSE <<Mov(V("n"), Imm(index))>>)
         \o <<Switch(IF kind = "constant" THEN Imm(index) ELSE V("n"), cases, "other")>>
         \o Arms(<<<<"one", Imm(101)>>, <<"two", IF kind = "kept" THEN V("n") ELSE Imm(102)>>, <<"other", Imm(103)>>>>))
FromZero == [k \in {0, 2} |-> IF k = 0 THEN "one" ELSE "two"]
FromTwo == [k \in {2, 3, 5} |-> IF k = 3 THEN "two" ELSE "one"]
\* AArch64 with the least case 0 shifts the index itself, and loses a constant one
Shifted(cc, cases, kind) == cc = "AAPCS64" /\ cases = FromZero /\ kind # "variable"
SwitchKinds == {"SysV", "AAPCS64"} \X {FromZero, FromTwo} \X {"constant", "variable", "kept"}
Switches ==
    {Choose3(k[1], index, k[2], k[3]) : index \in 0..6, k \in {s \in SwitchKinds : ~Shifted(s[1], s[2], s[3])}}
ShiftedSwitches ==
    {Choose3(k[1], index, k[2], k[3]) : index \in 0..6, k \in {s \in SwitchKinds : Shifted(s[1], s[2], s[3])}}

\* System V only: arguments on the stack
ManyArguments ==
    [Fn("SysV", <<V("a"), V("b")>>, <<<<8, 8>>>>, Preserved("SysV"),
       <<Op3(V("1"), V("a"), V("b")),
         CallTo("SysV", 1, G, <<Imm(1), Imm(2), V("1"), Imm(4), Imm(5), Imm(6), V("1"), Fi(1), Imm(9), V("b")>>, Ints(10),
                <<V("2")>>),
         Op3(V("3"), V("2"), V("1")),
         Ret(<<V("3")>>)>>) EXCEPT !.params = <<V("a"), V("c"), V("d"), V("e"), V("f"), V("b")>>, !.types = Ints(6)]
StackFormals ==
    Fn("SysV", [k \in 1..8 |-> V(<<"p1", "p2", "p3", "p4", "p5", "p6", "p7", "p8">>[k])], <<<<16, 16>>>>, {"rax", "rbx"},
       <<Mov(V("1"), V("p7")), Op2(V("1"), V("p8")), Op2(V("1"), V("p2")),
         CallTo("SysV", 1, G, <<V("1")>>, Ints(1), <<V("2")>>),
         Op2(V("2"), V("p8")),
         Ret(<<V("2")>>)>>)
\* A call of a variadic function, and a variadic function
Printing ==
    [Fn("SysV", <<V("a"), V("x")>>, <<>>, Regs("SysV"),
       <<Mov(V("y"), V("x")), Mov(V("t"), V("a")),
         [CallTo("SysV", 1, V("t"), <<Imm(1), V("y"), V("y"), Imm(2)>>, <<"int", "flt", "flt", "int">>, <<V("1")>>)
            EXCEPT !.vararg = TRUE],
         Ret(<<V("1")>>)>>)
     EXCEPT !.types = <<"int", "flt">>, !.floats = {V("y")}, !.flts = {"xmm0", "xmm1"}]
Variadic(params, calling) ==
    [Fn("SysV", params, <<<<24, 8>>>>, Regs("SysV"),
       <<I("lea", V("va"), Fi(1), 0), Intrinsic("vastart", V("va"), None, None)>>
         \o (IF calling THEN <<CallTo("SysV", 1, G, <<V("va")>>, Ints(1), <<>>)>> ELSE <<>>)
         \o <<Ret(<<Imm(0)>>)>>)
     EXCEPT !.vararg = TRUE]
Win64Variadic ==
    [Fn("Win64", <<V("a"), V("b")>>, <<<<8, 8>>>>, Regs("Win64"),
       <<Op3(V("1"), V("a"), V("b")),
         CallTo("Win64", 1, G, <<V("1")>>, Ints(1), <<V("2")>>),
         Op3(V("3"), V("2"), V("1")),
         Ret(<<V("3")>>)>>)
     EXCEPT !.vararg = TRUE]
\* A stack that is lowered, used for a call and raised again
Dynamic(cc) ==
    Fn(cc, <<V("a")>>, <<<<8, 8>>>>, Preserved(cc),
       <<Intrinsic("stackget", V("old"), None, None),
         I("sub", Sp(cc), None, 32),
         CallTo(cc, 1, G, <<Imm(4)>>, Ints(1), <<V("1")>>),
         Intrinsic("stackset", V("old"), None, None),
         Ret(<<V("1")>>)>>)
\* Registers that Win64 preserves and the tables do not
Win64Sources == {[Across("Win64") EXCEPT !.regs = {"rbx", "rsi", "rdi"}]}
\* A copy of memory, with its registers in use and not
CopySlot(live) ==
    Fn("SysV", <<V("a"), V("b")>>, <<<<8, 8>>, <<8, 8>>>>, {"rax", "rbx"},
       <<I("store", V("b"), Fi(1), 0), Mov(V("1"), V("a")),
         Intrinsic("memcpy", Fi(2), Fi(1), Imm(8)),
         I("load", V("2"), Fi(2), 0),
         Op3(V("3"), V("2"), IF live THEN V("a") ELSE V("1")),
         Ret(<<V("3")>>)>>)

MCFunctions ==
    UNION {{Across(cc), Indirect(cc), FormalAcross(cc), TwoResults(cc), SlotKept(cc), Spilled(cc), Dynamic(cc)} : cc \in All}
      \union {Floats(cc) : cc \in {"SysV", "AAPCS64"}}
      \union Switches
      \union {ManyArguments, StackFormals, Printing, Win64Variadic, CopySlot(TRUE), CopySlot(FALSE), HomeSpace}
      \union {Variadic(params, calling) : params \in {<<V("a")>>, <<V("a"), V("b"), V("c")>>}, calling \in BOOLEAN}
=============================================================================
