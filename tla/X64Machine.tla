----------------------------- MODULE X64Machine -----------------------------
(* What the x86-64 instructions of X64Patterns do.  A machine is a record:   *)
(*   reg     registers, each as wide as eight bytes, and the cell of memory  *)
(*           at address m.at ("mem"; "mem2" is the cell behind it)           *)
(*   flags   what the last comparison compared, <<"none">> when undefined    *)
(*   taken   the jump taken, "" if none was                                  *)
(*   fault   the instruction cannot be encoded or traps                      *)
EXTENDS X64Patterns

Read(m, o, s) ==
    CASE o[1] = "r" -> Mod(m.reg[o[2]], s)
      [] o[1] = "i" -> IF s = 8 THEN Mod(Signed(Mod(o[2], 4), 4), 8) ELSE Mod(o[2], s)

\* A write of four bytes clears the upper half, a narrower one leaves the rest
Written(old, s, v) ==
    CASE s = 8 -> Mod(v, 8)
      [] s = 4 -> Mod(v, 4)
      [] OTHER -> old - Mod(old, s) + Mod(v, s)
Write(m, o, s, v) == [m EXCEPT !.reg[o[2]] = Written(@, s, v)]

Address(m, o) == Mod(m.reg[o[2]] + o[4] * m.reg[o[3]] + o[5], 8)
Cell(m, o) == IF Address(m, o) = Mod(m.at, 8) THEN "mem" ELSE "mem2"
Mapped(m, o, s) == Address(m, o) \in {Mod(m.at, 8), Mod(m.at + s, 8)}

Clobbered(m) == [m EXCEPT !.flags = <<"none">>]
Trap(m) == [m EXCEPT !.fault = TRUE]

\* add, sub, imul, shl, ...: the destination is the first operand
Arithmetic(m, i, k) ==
    Clobbered(Write(m, i.d, i.s, BinaryMeaning(k, i.s, Read(m, i.d, i.s), Read(m, i.a, i.s))))
\* The count is in cl, or an immediate, and masked as the hardware does
Shift(m, i, k) ==
    LET count == Read(m, i.a, 1) % (IF i.s = 8 THEN Bits[8] ELSE Bits[4])
    IN  Clobbered(Write(m, i.d, i.s, BinaryMeaning(k, i.s, Read(m, i.d, i.s), count)))

\* rdx:rax (ah:al for one byte) as an unsigned number of twice the size
Wide(m, s) ==
    IF s = 1 THEN Mod(m.reg["rax"], 1) + 2 ^ Bits[1] * (Mod(m.reg["rax"], 2) \div 2 ^ Bits[1])
    ELSE Mod(m.reg["rax"], s) + 2 ^ Bits[s] * Mod(m.reg["rdx"], s)
WideSigned(m, s) ==
    LET bits == IF s = 1 THEN Bits[2] ELSE 2 * Bits[s]
    IN  IF Wide(m, s) >= 2 ^ (bits - 1) THEN Wide(m, s) - 2 ^ bits ELSE Wide(m, s)
\* A pair of results into rax and rdx, or into al and ah
Pair(m, s, low, high) ==
    Clobbered(IF s = 1 THEN Write(m, R("rax"), 2, Mod(low, 1) + 2 ^ Bits[1] * Mod(high, 1))
              ELSE Write(Write(m, R("rax"), s, low), R("rdx"), s, high))
Divide(m, i) ==
    LET signed == i.op = "idiv"
        n == IF signed THEN WideSigned(m, i.s) ELSE Wide(m, i.s)
        d == IF signed THEN Signed(Read(m, i.a, i.s), i.s) ELSE Read(m, i.a, i.s)
        fits == IF signed THEN FitsSigned(Quotient(n, d), i.s) ELSE n \div d < 2 ^ Bits[i.s]
    IN  IF d = 0 THEN Trap(m)
        ELSE IF ~fits THEN Trap(m)
        ELSE Pair(m, i.s, Quotient(n, d), Remainder(n, d))
\* cbw, cwd, cdq, cqo
Extend(m, s) ==
    LET v == Signed(Mod(m.reg["rax"], s), s)
    IN  IF s = 1 THEN Write(m, R("rax"), 2, v)
        ELSE Write(m, R("rdx"), s, IF v < 0 THEN -1 ELSE 0)

\* Unordered operands of ucomis set zero, parity and carry
Holds(code, f) ==
    CASE f[1] = "float" ->
            (IF NaN \in {f[3], f[4]} THEN code \in {"e", "b", "be"}
             ELSE CASE code = "e" -> f[3] = f[4]               [] code = "ne" -> f[3] # f[4]
                    [] code = "a" -> f[3][1] > f[4][1]         [] code = "ae" -> f[3][1] >= f[4][1]
                    [] code = "b" -> f[3][1] < f[4][1]         [] code = "be" -> f[3][1] <= f[4][1])
      [] OTHER ->
            CASE code = "e" -> f[3] = f[4]                     [] code = "ne" -> f[3] # f[4]
              [] code = "a" -> f[3] > f[4]                     [] code = "ae" -> f[3] >= f[4]
              [] code = "b" -> f[3] < f[4]                     [] code = "be" -> f[3] <= f[4]
              [] code = "g" -> Signed(f[3], f[2]) > Signed(f[4], f[2])
              [] code = "ge" -> Signed(f[3], f[2]) >= Signed(f[4], f[2])
              [] code = "l" -> Signed(f[3], f[2]) < Signed(f[4], f[2])
              [] code = "le" -> Signed(f[3], f[2]) <= Signed(f[4], f[2])

FloatResult(op, a, b) ==
    IF NaN \in {a, b} THEN NaN
    ELSE CASE op = "adds" -> <<a[1] + b[1]>>  [] op = "subs" -> <<a[1] - b[1]>>
           [] op = "muls" -> <<"mul", a, b>>  [] op = "divs" -> <<"div", a, b>>

\* One instruction
Execute(m, i) ==
    CASE i.op = "mov" -> Write(m, i.d, i.s, Read(m, i.a, i.s))
      [] i.op = "movabs" -> Write(m, i.d, 8, i.a[2])
      [] i.op = "movzx" -> Write(m, i.d, i.s, Mod(m.reg[i.a[2]], i.a[3]))
      [] i.op = "movsx" -> Write(m, i.d, i.s, Signed(Mod(m.reg[i.a[2]], i.a[3]), i.a[3]))
      [] i.op = "lea" -> Write(m, i.d, i.s, Address(m, i.a))
      [] i.op = "add" -> Arithmetic(m, i, "Add")
      [] i.op = "sub" -> Arithmetic(m, i, "Sub")
      [] i.op = "imul" -> Arithmetic(m, i, "IMul")
      [] i.op = "imul3" ->
            Clobbered(Write(m, i.d, i.s, Mod(m.reg[i.a[2]], i.s) * Read(m, <<"i", i.a[3]>>, i.s)))
      [] i.op = "and" -> Arithmetic(m, i, "And")
      [] i.op = "or" -> Arithmetic(m, i, "Or")
      [] i.op = "xor" -> Arithmetic(m, i, "Xor")
      [] i.op = "shl" -> Shift(m, i, "ShiftLeft")
      [] i.op = "shr" -> Shift(m, i, "LShiftRight")
      [] i.op = "sar" -> Shift(m, i, "AShiftRight")
      [] i.op = "mul" ->
            LET p == Mod(m.reg["rax"], i.s) * Read(m, i.a, i.s)
            IN  Pair(m, i.s, p, p \div 2 ^ Bits[i.s])
      [] i.op \in {"div", "idiv"} -> Divide(m, i)
      [] i.op = "extend" -> Extend(m, i.s)
      [] i.op = "cmp" -> [m EXCEPT !.flags = <<"int", i.s, Read(m, i.d, i.s), Read(m, i.a, i.s)>>]
      [] i.op = "test" -> [m EXCEPT !.flags = <<"int", i.s, Read(m, i.d, i.s) & Read(m, i.a, i.s), 0>>]
      [] i.op = "ucomi" -> [m EXCEPT !.flags = <<"float", i.s, m.reg[i.d[2]], m.reg[i.a[2]]>>]
      [] i.op = "set" ->
            IF m.flags = <<"none">> THEN Trap(m) ELSE Write(m, i.d, 1, Truth(Holds(i.a[1], m.flags)))
      [] i.op = "jcc" ->
            IF m.flags = <<"none">> THEN Trap(m)
            ELSE IF Holds(i.a[1], m.flags) THEN [m EXCEPT !.taken = i.d[1]] ELSE m
      [] i.op = "jmp" -> [m EXCEPT !.taken = i.d[1]]
      [] i.op = "movs" -> [m EXCEPT !.reg[i.d[2]] = m.reg[i.a[2]]]
      [] i.op \in {"adds", "subs", "muls", "divs"} ->
            [m EXCEPT !.reg[i.d[2]] = FloatResult(i.op, @, m.reg[i.a[2]])]
      [] i.op = "cvt2si" ->
            LET f == m.reg[i.a[2]]
            IN  Write(m, i.d, i.s, IF f = NaN \/ ~FitsSigned(Rounded(f[1]), i.s)
                                   THEN 2 ^ (Bits[i.s] - 1) ELSE Rounded(f[1]))
      [] i.op = "cvtsi2" -> [m EXCEPT !.reg[i.d[2]] = <<2 * Signed(Mod(m.reg[i.a[2]], i.s), i.s)>>]
      [] i.op = "store" ->
            IF Address(m, i.d) # Mod(m.at, 8) THEN Trap(m)
            ELSE LET v == Read(m, i.a, i.s)
                 IN  [m EXCEPT !.reg["mem"] = @ - Mod(@, i.s) + v]
      [] i.op = "load" ->
            IF ~Mapped(m, i.a, i.s) THEN Trap(m) ELSE Write(m, i.d, i.s, m.reg[Cell(m, i.a)])
      [] OTHER -> Trap(m)

\* ------------------------------------------------------ what opcodes there are
Opcodes == {"mov", "movabs", "movzx", "movsx", "lea", "add", "sub", "imul", "imul3", "and", "or", "xor",
            "shl", "shr", "sar", "mul", "div", "idiv", "extend", "cmp", "test", "ucomi", "set", "jcc", "jmp",
            "movs", "adds", "subs", "muls", "divs", "cvt2si", "cvtsi2", "store", "load"}
Exists(i) ==
    /\ i.op \in Opcodes
    /\ i.op \in {"lea", "imul", "imul3"} => i.s > 1
    /\ i.op \in {"movzx", "movsx"} => i.s > i.a[3]
    /\ i.op = "movzx" => <<i.s, i.a[3]>> # <<8, 4>>
    /\ i.op \in {"cvt2si", "cvtsi2"} => i.s \in {4, 8}

\* --------------------------------------------- what register allocation is told
\* The instruction descriptors: which operand an opcode assigns without reading
\* it, and the registers it destroys besides its operands.
Moves == {"mov", "movabs", "load", "lea"}
Conversions == {"movzx", "movsx", "movs", "cvt2si", "cvtsi2", "set"}
Assigns(i) == i.op \in Moves \union Conversions
\* Mutant: the remainder's register is forgotten
DestroysQuotient(i) == IF i.op \in {"mul", "div", "idiv"} THEN {"rax"} ELSE {}
Destroys(i) == IF i.op \in {"mul", "div", "idiv"} THEN {"rax", "rdx"} ELSE {}
==============================================================================
