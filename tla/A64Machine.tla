----------------------------- MODULE A64Machine -----------------------------
(* What the AArch64 instructions of A64Patterns do, on the machines of       *)
(* X64Machine.  There is no fault a division could raise: a quotient by zero *)
(* is zero.                                                                  *)
EXTENDS A64Patterns

\* The name an operand is printed with, and its value
NameWidth(i, o) == CASE o[1] = "w" -> 4 [] o[1] = "x" -> 8 [] OTHER -> i.w
Read(m, i, o) == IF o[1] = "i" THEN Mod(o[2], i.w) ELSE Mod(m.reg[o[2]], NameWidth(i, o))
\* A write of four bytes clears the upper half
Write(m, i, v) == [m EXCEPT !.reg[i.d[2]] = Mod(v, NameWidth(i, i.d))]
First(m, i) == Read(m, i, i.a[1])
Second(m, i) == Read(m, i, i.a[2])
Trap(m) == [m EXCEPT !.fault = TRUE]

\* Bits r..s of the source, or its bits 0..s moved up
Field(v, r, s, w, signed) ==
    LET width == IF s >= r THEN s - r + 1 ELSE s + 1
        low == (IF s >= r THEN v \div 2 ^ r ELSE v) % 2 ^ width
        extended == IF signed /\ low >= 2 ^ (width - 1) THEN low - 2 ^ width ELSE low
    IN  IF s >= r THEN extended ELSE extended * 2 ^ (Bits[w] - r)

\* fcmp of unordered operands sets carry and overflow
Holds(code, f) ==
    CASE f[1] = "float" ->
            (IF NaN \in {f[3], f[4]} THEN code \in {"ne", "hi", "cs", "lt", "le"}
             ELSE CASE code = "eq" -> f[3] = f[4]              [] code = "ne" -> f[3] # f[4]
                    [] code = "hi" -> f[3][1] > f[4][1]        [] code = "cs" -> f[3][1] >= f[4][1]
                    [] code = "cc" -> f[3][1] < f[4][1]        [] code = "ls" -> f[3][1] <= f[4][1])
      [] OTHER ->
            CASE code = "eq" -> f[3] = f[4]                    [] code = "ne" -> f[3] # f[4]
              [] code = "hi" -> f[3] > f[4]                    [] code = "cs" -> f[3] >= f[4]
              [] code = "cc" -> f[3] < f[4]                    [] code = "ls" -> f[3] <= f[4]
              [] code = "gt" -> Signed(f[3], f[2]) > Signed(f[4], f[2])
              [] code = "ge" -> Signed(f[3], f[2]) >= Signed(f[4], f[2])
              [] code = "lt" -> Signed(f[3], f[2]) < Signed(f[4], f[2])
              [] code = "le" -> Signed(f[3], f[2]) <= Signed(f[4], f[2])

FloatResult(op, a, b) ==
    IF NaN \in {a, b} THEN NaN
    ELSE CASE op = "fadd" -> <<a[1] + b[1]>>  [] op = "fsub" -> <<a[1] - b[1]>>
           [] op = "fmul" -> <<"mul", a, b>>  [] op = "fdiv" -> <<"div", a, b>>
\* fcvtzs and fcvtzu go to the nearest value there is
Saturated(v, w, signed) ==
    LET low == IF signed THEN -(2 ^ (Bits[w] - 1)) ELSE 0
        high == IF signed THEN 2 ^ (Bits[w] - 1) - 1 ELSE 2 ^ Bits[w] - 1
    IN  IF v < low THEN low ELSE IF v > high THEN high ELSE v

Address(m, i) == Mod(m.reg[i.a[1][2]] + i.a[2][2], 8)

Execute(m, i) ==
    CASE i.op = "movz" -> Write(m, i, i.a[1][2])
      [] i.op = "movn" -> Write(m, i, -1 - i.a[1][2])
      [] i.op = "movk" ->
            LET at == 2 ^ (i.a[2][2] * Bits[2])
            IN  Write(m, i, Mod(m.reg[i.d[2]], i.w) + (i.a[1][2] - Chunk(Mod(m.reg[i.d[2]], i.w), i.a[2][2])) * at)
      [] i.op = "add" -> Write(m, i, First(m, i) + Second(m, i))
      [] i.op = "sub" -> Write(m, i, First(m, i) - Second(m, i))
      [] i.op = "mul" -> Write(m, i, First(m, i) * Second(m, i))
      [] i.op = "msub" -> Write(m, i, Read(m, i, i.a[3]) - First(m, i) * Second(m, i))
      [] i.op = "sdiv" ->
            Write(m, i, IF Second(m, i) = 0 THEN 0
                        ELSE Quotient(Signed(First(m, i), i.w), Signed(Second(m, i), i.w)))
      [] i.op = "udiv" -> Write(m, i, IF Second(m, i) = 0 THEN 0 ELSE First(m, i) \div Second(m, i))
      [] i.op = "and" -> Write(m, i, First(m, i) & Second(m, i))
      [] i.op = "orr" -> Write(m, i, First(m, i) | Second(m, i))
      [] i.op = "eor" -> Write(m, i, First(m, i) ^^ Second(m, i))
      [] i.op = "lslv" -> Write(m, i, First(m, i) * 2 ^ (Second(m, i) % Bits[i.w]))
      [] i.op = "lsrv" -> Write(m, i, First(m, i) \div 2 ^ (Second(m, i) % Bits[i.w]))
      [] i.op = "asrv" -> Write(m, i, Signed(First(m, i), i.w) \div 2 ^ (Second(m, i) % Bits[i.w]))
      [] i.op \in {"ubfm", "sbfm"} ->
            Write(m, i, Field(First(m, i), i.a[2][2], i.a[3][2], i.w, i.op = "sbfm"))
      [] i.op = "subs" -> [m EXCEPT !.flags = <<"int", i.w, First(m, i), Second(m, i)>>]
      [] i.op = "fcmp" -> [m EXCEPT !.flags = <<"float", i.w, m.reg[i.d[2]], m.reg[i.a[1][2]]>>]
      [] i.op = "csinc" -> IF m.flags = <<"none">> THEN Trap(m)
                           ELSE Write(m, i, Truth(~Holds(i.a[3][1], m.flags)))
      [] i.op = "bcc" -> IF m.flags = <<"none">> THEN Trap(m)
                         ELSE IF Holds(i.a[1][1], m.flags) THEN [m EXCEPT !.taken = i.d[1]] ELSE m
      [] i.op = "b" -> [m EXCEPT !.taken = i.d[1]]
      [] i.op \in {"fadd", "fsub", "fmul", "fdiv"} ->
            [m EXCEPT !.reg[i.d[2]] = FloatResult(i.op, m.reg[i.a[1][2]], m.reg[i.a[2][2]])]
      [] i.op \in {"fcvtzs", "fcvtzu"} ->
            LET f == m.reg[i.a[1][2]]
            IN  Write(m, i, IF f = NaN THEN 0 ELSE Saturated(Truncated(f[1]), i.w, i.op = "fcvtzs"))
      [] i.op = "scvtf" -> [m EXCEPT !.reg[i.d[2]] = <<2 * Signed(First(m, i), i.w)>>]
      [] i.op = "ucvtf" -> [m EXCEPT !.reg[i.d[2]] = <<2 * First(m, i)>>]
      [] i.op = "fcvt" -> [m EXCEPT !.reg[i.d[2]] = m.reg[i.a[1][2]]]
      [] i.op = "adrp" -> Write(m, i, i.a[1][2])
      [] i.op = "str" ->
            IF Address(m, i) # Mod(m.at, 8) THEN Trap(m)
            ELSE [m EXCEPT !.reg["mem"] = @ - Mod(@, i.w) + Mod(m.reg[i.d[2]], i.w)]
      [] i.op = "ldr" ->
            IF Address(m, i) \notin {Mod(m.at, 8), Mod(m.at + i.w, 8)} THEN Trap(m)
            ELSE Write(m, i, m.reg[IF Address(m, i) = Mod(m.at, 8) THEN "mem" ELSE "mem2"])
      [] OTHER -> Trap(m)

\* --------------------------------------------- what the assembler has a form for
\* A run of ones is what and, orr and eor take as a constant; the other
\* constants are unsigned, and only add and sub turn a negative one around
Run(v, w) == \E a \in 0..Bits[w] - 1 : \E b \in a + 1..Bits[w] : Mod(v, w) = 2 ^ b - 2 ^ a /\ b - a < Bits[w]
Logic == {"and", "orr", "eor"}
Three3 == {"add", "sub", "mul", "sdiv", "udiv", "lslv", "lsrv", "asrv"} \union Logic
Fields == {"ubfm", "sbfm"}
Opcodes == Three3 \union Fields
    \union {"movz", "movn", "movk", "msub", "subs", "fcmp", "csinc", "bcc", "b", "fadd", "fsub", "fmul", "fdiv",
            "fcvtzs", "fcvtzu", "scvtf", "ucvtf", "fcvt", "adrp", "str", "ldr"}
Exists(i) ==
    /\ i.op \in Opcodes
    /\ \A n \in DOMAIN i.a :
          \/ i.a[n][1] = "i"
          \/ i.op \notin Three3 \union Fields \union {"msub", "subs", "csinc"}
          \/ i.a[n][1] \in {"r", "w", "x"} => NameWidth(i, i.a[n]) = NameWidth(i, i.d)
    /\ i.op \in Three3 => i.a[1][1] # "i" /\ (i.a[2][1] = "i" => i.op \in {"add", "sub"} \union Logic)
    /\ i.op \in Logic /\ i.a[2][1] = "i" => Run(i.a[2][2], i.w)
    /\ i.op \in {"movz", "movn", "movk"} => i.a[1][2] \in 0..2 ^ Bits[2] - 1
    /\ i.op \in Fields => i.a[1][1] # "i" /\ \A n \in {2, 3} : i.a[n][1] = "i" /\ i.a[n][2] \in 0..Bits[i.w] - 1
    /\ i.op = "subs" => Len(i.a) = 2
    /\ i.op \in {"str", "ldr"} => i.d[1] = "r"

\* What register allocation is told: every opcode assigns its first operand,
\* but for these
Assigns(i) == i.op \notin {"str", "bcc", "b", "fcmp"}
Destroys(i) == {}
==============================================================================
