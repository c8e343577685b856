---------------------------- MODULE MCSelection ----------------------------
EXTENDS Selection, FiniteSets

MCBits == [s \in {1, 2, 4, 8} |-> CASE s = 1 -> 2 [] s = 2 -> 4 [] s = 4 -> 5 [] s = 8 -> 6]

\* Every value of a byte, and the boundaries of the wider sizes and of a signed
\* immediate of four bytes
Values(s) ==
    LET top == 2 ^ Bits[s]
    IN  {v \in {0, 1, 3, top \div 2 - 1, top \div 2, top - 1, 16} : v < top} \union (IF s = 1 THEN 0..3 ELSE {})

Op(k, s, l, r) ==
    [target |-> "x64", k |-> k, s |-> s, l |-> l, r |-> r, to |-> s, opt |-> 0, jump |-> FALSE,
     frame |-> 48, at |-> 40, base |-> "ptr", offset |-> 0, mem |-> <<0, 0>>]
Reg(v) == <<"r", v>>
Const(v, s) == <<"i", Signed(v, s)>>
Unused == <<"r", 0>>
Shapes(a, b, s) ==
    {<<Reg(a), Reg(b)>>, <<Reg(a), Const(b, s)>>, <<Const(a, s), Reg(b)>>, <<Const(a, s), Const(b, s)>>}
Pairs(s) == Values(s) \X Values(s)

Shifts == {"ShiftLeft", "LShiftRight", "AShiftRight"}
Divisions == {"IDiv", "UDiv", "IRem", "URem"}
Bitwise3 == {"And", "Or", "Xor"}

\* Operations for which the code has a pattern that does what it should; README
\* lists the others
Lowered(k, s, l, r) ==
    /\ k \in Divisions \union {"IMul", "UMul"} => s > 1
    /\ IsImm(l) => k \notin Bitwise3 \union {"AShiftRight"}
    /\ IsImm(l) /\ IsImm(r) => k \in Divisions \union {"Add", "Sub", "UMul"}
    /\ k \in {"Add", "Sub", "IMul"} /\ IsImm(l) # IsImm(r) =>
          \A o \in {l, r} : IsImm(o) => FitsSigned(o[2], 4) \/ (k = "Sub" /\ o = l)
    /\ ~(k = "Xor" /\ s = 8 /\ IsImm(r))
    /\ ~(k = "IMul" /\ IsImm(l) # IsImm(r))
    /\ k \in Shifts => Mod(r[2], s) < 2 ^ Bits[1]

BinaryCases ==
    UNION {{[Op(k, s, shape[1], shape[2]) EXCEPT !.opt = IF k = "Add" THEN opt ELSE 0] :
                opt \in {0, 1},
                shape \in {x \in UNION {Shapes(p[1], p[2], s) : p \in {q \in Pairs(s) : Defined(k, s, q[1], q[2])}} :
                              Lowered(k, s, x[1], x[2])}} :
           k \in Binary, s \in Sizes}

\* A comparison with the constant first keeps its condition, so only the
\* symmetric ones are right; two constants are compared as int64_t in a jump
Compared(k, s, l, r, jump) ==
    /\ IsImm(l) /\ ~IsImm(r) => k \in {"ICmpEq", "ICmpNe"}
    /\ IsImm(l) /\ IsImm(r) /\ jump /\ k \in {"UCmpGt", "UCmpGe", "UCmpLt", "UCmpLe"} =>
          (l[2] < 0) = (r[2] < 0)
CompareCases ==
    UNION {{[Op(k, s, shape[1], shape[2]) EXCEPT !.jump = jump] :
                shape \in {x \in UNION {Shapes(p[1], p[2], s) : p \in Pairs(s)} :
                              Compared(k, s, x[1], x[2], jump)}} :
           k \in Compares, s \in {1, 4, 8}, jump \in BOOLEAN}
      \union {Op("Jump", 1, Reg(v), Unused) : v \in {0, 1}}

Floats == {<<-3>>, <<0>>, <<2>>}
FloatCases ==
    {[Op(k, 8, <<"f", a>>, <<"f", b>>) EXCEPT !.jump = TRUE] : k \in FCompares, a \in Floats, b \in Floats}
      \union {[Op(k, 8, <<"f", a>>, <<"f", NaN>>) EXCEPT !.jump = TRUE] : k \in {"FCmpGt", "FCmpGe"}, a \in Floats}
      \union {Op(k, 8, <<"f", a>>, <<"f", b>>) :
                k \in {"FAdd", "FSub", "FMul", "FDiv"}, a \in Floats \union {NaN}, b \in Floats \union {NaN}}
      \union {[Op(k, 8, <<"f", <<h>>>>, Unused) EXCEPT !.to = to] :
                k \in {"Fptosi", "Fptoui"}, to \in {1, 4}, h \in {0, 2}}
      \union {[Op("Fptosi", 8, <<"f", <<h>>>>, Unused) EXCEPT !.to = to] : to \in {1, 4}, h \in {-4, -2}}
      \union {Op("Sitofp", s, Reg(v), Unused) : s \in {4, 8}, v \in Values(4)}
      \union {Op("Uitofp", 4, Reg(v), Unused) : v \in {x \in Values(4) : x < 2 ^ (Bits[4] - 1)}}
      \union {Op(k, 8, <<"f", a>>, Unused) : k \in {"Fptrunc", "Fpext"}, a \in Floats}

CastCases ==
    UNION {{[Op(k, s, Reg(v), Unused) EXCEPT !.to = to] : v \in Values(s)} :
           <<k, s, to>> \in {x \in {"Zext", "Sext", "Trunc"} \X Sizes \X Sizes :
                               IF x[1] = "Trunc" THEN x[2] > x[3] ELSE x[2] < x[3]}}

\* Stores and loads of every size through a slot, a register and a global
At(op, base) == [op EXCEPT !.base = base, !.offset = IF base = "frame" THEN 8 ELSE 40]
MemoryCases ==
    UNION {{At(Op("Store", s, o, Unused), base) :
                o \in UNION {{Reg(v)} \union (IF FitsSigned(Signed(v, s), 4) \/ base = "frame" THEN {Const(v, s)} ELSE {})
                             : v \in Values(s)}} :
           s \in Sizes, base \in {"frame", "ptr", "global"}}
      \union {At(Op("Store", 8, <<"slot", 4>>, Unused), base) : base \in {"frame", "ptr"}}
      \union UNION {{At([Op(k, s, Unused, Unused) EXCEPT !.mem = <<v, 1>>], base) : v \in Values(8)} :
                    k \in {"Load", "LoadMulti"}, s \in Sizes, base \in {"frame", "ptr", "global"}}

Word == <<"scalar", 4, <<>>>>
Byte == <<"scalar", 1, <<>>>>
Pair2 == <<"struct", 5, <<Byte, Word>>>>
Big == <<"scalar", 12, <<>>>>
Pointer(t) == <<"pointer", 8, <<t>>>>
Array(n, t) == <<"array", n * t[2], <<t>>>>
\* Paths with at most one register index, the last one, and nothing before it
Paths ==
    {<<Pointer(t), <<<<"i", n>>>>>> : t \in {Word, Byte, Big}, n \in 0..2}
      \union {<<Pointer(t), <<<<"r", 0>>>>>> : t \in {Word, Byte, Big}}
      \union {<<Pointer(Pair2), <<<<"i", n>>, <<"i", f>>>>>> : n \in {0, 1}, f \in {0, 1}}
      \union {<<Pointer(Array(3, Word)), <<<<"i", 0>>, <<"i", n>>>>>> : n \in 0..2}
AddressCases ==
    {[p \in DOMAIN Op("", 8, Unused, Unused) \union {"type", "path", "pointer"} |->
        CASE p = "type" -> path[1] [] p = "path" -> path[2] [] p = "pointer" -> 8
          [] OTHER -> [Op("GetElementPtr", 8, Unused, Reg(v)) EXCEPT
                          !.base = base, !.offset = IF base = "frame" THEN 8 ELSE 0][p]] :
        v \in {0, 1, 3}, base \in {"ptr"}, path \in Paths}
      \union
    {[p \in DOMAIN Op("", 8, Unused, Unused) \union {"size", "align"} |->
        CASE p = "size" -> size [] p = "align" -> 4
          [] OTHER -> Op("Allocate", 8, Reg(v), Unused)[p]] : v \in 0..3, size \in {1, 3, 4, 6}}

X64Cases == BinaryCases \union CompareCases \union FloatCases \union CastCases \union MemoryCases \union AddressCases

------------------------------------------------------------------------------
\* The same for AArch64, with what it has a right pattern for: README lists the
\* others.  A narrow value has a whole register of four bytes.
LowBits == {"Add", "Sub", "IMul", "UMul"} \union Bitwise3
LoweredA64(k, s, l, r) ==
    /\ s < 4 => k \in LowBits /\ ~IsImm(l)
    /\ IsImm(l) /\ IsImm(r) => FALSE
    /\ s = 1 /\ (IsImm(l) \/ IsImm(r)) => k \in {"Add", "Sub"}
    /\ IsImm(l) => k \notin Bitwise3 \union Shifts
    /\ k = "Xor" /\ s = 2 => ~IsImm(r)
    /\ k = "ShiftLeft" => ~IsImm(r)
ComparedA64(k, s, l, r, jump) ==
    /\ Compared(k, s, l, r, jump)
    /\ ~jump => \/ IsImm(l) # IsImm(r) /\ s = 4
                \/ IsImm(l) /\ IsImm(r)
OrderedA64 == {"FCmpEq", "FCmpNe", "FCmpLt", "FCmpLe"}
CastsA64 == {<<"Zext", 4, 8>>, <<"Zext", 1, 2>>, <<"Zext", 2, 4>>, <<"Sext", 4, 8>>,
             <<"Trunc", 8, 4>>, <<"Trunc", 4, 2>>, <<"Trunc", 4, 1>>, <<"Trunc", 2, 1>>}
\* What does not depend on the target but for the operations left out
A64Cases ==
    UNION {UNION {{Op(k, s, x[1], x[2]) :
                   x \in {y \in Shapes(p[1], p[2], s) : LoweredA64(k, s, y[1], y[2])}} :
                 p \in {q \in Pairs(s) : Defined(k, s, q[1], q[2])}} : k \in Binary, s \in Sizes}
      \union
    UNION {UNION {{[Op(k, s, x[1], x[2]) EXCEPT !.jump = jump] :
                   x \in {y \in Shapes(p[1], p[2], s) : ComparedA64(k, s, y[1], y[2], jump)}} : p \in Pairs(s)} :
           k \in Compares, s \in {4, 8}, jump \in BOOLEAN}
      \union {Op("Jump", 4, Reg(v), Unused) : v \in {0, 1}}
      \union {x \in FloatCases : x.k \notin FCompares \/ x.r[2] # NaN}
      \union {[Op(k, 8, <<"f", a>>, <<"f", NaN>>) EXCEPT !.jump = TRUE] : k \in OrderedA64, a \in Floats}
      \union {[Op(k, 8, <<"f", <<h>>>>, Unused) EXCEPT !.to = to] : k \in {"Fptosi", "Fptoui"}, to \in {4, 8}, h \in {1, 3}}
      \union {Op("Uitofp", s, Reg(v), Unused) : s \in {4, 8}, v \in Values(4)}
      \union UNION {{[Op(t[1], t[2], Reg(v), Unused) EXCEPT !.to = t[3]] : v \in Values(t[2])} : t \in CastsA64}
      \union {x \in MemoryCases :
                /\ x.k = "Load" \/ x.s \in {4, 8}
                /\ x.l[1] # "slot"
                /\ IsImm(x.l) => x.base # "global"}
      \union {x \in AddressCases :
                \/ x.k = "Allocate"
                \/ x.k = "GetElementPtr" /\ \A n \in DOMAIN x.path : IsImm(x.path[n])
                   /\ AddressMeaning(x) - x.at \in 1..2 ^ (Bits[1] - 1) - 1}
MCCases == X64Cases \union {[x EXCEPT !.target = "AArch64"] : x \in A64Cases}
==============================================================================
