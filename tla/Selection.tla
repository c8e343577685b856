------------------------------ MODULE Selection ------------------------------
(* One operation of the IR, chosen, lowered by the pattern that matches it,  *)
(* and run.  The registers that hold the operands have anything above the    *)
(* width of the operand.                                                     *)
EXTENDS X64Machine

A64 == INSTANCE A64Machine

CONSTANTS
    Cases,          \* operations with their operands, as X64Patterns takes them,
                    \* and the target they are compiled for
    Junk            \* what may stand above a narrow value, as the fill of the upper bits

VARIABLES
    c,              \* the operation
    code,           \* instructions emitted for it
    pc,             \* 0 before the match, then the instruction to run next
    m               \* the machine
vars == <<c, code, pc, m>>

\* A register that holds v as an operand of s bytes
Held(v, s, junk) == IF s = 8 THEN v ELSE v + junk * 2 ^ Bits[s] * (2 ^ (Bits[8] - Bits[s]) - 1)

\* The machine before the operation: arbitrary but fixed in every register it
\* may not rely on
Other == 2 ^ (Bits[8] - 1) + 1
Start(op, junk) ==
    LET value(o, s) == IF o[1] = "r" THEN Held(o[2], s, junk) ELSE Other
        float(o) == IF o[1] = "f" THEN o[2] ELSE NaN
    IN  [reg |-> [left |-> value(op.l, op.s),
                  right |-> value(op.r, IF op.k = "GetElementPtr" THEN 8 ELSE op.s),
                  ret |-> Other, ret2 |-> Other, rax |-> Other, rcx |-> Other, rdx |-> Other,
                  tmp |-> Other, zero |-> 0, rip |-> 0, rbp |-> op.frame, rsp |-> op.frame,
                  x29 |-> op.frame, index |-> Other, size |-> Other,
                  ptr |-> op.at, mem |-> IF op.k \in {"Load", "LoadMulti"} THEN op.mem[1] ELSE Other,
                  mem2 |-> IF op.k = "LoadMulti" THEN op.mem[2] ELSE Other,
                  fleft |-> float(op.l), fright |-> float(op.r), fret |-> NaN],
         flags |-> <<"none">>, taken |-> "", fault |-> FALSE, at |-> op.at]

Init ==
    /\ c \in Cases
    /\ \E junk \in Junk : m = Start(c, junk)
    /\ code = <<>>
    /\ pc = 0

\* ISelPass::selectPattern and the emitter
Select ==
    /\ pc = 0
    /\ code' = IF c.target = "x64" THEN EmitX64(c) ELSE A64!EmitA64(c)
    /\ pc' = 1
    /\ UNCHANGED <<c, m>>

Run ==
    /\ pc \in DOMAIN code
    /\ m' = IF c.target = "x64" THEN Execute(m, code[pc]) ELSE A64!Execute(m, code[pc])
    /\ pc' = IF m'.fault \/ m'.taken # "" THEN Len(code) + 1 ELSE pc + 1
    /\ UNCHANGED <<c, code>>

Next == Select \/ Run
Done == pc > Len(code) /\ pc > 0
Spec == Init /\ [][Next]_vars

------------------------------------------------------------------------------
(* The machine stays a machine, and code consists of opcodes that there are  *)
(* for the size of their operands: a pattern whose match lets a size through *)
(* that has none writes an instruction the encoder and the printer have no   *)
(* name for (x64_instruction_info.hpp, selectOpcode).  No pattern reads flags *)
(* that no comparison set, makes a division trap that has a result, or       *)
(* reaches memory beside the place it was given.                             *)
TypeOK ==
    /\ ~m.fault
    /\ pc \in 0..Len(code) + 1
    /\ \A r \in {"left", "right", "ret", "rax", "rcx", "rdx", "tmp"} : m.reg[r] \in 0..2 ^ Bits[8] - 1
    /\ \A n \in DOMAIN code : IF c.target = "x64" THEN Exists(code[n]) ELSE A64!Exists(code[n])

\* The value an integer operand has, in the width of the operation
ValueOf(o, s) == Mod(o[2], s)
Narrow(s) == Mod(m.reg["ret"], s)

AddressMeaning(op) ==
    LET part(step, index) ==
            LET t == step[2]
                n == IF IsImm(index) THEN index[2] ELSE op.r[2]
                at == IF t[1] = "struct" THEN Distance(t, n) ELSE n * t[3][1][2]
            IN  <<step[1] + at, t[3][IF t[1] = "struct" THEN n + 1 ELSE 1]>>
        step[n \in 0..Len(op.path)] ==
            IF n = 0 THEN <<op.at, op.type>> ELSE part(step[n - 1], op.path[n])
    IN  Mod(step[Len(op.path)][1], 8)

\* What the operation means in the IR is what the machine has in its result
\* register, under the name of the result's size, or what it jumped to
Correct ==
    LET a == ValueOf(c.l, c.s)
        b == ValueOf(c.r, c.s)
    IN  CASE c.k \in Binary -> Narrow(c.s) = BinaryMeaning(c.k, c.s, a, b)
          [] c.k \in Compares ->
                IF c.jump THEN m.taken = (IF CompareMeaning(c.k, c.s, a, b) THEN "then" ELSE "else")
                ELSE Narrow(1) = Truth(CompareMeaning(c.k, c.s, a, b))
          [] c.k \in FCompares -> m.taken = (IF CompareMeaning(c.k, 8, c.l[2], c.r[2]) THEN "then" ELSE "else")
          [] c.k = "Jump" -> m.taken = (IF a # 0 THEN "then" ELSE "else")
          [] c.k = "Zext" -> Narrow(c.to) = a
          [] c.k = "Sext" -> Narrow(c.to) = Mod(Signed(a, c.s), c.to)
          [] c.k = "Trunc" -> Narrow(c.to) = Mod(a, c.to)
          [] c.k \in {"FAdd", "FSub", "FMul", "FDiv"} ->
                m.reg["fret"] = FloatResult(CASE c.k = "FAdd" -> "adds" [] c.k = "FSub" -> "subs"
                                              [] c.k = "FMul" -> "muls" [] c.k = "FDiv" -> "divs", c.l[2], c.r[2])
          [] c.k \in {"Fptosi", "Fptoui"} -> Narrow(c.to) = Mod(Truncated(c.l[2][1]), c.to)
          [] c.k = "Sitofp" -> m.reg["fret"] = <<2 * Signed(a, c.s)>>
          [] c.k = "Uitofp" -> m.reg["fret"] = <<2 * a>>
          [] c.k \in {"Fptrunc", "Fpext"} -> m.reg["fret"] = c.l[2]
          [] c.k = "Store" ->
                m.reg["mem"] = (Other - Mod(Other, c.s)) + (IF c.l[1] = "slot" THEN Mod(c.frame - c.l[2], 8) ELSE a)
          [] c.k = "Load" -> Narrow(c.s) = Mod(c.mem[1], c.s)
          [] c.k = "LoadMulti" -> Narrow(c.s) = Mod(c.mem[1], c.s) /\ Mod(m.reg["ret2"], c.s) = Mod(c.mem[2], c.s)
          [] c.k = "GetElementPtr" -> m.reg["ret"] = AddressMeaning(c)
          [] c.k = "Allocate" ->
                LET bytes == a * c.size
                    rounded == ((bytes + c.align - 1) \div c.align) * c.align
                IN  m.reg["rsp"] = Mod(c.frame - rounded, 8) /\ m.reg["ret"] = m.reg["rsp"]

(* A pattern computes what its operation means, for operands of any width in *)
(* registers and constants, whatever stands above them in their registers    *)
(* (x64_patterns.cpp, AArch64_patterns.cpp).                                 *)
MeaningKept == Done => Correct

(* Operands stay as they are: other operations read them later, and the move *)
(* into the result comes first in every pattern of two addresses.            *)
OperandsKept ==
    \E junk \in Junk : \A r \in {"left", "right", "ptr", "fleft"} : m.reg[r] = Start(c, junk).reg[r]

DestroysOf(i) == IF c.target = "x64" THEN Destroys(i) ELSE A64!Destroys(i)
AssignsOf(i) == IF c.target = "x64" THEN Assigns(i) ELSE A64!Assigns(i)
Announced == UNION {DestroysOf(code[n]) \union (IF code[n].d[1] \in {"r", "w"} THEN {code[n].d[2]} ELSE {}) : n \in DOMAIN code}
Touches(i) == i.d \in {Ret, <<"w", "ret">>}
FirstTouch == CHOOSE n \in DOMAIN code : Touches(code[n]) /\ \A k \in DOMAIN code : Touches(code[k]) => n <= k

(* Register allocation knows every register the code of a pattern changes:   *)
(* an instruction has it for its first operand, or lists it as destroyed     *)
(* (x64_instruction_info.cpp); no operand is among them.  The reserved       *)
(* register is nobody else's.  The first instruction that touches the result *)
(* says that it assigns it, so that nothing of the result is live before it  *)
(* (fillRanges) and a spilled result is stored (spiller.cpp:35).             *)
WritesAnnounced ==
    /\ OperandsKept
    /\ (\E n \in DOMAIN code : Touches(code[n])) => AssignsOf(code[FirstTouch])
    /\ Done =>
        \A r \in {"rax", "rcx", "rdx", "rbp", "rsp", "ret"} : m.reg[r] # Start(c, 0).reg[r] => r \in Announced
==============================================================================
