---------------------------- MODULE X64Encoding ----------------------------
(***************************************************************************)
(* x64InstructionEncoder and its table: what bytes a machine instruction   *)
(* becomes, and what the assembly printer says the same instruction is.    *)
(*                                                                         *)
(* An instruction is a record [mn, form, size, ops]: the mnemonic, which   *)
(* operands its opcode takes, the size of its descriptor, the operands.    *)
(* <<"gp", n, s>> and <<"xmm", n>> are registers by the numbers of the     *)
(* machine, <<"high", n>> is one of ah, ch, dh, bh; <<"imm", v>>,          *)
(* <<"sym", name>>; <<"mem", base, index, scale, off>> stands for five     *)
(* operands, with a symbol in place of the base when the access is         *)
(* relative to the instruction pointer, and <<"none">> for no index.       *)
(***************************************************************************)
EXTENDS Integers, Sequences, SequencesExt, Bitwise

None == <<"none">>
I(mn, form, size, ops) == [mn |-> mn, form |-> form, size |-> size, ops |-> ops]

IsRegister(op) == op[1] \in {"gp", "high", "xmm"}
IsImmediate(op) == op[1] = "imm"
IsLoad(i) == i.form \in {"rm"}
IsStore(i) == i.form \in {"mr", "mi"}
Memory(i) == i.ops[IF IsLoad(i) THEN 2 ELSE 1]

\* The little end first; an arithmetic shift goes on repeating the sign.
Bytes(value, n) ==
  LET shifted[k \in 0..n] == IF k = 0 THEN value ELSE shifted[k - 1] \div 256
  IN  [k \in 1..n |-> shifted[k - 1] % 256]

-----------------------------------------------------------------------------
(* The table of encodings.  An empty sequence of bytes is an opcode the      *)
(* table leaves out.                                                         *)
NoVariant == -1
E(bytes) == [bytes |-> bytes, default64 |-> FALSE, type |-> "normal", immSize |-> 0,
             variant |-> NoVariant, regIdx |-> 2, rmIdx |-> 1, rexPosition |-> 1]
NoEncoding == E(<<>>)
As(e, type) == [e EXCEPT !.type = type]
Default64(e) == [e EXCEPT !.default64 = TRUE]
Immediate(e, size) == [e EXCEPT !.immSize = size]
Variant(e, n) == [e EXCEPT !.variant = n]
RegFirst(e) == [e EXCEPT !.regIdx = 1, !.rmIdx = 2]

\* The byte form of most opcodes is the one before the other forms.
ForSize(size, byte) == IF size = 1 THEN byte - 1 ELSE byte
ImmSize(size) == IF size = 8 THEN 4 ELSE size

AluNumber == [add |-> 0, or |-> 1, and |-> 4, sub |-> 5, xor |-> 6, cmp |-> 7]

AluEncoding(mn, form, size) ==
  LET k == AluNumber[mn]
  IN  CASE form = "rr" /\ mn # "cmp" -> E(<<ForSize(size, 8 * k + 1)>>)
        [] (form = "rr" /\ mn = "cmp") \/ (form = "rm" /\ mn \in {"add", "sub", "cmp"}) ->
             RegFirst(E(<<ForSize(size, 8 * k + 3)>>))
        [] form = "mr" /\ mn \in {"add", "sub"} -> E(<<ForSize(size, 8 * k + 1)>>)
        [] \/ form = "ri" /\ size < 8
           \/ form = "r32i" /\ mn \in {"add", "sub", "and", "cmp"}
           \/ form = "mi" /\ mn = "add" /\ size < 8 ->
             Variant(Immediate(E(<<ForSize(size, 129)>>), ImmSize(size)), k)
        [] form = "r8i" /\ mn \in {"add", "sub", "and"} -> Variant(Immediate(E(<<131>>), 1), k)
        [] OTHER -> NoEncoding

MovEncoding(form, size) ==
  CASE form \in {"rr", "mr"} -> E(<<ForSize(size, 137)>>)
    [] form = "rm" -> E(<<ForSize(size, 139)>>)
    [] form = "ri" /\ size = 1 -> As(Immediate(E(<<176>>), 1), "embedded")
    [] form = "ri" /\ size > 1 -> As(Immediate(E(<<184>>), size), "embedded")
    [] form = "r32i" \/ form = "mi" ->
         Variant(Immediate(E(<<ForSize(size, 199)>>), ImmSize(size)), 0)

\* movzx and movsx by the size of what they extend.
ExtendEncoding(mn, from) ==
  RegFirst(E(IF from = 4 THEN <<99>>
             ELSE <<15, (IF mn = "movzx" THEN 182 ELSE 190) + (IF from = 2 THEN 1 ELSE 0)>>))

ShiftNumber == [shl |-> 4, shr |-> 5, sar |-> 7]
ShiftEncoding(mn, form, size) ==
  Variant(IF form = "ri" THEN Immediate(E(<<ForSize(size, 193)>>), 1)
          ELSE E(<<ForSize(size, 211)>>), ShiftNumber[mn])

UnaryNumber == [not |-> 2, mul |-> 4, div |-> 6, idiv |-> 7]

Condition == [b |-> 2, ae |-> 3, e |-> 4, ne |-> 5, be |-> 6, a |-> 7,
              l |-> 12, ge |-> 13, le |-> 14, g |-> 15]
JumpOn == [jb |-> "b", jae |-> "ae", je |-> "e", jne |-> "ne", jbe |-> "be", ja |-> "a",
           jl |-> "l", jge |-> "ge", jle |-> "le", jg |-> "g"]
SetOn == [setb |-> "b", setae |-> "ae", sete |-> "e", setne |-> "ne", setbe |-> "be",
          seta |-> "a", setl |-> "l", setge |-> "ge", setle |-> "le", setg |-> "g"]

\* Arithmetic on the low float of an xmm register: 243 stands for 4 bytes, 242 for 8.
FloatNumber == [addss |-> 88, mulss |-> 89, subss |-> 92, divss |-> 94,
                addsd |-> 88, mulsd |-> 89, subsd |-> 92, divsd |-> 94,
                cmpss |-> 194, cmpsd |-> 194]
Single(mn) == mn \in {"addss", "mulss", "subss", "divss", "cmpss", "movss", "cvtss2sd", "cvtsi2ss",
                      "cvtss2si", "ucomiss"}
FloatPrefix(mn) == IF Single(mn) THEN 243 ELSE 242

FloatEncoding(mn, form) ==
  LET e == E(<<FloatPrefix(mn), 15, FloatNumber[mn]>>)
  IN  RegFirst(CASE mn \in {"addsd", "subsd"} -> Default64(e)
                 [] mn \in {"cmpss", "cmpsd"} -> Immediate(e, 1)
                 [] OTHER -> e)

FloatMoveEncoding(mn, form) ==
  LET e == E(<<FloatPrefix(mn), 15, IF form = "mr" THEN 17 ELSE 16>>)
      f == IF form = "mr" THEN e ELSE RegFirst(e)
  IN  IF mn = "movsd" THEN Default64(f) ELSE f

ConvertEncoding(mn, size) ==
  LET e == RegFirst(E(<<FloatPrefix(mn), 15,
                        CASE mn \in {"cvtss2sd", "cvtsd2ss"} -> 90
                          [] mn \in {"cvtsi2ss", "cvtsi2sd"} -> 42
                          [] mn \in {"cvtss2si", "cvtsd2si"} -> 45>>))
  IN  CASE mn \in {"cvtss2sd", "cvtsd2ss"} -> Default64(e)
        [] size = 8 -> [e EXCEPT !.rexPosition = 2]
        [] OTHER -> e

Moves == {"movss", "movsd"}
Conversions == {"cvtss2sd", "cvtsd2ss", "cvtsi2ss", "cvtsi2sd", "cvtss2si", "cvtsd2si"}

OtherEncoding(mn, form, size) ==
  CASE mn = "ret" -> As(E(<<195>>), "none")
    [] mn = "rep movsb" -> As(E(<<243, 164>>), "none")
    [] mn \in {"cqo", "cdq", "cwd"} -> As(E(<<153>>), "none")
    [] mn = "cbw" -> As(E(<<152>>), "none")
    [] mn = "push" /\ form = "r" -> As(Default64(E(<<80>>)), "embedded")
    [] mn = "pop" -> As(Default64(E(<<88>>)), "embedded")
    [] mn = "push" /\ form = "i" -> Immediate(E(<<IF size = 1 THEN 106 ELSE 104>>), size)
    [] mn = "jmp" /\ form = "s" -> As(E(<<233>>), "symbol")
    [] mn = "call" /\ form = "s" -> As(E(<<232>>), "symbol")
    [] mn = "jmp" /\ form = "r" -> Variant(E(<<255>>), 4)
    [] mn = "call" /\ form = "r" -> Variant(E(<<255>>), 2)
    [] mn = "lea" -> RegFirst(E(<<141>>))
    [] mn = "test" -> E(<<ForSize(size, 133)>>)
    [] mn = "imul" /\ form = "rr" /\ size > 1 -> RegFirst(E(<<15, 175>>))
    [] mn = "imul" /\ form = "rri" -> RegFirst(Immediate(E(<<105>>), ImmSize(size)))
    [] mn = "movaps" -> LET e == Default64(E(<<15, IF form = "mr" THEN 41 ELSE 40>>))
                        IN  IF form = "mr" THEN e ELSE RegFirst(e)
    [] mn = "ucomiss" -> RegFirst(E(<<15, 46>>))
    [] mn = "ucomisd" -> RegFirst(E(<<102, 15, 46>>))
    [] OTHER -> NoEncoding

\* s_instructionMapping, family by family.
Encoding(i) ==
  CASE i.mn \in DOMAIN AluNumber -> AluEncoding(i.mn, i.form, i.size)
    [] i.mn = "mov" -> MovEncoding(i.form, i.size)
    [] i.mn \in {"movzx", "movsx", "movsxd"} -> ExtendEncoding(i.mn, i.ops[2][3])
    [] i.mn \in DOMAIN ShiftNumber -> ShiftEncoding(i.mn, i.form, i.size)
    [] i.mn \in DOMAIN UnaryNumber -> Variant(E(<<ForSize(i.ops[1][3], 247)>>), UnaryNumber[i.mn])
    [] i.mn \in DOMAIN JumpOn -> As(E(<<15, 128 + Condition[JumpOn[i.mn]]>>), "symbol")
    [] i.mn \in DOMAIN SetOn -> E(<<15, 144 + Condition[SetOn[i.mn]]>>)
    [] i.mn \in DOMAIN FloatNumber -> FloatEncoding(i.mn, i.form)
    [] i.mn \in Moves -> FloatMoveEncoding(i.mn, i.form)
    [] i.mn \in Conversions -> ConvertEncoding(i.mn, i.size)
    [] OTHER -> OtherEncoding(i.mn, i.form, i.size)

-----------------------------------------------------------------------------
(* encode().                                                                 *)

\* s_registerMapping and isExtendedRegister.
RegisterNumber(op) == IF op[1] = "high" THEN 4 + op[2] ELSE op[2]
Extended(n) == n >= 8

RSP == <<"gp", 4, 8>>
RBP == <<"gp", 5, 8>>
R12 == <<"gp", 12, 8>>
R13 == <<"gp", 13, 8>>

Log2 == [s \in {1, 2, 4, 8} |-> CASE s = 1 -> 0 [] s = 2 -> 1 [] s = 4 -> 2 [] s = 8 -> 3]

\* The fields of ModRM and SIB, all zero; disp counts the bytes of the
\* displacement, 0 to 4, and "rip" is the form relative to the next instruction.
NoFields == [mod |-> 0, reg |-> 0, rm |-> 0, disp |-> 0, off |-> 0,
             hasSIB |-> FALSE, scale |-> 0, index |-> 0, base |-> 0]

\* Mutant: rbp and r13 are like any base.
WithOffsetAnyBase(f, base, off) ==
  LET mod == CASE off = 0 -> 0 [] off # 0 /\ off \in -128..127 -> 1 [] OTHER -> 2
  IN  [f EXCEPT !.mod = mod, !.off = off, !.disp = IF mod = 2 THEN 4 ELSE mod]

\* A displacement of zero needs no byte, but rbp and r13 without one mean
\* something else.
WithOffset(f, base, off) ==
  LET mod == CASE off = 0 /\ base \notin {RBP, R13} -> 0
               [] (off # 0 \/ base \in {RBP, R13}) /\ off \in -128..127 -> 1
               [] OTHER -> 2
  IN  [f EXCEPT !.mod = mod, !.off = off, !.disp = IF mod = 2 THEN 4 ELSE mod]

MemoryFields(m, known) ==
  CASE m[2][1] = "sym" ->
         [NoFields EXCEPT !.rm = 5, !.disp = 4,
                          !.off = IF m[2][2] \in DOMAIN known THEN known[m[2][2]] ELSE 0]
    [] m[2][1] = "gp" /\ m[3] = None ->
         IF m[2] \in {RSP, R12}
         THEN [WithOffset(NoFields, m[2], m[5]) EXCEPT
                 !.rm = 4, !.hasSIB = TRUE, !.index = 4, !.base = RegisterNumber(m[2])]
         ELSE [WithOffset(NoFields, m[2], m[5]) EXCEPT !.rm = RegisterNumber(m[2])]
    [] m[2][1] = "gp" /\ m[3] # None ->
         [WithOffset(NoFields, m[2], m[5]) EXCEPT
            !.rm = 4, !.hasSIB = TRUE, !.scale = Log2[m[4]],
            !.index = RegisterNumber(m[3]), !.base = RegisterNumber(m[2])]

\* The register that goes with a memory operand, if an immediate does not.
BesideMemory(i, e, f) ==
  IF e.immSize > 0 THEN f ELSE [f EXCEPT !.reg = RegisterNumber(i.ops[IF IsLoad(i) THEN 1 ELSE 2])]

OperandFields(i, e) ==
  LET direct == [NoFields EXCEPT !.mod = 3]
  IN  CASE Len(i.ops) > 1 /\ IsRegister(i.ops[2]) ->
             [direct EXCEPT !.reg = RegisterNumber(i.ops[e.regIdx]),
                            !.rm = RegisterNumber(i.ops[e.rmIdx])]
        [] (Len(i.ops) = 1 \/ ~IsRegister(i.ops[2])) /\ IsRegister(i.ops[1]) ->
             IF e.rmIdx = 1 THEN [direct EXCEPT !.rm = RegisterNumber(i.ops[1])]
             ELSE [direct EXCEPT !.reg = RegisterNumber(i.ops[1])]
        [] OTHER -> direct

Fields(i, e, known) ==
  IF IsLoad(i) \/ IsStore(i) THEN BesideMemory(i, e, MemoryFields(Memory(i), known))
  ELSE OperandFields(i, e)

\* The immediate is the last operand that is one.
ImmediateOf(i) == Last(SelectSeq(i.ops, IsImmediate))[2]

RexW(i, e) == i.size = 8 /\ ~e.default64
Bit(b, weight) == IF b THEN weight ELSE 0
REX(w, r, x, b) == <<64 + Bit(w, 8) + Bit(r, 4) + Bit(x, 2) + Bit(b, 1)>>
NeedsREX(i, e, f) == RexW(i, e) \/ Extended(f.reg) \/ Extended(f.index)
                     \/ Extended(IF f.hasSIB THEN f.base ELSE f.rm)
REXOf(i, e, f) ==
  IF NeedsREX(i, e, f)
  THEN REX(RexW(i, e), Extended(f.reg), Extended(f.index),
           Extended(IF f.hasSIB THEN f.base ELSE f.rm))
  ELSE <<>>

OpcodeBytes(e, rex) ==
  SubSeq(e.bytes, 1, e.rexPosition - 1) \o rex \o SubSeq(e.bytes, e.rexPosition, Len(e.bytes))

\* An immediate alone needs no ModRM.
ModRM(i, e, f) ==
  IF e.immSize > 0 /\ Len(i.ops) = 1 THEN <<>>
  ELSE <<64 * f.mod + 8 * (IF e.variant = NoVariant THEN f.reg % 8 ELSE e.variant) + (f.rm % 8)>>

\* Relative to the instruction pointer, the displacement counts from its own end.
Displacement(f, at) ==
  IF f.disp = 4 /\ f.mod = 0 THEN Bytes(f.off - (at + 4), 4) ELSE Bytes(f.off, f.disp)

\* The register numbers are not cut to three bits here, and the byte comes after
\* the displacement and the immediate.
SIB(f) == IF f.hasSIB THEN <<((64 * f.scale) | (8 * f.index) | f.base) % 256>> ELSE <<>>

\* A place in the code or the data that depends on where a symbol will be.
Fixup(symbol, location, size, section, function, addend) ==
  [symbol |-> symbol, location |-> location, size |-> size, section |-> section,
   function |-> function, addend |-> addend]

Prefix(i) == IF i.size = 2 THEN <<102>> ELSE <<>>

Encoded(bytes, fixups) == [bytes |-> bytes, fixups |-> fixups]

EncodeEmbedded(i, e) ==
  LET n == RegisterNumber(i.ops[1])
      rex == IF RexW(i, e) \/ Extended(n) THEN REX(RexW(i, e), FALSE, FALSE, Extended(n)) ELSE <<>>
      imm == IF e.immSize > 0 THEN Bytes(i.ops[2][2], e.immSize) ELSE <<>>
  IN  Encoded(Prefix(i) \o rex \o <<e.bytes[1] + (n % 8)>> \o imm, <<>>)

\* head: what comes before the displacement.
EncodeTail(i, e, f, head, at) ==
  head \o Displacement(f, at + Len(head))
       \o (IF e.immSize > 0 THEN Bytes(ImmediateOf(i), e.immSize) ELSE <<>>)
       \o SIB(f)

RexByte(i, e, f) == IF RexW(i, e) \/ Extended(f.reg) THEN 1 ELSE 0
EncodeFields(i, e, f, at, known) ==
  Encoded(EncodeTail(i, e, f, Prefix(i) \o OpcodeBytes(e, REXOf(i, e, f)) \o ModRM(i, e, f), at),
          IF (IsLoad(i) \/ IsStore(i)) /\ Memory(i)[2][1] = "sym" /\ Memory(i)[2][2] \notin DOMAIN known
          THEN LET n == RexByte(i, e, f) + Len(e.bytes) + 1
               IN  <<Fixup(Memory(i)[2][2], at + Len(Prefix(i)) + n, n + 4, "text", FALSE, 0)>>
          ELSE <<>>)

\* A symbol already placed is addressed here, any other when the object is written.
EncodeSymbol(i, e, at, known) ==
  LET name == i.ops[1][2]
      loc == IF name \in DOMAIN known THEN known[name] ELSE 0
  IN  Encoded(e.bytes \o Bytes(loc - (at + 5), 4),
              IF name \in DOMAIN known THEN <<>>
              ELSE <<Fixup(name, at + Len(e.bytes), Len(e.bytes) + 4, "text", i.mn = "call", 0)>>)

\* at: where the instruction starts; known: where the symbols already placed are.
Encode(i, at, known) ==
  LET e == Encoding(i)
  IN  CASE e.type = "embedded" -> EncodeEmbedded(i, e)
        [] e.type = "normal" -> EncodeFields(i, e, Fields(i, e, known), at, known)
        [] e.type = "symbol" -> EncodeSymbol(i, e, at, known)
        [] e.type = "none" ->
             Encoded(Prefix(i) \o OpcodeBytes(e, IF RexW(i, e) THEN REX(TRUE, FALSE, FALSE, FALSE) ELSE <<>>), <<>>)
=============================================================================
