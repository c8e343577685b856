---------------------------- MODULE X64Decoding ----------------------------
(***************************************************************************)
(* The architecture's side: the instruction that a processor finds at a    *)
(* place in the code, after the opcode maps of the architecture manual and *)
(* not after the encoder.  Only what the encoder can produce is here.      *)
(*                                                                         *)
(* Operands are those of X64Encoding, but memory has its size,             *)
(* <<"mem", size, base, index, scale, off>>, and a place that is named     *)
(* relative to the next instruction is <<"to", location>> for a jump or a  *)
(* call and <<"ref", size, location>> for an access.                       *)
(***************************************************************************)
EXTENDS X64Encoding

\* Bytes beyond the end of the code read as zero.
ByteAt(code, p) == IF p \in DOMAIN code THEN code[p] ELSE 0

Value(code, p, n) ==
  LET upTo[k \in 0..n] == IF k = 0 THEN 0
        ELSE LET b == ByteAt(code, p + n - k)
             IN  IF k = 1 THEN IF b > 127 THEN b - 256 ELSE b ELSE 256 * upTo[k - 1] + b
  IN  upTo[n]

Legacy == {102, 242, 243}
IsREX(b) == b \in 64..79

\* A REX byte counts only right before the opcode.
Opening(code, p) ==
  CHOOSE q \in p..p + 3 :
    /\ \A k \in p..q - 1 : \/ ByteAt(code, k) \in Legacy
                           \/ IsREX(ByteAt(code, k)) /\ k + 1 < q
                           \/ IsREX(ByteAt(code, k)) /\ ByteAt(code, k + 1) \in Legacy
    /\ ByteAt(code, q) \notin Legacy
    /\ IsREX(ByteAt(code, q)) => ByteAt(code, q + 1) \notin Legacy

\* What stands before the opcode: w, r, x, b of the REX byte, and where the opcode is.
Start(code, p, q) ==
  LET rex == ByteAt(code, q)
      has == IsREX(rex)
      bit(k) == IF has THEN (rex \div k) % 2 ELSE 0
      legacy == {ByteAt(code, k) : k \in p..q - 1} \cap Legacy
  IN  [rex |-> has, w |-> bit(8), r |-> bit(4), x |-> bit(2), b |-> bit(1),
       size |-> IF bit(8) = 1 THEN 8 ELSE IF 102 \in legacy THEN 2 ELSE 4,
       prefix |-> IF 243 \in legacy THEN 243 ELSE IF 242 \in legacy THEN 242
                  ELSE IF 102 \in legacy THEN 102 ELSE 0,
       opcode |-> IF has THEN q + 1 ELSE q]

Gp(s, n, size) ==
  IF size = 1 /\ ~s.rex /\ n \in 4..7 THEN <<"high", n - 4>> ELSE <<"gp", n, size>>

\* The opcode maps: mnemonic and operands.  E is a register or memory, G a
\* register, Z one named by the opcode, V and W the same for xmm registers, I an
\* immediate, J a distance; b, w, d, q: of 1, 2, 4, 8 bytes; v: of the operand
\* size; z: of the operand size, 4 bytes at most.
Alu == <<"add", "or", "?", "?", "and", "sub", "xor", "cmp">>
Rotates == <<"?", "?", "?", "?", "shl", "shr", "?", "sar">>
Unary == <<"?", "?", "not", "?", "mul", "?", "div", "idiv">>
Conditions == <<"?", "?", "b", "ae", "e", "ne", "be", "a", "?", "?", "?", "?", "l", "ge", "le", "g">>
FloatName(p, single, double) == IF p = 243 THEN single ELSE IF p = 242 THEN double ELSE "?"

OneByte(b, ext, s) ==
  CASE b < 64 /\ b % 8 < 4 ->
         <<Alu[(b \div 8) + 1], << <<"Eb", "Gb">>, <<"Ev", "Gv">>, <<"Gb", "Eb">>, <<"Gv", "Ev">> >>[(b % 8) + 1]>>
    [] b \in 80..87 -> <<"push", <<"Zq">> >>
    [] b \in 88..95 -> <<"pop", <<"Zq">> >>
    [] b = 99 -> <<"movsxd", <<"Gv", "Ed">> >>
    [] b = 104 -> <<"push", <<"Iz">> >>
    [] b = 105 -> <<"imul", <<"Gv", "Ev", "Iz">> >>
    [] b = 106 -> <<"push", <<"Ib">> >>
    [] b = 128 -> <<Alu[ext + 1], <<"Eb", "Ib">> >>
    [] b = 129 -> <<Alu[ext + 1], <<"Ev", "Iz">> >>
    [] b = 131 -> <<Alu[ext + 1], <<"Ev", "Ib">> >>
    [] b = 132 -> <<"test", <<"Eb", "Gb">> >>
    [] b = 133 -> <<"test", <<"Ev", "Gv">> >>
    [] b \in 136..139 ->
         <<"mov", << <<"Eb", "Gb">>, <<"Ev", "Gv">>, <<"Gb", "Eb">>, <<"Gv", "Ev">> >>[b - 135]>>
    [] b = 141 -> <<"lea", <<"Gv", "Ev">> >>
    [] b = 152 -> <<IF s.size = 8 THEN "cdqe" ELSE IF s.size = 4 THEN "cwde" ELSE "cbw", <<>> >>
    [] b = 153 -> <<IF s.size = 8 THEN "cqo" ELSE IF s.size = 4 THEN "cdq" ELSE "cwd", <<>> >>
    [] b = 164 /\ s.prefix = 243 -> <<"rep movsb", <<>> >>
    [] b \in 176..183 -> <<"mov", <<"Zb", "Ib">> >>
    [] b \in 184..191 -> <<"mov", <<"Zv", "Iv">> >>
    [] b = 192 -> <<Rotates[ext + 1], <<"Eb", "Ib">> >>
    [] b = 193 -> <<Rotates[ext + 1], <<"Ev", "Ib">> >>
    [] b = 195 -> <<"ret", <<>> >>
    [] b = 198 -> <<"mov", <<"Eb", "Ib">> >>
    [] b = 199 -> <<"mov", <<"Ev", "Iz">> >>
    [] b = 210 -> <<Rotates[ext + 1], <<"Eb", "CL">> >>
    [] b = 211 -> <<Rotates[ext + 1], <<"Ev", "CL">> >>
    [] b = 232 -> <<"call", <<"J">> >>
    [] b = 233 -> <<"jmp", <<"J">> >>
    [] b = 246 -> <<Unary[ext + 1], <<"Eb">> >>
    [] b = 247 -> <<Unary[ext + 1], <<"Ev">> >>
    [] b = 255 /\ ext = 2 -> <<"call", <<"Eq">> >>
    [] b = 255 /\ ext = 4 -> <<"jmp", <<"Eq">> >>
    [] OTHER -> <<"?", <<>> >>

\* The map that 0F leads to; p is the prefix that selects a kind of float.
TwoByte(b, p) ==
  CASE b = 16 -> <<FloatName(p, "movss", "movsd"), <<"V", "W">> >>
    [] b = 17 -> <<FloatName(p, "movss", "movsd"), <<"W", "V">> >>
    [] b = 40 /\ p = 0 -> <<"movaps", <<"V", "W">> >>
    [] b = 41 /\ p = 0 -> <<"movaps", <<"W", "V">> >>
    [] b = 42 -> <<FloatName(p, "cvtsi2ss", "cvtsi2sd"), <<"V", "Ev">> >>
    [] b = 45 -> <<FloatName(p, "cvtss2si", "cvtsd2si"), <<"Gv", "W">> >>
    [] b = 46 -> <<IF p = 102 THEN "ucomisd" ELSE "ucomiss", <<"V", "W">> >>
    [] b = 88 -> <<FloatName(p, "addss", "addsd"), <<"V", "W">> >>
    [] b = 89 -> <<FloatName(p, "mulss", "mulsd"), <<"V", "W">> >>
    [] b = 90 -> <<FloatName(p, "cvtss2sd", "cvtsd2ss"), <<"V", "W">> >>
    [] b = 92 -> <<FloatName(p, "subss", "subsd"), <<"V", "W">> >>
    [] b = 94 -> <<FloatName(p, "divss", "divsd"), <<"V", "W">> >>
    [] b \in 128..143 -> <<"j" \o Conditions[b - 127], <<"J">> >>
    [] b \in 144..159 -> <<"set" \o Conditions[b - 143], <<"Eb">> >>
    [] b = 175 -> <<"imul", <<"Gv", "Ev">> >>
    [] b = 182 -> <<"movzx", <<"Gv", "Eb">> >>
    [] b = 183 -> <<"movzx", <<"Gv", "Ew">> >>
    [] b = 190 -> <<"movsx", <<"Gv", "Eb">> >>
    [] b = 191 -> <<"movsx", <<"Gv", "Ew">> >>
    [] b = 194 -> <<FloatName(p, "cmpss", "cmpsd"), <<"V", "W", "Ib">> >>
    [] OTHER -> <<"?", <<>> >>

\* The width that goes with each way of naming an operand.
Width(kind, s, mn) ==
  CASE kind \in {"Eb", "Gb", "Zb"} -> 1
    [] kind = "Ew" -> 2
    [] kind = "Ed" -> 4
    [] kind \in {"Eq", "Zq"} -> 8
    [] kind \in {"Ev", "Gv", "Zv"} -> s.size
    [] kind = "W" -> IF mn = "movaps" THEN 16 ELSE IF Single(mn) THEN 4 ELSE 8

ImmediateBytes(kind, s) ==
  CASE kind = "Ib" -> 1
    [] kind = "Iv" -> s.size
    [] kind = "Iz" -> IF s.size = 8 THEN 4 ELSE s.size
    [] kind = "J" -> 4
    [] OTHER -> 0

\* Addressing: byte m of ModRM, with its SIB and displacement.
HasSIB(m) == m \div 64 < 3 /\ m % 8 = 4
AddressBytes(code, p) ==
  LET m == ByteAt(code, p)
      none == m \div 64 = 0 /\ HasSIB(m) /\ ByteAt(code, p + 1) % 8 = 5
  IN  CASE m \div 64 = 3 -> 0
        [] m \div 64 = 0 -> IF m % 8 = 5 \/ none THEN 4 ELSE 0
        [] m \div 64 = 1 -> 1
        [] m \div 64 = 2 -> 4

ModRMBytes(code, p) == 1 + (IF HasSIB(ByteAt(code, p)) THEN 1 ELSE 0) + AddressBytes(code, p)

Address(code, p, s, size, next) ==
  LET m == ByteAt(code, p)
      sib == ByteAt(code, p + 1)
      n == AddressBytes(code, p)
      off == Value(code, p + ModRMBytes(code, p) - n, n)
      index == ((sib \div 8) % 8) + 8 * s.x
  IN  CASE HasSIB(m) /\ n = 4 /\ m < 64 -> <<"mem", size, None, <<"gp", index, 8>>, 2 ^ (sib \div 64), off>>
        [] HasSIB(m) /\ ~(n = 4 /\ m < 64) ->
             <<"mem", size, <<"gp", (sib % 8) + 8 * s.b, 8>>,
               IF index = 4 THEN None ELSE <<"gp", index, 8>>,
               IF index = 4 THEN 1 ELSE 2 ^ (sib \div 64), off>>
        [] ~HasSIB(m) /\ m \div 64 = 0 /\ m % 8 = 5 -> <<"ref", size, next + off>>
        [] OTHER -> <<"mem", size, <<"gp", (m % 8) + 8 * s.b, 8>>, None, 1, off>>

IsE(kind) == kind \in {"Eb", "Ew", "Ed", "Eq", "Ev", "W"}
NeedsModRM(kinds, b) == \/ \E k \in DOMAIN kinds : IsE(kinds[k])
                        \/ b \in {128, 129, 131}

\* next: the location of the following instruction.
Operand(code, kind, mn, s, op, p, imm, next) ==
  LET m == ByteAt(code, p)
      size == Width(kind, s, mn)
      reg == ((m \div 8) % 8) + 8 * s.r
      rm == (m % 8) + 8 * s.b
  IN  CASE IsE(kind) /\ m \div 64 < 3 -> Address(code, p, s, size, next)
        [] kind = "W" /\ m \div 64 = 3 -> <<"xmm", rm>>
        [] IsE(kind) /\ kind # "W" /\ m \div 64 = 3 -> Gp(s, rm, size)
        [] kind = "V" -> <<"xmm", reg>>
        [] kind \in {"Gb", "Gv"} -> Gp(s, reg, size)
        [] kind \in {"Zb", "Zv", "Zq"} -> Gp(s, (op % 8) + 8 * s.b, size)
        [] kind = "CL" -> <<"gp", 1, 1>>
        [] kind \in {"Ib", "Iv", "Iz"} -> <<"imm", Value(code, imm, ImmediateBytes(kind, s))>>
        [] kind = "J" -> <<"to", next + Value(code, imm, 4)>>

\* p: the byte after the opcode.
Decoded(code, at, s, op, row, p) ==
  LET kinds == row[2]
      imm == p + (IF NeedsModRM(kinds, op) THEN ModRMBytes(code, p) ELSE 0)
      len == imm - 1 + FoldLeft(LAMBDA n, k : n + ImmediateBytes(k, s), 0, kinds) - at
  IN  [mn |-> row[1], len |-> len,
       ops |-> [k \in DOMAIN kinds |-> Operand(code, kinds[k], row[1], s, op, p, imm, at + len)]]

DecodeFrom(code, at, s) ==
  LET b == ByteAt(code, s.opcode)
  IN  IF b = 15
      THEN Decoded(code, at, s, 0, TwoByte(ByteAt(code, s.opcode + 1), s.prefix), s.opcode + 2)
      ELSE Decoded(code, at, s, b, OneByte(b, (ByteAt(code, s.opcode + 1) \div 8) % 8, s), s.opcode + 1)

\* at: a location, counted from 0.
Decode(code, at) == DecodeFrom(code, at, Start(code, at + 1, Opening(code, at + 1)))
=============================================================================
