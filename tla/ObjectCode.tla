----------------------------- MODULE ObjectCode -----------------------------
(***************************************************************************)
(* ObjectEmitter with its ELF and COFF writers: a unit becomes a data      *)
(* section and a code section, one instruction after the other; what an    *)
(* instruction or an initial value says of a symbol that is not placed yet *)
(* is left to a fixup, which is settled when the object is written or      *)
(* passed to the linker as a relocation.  The linker is external: it puts  *)
(* the sections anywhere and applies relocations.                          *)
(*                                                                         *)
(* A unit is a record [format, functions, globals, externals]; a function  *)
(* has a name and blocks, a block a name and code; a global has a name and *)
(* a value.  Values are <<"int", bytes, v>>, <<"bits", bytes>> (a float),  *)
(* <<"list", values>> (structs and arrays), <<"null">> and                 *)
(* <<"address", name, offset>>: functions, blocks, globals, ConstantGEPs.  *)
(***************************************************************************)
EXTENDS X64Decoding

CONSTANTS
  Units,     \* what is compiled
  Layouts    \* where a linker puts text, data and the external symbols

VARIABLES
  unit,
  phase,     \* init, run, end, linked
  at,        \* the global, or <<function, block, instruction>>, or fixup that is next
  code, data,          \* m_codeBytes and m_dataBytes
  fixups,              \* m_fixups
  codeLoc, dataLoc,    \* m_codeLocTable and m_dataLocTable
  relocations,
  listing,   \* where each instruction starts; history
  layout,    \* what the linker chose
  fault

vars == <<unit, phase, at, code, data, fixups, codeLoc, dataLoc, relocations, listing, layout, fault>>

NoLayout == [text |-> 0, data |-> 0, ext |-> <<>>]

Init ==
  /\ unit \in Units
  /\ phase = "init"
  /\ at = <<1>>
  /\ code = <<>> /\ data = <<>> /\ fixups = <<>>
  /\ codeLoc = <<>> /\ dataLoc = <<>>
  /\ relocations = <<>> /\ listing = <<>>
  /\ layout = NoLayout
  /\ fault = ""

-----------------------------------------------------------------------------
(* init(): the initial values.                                               *)

RECURSIVE EncodeConstant(_, _)
\* The bytes of a value that starts at a location, and its fixups.
EncodeConstant(c, loc) ==
  CASE c[1] = "int" -> Encoded(Bytes(c[3], c[2]), <<>>)
    [] c[1] = "bits" -> Encoded(c[2], <<>>)
    [] c[1] = "null" -> Encoded(Bytes(0, 8), <<>>)
    [] c[1] = "address" -> Encoded(Bytes(0, 8), <<Fixup(c[2], loc, 0, "data", FALSE, c[3])>>)
    [] c[1] = "list" ->
         FoldLeft(LAMBDA e, v : LET n == EncodeConstant(v, loc + Len(e.bytes))
                                IN  Encoded(e.bytes \o n.bytes, e.fixups \o n.fixups),
                  Encoded(<<>>, <<>>), c[2])

InitGlobal ==
  /\ phase = "init" /\ at[1] <= Len(unit.globals)
  /\ LET global == unit.globals[at[1]]
         encoded == EncodeConstant(global.value, Len(data))
     IN  /\ dataLoc' = (global.name :> Len(data)) @@ dataLoc
         /\ data' = data \o encoded.bytes
         /\ fixups' = fixups \o encoded.fixups
  /\ at' = <<at[1] + 1>>
  /\ UNCHANGED <<unit, phase, code, codeLoc, relocations, listing, layout, fault>>

InitEnds ==
  /\ phase = "init" /\ at[1] > Len(unit.globals)
  /\ phase' = "run" /\ at' = <<1, 0, 0>>
  /\ UNCHANGED <<unit, code, data, fixups, codeLoc, dataLoc, relocations, listing, layout, fault>>

-----------------------------------------------------------------------------
(* run(): the code of one function after the other.                          *)

\* insert does not replace what is there.
Place(name) == codeLoc' = codeLoc @@ (name :> Len(code))

Running == phase = "run" /\ fault = "" /\ at[1] <= Len(unit.functions)
Function == unit.functions[at[1]]
Block == Function.blocks[at[2]]

StartFunction ==
  /\ Running /\ at[2] = 0
  /\ Place(Function.name)
  /\ at' = <<at[1], 1, 0>>
  /\ UNCHANGED <<unit, phase, code, data, fixups, dataLoc, relocations, listing, layout, fault>>

StartBlock ==
  /\ Running /\ at[2] \in DOMAIN Function.blocks /\ at[3] = 0
  /\ Place(Block.name)
  /\ at' = [at EXCEPT ![3] = 1]
  /\ UNCHANGED <<unit, phase, code, data, fixups, dataLoc, relocations, listing, layout, fault>>

\* An opcode without an encoding throws.
EncodeInstruction ==
  /\ Running /\ at[2] \in DOMAIN Function.blocks /\ at[3] \in DOMAIN Block.code
  /\ IF Encoding(Block.code[at[3]]) = NoEncoding
     THEN fault' = "no encoding" /\ UNCHANGED <<code, fixups, listing, at>>
     ELSE /\ LET encoded == Encode(Block.code[at[3]], Len(code), codeLoc)
             IN  /\ code' = code \o encoded.bytes
                 /\ fixups' = fixups \o encoded.fixups
          /\ listing' = Append(listing, [loc |-> Len(code), pos |-> at])
          /\ at' = [at EXCEPT ![3] = @ + 1]
          /\ UNCHANGED fault
  /\ UNCHANGED <<unit, phase, data, codeLoc, dataLoc, relocations, layout>>

NextBlock ==
  /\ Running
  /\ IF at[2] \in DOMAIN Function.blocks
     THEN at[3] > Len(Block.code) /\ at' = <<at[1], at[2] + 1, 0>>
     ELSE at[2] > 0 /\ at' = <<at[1] + 1, 0, 0>>
  /\ UNCHANGED <<unit, phase, code, data, fixups, codeLoc, dataLoc, relocations, listing, layout, fault>>

RunEnds ==
  /\ phase = "run" /\ fault = "" /\ at[1] > Len(unit.functions)
  /\ phase' = "end" /\ at' = <<1>>
  /\ UNCHANGED <<unit, code, data, fixups, codeLoc, dataLoc, relocations, listing, layout, fault>>

-----------------------------------------------------------------------------
(* end(): emitObjectFile() of the two formats.                               *)

InSection(section, locs) == [name \in DOMAIN locs |-> [section |-> section, value |-> locs[name]]]

\* Mutant: externals are left out.
SymbolsDefined == InSection("data", dataLoc) @@ InSection("text", codeLoc)

\* The symbol table: initialised globals, externals, functions and blocks.
Symbols ==
  InSection("data", dataLoc)
    @@ [name \in unit.externals |-> [section |-> "none", value |-> 0]]
    @@ InSection("text", codeLoc)

Patched(bytes, loc, with) ==
  [p \in DOMAIN bytes |-> IF p \in loc + 1..loc + Len(with) THEN with[p - loc] ELSE bytes[p]]

\* A symbol of this unit's code needs no relocation in the code.
Local(f) == f.section = "text" /\ f.symbol \in DOMAIN codeLoc

\* Mutant: counted from the start of the instruction.
DistanceFromStart(f) == codeLoc[f.symbol] - (f.location - (f.size - 4))

Distance(f) ==
  LET instructionLocation == f.location - (f.size - 4)
  IN  codeLoc[f.symbol] - (instructionLocation + f.size)

ResolveLocal(f) ==
  /\ code' = Patched(code, f.location, Bytes(Distance(f), 4))
  /\ UNCHANGED <<relocations, fault>>

RelocateELF(f) ==
  /\ relocations' =
       Append(relocations,
              IF f.section = "text"
              THEN [section |-> "text", location |-> f.location, symbol |-> Symbols[f.symbol],
                    name |-> f.symbol, addend |-> f.addend - 4,
                    type |-> IF f.symbol \in unit.externals /\ f.function THEN "PLT32" ELSE "PC32"]
              ELSE [section |-> "data", location |-> f.location, symbol |-> Symbols[f.symbol],
                    name |-> f.symbol, addend |-> f.addend, type |-> "64"])
  /\ UNCHANGED <<code, fault>>

\* The addend goes into the code, that of a relocation of the data too.
RelocateCOFF(f) ==
  LET rel == IF f.section = "text" THEN -(f.location + f.size + f.addend) ELSE f.addend
  IN  /\ IF f.location + 4 > Len(code)
         THEN fault' = "patched past the end of the code" /\ UNCHANGED code
         ELSE code' = Patched(code, f.location, Bytes(rel, 4)) /\ UNCHANGED fault
      /\ relocations' =
           Append(relocations, [section |-> f.section, location |-> f.location,
                                symbol |-> Symbols[f.symbol], name |-> f.symbol, addend |-> 0,
                                type |-> IF f.section = "text" THEN "REL32" ELSE "ADDR64"])

Settle(f) ==
  CASE Local(f) -> ResolveLocal(f)
    [] ~Local(f) /\ f.symbol \notin DOMAIN Symbols ->
         fault' = "could not find symbol" /\ UNCHANGED <<code, relocations>>
    [] ~Local(f) /\ f.symbol \in DOMAIN Symbols ->
         IF unit.format = "ELF" THEN RelocateELF(f) ELSE RelocateCOFF(f)

SettleFixup ==
  /\ phase = "end" /\ fault = "" /\ at[1] \in DOMAIN fixups
  /\ Settle(fixups[at[1]])
  /\ at' = <<at[1] + 1>>
  /\ UNCHANGED <<unit, phase, data, fixups, codeLoc, dataLoc, listing, layout>>

-----------------------------------------------------------------------------
(* The linker, external.                                                     *)

AddressOf(section, value, name, l) ==
  CASE section = "text" -> l.text + value
    [] section = "data" -> l.data + value
    [] section = "none" -> l.ext[name]

RelocatedValue(r, l, bytes) ==
  LET s == AddressOf(r.symbol.section, r.symbol.value, r.name, l)
      inPlace == Value(bytes, r.location + 1, 4)
      p == (IF r.section = "text" THEN l.text ELSE l.data) + r.location
  IN  CASE r.type \in {"PC32", "PLT32"} -> s + r.addend - p
        [] r.type = "REL32" -> s + inPlace - (p + 4)
        [] r.type = "64" -> s + r.addend
        [] r.type = "ADDR64" -> s + inPlace

Relocated(bytes, section, l) ==
  FoldLeft(LAMBDA b, r : IF r.section # section THEN b
                         ELSE Patched(b, r.location, Bytes(RelocatedValue(r, l, b), IF section = "text" THEN 4 ELSE 8)),
           bytes, relocations)

Link ==
  /\ phase = "end" /\ fault = "" /\ at[1] > Len(fixups)
  /\ phase' = "linked"
  /\ \E l \in Layouts :
       /\ layout' = l
       /\ code' = Relocated(code, "text", l)
       /\ data' = Relocated(data, "data", l)
  /\ UNCHANGED <<unit, at, fixups, codeLoc, dataLoc, relocations, listing, fault>>

Next == InitGlobal \/ InitEnds \/ StartFunction \/ StartBlock \/ EncodeInstruction
        \/ NextBlock \/ RunEnds \/ SettleFixup \/ Link

Spec == Init /\ [][Next]_vars

-----------------------------------------------------------------------------
(* What the assembly printer makes of the same unit.                         *)

PrintedMemory(size, m) ==
  IF m[2][1] = "sym" THEN <<"ref", size, m[2][2]>>
  ELSE <<"mem", size, m[2], m[3], m[4], m[5]>>

Printed(i) ==
  [mn |-> i.mn,
   ops |-> [k \in DOMAIN i.ops |->
              CASE i.ops[k][1] = "mem" -> PrintedMemory(i.size, i.ops[k])
                [] i.ops[k][1] = "sym" -> <<"to", i.ops[k][2]>>
                [] OTHER -> i.ops[k]]]

InstructionAt(pos) == unit.functions[pos[1]].blocks[pos[2]].code[pos[3]]
Named(op) == op[1] \in {"to", "ref"}

\* A label stands for the instruction that follows it.  The first block of a
\* function has that of the function only
LabelAddress(name) ==
  LET labelled == {k \in DOMAIN listing :
                     LET pos == listing[k].pos
                     IN  /\ pos[3] = 1
                         /\ name = IF pos[2] = 1 THEN unit.functions[pos[1]].name
                                   ELSE unit.functions[pos[1]].blocks[pos[2]].name}
  IN  layout.text + listing[CHOOSE k \in labelled : TRUE].loc

RECURSIVE SizeOf(_)
SizeOf(c) ==
  CASE c[1] = "int" -> c[2]
    [] c[1] = "bits" -> Len(c[2])
    [] c[1] \in {"null", "address"} -> 8
    [] c[1] = "list" -> FoldLeft(LAMBDA n, v : n + SizeOf(v), 0, c[2])

GlobalNames == {unit.globals[g].name : g \in DOMAIN unit.globals}
GlobalStart(g) == FoldLeftDomain(LAMBDA n, k : IF k < g THEN n + SizeOf(unit.globals[k].value) ELSE n, 0, unit.globals)

NamedAddress(name) ==
  CASE name \in unit.externals -> layout.ext[name]
    [] name \in GlobalNames ->
         layout.data + GlobalStart(CHOOSE g \in DOMAIN unit.globals : unit.globals[g].name = name)
    [] OTHER -> LabelAddress(name)

RECURSIVE Directives(_)
\* The directives of a value: sizes and values, and addresses still by name.
Directives(c) ==
  CASE c[1] = "int" -> << <<c[2], c[3]>> >>
    [] c[1] = "bits" -> [k \in DOMAIN c[2] |-> <<1, c[2][k]>>]
    [] c[1] = "null" -> << <<8, 0>> >>
    [] c[1] = "address" -> << <<8, NamedAddress(c[2]) + c[3]>> >>
    [] c[1] = "list" -> FoldLeft(LAMBDA s, v : s \o Directives(v), <<>>, c[2])

Assembled(directives) == FoldLeft(LAMBDA s, d : s \o Bytes(d[2], d[1]), <<>>, directives)
-----------------------------------------------------------------------------
Byte == 0..255

\* The object file is written: every instruction has an encoding and every
\* symbol an entry, whatever comes before or after whatever it refers to, and
\* no fixup reaches outside the code.
TypeOK ==
  /\ phase \in {"init", "run", "end", "linked"}
  /\ \A k \in DOMAIN code : code[k] \in Byte
  /\ \A k \in DOMAIN data : data[k] \in Byte
  /\ \A k \in DOMAIN listing : listing[k].loc \in 0..Len(code)
  /\ fault = ""

\* The processor finds the instructions that the assembly output lists, one
\* right behind the other, after fixups and relocations have been written over
\* parts of them: prefixes, REX, ModRM, SIB, displacements and immediates say
\* what the operands of the machine instruction say.
DecodesBack ==
  phase = "linked" =>
    \A k \in DOMAIN listing :
      LET found == Decode(code, listing[k].loc)
          printed == Printed(InstructionAt(listing[k].pos))
      IN  /\ found.mn = printed.mn
          /\ Len(found.ops) = Len(printed.ops)
          /\ \A o \in DOMAIN printed.ops :
               IF Named(printed.ops[o]) THEN found.ops[o][1] = printed.ops[o][1]
               ELSE found.ops[o] = printed.ops[o]
          /\ listing[k].loc + found.len = IF k = Len(listing) THEN Len(code) ELSE listing[k + 1].loc

\* Wherever the linker puts the sections, every jump, call and access by name
\* reaches what the assembly output labels with that name, forward, backward,
\* in another function, in the data or in another object, and the data holds
\* the initial values and addresses its directives say.
LinksUp ==
  phase = "linked" =>
    /\ \A k \in DOMAIN listing :
         LET found == Decode(code, listing[k].loc)
             printed == Printed(InstructionAt(listing[k].pos))
         IN  \A o \in DOMAIN printed.ops :
               Named(printed.ops[o]) =>
                 layout.text + Last(found.ops[o]) = NamedAddress(Last(printed.ops[o]))
    /\ data = FoldLeft(LAMBDA s, g : s \o Assembled(Directives(g.value)), <<>>, unit.globals)
=============================================================================
