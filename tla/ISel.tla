---------------------------------- MODULE ISel ----------------------------------
(* Instruction selection of one function: ISelPass builds a graph of nodes,  *)
(* chooses a pattern for each and emits what the chosen patterns ask for.    *)
(* What a pattern emits is one instruction here, with the operands it takes  *)
(* from the nodes (Selection has the patterns themselves).  The machine code *)
(* is then walked along every path of the function.                          *)
(*                                                                           *)
(* A value of the IR and the node for it are tagged tuples: <<"ins", id>>,   *)
(* <<"arg", n>>, <<"int", v>>, <<"flt", v>>, <<"global", g>>, <<"fn", f>>,   *)
(* <<"block", b>>, <<"undef">>; nodes are also <<"reg", id>>, the result of  *)
(* an instruction, <<"multi", id>> and its <<"part", id, k>>, and            *)
(* <<"frame", slot>>.                                                        *)
EXTENDS Integers, FiniteSets, SequencesExt

CONSTANTS
    Programs,       \* functions: [args, blocks], an instruction being [id, op, ty, args]
    Levels,         \* optimization levels, 0 and 1
    CostLimit       \* costs are numbers below it and wrap (uint32_t in the code)

VARIABLES
    fn, level,      \* the function, the level it is compiled at
    phase, at,      \* what run is at: the phase, and <<block, instruction>> in it
    built,          \* the graph: nodes, m_valuesToNodes, stack slots
    best,           \* m_bestMatch: node -> pattern and cost
    mir,            \* the machine function: operands of nodes, code of blocks
    thrown,         \* an exception
    env             \* the walk: register -> the value it holds
vars == <<fn, level, phase, at, built, best, mir, thrown, env>>

Blocks == DOMAIN fn.blocks
Current == fn.blocks[at[1]][at[2]]

------------------------------------------------------------------------------
(* The graph *)

None == <<"none">>
Node(kind, root, ty, operands, result) ==
    [kind |-> kind, root |-> root, ty |-> ty, operands |-> operands, result |-> result]

\* Inserter::insert, unless the node is there already (makeOrGet)
Insert(g, key, node) == IF key \in DOMAIN g.nodes THEN g ELSE [g EXCEPT !.nodes = @ @@ (key :> node)]
Bind(g, v, key) == [g EXCEPT !.values = @ @@ (v :> key)]

\* A struct is two fields here: buildInstruction makes a register for each
Parts(id) == [k \in 1..2 |-> <<"part", id, k>>]
WithParts(g, id, root) ==
    LET field(h, p) == Insert(h, p, Node("Register", root, "int", <<>>, None))
    IN  Insert(FoldLeft(field, g, Parts(id)), <<"multi", id>>, Node("MultiValue", root, "struct", Parts(id), None))

\* What the instruction gives: no result, a register, several
ResultOf(i) ==
    CASE i.op \in {"Ret", "Jump", "Store", "Switch"} \/ i.ty = "void" -> None
      [] i.op \in {"Load", "Call"} /\ i.ty = "struct" -> <<"multi", i.id>>
      [] OTHER -> <<"reg", i.id>>
WithResult(g, i, root) ==
    LET r == ResultOf(i)
    IN  IF r = None THEN g
        ELSE IF r[1] = "multi" THEN WithParts(g, i.id, root)
        ELSE Insert(g, r, Node("Register", root, i.ty, <<>>, None))

AddSlot(g, owner) == [g EXCEPT !.slots = Append(@, owner)]
WithFrameIndex(g, v, root) ==
    LET slot == <<"frame", Len(g.slots)>>
    IN  Bind(Insert(g, slot, Node("FrameIndex", root, "ptr", <<>>, None)), v, slot)

\* ISelPass::buildInstruction
Build(g, i, root) ==
    LET key == <<"ins", i.id>>
    IN  IF i.op = "Allocate" THEN WithFrameIndex(AddSlot(g, key), key, root)
        ELSE Bind(Insert(WithResult(g, i, root), key, Node(i.op, root, i.ty, <<>>, ResultOf(i))), key, key)

\* ISelPass::buildValue
RECURSIVE BuildValue(_, _, _)
BuildValue(g, v, root) ==
    IF v \in DOMAIN g.values THEN g
    ELSE CASE v[1] = "int" -> Bind(Insert(g, v, Node("ConstantInt", root, "int", <<>>, None)), v, v)
           [] v[1] = "flt" -> Bind(Insert(g, v, Node("ConstantFloat", root, "flt", <<>>, None)), v, v)
           [] v[1] = "arg" ->
                IF fn.args[v[2]].byval THEN WithFrameIndex(AddSlot(g, v), v, root)
                ELSE Bind(Insert(g, v, Node("FunctionArgument", root, fn.args[v[2]].ty, <<>>, None)), v, v)
           [] v[1] \in {"global", "fn"} -> Bind(Insert(g, v, Node("GlobalValue", root, "ptr", <<>>, None)), v, v)
           [] v[1] = "undef" -> Bind(BuildValue(g, <<"int", 0>>, root), v, <<"int", 0>>)

\* ISelPass::patchInstruction
WithOperands(g, i, root) ==
    LET add(h, v) == BuildValue(h, v, root)
        grown == FoldLeft(add, g, i.args)
    IN  [grown EXCEPT !.nodes[<<"ins", i.id>>].operands = [k \in DOMAIN i.args |-> grown.values[i.args[k]]]]
Patch(g, i, root) == IF i.op = "Allocate" THEN g ELSE WithOperands(g, i, root)

------------------------------------------------------------------------------
(* Patterns of x64: which match, what they cost and which operand they cover *)

KindOf(n) == built.nodes[n].kind
Operands(n) == built.nodes[n].operands
RootOf(n) == built.nodes[n].root
IsInstruction(n) == n[1] = "ins"
Cmps == {"ICmp", "FCmp"}

\* extractOperand, isRegister
RECURSIVE Extract(_)
ExtractResult(n) == IF IsInstruction(n) THEN built.nodes[n].result ELSE n
Extract(n) ==
    IF ~IsInstruction(n) THEN n
    ELSE IF KindOf(n) = "GenericCast" THEN Extract(Operands(n)[1])
    ELSE built.nodes[n].result
IsRegister(n) == n # None /\ KindOf(n) \in {"Register", "FunctionArgument"}
Class(n) ==
    LET e == Extract(n)
    IN  IF e = None THEN "none" ELSE IF IsRegister(e) THEN "register" ELSE KindOf(e)
TypeOf(n) == built.nodes[Extract(n)].ty
Classes(n) == [k \in DOMAIN Operands(n) |-> Class(Operands(n)[k])]

Pattern(name, covered) == [name |-> name, cost |-> 10, covered |-> covered, level |-> 0]
PatternsOf(kind) ==
    CASE kind = "Jump" ->
            <<Pattern("Jump", {}), Pattern("CondJumpComparisonRI", {3}), Pattern("CondJumpComparisonII", {3}),
              Pattern("CondJumpComparisonRR", {3}), Pattern("FCondJumpComparisonRF", {3}),
              Pattern("FCondJumpComparisonRR", {3}), Pattern("CondJumpRegister", {}), Pattern("CondJumpImmediate", {})>>
      [] kind = "Add" ->
            <<Pattern("AddImmediates", {}), Pattern("AddRegisters", {}), Pattern("AddRegisterImmediate", {}),
              [Pattern("AddRegistersLea", {}) EXCEPT !.cost = 9, !.level = 1]>>
      [] kind \in Cmps ->
            <<Pattern("CmpRegisterImmediate", {}), Pattern("CmpRegisterRegister", {}), Pattern("CmpImmediateImmediate", {}),
              Pattern("CmpFRegisterImmediate", {})>>
      [] kind = "Store" -> <<Pattern("StoreInFrame", {}), Pattern("StoreInPtrRegister", {})>>
      [] kind = "Load" -> <<Pattern("LoadFromFrame", {}), Pattern("LoadFromPtrRegister", {})>>
      [] kind = "Call" -> <<Pattern("IntrinsicCall", {}), Pattern("Call", {})>>
      [] kind = "Ret" -> <<Pattern("Return", {}), Pattern("ReturnLowering", {})>>
      [] OTHER -> <<Pattern(kind, {})>>

Registers == <<"register", "register">>
RegisterAndInt == {<<"register", "ConstantInt">>, <<"ConstantInt", "register">>}
Ints == <<"ConstantInt", "ConstantInt">>
RegisterAndFloat == {<<"register", "ConstantFloat">>, <<"ConstantFloat", "register">>}

\* The match function of a pattern
Condition(n) == Operands(n)[3]
OnComparison(n) == Len(Operands(n)) > 2 /\ KindOf(Condition(n)) \in Cmps
OfType(n, ty) == \A k \in DOMAIN Operands(n) : TypeOf(Operands(n)[k]) = ty
Matches(name, n) ==
    CASE name = "Jump" -> Len(Operands(n)) = 1
      [] name = "CondJumpComparisonRI" -> OnComparison(n) /\ Classes(Condition(n)) \in RegisterAndInt
      [] name = "CondJumpComparisonII" -> OnComparison(n) /\ Classes(Condition(n)) = Ints
      [] name = "CondJumpComparisonRR" ->
            OnComparison(n) /\ Classes(Condition(n)) = Registers /\ OfType(Condition(n), "int")
      [] name = "FCondJumpComparisonRF" -> OnComparison(n) /\ Classes(Condition(n)) \in RegisterAndFloat
      [] name = "FCondJumpComparisonRR" ->
            OnComparison(n) /\ Classes(Condition(n)) = Registers /\ OfType(Condition(n), "flt")
      [] name = "CondJumpRegister" -> Len(Operands(n)) > 1 /\ Class(Condition(n)) = "register"
      [] name = "CondJumpImmediate" -> Len(Operands(n)) > 1 /\ Class(Condition(n)) = "ConstantInt"
      [] name \in {"AddImmediates", "CmpImmediateImmediate"} -> Classes(n) = Ints
      [] name = "AddRegisters" -> Classes(n) \in RegisterAndFloat \union {Registers}
      [] name \in {"AddRegisterImmediate", "CmpRegisterImmediate"} -> Classes(n) \in RegisterAndInt
      [] name = "AddRegistersLea" -> Classes(n) = Registers /\ built.nodes[n].ty = "int"
      [] name = "CmpRegisterRegister" -> Classes(n) = Registers
      [] name = "CmpFRegisterImmediate" -> Classes(n) \in RegisterAndFloat
      [] name \in {"StoreInFrame", "LoadFromFrame"} -> Class(Operands(n)[1]) = "FrameIndex"
      [] name \in {"StoreInPtrRegister", "LoadFromPtrRegister"} -> Class(Operands(n)[1]) \in {"register", "GlobalValue"}
      [] name = "IntrinsicCall" -> Operands(n)[1] = <<"fn", "memcpy">>
      [] name = "Return" -> Operands(n) = <<>>
      [] name = "ReturnLowering" -> Len(Operands(n)) = 1
      [] name = "Phi" -> Operands(n) # <<>>
      [] OTHER -> TRUE

------------------------------------------------------------------------------
(* ISelPass::selectPattern.  s has the matches so far and whether it threw.  *)

Applicable(n) == SelectSeq(PatternsOf(KindOf(n)), LAMBDA p : level >= p.level /\ Matches(p.name, n))
SkipsOperand(p, n, k) == k \in p.covered /\ RootOf(Operands(n)[k]) = RootOf(n)
CostIn(s, n) == IF n \in DOMAIN s.best THEN s.best[n].cost ELSE 0

\* std::min_element: the first of the cheapest
Cheapest(results) ==
    LET least == CHOOSE k \in DOMAIN results :
                    /\ \A j \in DOMAIN results : results[k].cost <= results[j].cost
                    /\ \A j \in 1..k - 1 : results[j].cost > results[k].cost
    IN  results[least]

\* The operand of a match that an earlier user had selected is not emitted for itself
Uncover(b, p, n) == [x \in DOMAIN b \ {Operands(n)[k] : k \in p.covered} |-> b[x]]
Choose(s, n, p, cost) == [s EXCEPT !.best = (n :> [pattern |-> p.name, cost |-> cost]) @@ Uncover(@, p, n)]
Settle(s, n, results) ==
    IF results = <<>> THEN [s EXCEPT !.thrown = TRUE]
    ELSE Choose(s, n, Cheapest(results).pattern, Cheapest(results).cost)

RECURSIVE SelectPattern(_, _)
SelectAll(s, ns) == FoldLeft(SelectPattern, s, ns)
\* The cost of one pattern: its own and those of the operands it does not cover
Try(acc, n, p) ==
    LET rest == IF IsInstruction(n) THEN SelectSeq([k \in DOMAIN Operands(n) |-> k], LAMBDA k : ~SkipsOperand(p, n, k)) ELSE <<>>
        price(a, k) ==
            LET s == SelectPattern(a.s, Operands(n)[k])
            IN  [s |-> s, cost |-> (a.cost + CostIn(s, Operands(n)[k])) % CostLimit]
        sum == FoldLeft(price, [s |-> acc.s, cost |-> p.cost], rest)
    IN  [s |-> sum.s, results |-> Append(acc.results, [pattern |-> p, cost |-> sum.cost])]
SelectPattern(s, n) ==
    IF n \in DOMAIN s.best \/ s.thrown THEN s
    ELSE LET entered == [s EXCEPT !.best = @ @@ (n :> [pattern |-> "none", cost |-> 0])]
             tried == FoldLeft(LAMBDA acc, p : Try(acc, n, p), [s |-> entered, results |-> <<>>], Applicable(n))
             parts == IF KindOf(n) = "MultiValue" THEN Operands(n) ELSE <<>>
         IN  Settle(SelectAll(tried.s, parts), n, tried.results)

SelectWithoutResult(n) == SelectPattern([best |-> best, thrown |-> FALSE], n)
\* ISelPass::run: the result, then the instruction
Select(n) ==
    SelectAll([best |-> best, thrown |-> FALSE], (IF built.nodes[n].result = None THEN <<>> ELSE <<built.nodes[n].result>>) \o <<n>>)

------------------------------------------------------------------------------
(* ISelPass::emitOrGet and the emitters.  m.operand has the operands of the  *)
(* nodes, m.code the instructions of the blocks, m.next the next virtual     *)
(* register.  An instruction is what it does, the IR instruction it is for,  *)
(* what it reads in the order of the IR, and the register it writes.         *)

Reserved(r) == <<"p", r>>
Emitted(op, of, uses, def) == [op |-> op, of |-> of, uses |-> uses, def |-> def]
Put(m, b, i) == [m EXCEPT !.code[b] = Append(@, i)]
Keep(m, n, o) == [m EXCEPT !.operand = @ @@ (n :> o)]
\* A constant or a global reaches a register of nobody's, which the node then stands for
InReserved(m, b, n, r) == Keep(Put(m, b, Emitted("Address", 0, <<n>>, Reserved(r))), n, Reserved(r))

RECURSIVE EmitOrGet(_, _, _)
EmitEach(m, ns, b) == FoldLeft(LAMBDA a, n : EmitOrGet(a, n, b), m, ns)
OperandOf(m, n) == IF Extract(n) \in DOMAIN m.operand THEN m.operand[Extract(n)] ELSE None
OperandsOf(m, ns) == [k \in DOMAIN ns |-> OperandOf(m, ns[k])]

EmitLeaf(m, n, b) ==
    CASE KindOf(n) = "Register" -> [Keep(m, n, <<"v", m.next>>) EXCEPT !.next = @ + 1]
      [] KindOf(n) = "MultiValue" ->
            LET all == EmitEach(m, Operands(n), b) IN Keep(all, n, <<"multi", OperandsOf(all, Operands(n))>>)
      [] KindOf(n) = "FunctionArgument" -> Keep(m, n, <<"arg", n[2]>>)
      [] KindOf(n) = "ConstantInt" -> Keep(m, n, <<"imm", n[2]>>)
      [] KindOf(n) = "FrameIndex" -> Keep(m, n, n)
      [] KindOf(n) = "Root" -> Keep(m, n, n)
      [] KindOf(n) = "ConstantFloat" -> InReserved(m, b, n, "xmm15")
      [] KindOf(n) = "GlobalValue" -> InReserved(m, b, n, "r15")

EmitOrGet(m, n, b) ==
    LET e == Extract(n)
    IN  CASE m.thrown \/ e \in DOMAIN m.operand -> m
          [] e \notin DOMAIN best -> [m EXCEPT !.thrown = TRUE]
          [] OTHER -> EmitLeaf(m, e, b)

\* Operands, then the result, then the instruction
EmitReading(m, n, b, op, ns) ==
    LET result == built.nodes[n].result
        r == IF result = None THEN <<>> ELSE <<result>>
        read == EmitEach(EmitEach(m, ns, b), r, b)
    IN  Put(read, b, Emitted(op, n[2], OperandsOf(read, ns), IF r = <<>> THEN None ELSE OperandOf(read, result)))

\* The jump takes the place of the comparison it covers
EmitFused(m, n, b) ==
    LET c == Condition(n) IN EmitReading(m, n, b, "Compare", Operands(c) \o SubSeq(Operands(n), 1, 2))
EmitJump(m, n, b) ==
    CASE best[n].pattern = "Jump" -> EmitReading(m, n, b, "Jump", Operands(n))
      [] best[n].pattern = "CondJumpRegister" -> EmitReading(m, n, b, "Test", <<Operands(n)[3], Operands(n)[1], Operands(n)[2]>>)
      [] best[n].pattern = "CondJumpImmediate" ->
            EmitReading(m, n, b, "Jump", <<Operands(n)[Extract(Condition(n))[2] + 1]>>)
      [] OTHER -> EmitFused(m, n, b)

\* What is stored comes first; a slot's address goes through the reserved register
EmitStore(m, n, b) ==
    LET ptr == Operands(n)[1]
        value == EmitOrGet(m, Operands(n)[2], b)
        from == OperandOf(value, Operands(n)[2])
        moved == IF from[1] = "frame" THEN Put(value, b, Emitted("Address", 0, <<Extract(Operands(n)[2])>>, Reserved("r15"))) ELSE value
        both == EmitOrGet(moved, ptr, b)
        stored == IF from[1] = "frame" THEN Reserved("r15") ELSE from
    IN  IF from[1] = "multi" THEN [m EXCEPT !.thrown = TRUE]
        ELSE Put(both, b, Emitted("Store", n[2], <<OperandOf(both, ptr), stored>>, None))

\* A callee that is a function is named, any other one is a register
EmitCall(m, n, b) ==
    LET direct == KindOf(Operands(n)[1]) = "GlobalValue" /\ Operands(n)[1][1] = "fn"
        args == IF direct THEN Tail(Operands(n)) ELSE Operands(n)
        used == \E i \in DOMAIN built.nodes : <<"ins", n[2]>> \in Range(built.nodes[i].operands)
        result == IF used THEN built.nodes[n].result ELSE None
        r == IF result = None THEN m ELSE EmitOrGet(m, result, b)
        read == EmitEach(r, args, b)
    IN  Put(read, b, Emitted("Call", n[2],
            (IF direct THEN <<Operands(n)[1]>> ELSE <<>>) \o OperandsOf(read, args), IF result = None THEN None ELSE OperandOf(read, result)))

EmitDynamicAllocation(m, n, b) ==
    LET all == EmitReading(m, n, b, "Take", Operands(n))
    IN  IF OperandOf(all, Operands(n)[1])[1] = "imm" THEN [all EXCEPT !.thrown = TRUE] ELSE all

\* A cast is its operand
EmitCast(m, n) == Keep(m, n, OperandOf(m, Operands(n)[1]))

EmitInstruction(m, n, b) ==
    CASE KindOf(n) = "Jump" -> EmitJump(m, n, b)
      [] KindOf(n) = "Store" -> EmitStore(m, n, b)
      [] KindOf(n) = "Call" -> EmitCall(m, n, b)
      [] KindOf(n) = "GenericCast" -> EmitCast(EmitEach(m, Operands(n), b), n)
      [] KindOf(n) = "DynamicAllocation" -> EmitDynamicAllocation(m, n, b)
      [] OTHER -> EmitReading(m, n, b, KindOf(n), Operands(n))

------------------------------------------------------------------------------
(* ISelPass::run, instruction by instruction *)

Init ==
    /\ fn \in Programs
    /\ level \in Levels
    /\ phase = "build"
    /\ at = <<1, 1>>
    /\ built = [nodes |-> [n \in {<<"block", b>> : b \in Blocks} |-> Node("Root", n[2], "void", <<>>, None)],
                values |-> [n \in {<<"block", b>> : b \in Blocks} |-> n], slots |-> <<>>]
    /\ best = <<>>
    /\ mir = [operand |-> <<>>, code |-> [b \in Blocks |-> <<>>], next |-> 0, thrown |-> FALSE]
    /\ thrown = FALSE
    /\ env = <<>>

Advance(then) ==
    IF at[2] < Len(fn.blocks[at[1]]) THEN at' = <<at[1], at[2] + 1>> /\ UNCHANGED phase
    ELSE IF at[1] < Len(fn.blocks) THEN at' = <<at[1] + 1, 1>> /\ UNCHANGED phase
    ELSE at' = <<1, 1>> /\ phase' = then

Here == <<"ins", Current.id>>
BuildInstruction ==
    /\ phase = "build"
    /\ built' = Build(built, Current, at[1])
    /\ Advance("patch")
    /\ UNCHANGED <<fn, level, best, mir, thrown, env>>

PatchInstruction ==
    /\ phase = "patch"
    /\ built' = Patch(built, Current, at[1])
    /\ Advance("select")
    /\ UNCHANGED <<fn, level, best, mir, thrown, env>>

SelectInstruction ==
    /\ phase = "select" /\ ~thrown
    /\ IF Current.op = "Allocate" THEN UNCHANGED <<best, thrown>>
       ELSE LET s == Select(Here) IN best' = s.best /\ thrown' = s.thrown
    /\ Advance("emit")
    /\ UNCHANGED <<fn, level, built, mir, env>>

EmitNext ==
    /\ phase = "emit" /\ ~thrown
    /\ mir' = IF Here \in DOMAIN best THEN EmitInstruction(mir, Here, at[1]) ELSE mir
    /\ thrown' = mir'.thrown
    /\ Advance("walk")
    /\ UNCHANGED <<fn, level, built, best, env>>

------------------------------------------------------------------------------
(* The walk *)

Code == mir.code
InstructionOf(id) == CHOOSE i \in UNION {Range(fn.blocks[b]) : b \in Blocks} : i.id = id

\* What a value of the IR is, behind the casts that only change its type
RECURSIVE Meant(_)
Meant(v) ==
    CASE v[1] = "undef" -> <<"int", 0>>
      [] v[1] = "ins" /\ InstructionOf(v[2]).op = "GenericCast" -> Meant(InstructionOf(v[2]).args[1])
      [] OTHER -> v

\* What an operand of the machine holds
Holds(o) ==
    CASE o[1] = "imm" -> <<"int", o[2]>>
      [] o[1] = "frame" -> built.slots[o[2]]
      [] o[1] = "multi" ->
            IF \A k \in DOMAIN o[2] : o[2][k] \in DOMAIN env /\ env[o[2][k]] = <<"part", env[o[2][1]][2], k>>
            THEN <<"ins", env[o[2][1]][2]>> ELSE None
      [] o[1] \in {"v", "p"} -> IF o \in DOMAIN env THEN env[o] ELSE None
      [] OTHER -> o

Written(i) ==
    CASE i.def = None -> env
      [] i.def[1] = "multi" -> [k \in Range(i.def[2]) |-> <<"part", i.of, CHOOSE n \in DOMAIN i.def[2] : i.def[2][n] = k>>] @@ env
      [] i.op = "Address" -> (i.def :> (IF i.uses[1][1] = "frame" THEN built.slots[i.uses[1][2]] ELSE i.uses[1])) @@ env
      [] OTHER -> (i.def :> <<"ins", i.of>>) @@ env

Phis(b) == {k \in DOMAIN Code[b] : Code[b][k].op = "Phi"}
Incoming(i, from) == CHOOSE k \in DOMAIN i.uses : i.uses[k] = <<"block", from>>
Instruction == Code[at[1]][at[2]]
Targets == {o[2] : o \in {u \in Range(Instruction.uses) : u[1] = "block"}}

Step ==
    /\ phase = "walk" /\ ~thrown /\ at[2] \in DOMAIN Code[at[1]]
    /\ Instruction.op \notin {"Jump", "Test", "Compare", "Switch", "Ret"}
    /\ env' = IF Instruction.op = "Phi" THEN env ELSE Written(Instruction)
    /\ at' = <<at[1], at[2] + 1>>
    /\ UNCHANGED <<fn, level, phase, built, best, mir, thrown>>

\* Phis take their values on the edge
Take ==
    /\ phase = "walk" /\ ~thrown /\ at[2] \in DOMAIN Code[at[1]]
    /\ Instruction.op \in {"Jump", "Test", "Compare", "Switch"}
    /\ \E b \in Targets :
          /\ at' = <<b, 1>>
          /\ env' = [d \in {Code[b][k].def : k \in Phis(b)} |->
                        <<"ins", Code[b][CHOOSE k \in Phis(b) : Code[b][k].def = d].of>>] @@ env
    /\ UNCHANGED <<fn, level, phase, built, best, mir, thrown>>

Next == BuildInstruction \/ PatchInstruction \/ SelectInstruction \/ EmitNext \/ Step \/ Take
Spec == Init /\ [][Next]_vars

------------------------------------------------------------------------------
(* Every operand that is asked for has a pattern, and selection, which meets *)
(* nodes again through phis and through several users, ends without an       *)
(* exception.  What stands for a node is what its kind says.                 *)
TypeOK ==
    /\ ~thrown
    /\ at[1] \in Blocks
    /\ \A n \in DOMAIN best : best[n].pattern # "none" /\ best[n].cost \in 0..CostLimit - 1
    /\ \A n \in DOMAIN mir.operand : n \in DOMAIN built.nodes /\ (KindOf(n) = "Register" => mir.operand[n][1] = "v")
    /\ \A n \in DOMAIN built.nodes : Range(Operands(n)) \subseteq DOMAIN built.nodes

\* What the IR says the instruction reads: a jump that has the place of its
\* comparison reads what that compares, a jump on a constant goes one way
Reads(i) ==
    LET ir == InstructionOf(i.of)
    IN  CASE i.op = "Compare" -> InstructionOf(Meant(ir.args[3])[2]).args \o SubSeq(ir.args, 1, 2)
          [] i.op = "Test" -> <<ir.args[3], ir.args[1], ir.args[2]>>
          [] i.op = "Jump" /\ Len(ir.args) = 3 -> <<ir.args[2 - Meant(ir.args[3])[2]]>>
          [] OTHER -> ir.args

PhisReadRight(b, from) ==
    \A k \in Phis(b) :
        LET i == Code[b][k]
        IN  Holds(i.uses[Incoming(i, from) - 1]) = Meant(Reads(i)[Incoming(i, from) - 1])

(* Along every path, every machine instruction reads, in each operand, the   *)
(* value that its IR instruction names: nothing that was covered by a jump   *)
(* is missing where somebody else needs it, nothing is read before it is     *)
(* written, in the reserved registers neither, whichever patterns the costs  *)
(* made cheapest.  Every instruction of a block that is not only a name, a   *)
(* slot or a covered comparison is emitted once, in its block and in order.  *)
Ids(is) == [k \in DOMAIN is |-> is[k].id]
OwnCode(b) == SelectSeq(Code[b], LAMBDA i : i.of # 0)
Emittable(b, ids) ==
    SelectSeq(fn.blocks[b], LAMBDA i : i.op \notin {"Allocate", "GenericCast"} /\ (i.op \in Cmps => i.id \in ids))
InOrder(b) ==
    LET of == [k \in DOMAIN OwnCode(b) |-> OwnCode(b)[k].of]
    IN  Ids(Emittable(b, Range(of))) = of
CodeFaithful ==
    phase = "walk" =>
        /\ at = <<1, 1>> /\ env = <<>> => \A b \in Blocks : InOrder(b)
        /\ at[2] \in DOMAIN Code[at[1]] =>
            /\ Instruction.of # 0 /\ Instruction.op # "Phi" =>
                \A k \in DOMAIN Instruction.uses : Holds(Instruction.uses[k]) = Meant(Reads(Instruction)[k])
            /\ Instruction.op \in {"Jump", "Test", "Compare", "Switch"} =>
                \A b \in Targets : PhisReadRight(b, at[1])
================================================================================
