---------------------------- MODULE CallSequence ----------------------------
(* A function that is called and calls: its machine code is made the way     *)
(* TargetLowering, GraphColorRegalloc and TargetLoweringPRA make it, one     *)
(* after the other, and then run between a caller and callees that keep to   *)
(* the calling convention of the platform.                                   *)
EXTENDS CallLowering, TLC

CONSTANTS
    Functions       \* the functions, as the instruction selector leaves them:
                    \*   cc, params, types, vararg, retTypes, slots, body, and what
                    \*   allocation may use (regs, flts) and decides to spill (spills)

VARIABLES
    f,              \* the function
    phase,          \* the step of the back end that comes next, "run" or "done"
    u,              \* the function under way
    pc, m,          \* the instruction to run next; the machine
    calls           \* what the callees have received
vars == <<f, phase, u, pc, m, calls>>

N(n) == <<"n", n>>
Junk == <<"junk", "">>

------------------------------------------------------------------------------
(* From the selected instructions to the final code.                         *)

\* Instructions on a slot take its place in the frame
Placed(cc, frame, i) ==
    IF i.op \in {"store", "load", "lea"} /\ i.a[1] = "fi"
    THEN CASE i.op = "store" -> ToSlot(cc, i.d, frame[i.a[2]])
           [] i.op = "load" -> FromSlot(cc, i.d, frame[i.a[2]])
           [] i.op = "lea" -> SlotAddress(cc, i.d, frame[i.a[2]])
    ELSE i
Selected(g) ==
    LET frame == FoldLeft(LAMBDA s, slot : AddStackSlot(s, slot[1], slot[2]), <<>>, g.slots)
    IN  [cc |-> g.cc, types |-> g.types, params |-> g.params, vararg |-> g.vararg, retTypes |-> g.retTypes,
         calls |-> \E n \in DOMAIN g.body : g.body[n].op = "call_lower",
         code |-> [n \in DOMAIN g.body |-> Placed(g.cc, frame, g.body[n])],
         frame |-> frame, size |-> 0, prologue |-> 0, epilogue |-> 0, fault |-> ""]

\* What is live before each instruction; jumps lead forward
Targets(i) ==
    CASE i.op \in {"jl", "jg", "je", "jmp"} -> {i.a[2]}
      [] i.op = "tablejump" -> Range(i.table)
      [] OTHER -> {}
LabelAt(code, b) == CHOOSE n \in DOMAIN code : code[n].op = "label" /\ code[n].d = <<"b", b>>
Live(code) ==
    LET live[n \in 1..Len(code) + 1] ==
            IF n > Len(code) THEN {}
            ELSE LET i == code[n]
                     behind == (IF i.op \in {"jmp", "tablejump", "ret"} THEN {} ELSE live[n + 1])
                                 \union UNION {live[LabelAt(code, b)] : b \in Targets(i)}
                 IN  {o \in (behind \ Defines(i)) \union Uses(i) : o[1] \in {"v", "r"}}
    IN  live
VRegs(code) == {o \in UNION {Defines(code[n]) \union Uses(code[n]) : n \in DOMAIN code} : o[1] = "v"}

\* GraphColorRegalloc gives a register that nothing live at the same time is in,
\* GraphColoring!ColoringSound
Fits(color, code, live) ==
    \A n \in DOMAIN code : \A x \in Defines(code[n]) : \A y \in live[n + 1] \ {x} :
        x[1] = "v" \/ y[1] = "v" =>
            (IF x[1] = "v" THEN color[x] ELSE x) # (IF y[1] = "v" THEN color[y] ELSE y)
Colorings(g, code) ==
    {color \in [VRegs(code) -> {R(r) : r \in g.regs \union g.flts}] :
        /\ \A v \in VRegs(code) : color[v][2] \in (IF v \in g.floats THEN g.flts ELSE g.regs)
        /\ Fits(color, code, Live(code))}
Colored(op, color) == IF op[1] = "v" THEN color[op] ELSE op
ColoredCode(code, color, live) ==
    [n \in DOMAIN code |->
        [code[n] EXCEPT !.d = Colored(@, color), !.a = Colored(@, color), !.b = Colored(@, color), !.marked = TRUE,
                        !.live = {Colored(o, color) : o \in live[n]}]]

------------------------------------------------------------------------------
(* Running it.  A machine has registers, memory by the byte (each holds a    *)
(* part of a value), the last comparison and a fault.                        *)

Base == 1024        \* the stack pointer of the caller, before the call

Store(mem, at, size, value) == [k \in at..at + size - 1 |-> <<value, k - at>>] @@ mem
Fetch(mem, at, size) ==
    IF at \in DOMAIN mem /\ \A k \in 0..size - 1 : at + k \in DOMAIN mem /\ mem[at + k] = <<mem[at][1], k>>
    THEN mem[at][1] ELSE Junk
Forget(mem, gone(_)) == [k \in {j \in DOMAIN mem : ~gone(j)} |-> mem[k]]

\* The calling conventions as the platforms define them: what a callee may
\* destroy besides the argument registers of floats, and what it preserves
Platform(cc) ==
    CASE cc = "SysV" -> [ints |-> IntArguments(cc), home |-> 0, positional |-> FALSE,
                         flts |-> FltArguments(cc) \o <<"xmm6", "xmm7">>,
                         destroyed |-> {"rax", "rcx", "rdx", "rsi", "rdi", "r8", "r9", "r10", "r11"},
                         preserved |-> {"rbx", "rbp", "r12", "r13", "r14", "r15"}]
      [] cc = "Win64" -> [ints |-> IntArguments(cc), home |-> 32, positional |-> TRUE, flts |-> FltArguments(cc),
                          destroyed |-> {"rax", "rcx", "rdx", "r8", "r9", "r10", "r11"},
                          preserved |-> {"rbx", "rbp", "rdi", "rsi", "r12", "r13", "r14", "r15"}
                                          \union {"xmm6", "xmm7", "xmm8", "xmm9", "xmm10", "xmm11", "xmm12", "xmm13",
                                                  "xmm14", "xmm15"}]
      [] cc = "AAPCS64" -> [ints |-> IntArguments(cc), home |-> 0, positional |-> FALSE, flts |-> FltArguments(cc),
                            destroyed |-> {"x30"} \union ToSet(CallerSaved(cc)),
                            preserved |-> {"x19", "x20", "x21", "x22", "x23", "x24", "x25", "x26", "x27", "x28", "x29",
                                           "d8", "d9", "d10", "d11", "d12", "d13", "d14", "d15"}]
Registers(cc) ==
    ToSet(CallerSaved(cc)) \union ToSet(CalleeSaved(cc)) \union ToSet(Platform(cc).flts)
      \union Platform(cc).destroyed \union Platform(cc).preserved \union {Sp(cc)[2]}
      \union (IF X64(cc) THEN {} ELSE {"xzr"})

\* The place of the k-th argument: a register, or an offset from the stack
\* pointer of the caller
Place(cc, types, k) ==
    LET p == Platform(cc)
        nth == IF p.positional THEN k ELSE Nth(types, k)
        registers == Of(types[k], p.ints, p.flts)
        fits(j) == (IF p.positional THEN j ELSE Nth(types, j)) <= Len(Of(types[j], p.ints, p.flts))
    IN  IF nth <= Len(registers) THEN <<"r", registers[nth]>>
        ELSE <<"m", p.home + 8 * Cardinality({j \in 1..k - 1 : ~fits(j)})>>

\* Registers have whatever the caller left in them; arguments are in place
Entry(g) ==
    LET sp == IF X64(g.cc) THEN Base - 8 ELSE Base
        onStack == {k \in DOMAIN g.types : Place(g.cc, g.types, k)[1] = "m"}
        put(mem, k) == IF k \in onStack THEN Store(mem, Base + Place(g.cc, g.types, k)[2], 8, <<"arg", k>>) ELSE mem
    IN  [reg |-> [r \in Registers(g.cc) |->
                    CASE r = Sp(g.cc)[2] -> N(sp)
                      [] r = "rax" /\ g.vararg -> N(8)
                      [] OTHER -> <<"in", r>>],
         mem |-> FoldLeftDomain(put, IF X64(g.cc) THEN Store(<<>>, sp, 8, <<"in", "return">>) ELSE <<>>, g.types),
         flags |-> <<0, 0>>, fault |-> ""]

Number(v) == IF v[1] = "n" THEN v[2] ELSE -1
Read(s, op) == IF op[1] = "i" THEN op[2] ELSE s.reg[op[2]]
Write(s, op, v) == [s EXCEPT !.reg[op[2]] = v]
At(s, op, n) == Number(s.reg[op[2]]) + n
Amount(s, i) == IF i.a = None THEN i.n ELSE Number(Read(s, i.a))
Fault(s, what) == [s EXCEPT !.fault = what]

Execute(s, i, cc) ==
    LET sp == Sp(cc)
    IN  CASE i.op = "mov" -> Write(s, i.d, Read(s, i.a))
          [] i.op = "lea" -> Write(s, i.d, N(At(s, i.a, i.n)))
          [] i.op = "add" -> Write(s, i.d, N(At(s, i.d, i.n)))
          [] i.op = "sub" -> Write(s, i.d, N(At(s, i.d, -Amount(s, i))))
          [] i.op = "shift" -> Write(s, i.d, N(At(s, i.d, 0) * i.n))
          [] i.op = "tableaddress" -> Write(s, i.d, <<"table", i.table>>)
          [] i.op = "tableload" ->
                LET at == At(s, i.b, 0) * i.n
                IN  IF Read(s, i.a)[1] = "table" /\ at \div 8 \in DOMAIN Read(s, i.a)[2]
                    THEN Write(s, i.d, <<"code", Read(s, i.a)[2][at \div 8]>>)
                    ELSE Fault(s, "not in the table")
          [] i.op = "load" -> Write(s, i.d, Fetch(s.mem, At(s, i.a, i.n), i.size))
          [] i.op = "store" -> [s EXCEPT !.mem = Store(@, At(s, i.a, i.n), i.size, Read(s, i.d))]
          [] i.op = "movaps" -> IF At(s, i.a, i.n) % 16 # 0 THEN Fault(s, "unaligned")
                                ELSE [s EXCEPT !.mem = Store(@, At(s, i.a, i.n), i.size, Read(s, i.d))]
          [] i.op = "push" -> [Write(s, sp, N(At(s, sp, -8))) EXCEPT !.mem = Store(@, At(s, sp, -8), 8, Read(s, i.d))]
          [] i.op = "pop" -> Write(Write(s, sp, N(At(s, sp, 8))), i.d, Fetch(s.mem, At(s, sp, 0), 8))
          [] i.op = "stp" -> [Write(s, sp, N(At(s, sp, i.n))) EXCEPT
                                !.mem = Store(Store(@, At(s, sp, i.n), 8, Read(s, i.d)), At(s, sp, i.n + 8), 8, Read(s, i.a))]
          [] i.op = "ldp" ->
                LET first == Write(Write(s, sp, N(At(s, sp, i.n))), i.d, Fetch(s.mem, At(s, sp, 0), 8))
                IN  IF i.b = R("xzr") THEN first ELSE Write(first, i.b, Fetch(s.mem, At(s, sp, 8), 8))
          [] i.op = "op2" -> Write(s, i.d, <<"sum", <<Read(s, i.d), Read(s, i.a)>>>>)
          [] i.op = "op3" -> Write(s, i.d, <<"sum", <<Read(s, i.a), Read(s, i.b)>>>>)
          [] i.op = "movsb" ->
                LET from == Number(s.reg["rsi"])  to == Number(s.reg["rdi"])  n == Number(s.reg["rcx"])
                IN  [s EXCEPT !.mem = [k \in {j \in to..to + n - 1 : from + j - to \in DOMAIN s.mem} |->
                                            s.mem[from + k - to]] @@ @]
          [] i.op = "cmp" -> [s EXCEPT !.flags = <<Number(Read(s, i.d)), Amount(s, i)>>]
          [] i.op = "test" -> [s EXCEPT !.flags = <<Number(Read(s, i.d)), 0>>]
          [] i.op = "fault" -> Fault(s, "no code for this")
          [] OTHER -> s

\* Where a jump leads, or the next instruction
Jumped(s, i, n, code) ==
    CASE \/ i.op = "jmp"
         \/ i.op = "jl" /\ s.flags[1] < s.flags[2]
         \/ i.op = "jg" /\ s.flags[1] > s.flags[2]
         \/ i.op = "je" /\ s.flags[1] = s.flags[2] -> LabelAt(code, i.a[2])
      [] i.op = "tablejump" -> LabelAt(code, Read(s, i.d)[2])
      [] OTHER -> n + 1

\* What a callee finds, and what it leaves: nothing below the stack pointer, in
\* the space of the arguments on the stack and in the registers it need not
\* preserve, except its results.  Where what is pushed around calls and behind the
\* prologue takes the place of the home space of Win64, callees leave it alone
Received(s, call, at) ==
    LET k(n) == LET place == Place(call.cc, call.types, n)
                IN  IF place[1] = "r" THEN s.reg[place[2]] ELSE Fetch(s.mem, at + place[2], 8)
    IN  [target |-> Read(s, call.target), args |-> [n \in DOMAIN call.types |-> k(n)]]
Left(s, call, at) ==
    LET p == Platform(call.cc)
        results == RetAssigned(call.cc, call.rets)
        onStack == 8 * Cardinality({n \in DOMAIN call.types : Place(call.cc, call.types, n)[1] = "m"})
    IN  [s EXCEPT !.reg = [r \in DOMAIN @ |->
                    IF \E n \in DOMAIN results : results[n] = R(r)
                    THEN <<"result", <<call.id, CHOOSE n \in DOMAIN results : results[n] = R(r)>>>>
                    ELSE IF r \in p.destroyed \union ToSet(p.flts) THEN Junk ELSE @[r]],
                  !.mem = Forget(@, LAMBDA k : k < at + p.home + onStack /\ (f.homes \/ k \notin at..at + p.home - 1))]

------------------------------------------------------------------------------
(* What the function means, instruction by instruction as they were selected *)

Slot(g, k) ==
    LET frame == FoldLeft(LAMBDA s, slot : AddStackSlot(s, slot[1], slot[2]), <<>>, g.slots)
    IN  (Base - 16) - frame[k].offset
Denoted(s, g, op) == CASE op[1] = "i" -> op[2] [] op[1] = "fi" -> N(Slot(g, op[2])) [] OTHER -> s.env[op]
Understood(s, g) ==
    LET i == g.body[s.at]
        v(op) == Denoted(s, g, op)
        set(op, x) == [s EXCEPT !.env = (op :> x) @@ @, !.at = @ + 1]
    IN  CASE i.op = "mov" -> set(i.d, v(i.a))
          [] i.op = "lea" -> set(i.d, v(i.a))
          [] i.op = "store" -> set(i.a, v(i.d))
          [] i.op = "load" -> set(i.d, s.env[i.a])
          [] i.op = "op2" -> set(i.d, <<"sum", <<v(i.d), v(i.a)>>>>)
          [] i.op = "op3" -> set(i.d, <<"sum", <<v(i.a), v(i.b)>>>>)
          [] i.op = "intrinsic" /\ i.name = "memcpy" -> set(<<"fi", i.d[2]>>, s.env[i.a])
          [] i.op = "jmp" -> [s EXCEPT !.at = LabelAt(g.body, i.a[2])]
          [] i.op = "switch_lower" ->
                LET n == v(i.d)[2]
                IN  [s EXCEPT !.at = LabelAt(g.body, IF n \in DOMAIN i.cases THEN i.cases[n] ELSE i.default)]
          [] i.op = "call_lower" ->
                [s EXCEPT !.at = @ + 1,
                          !.calls = Append(@, [target |-> v(i.target), args |-> [n \in DOMAIN i.args |-> v(i.args[n])]]),
                          !.env = [op \in ToSet(i.ret) |->
                                    <<"result", <<i.id, CHOOSE n \in DOMAIN i.ret : i.ret[n] = op>>>>] @@ @]
          [] i.op = "return_lower" -> [s EXCEPT !.out = [n \in DOMAIN i.args |-> v(i.args[n])], !.at = Len(g.body) + 1]
          [] OTHER -> [s EXCEPT !.at = @ + 1]
Meaning(g) ==
    LET argument(k) == LET place == Place(g.cc, g.types, k)
                       IN  IF place[1] = "r" THEN <<"in", place[2]>> ELSE <<"arg", k>>
        start == [at |-> 1, calls |-> <<>>, out |-> <<>>,
                  env |-> [v \in ToSet(g.params) |-> argument(CHOOSE k \in DOMAIN g.params : g.params[k] = v)]]
        run[n \in 0..Len(g.body)] ==
            IF n = 0 THEN start
            ELSE IF run[n - 1].at > Len(g.body) THEN run[n - 1] ELSE Understood(run[n - 1], g)
    IN  run[Len(g.body)]

------------------------------------------------------------------------------
Init ==
    /\ f \in Functions
    /\ phase = "lower"
    /\ u = Selected(f)
    /\ pc = 0 /\ m = Entry(f)
    /\ calls = <<>>

\* TargetLowering::run: the first that is left
Lowering == {"call_lower", "switch_lower", "return_lower"}
First(code) == CHOOSE n \in DOMAIN code : code[n].op \in Lowering /\ \A k \in 1..n - 1 : code[k].op \notin Lowering
LowerNext ==
    /\ phase = "lower"
    /\ \E n \in DOMAIN u.code : u.code[n].op \in Lowering
    /\ LET n == First(u.code)
       IN  u' = CASE u.code[n].op = "call_lower" -> LowerCall(u, n)
                  [] u.code[n].op = "switch_lower" -> LowerSwitch(u, n)
                  [] u.code[n].op = "return_lower" -> LowerReturn(u, n)
    /\ UNCHANGED <<f, phase, pc, m, calls>>

LowerRest ==
    /\ phase = "lower"
    /\ \A n \in DOMAIN u.code : u.code[n].op \notin Lowering
    /\ u' = LowerIntrinsics(LowerFunction(u))
    /\ phase' = "allocate"
    /\ UNCHANGED <<f, pc, m, calls>>

\* RegallocBase::run: spills get slots, and what is left gets registers
SpillAll(w, g) ==
    FoldLeft(LAMBDA x, v : LET slotted == [x EXCEPT !.frame = AddStackSlot(@, 8, 8)]
                           IN  Spill(slotted, v, Last(slotted.frame)), w, g.spills)
Color(w) == \E color \in Colorings(f, w.code) : u' = [w EXCEPT !.code = ColoredCode(@, color, Live(@))]
Allocate ==
    /\ phase = "allocate"
    /\ Color(SpillAll(u, f))
    /\ phase' = "save"
    /\ UNCHANGED <<f, pc, m, calls>>

\* TargetLoweringPRA::run
CallIds(code) == SelectSeq([n \in DOMAIN code |-> IF code[n].op = "call" THEN code[n].call.id ELSE 0], LAMBDA id : id > 0)
Save ==
    /\ phase = "save"
    /\ u' = FoldLeft(SaveCall, SaveCalleeSaved(LowerCopies(u)), CallIds(u.code))
    /\ phase' = "run" /\ pc' = 1
    /\ UNCHANGED <<f, m, calls>>

Step ==
    /\ phase = "run" /\ m.fault = "" /\ u.fault = ""
    /\ u.code[pc].op \notin {"call", "ret"}
    /\ m' = Execute(m, u.code[pc], u.cc)
    /\ pc' = Jumped(m, u.code[pc], pc, u.code)
    /\ UNCHANGED <<f, phase, u, calls>>

CallOut ==
    /\ phase = "run" /\ m.fault = "" /\ u.fault = ""
    /\ u.code[pc].op = "call"
    /\ LET call == [u.code[pc].call EXCEPT !.target = u.code[pc].a]
           sp == Number(m.reg[Sp(u.cc)[2]])
       IN  /\ calls' = Append(calls, Received(m, call, sp) @@ [sp |-> sp, al |-> Number(m.reg[CallerSaved(u.cc)[1]]),
                                                             call |-> call])
           /\ m' = Left(m, call, sp)
    /\ pc' = pc + 1
    /\ UNCHANGED <<f, phase, u>>

Return ==
    /\ phase = "run" /\ m.fault = "" /\ u.fault = ""
    /\ u.code[pc].op = "ret"
    /\ phase' = "done"
    /\ UNCHANGED <<f, u, pc, m, calls>>

Done == phase = "done" /\ UNCHANGED vars

Next == LowerNext \/ LowerRest \/ Allocate \/ Save \/ Step \/ CallOut \/ Return \/ Done
Spec == Init /\ [][Next]_vars

------------------------------------------------------------------------------
(* Every instruction has its operands in registers of the target by the time *)
(* it runs, and nothing of the lowering is left.  Code is found where it     *)
(* was: the first instruction of a call's arguments, which saveCall inserts  *)
(* in front of (block.cpp:24), and every save of a float register is at an   *)
(* address movaps takes.                                                     *)
TypeOK ==
    /\ u.fault = "" /\ m.fault = ""
    /\ phase \in {"lower", "allocate", "save", "run", "done"}
    /\ phase \in {"run", "done"} =>
          \A n \in DOMAIN u.code :
              /\ u.code[n].op \notin Lowering \union {"intrinsic"}
              /\ \A o \in {u.code[n].d, u.code[n].a, u.code[n].b} : o[1] # "v" /\ (o[1] = "r" => o[2] \in Registers(u.cc))

(* va_arg finds the arguments that have no name: the registers behind those  *)
(* of the named ones in the save area, at the offsets of the va_list, and    *)
(* the stack where its overflow area says.                                   *)
VariadicArrive ==
    phase = "done" /\ f.vararg /\ f.cc = "SysV" /\ f.slots # <<>> =>
        LET list == Slot(f, 1)
            field(at, size) == Number(Fetch(m.mem, list + at, size))
            named(t) == Cardinality({k \in DOMAIN f.types : f.types[k] = t /\ Place(f.cc, f.types, k)[1] = "r"})
        IN  /\ \A k \in named("int") + 1..6 :
                 Fetch(m.mem, field(16, 8) + field(0, 4) + 8 * (k - named("int") - 1), 8) = <<"in", IntArguments("SysV")[k]>>
            /\ \A k \in named("flt") + 1..8 :
                 Fetch(m.mem, field(16, 8) + field(4, 4) + 16 * (k - named("flt") - 1), 16)
                    = <<"in", Platform("SysV").flts[k]>>
            /\ field(8, 8) = Base + 8 * Cardinality({k \in DOMAIN f.types : Place(f.cc, f.types, k)[1] = "m"})

(* Each callee finds, in the registers and on the stack where its convention *)
(* says, what the function passes it, whatever is saved around the call and  *)
(* in whatever registers the arguments were (lowerCall, saveCall); va_arg    *)
(* finds those without a name.                                               *)
ArgumentsArrive ==
  /\ VariadicArrive
  /\ \A n \in DOMAIN calls :
        LET expected == Meaning(f).calls
        IN  /\ n <= Len(expected)
            /\ calls[n].target = expected[n].target /\ calls[n].args = expected[n].args

(* The stack is aligned for every callee, and a variadic one is told how     *)
(* many vector registers to save, or more (x64_target_lowering.cpp:155).     *)
CallsWellFormed ==
    \A n \in DOMAIN calls :
        /\ calls[n].sp % 16 = 0
        /\ calls[n].call.vararg /\ u.cc = "SysV" =>
              /\ calls[n].al <= 8
              /\ calls[n].al >= Cardinality({k \in DOMAIN calls[n].call.types : calls[n].call.types[k] = "flt"})

(* The caller goes on as if the function had touched nothing of its own:     *)
(* what the platform has preserved is there, whatever the code's tables call *)
(* callee-saved; prologue, saves, pushed arguments, dynamic stack and        *)
(* epilogue cancel out, in every block that returns.                         *)
CallerUnharmed ==
    phase = "done" =>
        /\ \A r \in Platform(u.cc).preserved : m.reg[r] = <<"in", r>>
        /\ m.reg[Sp(u.cc)[2]] = Entry(f).reg[Sp(u.cc)[2]]
        /\ IF X64(u.cc) THEN Fetch(m.mem, Base - 8, 8) = <<"in", "return">> ELSE m.reg["x30"] = <<"in", "x30">>

(* The function returns what it means: values that outlive a call did, slots *)
(* are apart from each other and from what is pushed, a switch took the case *)
(* of its index.                                                             *)
ResultDelivered ==
    phase = "done" =>
        LET out == Meaning(f).out
            at == RetAssigned(f.cc, f.retTypes)
        IN  \A k \in DOMAIN at : m.reg[at[k][2]] = out[k]

==============================================================================
