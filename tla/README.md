# A verification development of scbe

scbe is a compiler back end in C++: a front end builds functions with
`IR::Builder`, passes rewrite them, instruction selection turns them into
machine IR, registers are allocated, and an assembly text or an object file
comes out. There are no threads, no network and no persistent state. What is
hard in it are long sequences of legal steps over several structures that
repeat the same facts: a pass changes one of them, and another pass trusts the
other. This directory holds TLA+ models of those steps, TLC configurations that
check them on small functions, and TLAPS proofs.

## The system

The pipeline (`src/src/target/x64/x64_target_machine.cpp:86-104`, the AArch64 one is
alike), run by `PassManager::run`:

    O1 only, repeated while a pass reports a change:
      FunctionInlining, Mem2Reg, DeadCodeElimination,
      CFGSemplification, ConstantFolder, FixPhis
    once:
      SplitCriticalEdge, Legalizer, ISelPass, TargetLowering,
      GraphColorRegalloc, TargetLoweringPRA
    then an assembly printer or an object emitter

| Component | State | Operations | What makes it correct |
|---|---|---|---|
| IR graph (`IR/value`, `instruction`, `block`, `function`) | operands; a use list per value; successor and predecessor counts per block; instructions per block; block order | add, insert, remove, replace, clear, merge, split, insert and remove blocks | operands, uses and edges describe one function; nothing reaches a deleted object |
| CFGSemplification, ConstantFolder, FixPhis, SplitCriticalEdge | the function; the pass's own worklist | merge blocks, remove unreachable ones, replace empty ones, fold jumps and phis, drop stale phi entries, split edges | the function computes what it did; each phi has an entry for each predecessor; no exception |
| PassManager | pass groups, `anyChange` | run, restart a block, repeat a group | a group ends |
| Mem2Reg, DCE | stack slots, rename stacks, worklist | promote, delete | loads see the last store; a store somebody can see stays |
| DominatorTree, LoopAnalysis, CallAnalysis | tree, frontiers, loops, call sites, dirty flags | compute on demand | dominance as defined by paths; loops complete |
| FunctionInlining | value map, budget | split, clone, rewire | caller computes the same; ends |
| ISelPass and patterns | DAG, best matches, node-to-operand map | cover, emit | each value is computed once and before its uses |
| TargetLowering | phi copies, call and switch pseudo-instructions | lower phis, calls, switches, returns, intrinsics | copies of an edge are parallel; arguments arrive; the stack is balanced |
| GraphColorRegalloc, Spiller, RegallocBase | live ranges, graph, work stack, spills, `m_virtualToPhysical` | analyze, spill, rewrite operands | registers live together never share bits; rounds end |
| TargetLoweringPRA | saved registers | push and pop around calls, in prologue and epilogue | every live register survives a call |
| StackFrame | slots | add, size | slots disjoint and aligned |
| Object emitters, encoder | sections, symbols, fixups | encode, place, resolve | every fixup hits its symbol |
| Context, Unit, Folder, Legalizer | interned types and constants; globals | intern, fold, legalize | one object per type; folding equals the machine |

Components call each other directly. They share the `Function` object, and what
one leaves inconsistent the next one meets: use lists and edge counts are never
recomputed. The hash maps keyed by pointers (`USet`, `UMap`) make several
orders arbitrary; the models choose any.

Every hazard found is listed in `PROJECT.json`, at its line, with the properties
that cover it or the reason none does.

## Modules

| Module | Models |
|---|---|
| `IRGraph` | the IR of a function and the primitives on it, as operators from function to function |
| `IRSemantics` | what an IR function computes |
| `CFGPasses` | the control-flow passes and the repetition of the O1 group |
| `Dominance` | dominance by paths, the definition |
| `Dominators` | `DominatorTree` and `LoopAnalysis`, step by step |
| `MemoryPasses` | `Mem2Reg` and `DeadCodeElimination` in the group |
| `Inlining` | `FunctionInlining` with `CallAnalysis` on the functions of a unit |
| `ISel` | `ISelPass`: graph, cover, emission |
| `MachineArithmetic` | integers of a given width, and what the IR's operations mean |
| `X64Patterns`, `A64Patterns` | the instructions each pattern of the two targets emits |
| `X64Machine`, `A64Machine` | what these instructions do |
| `Selection` | one operation: pattern, then machine |
| `RegisterAssignment` | contract of one round of register allocation |
| `GraphColoring` | `GraphColorRegalloc::analyze` after the graph is built |
| `LiveRanges` | `computeLiveRanges`, the graph built from it, which registers a call saves |
| `MachineLiveness` | liveness of registers by paths, the definition |
| `ParallelCopy` | `lowerPhis`, `parallelCopy`, and the run of the emitted moves |
| `CallLowering` | what `TargetLowering`, `Spiller` and `TargetLoweringPRA` make of calls, returns, switches, intrinsics and frames |
| `CallSequence` | a function lowered by `CallLowering`, allocated, and run between a caller and callees |
| `X64Encoding` | `x64InstructionEncoder` with its table of opcodes |
| `X64Decoding` | the processor's side, after the architecture manual (external) |
| `ObjectCode` | `ObjectEmitter` and its ELF and COFF writers, and a linker (external) |
| `AllocationRound` | a whole call of `analyze`: `LiveRanges`, then any assignment that keeps the contract of a round, with its theorems |
| `GraphColoring_proofs`, `ParallelCopy_proofs`, `LiveRanges_proofs`, `Dominators_proofs` | theorems about these modules |
| `Dominance_proofs` | depth-first trees, semidominators, dominance and frontiers by closed sets: the theory that `Dominators_proofs` applies |
| `MachineLiveness_proofs` | liveness is the least set closed under going back one step |
| `Induction` | induction over numbers in forms the provers can use: least and largest elements, iterates of a growing set |
| `MC...` | the instances TLC checks |

`IRSemantics`, `MachineLiveness`, `Dominance`, `MachineArithmetic` with
`BinaryMeaning`, `X64Decoding` and the `Meaning` of `CallSequence` are the
definitions the code is measured against; they are written from what is
promised (the meaning of an operation, a calling convention, the architecture),
everything else from the code.

### Register allocation (`GraphColoring`, `RegisterAssignment`)

`conns` is `m_canonicalConnections` of every node, `inGraph` and `rank` are the
vector `m_nodes` (a set, and the place `std::sort` gave to each node, any order
among equal degrees), `stack` is `workStack`, `phys` is `m_physicalRegister`,
`vp` is `m_virtualToPhysical`. `adj` keeps the graph as it was built, for the
properties only. `Push`, `SpillNode` and `Simplified` are the turns and the end
of the simplify loop, `Select` and `Selected` those of the select loop,
`Commit` the last loop with its exception. Node sets are small in the runs but
arbitrary in the proofs. The graph itself is an input: any symmetric one, with
any canonical physical registers pinned beside the nodes. `LiveRanges` models how
`getOverlaps` arrives at it.

`ImplementsRound` is the refinement: `RegisterAssignment` knows only a pending
and a done round whose outcome is any proper assignment of the registers not
spilled.

### Live ranges (`LiveRanges`, `MachineLiveness`)

A function is a sequence of blocks of instructions; an instruction is what
`fillRanges` looks at: the registers it reads, assigns (`defs`), returns from a
call (`rets`) or destroys (`clobbers`), whether it jumps and which blocks it
names. `ranges` is `m_liveRanges` of every block, a range being the positions of
its two instructions. `m_origin` is not kept: `propagate` asks for it only where
`m_assignedFirst` holds, and a range with that flag is never copied. `FillRanges`
handles one instruction, `FillHoles` one turn of the worklist, `Propagate` one block,
`BuildGraph` the loop of `analyze` over the ranges. The order of predecessors and
successors is that of hash maps, so any. `Propagate` ends in `thrown` where
`lastJumpFor.at` throws.

`end` computes the ranges a second time, on physical registers, and
`TargetLoweringPRA::saveCall` asks them what to push (`IsRegisterLive`, `Saved`).

The properties compare with `MachineLiveness`: a register is live at a point if
some path reaches a use of it before it is written. `Interference` asks that
registers that meet on some path are joined; `BoundaryExact` that the ranges at the
starts of blocks are those of the live registers and no others; `SavedAcrossCalls`
that what is used after a call under any of its names is saved by it.

Two facts about functions are named, since the code relies on them. `Strict`:
nothing is live at the start of a block without predecessors but the arguments of the
function. `EdgesTaken`: each successor of a block has a jump to it, and none is the entry. The runs take
strict functions only; `EdgesTaken` holds for all of them but those with a jump on a
constant, which keep a successor without a jump (`MCLiveRanges` asserts this).

`AllocationRound` puts an `Assign` behind `BuildGraph`: any assignment of the
nodes of `graph` that keeps `RegisterAssignment!Proper`, which `GraphColoring` is
proved to do. `NothingShared` then speaks of the rewritten function: no write, and no call that
destroys registers, reaches the bits of a register that holds a value still to be read (`Kept`). Here the
liveness does not end at what a call destroys: a value in a virtual register is kept across
every call in front of its last use. The exception is a physical register that some call
destroys before its value is read (not in `Lasting`): an argument used behind a call, whose
range the code ends too early (`WideArguments`, see "What the passing runs leave out"). Such a
value is kept as far as the call. With `Needed` in the place of `Kept` TLC finds that function.

### The IR and its passes (`IRGraph`, `IRSemantics`, `CFGPasses`)

A function is a record (`IRGraph` explains the fields), and each C++ primitive
is an operator with the same name. Undefined behaviour and exceptions set the
field `fault` and end the pipeline: an erase of `end()`, an `at()` on a
missing key, a use of a deleted instruction. The loop in `removeBlock` and
`beforeRemove` that walks a use list while it shrinks is modelled slot by slot
(`RemoveFromUsers`).

An action of `CFGPasses` is one turn of a pass's loop: one merge, one fold, one
split edge; `RemoveNoPredecessors`, `ReplaceEmpty` and `FixPhis` are whole
calls, since nothing observes the function in between. A program starts at
`merge` (O1) or at `split` (O0). In an O1 run the other passes of the group are
not steps: the functions here have no calls to inline, no stack slots and no
dead values, so those passes leave them alone.

`IRSemantics` runs a function: it gives the sequence of values its calls
receive. The meaning of the instructions is the one their lowering gives them.
`meaning` records what the original function does for each input, and
`MeaningKept` compares at the points where the passes are between two calls.
At `done` the function is taken as instruction selection takes it (`Selected`).

`Mergeable` asks `IsLoop`, which is `Heuristics::isLoop`: whether the block is in any loop that
`LoopAnalysis` knows (`LoopBlocks`). Those are the self loops and the natural loops of edges
to the *immediate* dominator, since `DominatorTree::dominates` looks no further up; blocks of other
loops are merged. An edge that changes has the analysis done again, so the
loops are those of the function as it is. Both kinds of loop are in the run.

### Phis in machine code (`ParallelCopy`)

One predecessor and the copies its edge asks for. `EmitMove` and `SaveSource`
are the two arms of the loop in `parallelCopy`; `code` is what stands in front
of each jump. `SaveSource` gives the new register to the first copy only: `copy` in
the code refers to that element, so the loop over the others compares them with
the register it has just put there (`target_lowering.cpp:129-139`). Then the code
runs: `Move` executes a move on `env`, `Leave` and `FallThrough` take or pass a
jump, which runs the moves again.

The code does not make a parallel copy of every list, so `Parallel` says of which:
those in which every phi that reads another phi's register (`Reads`) does so `InTime`.
It is stated in both directions and for all lists, so it holds of the code where it
is right and names where it is wrong.

### Dominators and loops (`Dominators`, `Dominance`)

`dt` is the `DTContext` of Lengauer and Tarjan's algorithm (`semi`, `vertex`,
`parent`, `ancestor`, `label`, `idom`, the buckets), `front` is
`m_dominanceFrontiers`, `loops` is `m_loops`. `Walk` and `Walked` are the
recursive depth-first walk with `path` as its stack, in any order of the
successors. `StartVertex`, `Semi`, `Link`, `Idom` and `ClearBucket` are the main
loop: a vertex, each of its predecessors, its place in a bucket and in the
forest, each block of its parent's bucket. Before `Semi` or `Idom` a predecessor
or block is evaluated: `Eval` starts, `Compress` is a call of `compress` for the
ancestor, with `path` as the stack, and `Shorten` the rest of a call.
`StartCorrect`, `Correct` and `Corrected` are the last loop over the tree.
`NextBlock`, `StartRunner`, `Run` and `Frontiers` are the frontiers, step by step of
the runner. `NextEdges`, `FindEdge` and `EdgesFound` find the back edges, `StartBody`
and `GrowBody` collect the bodies, `Nest` makes the children, `PropagateDepth` is
one recursive call. Sets that a loop has still to go through are in `work`, in any
order, as the hash maps are.

`IdomExact` compares the tree with dominance by paths, `FrontiersCoverJoins`
asks for what Mem2Reg needs (the iterated frontier of an assignment contains
every block where it meets another), `NaturalLoops` that a body is the natural
loop of its back edge. `TypeOK` contains `RecursionEnds`: the calls of `propagateDepth`
are no deeper than there are loops. Unreachable blocks
are part of the graphs: they are predecessors that the walk never numbered.

### Memory and dead code (`MemoryPasses`)

Functions as a front end writes them: two variables in slots, loads, stores,
calls, stores through a pointer of the caller. `StartMem2Reg` and `Promote`
place the phis, `StartRename` and `Rename` walk the dominator tree with the
stacks of values, `PopValues` cuts the stacks back, `RemoveSlots` deletes the
slots, `Eliminate` is one run of DCE with its worklist. `Inline` brings in the
slot of a callee, so that a second round meets old entries of
`m_phiForValues` and `m_valueForPhis`, which are not cleared.
`Optimised` joins `MeaningKept` (calls and final memory are those of the
program as written) and `NothingLeft` (at the end no slot can be promoted and
nothing is dead). `TypeOK` contains `NoFault`: no pass touches a deleted object,
and the assertion at `mem2reg.cpp:68` holds.

### Inlining (`Inlining`)

`unit` holds three functions, `sites` and `recursive` are the cached
`Heuristics`, `dirty` the flag that says when they are computed anew, `added` the budget.
`Inline` is one call site, or one turn of the loop that ends without one:
`Block::split`, the clones, the replacement of returns, slots and phis. `Clean`
is the removal of unreachable blocks that the group does in between, which can
delete a call that a cached site still names. The weights of the score are
constants, as small as lets every comparison go both ways. `GrowthBounded` joins
`BudgetKept` and `NotIntoItself`.

### Instruction selection (`ISel`)

`built` is the DAG (`m_valuesToNodes` and the nodes), `best` is `m_bestMatch`,
`mir` the emitted code with the operand of each node (`DAG::Node` to operand).
The phases are the loops of `ISelPass::run`: `BuildInstruction`,
`PatchInstruction` (phis get their operands), `SelectInstruction` (the recursive
`selectPattern` for one root, with costs that wrap below `CostLimit`,
what a pattern covers, and the erasure of a covered comparison), `EmitNext` (the
recursive `emitPattern`). A pattern is its match, its cost, what it covers and the nodes it
takes operands from; it emits one instruction here. Then `Step` and `Take` walk
the machine code along every path: `env` says which value each register holds,
and `CodeFaithful` asks that each instruction reads, operand by operand, the
value its IR instruction names, and that each instruction of a block is emitted
once and in order.

### Patterns (`X64Patterns`, `A64Patterns`, the machines, `Selection`)

An operation `c` with its operands goes through `Select`, which gives the
instructions of the pattern that matches, and through `Run`, one instruction at
a time. Four widths stand for 1, 2, 4 and 8 bytes (`Bits`, constrained by
`BitsAssumption`); arithmetic is modulo the width.
`Junk` is what stands above a narrow value in its register. `MeaningKept`
compares with what the operation means; `WritesAnnounced` checks the
instruction tables (`x64_instruction_info.cpp`) against what the code changes,
`TypeOK` contains the absence of traps and of opcodes that do not exist.

### Calls (`CallLowering`, `CallSequence`)

A function `u` goes through the phases of the back end: `LowerNext` is one call,
switch or return of `TargetLowering::run`, `LowerRest` is `lowerFunction` and the
intrinsics, `Allocate` spills what the function names and gives the rest any
sound colours (`RegisterAssignment` is the contract that the colours meet),
`Save` is `TargetLoweringPRA`. Then it runs: `Step` executes an instruction,
`CallOut` records what a callee receives and destroys all it may destroy,
`Return` ends. Memory is bytes by address; the caller's values are symbols, so
no value is right by accident. `Meaning` is what the function does when
registers, stack and convention are left out.

What a caller finds again (`CallerUnharmed`) is what the platform preserves
(`Platform`, an external definition: on Win64 also RSI, RDI and XMM6 to XMM15), not
what the code's tables call callee-saved. A Win64 callee may write its home
space: functions with `homes` meet such callees.

Switches are lowered by two pieces of code, `SwitchX64` and `SwitchA64`. The table's address
comes into a virtual register, so it is coloured with the rest. AArch64 has its bounds in
the reserved register and shifts the index where it is.

### Object files (`X64Encoding`, `X64Decoding`, `ObjectCode`)

`code`, `data`, `fixups`, `codeLoc` and `dataLoc` are the fields of
`ObjectEmitter`. `InitGlobal` encodes one initial value, `StartFunction`,
`StartBlock` and `EncodeInstruction` are the loop of `run`, `SettleFixup` is one
turn of the loop that writes the object, `Link` puts the sections anywhere and
applies the relocations. Bytes are bytes: the encoder's decisions (prefixes,
REX, ModRM, width of a displacement, the place of a fixup) are what the property
is about. `DecodesBack` compares what `Decode` finds with what the assembly
output of the same instruction says (`Printed`), `LinksUp` where jumps, calls and
accesses lead.

## Runs

| Run | Instance | Shows |
|---|---|---|
| `GraphColoring` | 4 registers, 3 classes over 2 alias groups plus a reserved one; all graphs and all pinnings of 2 registers; 239,376 states | proper colouring, no exception, refinement of `RegisterAssignment`, termination |
| `LiveRanges` | 2 virtual registers, a 64-bit and a 32-bit name of a physical one; 2,389 functions; 48,621 states | registers that meet are joined, block starts are exact, calls save what is needed, the worklist ends |
| `ParallelCopy` | all lists of up to 3 copies among 4 registers and an immediate, up to 3 jumps, 4 temporaries; 187,176 states | which lists come out as parallel copies; the loop ends |
| `CFGPasses` | functions of 3 blocks with any jumps back, of 5 with longer and nested loops, of 4 laid out forward; 78,021 states | edges and uses, no fault, meaning, the group shrinks |
| `Dominators` | every graph of 4 blocks with up to 2 successors each, an irreducible loop, loops in loops, the example of the algorithm's paper; 407,131 states | tree, frontiers, loops, nesting ends |
| `MemoryPasses` | 1,424 functions of two variables; 37,819 states | meaning, nothing left to do, no fault |
| `Inlining` | 59 units of 3 functions; 544 states | meaning, edges and uses, budget, no function into itself |
| `ISel` | 2,050 functions of up to 4 blocks at both levels; 193,098 states | every operand is the right value, every instruction once and in order |
| `Selection` | 27,817 operations of both targets; 123,015 states | results, announced writes, untouched operands, no trap |
| `CallSequence` | 104 functions under SysV, Win64 and AAPCS64; 43,302 states | arguments, alignment, what the platform preserves, stack, results |
| `ObjectCode` | 340 families of instructions, units with jumps, calls, globals and addresses; 17,080 states | the bytes say what the assembly says, symbols are met |
| `SplitBackEdge` | the loops left out of `CFGPasses` | finding: phis of the predecessor lose an entry |

Three more configurations show a disagreement each; they are kept to be run by
hand (next section): `DeadArm`, `ConstantJump`, `StaleCallSite`. Where the next section names a definition of an MC module instead,
it is the value that a constant of the passing configuration takes.

Bounds, and why they are enough.

- `GraphColoring`: four nodes and classes of at most two registers are the least
  that make nodes of different classes compete, spill the most connected, and
  colour around both a neighbour and a pinned register; the proofs lift the bound.
- `CFGPasses`: three blocks give every kind of loop between two blocks and self
  loops; four forward blocks give diamonds, triangles, empty chains and dead
  arms; five give back edges over two and three blocks, which `LoopAnalysis` finds or not, and a
  loop within another. `Fuel` (8 blocks) follows each loop more than once. `PhisPerBlock` is 1.
- `ParallelCopy`: three copies make chains, swaps, circles of three, several readers of one
  register and copies of a register to itself; a third jump runs the moves a third time; `MaxTemps` exceeds the number of copies, and `Ends` shows that the
  bound is never what stops the loop.
- `LiveRanges`: two virtual registers are the least that interfere, one physical
  register with two names is the least with aliases; blocks of two or three
  instructions besides the jumps order a use, an assignment and a call in every way.
- `Dominators`: with four blocks a semidominator differs from the dominator, paths
  are compressed twice, and unreachable predecessors occur; the larger graphs add
  nested and irreducible loops.
- `MemoryPasses`: joins of joins and a loop with two exits need phis that only feed
  phis; the second variable is copied from the first; `Fuel` is 10 blocks.
- `Inlining`: three functions call each other in a circle of two beside the caller;
  `Depth` 6 and `Fuel` 12 end what calls itself, and runs cut short are compared as
  far as they got.
- `ISel`: `CostLimit` 64 stands for 2^32: a sum over a few shared operands passes it.
  Four blocks are a diamond, a loop, and one condition that decides twice.
- `Selection`: 1, 2, 4 and 8 bytes are 2, 4, 5 and 6 bits. What the patterns do with a value depends
  on its sign, on whether it is 0 or 1 or all ones, and on whether a narrower size holds it: all
  values of the narrowest size and these boundaries of the others are taken, in every pair.
- `CallSequence`: one or two calls, up to ten arguments, spills that fit, and the
  registers on both sides of the convention; every sound colouring of them. Switches have two or three
  cases from 0 and from 2, with a hole, and every index in and around them.
- `ObjectCode`: displacements and immediates at -129, -128, 127, 128 and the like,
  registers that need REX and those whose ModRM form means something else.

`CHECK_DEADLOCK FALSE` is set where a model is a call or a program that returns;
`Dominators` and `CallSequence` have a last step that stays, and are checked for
deadlock.

## What the passing runs leave out

Each passing run takes the inputs for which the code does what it promises.
What it leaves out is listed here, since it is where the code does something else.

**IR passes.**
- Loops in which a block with phis jumps, conditionally, back to a block its phis
  hear from (run `SplitBackEdge`).
- Phis whose value is computed by a block that dies: `cfg_simplification.cpp:48`
  removes an operand twice (`DeadArm`).
- Jumps on constants at O0: `x64_patterns.cpp:512` and `AArch64_patterns.cpp:544`
  take the opposite operand (`ConstantJump`).
- Switches in the IR of `CFGPasses`; edges to the entry block (`EntryAssumption`: no
  front end of the repository makes one, and `mergeBlocks` would not survive it).
- Two latches of one header inside another loop: each of the two loops becomes a child
  of the other and `propagateDepth` does not return (`Dominators.cfg` with
  `Graphs <- TwoLatches`). `LatchesApart` is the condition. Three loops in one another: `getInnermostLoop` may give an outer
  one (`Graphs <- ThreeDeep`, invariant `InnermostIsInner`).
- A loop behind a return that loads or stores a promoted slot: the assertion at
  `mem2reg.cpp:68` fails (`MemoryPasses.cfg` with `Shapes <- DeadLoop`). A store through a pointer argument, or to a slot
  whose address was handed out, is deleted (`dce.cpp:39`; `Shapes <- LostEscape`, and
  `Shapes <- Output`). A slot inlined later that gets the address of a deleted one inherits
  its phis (`Shapes <- LateInlining`, `ReuseAddresses = TRUE`, invariant `MeaningKept`).
- A call in dead code that was deleted while its site is still cached (`StaleCallSite`),
  and a callee of two returns inlined into dead code (`Units <- DeadBody`).

**ISel.**
- A comparison that a jump covers and that somebody else, selected before the jump, needs
  (also through a loop's phi): the match is erased at `isel_pass.cpp:776` and the user reads a
  register nobody writes (`KeepsComparisons` in `MCISel`).
- Floats and globals as constants used twice, in another block, twice by one call, or by
  a phi: their operand is cached although it lives in the reserved xmm15 or r15.
- `ExtractValue`, which has no result node; struct stores; nested structs; loads and stores
  through a constant pointer; a dynamic allocation of constant size; arithmetic on the address
  of a global; float comparisons outside jumps (`matchFCmpRegisterRegister` is inverted).

**x64 patterns.** Exclusive or with a constant is chosen by the test for or (about line 1850).
Constant left operands keep the condition of a comparison and are swapped in arithmetic shifts and
bit operations; unsigned comparisons of two constants are signed; 64-bit constants beyond 32 bits
are cut in add, sub, imul and stores; 8-bit multiplication has no opcode and 8-bit division uses AX
wrongly; extensions to 8 bits and of immediates emit nothing; conversions between floats and narrow or
unsigned integers; rounding of float to int where the folder truncates; `GetElementPtr` with offsets before
a register index, negative indices or nested arrays; a slot's address or a wide constant stored through a
global uses r15 twice.

**AArch64 patterns.** Values of one and two bytes have junk above them and are compared, divided,
shifted, extended and converted with whole registers. Two constants in add, sub or mul leave the result
unwritten, in div or rem throw. Shifts by a constant, bit operations with a constant on the left,
`cmp` of two registers (three-operand `subs` with two), xor with a two-byte constant, truncation from
8 bytes, and stores of slot addresses are wrong. `GetElementPtr` with a register index, offset 0 or more than
a byte leaves or misnames the result. Narrow stores write four bytes.

**Live ranges.** Functions in which a register is read before it is written under that name
(`Strict`). An argument used behind a call loses its range in front of it
(`graph_color_regalloc.cpp:255`; `LiveRanges.cfg` with `Programs <- WideArguments` and invariant
`ArgumentsKept`); one read by its narrow name alone is not saved by the call (`Programs <- NarrowUses`,
invariant `SavedAcrossCalls`). An instruction behind a call that reads a register by its narrow name and
writes it by its wide one hides the older range, and the call does not save it (`Programs <- Widened`,
invariant `SavedAcrossCalls`): `isRegisterLive` takes the first range it finds, by the wide name
(`src/src/MIR/register_info.cpp:23-31`).

**Phis.** Nothing is left out: `Parallel` is about all lists. But it says that a phi which reads the
register of another gets its value only if that other one has to be saved as well, stands behind it in the
list, and the moves run once. In every other such list the copies are not parallel
(`target_lowering.cpp:119`, which picks a copy without asking who still reads its destination).

**Calls.**
- A call without arguments: its start is taken to be the instruction behind the call, so that saves
  land behind it (`x64_target_lowering.cpp:165`, AArch64 line 113).
- Slots that spilling adds after the prologue has fixed the size of the frame, unless they fit its padding.
- Stack arguments while registers are live (pops come before the stack is raised), an odd number of
  them, 64-bit immediates among them; Win64 stack arguments (stores of registers end up behind the call) and
  mixed integers and floats.
- Floats that live across calls; float arguments beyond XMM5.
- Formals still in argument registers that later arguments overwrite, or that exchange places.
- Two spilled operands of one instruction, which share the reserved register, and one that is read and written.
- `memcpy` whose operands are in its fixed registers, or with RSI or RCX live; on AArch64 `memcpy` is dropped.
- AArch64: stack arguments (in slots of the caller's own frame; an immediate is loaded behind its store, a
  register stored and then cast to an immediate, `AArch64_target_lowering.cpp:83-99`) and variadic save areas in the wrong frame; frames of more than 255 bytes.
- Switches on negative or very large cases, and an index narrower than 64 bits with junk above it. AArch64
  switches whose least case is 0 and whose index is read later or is a constant: the index is shifted in
  place, or shares the reserved register with the bounds (`AArch64_target_lowering.cpp:303-334`; `CallSequence.cfg` with
  `Functions <- ShiftedSwitches`, invariant `ResultDelivered`).
- Win64 functions that are given RSI or RDI: both are caller-saved in the one table that serves both
  conventions (`x64_register_info.cpp:195-201`), so nothing restores them (`Functions <- Win64Sources`,
  invariant `CallerUnharmed`). XMM6 to XMM15 are not restored either.
- Win64 callees that write their home space, where the code has pushed registers or spilled around the
  call: only `HomeSpace`, which has neither, meets such callees.

**Object files.**
- Memory operands with SIB and a displacement or an immediate (`[rsp + 8]`): SIB is written last
  (`x64_instruciton_encoder.cpp:208`); its base and index are not masked for r8 to r15.
- Backward conditional jumps land one byte off.
- Jumps to the entry block: the assembly has no label for it (`x64_asm_printer.cpp:29`), so the text names nothing to compare with.
- REX stands before the prefix of float instructions, so that xmm8 and above become xmm0 and above;
  SPL, BPL, SIL and DIL have no REX; `cbw` is `cwde`; 16- and 32-bit `not` are 64-bit.
- Opcodes without an encoding throw (`Sub..mi`, `Cmp..mi`, 64-bit `or` and `xor` with an immediate).
- An access by name that also has an immediate; COFF's in-place addends, and data fixups, which patch the code
  instead of the data; block names that collide when they are joined to the function's; i1 globals; byte arrays
  that do not end in zero.

## Fairness

`GraphColoring`, `LiveRanges` and `ParallelCopy` assume `WF_vars(Next)`: they are
loops of one thread that wait for nothing. The others state no fairness. That
the O1 group ends is an action property, `GroupShrinks`: each repetition starts
with a smaller weight (blocks first, then operands), a natural number; inlining
is bounded by `GrowthBounded`.

## Proofs

`GraphColoring_proofs`, for all register sets, classes and graphs that satisfy
`RegistersAssumption` (a virtual register is not a physical one; two registers
of one allocation order never alias, as the tables of
`x64_register_info.cpp:219-248` have it; finitely many registers):

- `TypeCorrect`, `Coloring`, `NoFailure`: `TypeOK`, `ProperColoring` and
  `NeverFails` are invariants. Neither of the last two is inductive. Select looks
  at `conns`, from which `Remove` took nodes, so `Frozen` says what is left in
  it: for a node on the stack, every neighbour that leaves the graph after it.
  These are popped before it, so all coloured neighbours are still among its
  connections. `LowDegree` keeps the fact tested when a node was pushed; with
  it, and the injectivity of the allocation order on alias groups, a counting
  lemma (`SelectFindsARegister`) gives a free register. `Placement` says a node is
  in the graph, on the stack, spilled or coloured, and only one of these, and
  `Phases` ties the structures to the program counter.
- `Implements`: from the invariant, every step maps to a step of
  `RegisterAssignment` or leaves its variables alone.

`ParallelCopy_proofs`, under `CopiesAssumption` (registers, immediates and
temporaries are disjoint; every phi has its own register):

- `TypeCorrect`: `TypeOK` is an invariant for all lists of copies.
- `Copies`: `Parallel` is an invariant, for all lists and with no hypothesis about them. The invariant says
  what the loop emits: first, in their order, the copies whose source is no destination (`PendingOK`, `CodeOK`);
  then, in their order, the others, each saved and restored by two moves with none between (`Placed`). So
  it is known which move comes before which, and `EnvOK` says what the registers hold while the moves run:
  sources that nothing overwrites keep their value, and a phi that reads the register of an earlier move ends
  with what that move put there. If all reads come in time, each executed move has delivered its operand; if one
  comes late, the reader that shows it is the last one of its chain (`LargestElement` in `Induction`), and nothing later mends it.

`LiveRanges_proofs`, for all registers and functions that satisfy `RegistersAssumption`
(aliases and widest names are those of physical registers) and `ProgramsAssumption` (what
every machine function of the back end looks like: blocks are not empty, jumps come last
in a block and write nothing, only the last instruction may keep control from the next, what an
instruction destroys are physical registers):

- `Invariance`: the inductive invariant `IInv`. `Recorded` says what the ranges of one register
  in one block owe the instructions seen so far: every write starts a range, every use
  lies in one that started before it, and only the first range may start without a
  write. The properties below speak of the finished ranges only, and none is inductive without it. `Pending` is the worklist's part: a block with a register to pass on is on the
  list; a block is pushed again only if it changed, and taken off only when nothing is
  missing. `Joined` is `propagate`'s: blocks behind `at` have ranges that reach a jump and
  successors whose ranges start at the front. `propagate` changes a range while its
  block's record still matters, so `Recorded` lets the end of a range move to a jump.
- `TypeCorrect`: `TypeOK`, from `Recorded`.
- `InterferenceFound`: `Interference`, if every function is `Strict`. The points that the final
  ranges cover contain the uses and are closed under one step back along any path
  (`CoveredBackClosed`); what is live is the least such set (`LiveInIsLeast`). So each
  live register is covered where it is live, and two ranges that cover
  one point meet. Strictness is needed at blocks without predecessors: the range of a
  register that is used there and never written begins at the use, and a register written
  before that use is not joined to it.
- `HolesFilledExactly`: `BoundaryExact`, if every function satisfies `EdgesTaken`. One half is the same
  argument; the other (`EntersLive`) is that `fillHoles` adds a register only where
  it is live, an invariant of its own: the register enters a successor, and some path of
  jumps leads there without a write. Without a jump to that successor no path does, which
  is the exception of `propagate`.

`MachineLiveness` defines liveness by as many steps back as there are points.
`MachineLiveness_proofs` shows that this is enough: a set that grows at each step has
as many elements as steps (`Iterates` in `Induction`), so it stops in time. `Induction` replaces the
library's induction theorems, whose parameter the provers cannot instantiate, by least
elements of sets of numbers.

`AllocationRound`, under the same assumptions:

- `GraphIsInterference`: the graph is loop-free and symmetric between virtual registers and names
  physical ones by their widest name. It is what `GraphColoring` takes as `adj`
  (`IsInterference`), so its theorems hold for the graphs that really occur.
- `RoundKeepsValues`: `NothingShared` for strict functions, from `InterferenceFound`'s lemmas and the contract.
  What joins it to the ranges is `KeptIsLive`: a value of a virtual register, or of a `Lasting` one, that is
  still to be read is live in the sense of the ranges even behind a call that destroys registers, since no
  call destroys a virtual register, and none destroys a lasting one that is needed.

`Dominators_proofs`, on the theory in `Dominance_proofs`, for all graphs that satisfy
`GraphsAssumption` (finitely many blocks numbered from the entry, and no jump to the
entry), unreachable blocks included, and for every order of successors, predecessors and
buckets:

- The theory. A path is never written down: dominance, "above in the tree" and
  "leads to w through larger numbers" are all defined by sets closed under one
  edge, so that a fact about all paths is a fact about one edge. `IsSemi` is the
  semidominator by its definition. `SemiFromPredecessors` gives it from the
  predecessors; `IdomIsSemi` and `IdomFromBetween` are the two cases of the dominator; `DominatedIsDom`
  and `IdomIsParent` lead back to the definitions by paths in `Dominance`, whose
  bounded closure is shown to be the least closed set (`ClosureLeast`); `JoinsCovered`
  is the argument for the frontiers.
- `WalkIsSound`: `Types`, `Counting` and `Walks`. The walk numbers a depth-first tree:
  each subtree is an interval of numbers, what was numbered since a block on
  the stack is below it, and an edge of a finished block to a larger number leads below it.
- `TreeIsExact`: `IdomExact`, which is far from inductive. `Known` adds to the walk what
  the main loop owes. `Forest`: a linked block's label is the best one between it and its ancestor, and path
  compression, at any depth of the recursion, keeps this. `Asking`: the semidominator so far is the least of
  what the asked predecessors offer. `Buckets`: a block waits in the bucket of its
  semidominator until the child towards it is linked. `Idoms`: a block taken from a bucket
  has its dominator or a block with the same one (`Pending`), and the last loop, which
  goes up the numbers, makes it exact.
- `JoinsAreCovered`: `FrontiersCoverJoins`. The invariant `Joining` says of a runner that what it has not yet
  visited still dominates where it is. Blocks with one predecessor have no
  runner; `OnlyPredecessor` shows that they need none.
- `LoopsAreNatural`: `NaturalLoops`. `Collecting`: each block in a body can reach the latch without the header, and its predecessors
  are in the body or it is on the worklist.
- `TypesKept`: `TypeOK`, if `LatchesApart`: no header of two back edges lies in
  another header's loop. The part of it that needs the condition is `RecursionEnds`.
  `Listed` says that no back edge is listed twice; `Nesting` that
  `propagateDepth` is called only for loops that are alone with their header, and at most as deep
  as there are loops around it with a header that strictly dominates its own (`Outer`).
  A child has more of these than its parent, and there are fewer of them than loops. Without the condition the
  recursion does not end (see "What the passing runs leave out").

Only model-checked: everything else. `SavedAcrossCalls` does not hold for all strict functions
(see "Live ranges" above), only for those of the run. The operators of `CFGPasses`, `MemoryPasses`,
`Inlining`, `ISel`, `CallLowering` and `ObjectCode` are folds and recursive
functions over sequences, bags and graphs, so what they compute for every function is an
induction over data that the provers cannot do; the machines and the encoder are finite case
distinctions that TLC enumerates. The liveness properties `Terminates` (of two modules) and
`Ends` stay with TLC too: TLAPS does not reason about fairness and `ENABLED` here.

## Finding

`SplitBackEdge`: `split_critical_edge.cpp:32` redirects phi entries of the predecessor; the quoted
comment is in `PROJECT.json`. The other disagreements are under "What the passing runs
leave out".

## Not modelled

- The folder's constant arithmetic: it computes in `int64_t` whatever the type is, which a
  model scaled to small widths would misrepresent. `Selection` checks the machine's results without it.
- `IR::Builder` and the verifier: they build and inspect what `IRGraph` starts from.
- The legalizer's conversions (the unsigned 64-bit one uses a left shift where it means a right one,
  `x64_legalizer.cpp:39`); its header of variadic functions is in `CallLowering`.
- The count of rounds of register allocation, and the upkeep of live ranges when an
  instruction is removed (`MIR/block.cpp`): `CallSequence` takes any sound assignment instead.
- The constant pool, names of values, IR and MIR printing: no property depends on them.
- Interning in `Context`: equal types and constants are equal values here.
- The vendored ELF, COFF and argument libraries.

## Plan

What is left, in this order:

1. The rounds: `AllocationRound` continued with the spill code of `CallLowering`, so that the
   program computes the same after each round.
2. Switches in `CFGPasses` (`Block::replace` moves no edge of a switch, `block.cpp:152`).
3. Costs and patterns of AArch64 in `ISel`, and ELF for AArch64.
4. The folder at its own width, by residues.
5. Proofs: edges agree under the edge primitives; slots are disjoint; the stack pointer is balanced.
