----------------------------- MODULE LiveRanges -----------------------------
(* GraphColorRegalloc::computeLiveRanges and the interference graph that     *)
(* analyze builds from it, and what the calls of the allocated function save *)
(* according to the ranges.                                                  *)
(*                                                                           *)
(* A range belongs to a register and a block. It is given by the positions   *)
(* of its first and last instruction and tells whether it starts with an     *)
(* assignment. fillRanges makes the ranges of one block from its             *)
(* instructions; fillHoles, a worklist over the blocks, gives a range to     *)
(* each register that only passes through a block; propagate stretches the   *)
(* ranges to the ends of the blocks they cross.                              *)
EXTENDS MachineLiveness, Integers, Sequences, FiniteSets, SequencesExt

CONSTANTS VRegs,        \* virtual registers
          PRegs,        \* physical registers
          Aliases,      \* getAliasRegs: the other names of a physical register, in order
          CallerSaved,  \* the registers a call may destroy, by their widest name
          Canonical,    \* getCanonicalRegister
          Programs      \* the functions to allocate

Regs == VRegs \cup PRegs

ASSUME RegistersAssumption ==
  /\ VRegs \cap PRegs = {}
  /\ CallerSaved \subseteq PRegs
  /\ Aliases \in [PRegs -> Seq(PRegs)]
  /\ Canonical \in [Regs -> Regs]
  /\ \A v \in VRegs : Canonical[v] = v
  /\ \A p \in PRegs : Canonical[p] \in PRegs /\ Canonical[Canonical[p]] = Canonical[p]

\* The instructions after which control goes to another block.
Jumps(f, b) == {k \in DOMAIN f.code[b] : f.code[b][k].jump}

\* What an instruction writes, a call's results and the registers it destroys included.
Writes(i) == i.rets \cup i.clobbers \cup i.defs

\* A function has blocks and a block has instructions. Only the last of them
\* may keep control from the next one; jumps come at the end of a block, write
\* no register and name successors of the block. The registers a call returns
\* its results in are not among its operands; what is destroyed is physical.
ASSUME ProgramsAssumption == \A f \in Programs :
  /\ f.liveIns \subseteq Regs
  /\ f.code \in Seq(Seq([uses : SUBSET Regs, defs : SUBSET Regs, rets : SUBSET Regs,
                         clobbers : SUBSET Regs, targets : SUBSET DOMAIN f.code,
                         jump : BOOLEAN, falls : BOOLEAN, call : BOOLEAN]))
  /\ f.code # <<>> /\ \A b \in DOMAIN f.code : f.code[b] # <<>>
  /\ f.succs \in [DOMAIN f.code -> SUBSET DOMAIN f.code]
  /\ \A b \in DOMAIN f.code : \A k \in DOMAIN f.code[b] : LET i == f.code[b][k] IN
       /\ i.falls \/ k = Len(f.code[b])
       /\ i.uses \cap i.rets = {}
       /\ i.clobbers \subseteq PRegs
       /\ k \in Jumps(f, b) => /\ i.targets \subseteq f.succs[b]
                               /\ Writes(i) = {}
                               /\ \A j \in DOMAIN f.code[b] : k < j => j \in Jumps(f, b)

\* Liveness of a function's registers by paths: what an instruction writes ends it.
WrittenIn(f) == [p \in Points(f) |-> Writes(Instruction(f, p))]
LiveIn(f) == LiveBefore(f, Regs, WrittenIn(f))

\* No register is read that no path from the start has written: nothing is live
\* where only the caller can have written it, the function's arguments excepted.
Strict(f) ==
  LET live == LiveIn(f) IN
  \A b \in DOMAIN f.code : (\A p \in DOMAIN f.code : b \notin f.succs[p]) =>
    \A r \in Regs : <<<<b, 1>>, r>> \in live => b = 1 /\ r \in f.liveIns

\* A block has a jump to each of its successors, and none leads to the entry.
\* Instruction selection keeps both successors of a branch on a constant but
\* only one jump.
EdgesTaken(f) ==
  \A b \in DOMAIN f.code : \A s \in f.succs[b] :
    s # 1 /\ \E j \in Jumps(f, b) : Follows(f, <<b, j>>, <<s, 1>>)

\* isSameRegister.
SameRegister(r, s) ==
  r = s \/ ({r, s} \subseteq PRegs /\ (s \in ToSet(Aliases[r]) \/ r \in ToSet(Aliases[s])))

(* The state. ranges[b][r] is m_liveRanges of block b, empty where it has no *)
(* entry. at and pos are the block and the instruction the loops have come   *)
(* to. graph[v] is m_canonicalConnections of the node of v, with an entry    *)
(* for each register that has a node.                                        *)
VARIABLES function, pc, at, pos, ranges, worklist, graph
vars == <<function, pc, at, pos, ranges, worklist, graph>>

code == function.code
Blocks == DOMAIN code
Succs(b) == function.succs[b]
Preds(b) == {p \in Blocks : b \in Succs(p)}
Entry == 1

LiveRange(first, last, assigned) == [first |-> first, last |-> last, assigned |-> assigned]

Init ==
  /\ function \in Programs
  /\ pc = "fill"
  /\ at = 1
  /\ pos = 1
  /\ ranges = [b \in Blocks |-> [r \in Regs |->
       IF b = Entry /\ r \in function.liveIns THEN <<LiveRange(1, 1, FALSE)>> ELSE <<>>]]
  /\ worklist = <<>>
  /\ graph = <<>>

(* fillRanges. *)

\* rangeForRegister, on the ranges the register has in the block.
RangeForRegister(rs, k, assigned) ==
  IF assigned \/ rs = <<>>
  THEN Append(rs, LiveRange(k, k, assigned))
  ELSE [rs EXCEPT ![Len(rs)].last = k]

\* The calls of rangeForRegister for register r at instruction i, in their order.
Visit(r, rs, k, i) ==
  LET Touch(q, set, assigned) ==
        IF r \in set THEN RangeForRegister(q, k, assigned) ELSE q
      returned  == Touch(rs, i.rets, TRUE)
      used      == Touch(returned, i.uses, FALSE)
      clobbered == Touch(used, i.clobbers, TRUE)
  IN  Touch(clobbered, i.defs, TRUE)

\* One instruction of one block.
FillRanges ==
  /\ pc = "fill"
  /\ ranges' = [ranges EXCEPT ![at] = [r \in Regs |-> Visit(r, ranges[at][r], pos, code[at][pos])]]
  /\ IF pos < Len(code[at])
     THEN pos' = pos + 1 /\ UNCHANGED <<pc, at, worklist>>
     ELSE /\ pos' = 1
          /\ IF at < Len(code)
             THEN at' = at + 1 /\ UNCHANGED <<pc, worklist>>
             ELSE /\ at' = 1
                  /\ pc' = "holes"
                  /\ worklist' = Reverse([b \in Blocks |-> b])
  /\ UNCHANGED <<function, graph>>

(* fillHoles. *)

\* The registers that reach a successor of b and have no range in b.
Missing(b) == {r \in Regs : /\ ranges[b][r] = <<>>
                            /\ \E s \in Succs(b) : /\ ranges[s][r] # <<>>
                                                   /\ ~ranges[s][r][1].assigned}

\* Mutant: the blocks of the worklist are not looked at.
AgainTwice(b, rest) == IF Missing(b) = {} THEN {} ELSE Preds(b)

\* Mutant: the predecessors are pushed although nothing was added.
AgainAlways(b, rest) == Preds(b) \ ToSet(rest)

\* Mutant: one turn for each block.
AgainNever(b, rest) == {}

\* The blocks that go back on the worklist, where rest are its other blocks.
Again(b, rest) == IF Missing(b) = {} THEN {} ELSE Preds(b) \ ToSet(rest)

\* One turn of the worklist; the predecessors are pushed in any order.
FillHoles ==
  /\ pc = "holes"
  /\ worklist # <<>>
  /\ LET b == Head(worklist)
         rest == Tail(worklist)
     IN  /\ ranges' = [ranges EXCEPT ![b] = [r \in Regs |->
              IF r \in Missing(b) THEN <<LiveRange(1, Len(code[b]), FALSE)>> ELSE ranges[b][r]]]
         /\ \E order \in SetToSeqs(Again(b, rest)) : worklist' = rest \o order
  /\ UNCHANGED <<function, pc, at, pos, graph>>

HolesFilled ==
  /\ pc = "holes"
  /\ worklist = <<>>
  /\ pc' = "propagate"
  /\ UNCHANGED <<function, at, pos, ranges, worklist, graph>>

(* propagate. *)

\* The jumps of b that are taken to lead to s: those that name it, and each
\* jump that names no block or only blocks that later jumps name, such as the
\* jump through a register at the end of a switch.
JumpsTo(b, s) ==
  {i \in Jumps(function, b) :
     \/ s \in code[b][i].targets
     \/ code[b][i].targets \subseteq
          UNION {code[b][j].targets : j \in {k \in Jumps(function, b) : k > i}}}

LastJumpFor(b, s) == Max(JumpsTo(b, s))

\* The successors that register r is carried to from b.
Carried(b, r) == {s \in Succs(b) : /\ ranges[b][r] # <<>>
                                   /\ ranges[s][r] # <<>>
                                   /\ ~ranges[s][r][1].assigned}

\* Mutant: the range is not extended to the jump.
NotStretched(b, r, q) == ranges[b][r]

\* The last range of r ends with the jump to the last successor it is carried
\* to, where q is the order of the successors.
Stretched(b, r, q) ==
  LET taken == {k \in DOMAIN q : q[k] \in Carried(b, r)} IN
  IF taken = {} THEN ranges[b][r]
  ELSE [ranges[b][r] EXCEPT ![Len(ranges[b][r])].last = LastJumpFor(b, q[Max(taken)])]

FromFront(rs) == [rs EXCEPT ![1].first = 1]

Propagated(b, order) ==
  LET back == [ranges EXCEPT ![b] = [r \in Regs |-> Stretched(b, r, order)]] IN
  [s \in Blocks |-> [r \in Regs |->
     IF s \in Carried(b, r) THEN FromFront(back[s][r]) ELSE back[s][r]]]

\* One block; its successors stand in any order. A register carried to a block
\* that no jump of this one leads to is an exception, as at() has no such key.
Propagate ==
  /\ pc = "propagate"
  /\ IF \E r \in Regs : \E s \in Carried(at, r) : JumpsTo(at, s) = {}
     THEN pc' = "thrown" /\ UNCHANGED <<at, ranges>>
     ELSE /\ \E order \in SetToSeqs(Succs(at)) : ranges' = Propagated(at, order)
          /\ IF at < Len(code) THEN at' = at + 1 /\ UNCHANGED pc
                               ELSE at' = 1 /\ pc' = "graph"
  /\ UNCHANGED <<function, pos, worklist, graph>>

(* The interference graph. *)

Meet(p, q) == p.first <= q.last /\ q.first <= p.last

\* getOverlaps.
Overlaps(b, id) ==
  {Canonical[r] : r \in {s \in Regs \ {id} :
     \E i \in DOMAIN ranges[b][id], j \in DOMAIN ranges[b][s] : Meet(ranges[b][id][i], ranges[b][s][j])}}

BuildGraph ==
  /\ pc = "graph"
  /\ graph' = [v \in {u \in VRegs : \E b \in Blocks : ranges[b][u] # <<>>} |->
                 UNION {Overlaps(b, v) : b \in {c \in Blocks : ranges[c][v] # <<>>}}]
  /\ pc' = "done"
  /\ UNCHANGED <<function, at, pos, ranges, worklist>>

Next == FillRanges \/ FillHoles \/ HolesFilled \/ Propagate \/ BuildGraph

Spec == Init /\ [][Next]_vars /\ WF_vars(Next)

(* What the pass after allocation asks of the ranges. *)

\* Mutant: only the name itself is looked up.
RangesOfName(b, k, r) == SelectSeq(ranges[b][r], LAMBDA g : g.first <= k /\ k <= g.last)

\* The ranges at a position, under the names the register is known by, in the
\* order isRegisterLive meets them.
RangesAt(b, k, r) ==
  LET names == <<r>> \o Aliases[r]
  IN  SelectSeq(FlattenSeq([n \in DOMAIN names |-> ranges[b][names[n]]]),
                LAMBDA g : g.first <= k /\ k <= g.last)

\* isRegisterLive without assignedIsLive: the first range decides.
IsRegisterLive(b, k, r) ==
  LET found == RangesAt(b, k, r)
  IN  found # <<>> /\ ~(found[1].assigned /\ found[1].first = k)

\* saveCall: what the call at a position pushes before its arguments and pops after.
Saved(b, k) ==
  {r \in CallerSaved : /\ \A ret \in code[b][k].rets : ~SameRegister(r, ret)
                       /\ IsRegisterLive(b, k + 1, r)}

-----------------------------------------------------------------------------
(* Properties. *)

TypeOK ==
  /\ pc \in {"fill", "holes", "propagate", "graph", "done", "thrown"}
  /\ at \in Blocks /\ pos \in DOMAIN code[at]
  /\ \A b \in Blocks, r \in Regs : \A k \in DOMAIN ranges[b][r] :
       ranges[b][r][k] \in [first : DOMAIN code[b], last : DOMAIN code[b], assigned : BOOLEAN]
  /\ worklist \in Seq(Blocks) /\ IsInjective(worklist)
  /\ DOMAIN graph \subseteq VRegs /\ \A v \in DOMAIN graph : graph[v] \subseteq Regs

Written == WrittenIn(function)

\* A call gives back what it saves: it leaves only its results behind.
Defined == [p \in Points(function) |-> LET i == Instruction(function, p) IN
              {r \in Regs : \E d \in i.rets \cup i.defs : SameRegister(r, d)}]

Live == LiveIn(function)
LiveAcrossCalls == LiveBefore(function, Regs, Defined)

\* Two registers that hold values at the same point, or one that is written
\* while the other holds a value, are joined in the graph: the ranges of
\* fillRanges, fillHoles and propagate leave out no instruction at which a
\* register is live, on any path, loops included.
Interference ==
  pc = "done" =>
    LET live == Live IN
    \A p \in Points(function) : LET after == LiveAfter(function, live, p) IN
      \A v \in VRegs : \A r \in Regs \ {v} :
        \/ <<p, v>> \in live /\ <<p, r>> \in live
        \/ v \in Written[p] /\ r \in after
        \/ r \in Written[p] /\ v \in after
        => Canonical[r] \in graph[v]

\* When the worklist is empty, a block starts with a range of a register that
\* the block does not assign first exactly if the register is live there or
\* is an argument of the function: fillHoles forgets no block on a path from
\* an assignment to a use and enters none that is on no such path.
BoundaryExact ==
  pc \in {"propagate", "graph", "done"} =>
    LET live == Live IN
    \A b \in Blocks, r \in Regs :
      (ranges[b][r] # <<>> /\ ~ranges[b][r][1].assigned)
        <=> (<<<<b, 1>>, r>> \in live \/ (b = Entry /\ r \in function.liveIns))

\* A call saves every register of the caller that is used after it before
\* being written, under any of its names (x64_target_lowering_pra.cpp:74-90).
SavedAcrossCalls ==
  pc = "done" =>
    LET live == LiveAcrossCalls IN
    \A p \in Points(function) : Instruction(function, p).call =>
      \A r \in CallerSaved :
        (\E x \in (PRegs \cap LiveAfter(function, live, p)) \ Defined[p] : SameRegister(r, x))
          => r \in Saved(p[1], p[2]) \/ \E ret \in Instruction(function, p).rets : SameRegister(r, ret)

\* An argument of the function that is used after a call is still in its
\* register when the call saves it: no virtual register is written in between
\* without being joined to it in the graph.
ArgumentsKept ==
  pc = "done" =>
    LET live == LiveAcrossCalls IN
    \A p \in Points(function) : \A v \in VRegs \cap Written[p] :
      \A a \in function.liveIns \cap LiveAfter(function, live, p) : Canonical[a] \in graph[v]

\* computeLiveRanges returns: the worklist of fillHoles runs empty, also for
\* functions with loops.
Terminates == <>(pc = "done" \/ pc = "thrown")
=============================================================================
