--------------------------- MODULE AllocationRound ---------------------------
(***************************************************************************)
(* A whole call of GraphColorRegalloc::analyze: computeLiveRanges and the  *)
(* interference graph as in LiveRanges, then an assignment of physical     *)
(* registers that keeps the contract of RegisterAssignment, which is what  *)
(* GraphColoring implements.  The theorems say that the two halves fit:    *)
(* the graph is one that GraphColoring takes, and the assignment lets no   *)
(* value overwrite another one that is still needed, those aside that lie  *)
(* in a physical register across an instruction that destroys it.          *)
(***************************************************************************)
EXTENDS LiveRanges_proofs

CONSTANTS
  Class,        \* the class of each virtual register
  Allocatable   \* the registers of each class's allocation order

VARIABLES
  status,  \* "pending" until the registers are assigned, then "done"
  vp,      \* m_virtualToPhysical
  spills   \* m_spills

Round == INSTANCE RegisterAssignment WITH adj <- graph

outcome == <<status, vp, spills>>

RoundInit ==
  /\ Init
  /\ status = "pending"
  /\ vp = [v \in {} |-> v]
  /\ spills = {}

\* The work stack is emptied: each node got a register or is spilled.
Assign ==
  /\ pc = "done"
  /\ status = "pending"
  /\ status' = "done"
  /\ spills' \in SUBSET DOMAIN graph
  /\ vp' \in [DOMAIN graph \ spills' -> PRegs]
  /\ Round!Proper(graph, vp')
  /\ UNCHANGED vars

RoundNext == (Next /\ UNCHANGED outcome) \/ Assign

RoundSpec == RoundInit /\ [][RoundNext]_<<vars, outcome>>

-----------------------------------------------------------------------------
(* Properties. *)

\* What analyze hands to the coloring: a node per virtual register with a
\* range, joined to other nodes, both ways, and to physical registers by their
\* widest names.
InterferenceGraph ==
  pc = "done" =>
    \A v \in DOMAIN graph :
      /\ v \notin graph[v]
      /\ graph[v] \subseteq DOMAIN graph \cup {p \in PRegs : Canonical[p] = p}
      /\ \A w \in graph[v] \cap VRegs : v \in graph[w]

\* The physical register that stands for r after the operands are rewritten.
Place(r) == IF r \in VRegs THEN vp[r] ELSE r

\* What an instruction gives a new value; what it destroys gets none.
Replaced ==
  [p \in Points(function) |-> Instruction(function, p).rets \cup Instruction(function, p).defs]

\* The points at which the value of a register is still to be read, whatever
\* destroys the register before it is.
Needed == LiveBefore(function, Regs, Replaced)

\* The physical registers no value of which has to outlive an instruction that
\* destroys it. An argument of the function that is used behind a call is not
\* in one of them: its range ends in front of the call.
Lasting ==
  {r \in PRegs : \A p \in Points(function) :
     r \in Instruction(function, p).clobbers \ Replaced[p] => r \notin LiveAfter(function, Needed, p)}

\* The values to be kept: all in virtual registers, calls or not, all in lasting
\* registers, and those of the others as far as the instruction that destroys them.
Kept == {x \in Needed : x[2] \in VRegs \cup Lasting} \cup Live

\* After the operands are rewritten, two registers with values to be kept at one
\* point, or one that is written or destroyed while the other has such a value,
\* share no bits of a physical register: no path of the function loses a value that
\* a later instruction reads, spilled registers aside.
NothingShared ==
  status = "done" =>
    LET kept == Kept IN
    \A p \in Points(function) : LET after == LiveAfter(function, kept, p) IN
      \A v \in DOMAIN vp : \A r \in (DOMAIN vp \cup PRegs) \ {v} :
        \/ <<p, v>> \in kept /\ <<p, r>> \in kept
        \/ v \in Written[p] /\ r \in after
        \/ r \in Written[p] /\ v \in after
        => ~Round!Alias(Place(v), Place(r))

-----------------------------------------------------------------------------
(* The graph. *)

LEMMA GraphOfRanges == IInv => InterferenceGraph
<1> SUFFICES ASSUME IInv, pc = "done", NEW v \in DOMAIN graph
             PROVE  /\ v \notin graph[v]
                    /\ graph[v] \subseteq DOMAIN graph \cup {p \in PRegs : Canonical[p] = p}
                    /\ \A w \in graph[v] \cap VRegs : v \in graph[w]
  BY DEF InterferenceGraph
<1>1. graph = [u \in {u \in VRegs : \E b \in Blocks : ranges[b][u] # <<>>} |->
                 UNION {Overlaps(b, u) : b \in {c \in Blocks : ranges[c][u] # <<>>}}]
  BY DEF IInv, GraphBuilt
<1>2. v \in VRegs
  BY <1>1
<1>3. ASSUME NEW x \in graph[v]
      PROVE  \E b \in Blocks, s \in Regs \ {v} :
               /\ x = Canonical[s]
               /\ \E i \in DOMAIN ranges[b][v], j \in DOMAIN ranges[b][s] :
                    Meet(ranges[b][v][i], ranges[b][s][j])
  <2>1. PICK b \in Blocks : x \in Overlaps(b, v)
    BY <1>1
  <2> QED
    BY <2>1 DEF Overlaps
<1>4. ASSUME NEW b \in Blocks, NEW s \in VRegs \ {v},
             NEW i \in DOMAIN ranges[b][v], NEW j \in DOMAIN ranges[b][s],
             Meet(ranges[b][v][i], ranges[b][s][j])
      PROVE  s \in DOMAIN graph /\ v \in graph[s]
  <2>1. s \in Regs /\ v \in Regs \ {s} /\ Canonical[v] = v
    BY <1>2, RegistersAssumption DEF Regs
  <2>2. ranges[b][s] # <<>>
    BY <1>4, <2>1 DEF IInv, Types
  <2>3. Meet(ranges[b][s][j], ranges[b][v][i])
    BY <1>4 DEF Meet
  <2>4. v \in Overlaps(b, s)
    BY <2>1, <2>3 DEF Overlaps
  <2> QED
    BY <1>1, <2>2, <2>4
<1>5. ASSUME NEW s \in Regs
      PROVE  s \in VRegs \/ (s \in PRegs /\ Canonical[s] \in PRegs
                             /\ Canonical[Canonical[s]] = Canonical[s])
  BY RegistersAssumption DEF Regs
<1>6. v \notin graph[v]
  BY <1>2, <1>3, <1>5, RegistersAssumption DEF Regs
<1>7. ASSUME NEW x \in graph[v]
      PROVE  /\ x \in DOMAIN graph \/ (x \in PRegs /\ Canonical[x] = x)
             /\ x \in VRegs => v \in graph[x]
  <2>1. PICK b \in Blocks, s \in Regs \ {v} :
          /\ x = Canonical[s]
          /\ \E i \in DOMAIN ranges[b][v], j \in DOMAIN ranges[b][s] :
               Meet(ranges[b][v][i], ranges[b][s][j])
    BY <1>3
  <2>2. CASE s \in VRegs
    <3>1. x = s
      BY <2>1, <2>2, RegistersAssumption
    <3> QED
      BY <1>4, <2>1, <2>2, <3>1
  <2>3. CASE s \in PRegs /\ Canonical[s] \in PRegs /\ Canonical[Canonical[s]] = Canonical[s]
    BY <2>1, <2>3, RegistersAssumption
  <2> QED
    BY <1>5, <2>2, <2>3
<1> QED
  BY <1>6, <1>7

(* The interference graph of every function is one that GraphColoring takes: *)
(* loop-free and symmetric between virtual registers, which its proofs need. *)
THEOREM GraphIsInterference == Spec => []InterferenceGraph
<1>1. IInv => InterferenceGraph
  BY GraphOfRanges
<1> QED
  BY <1>1, Invariance, PTL

-----------------------------------------------------------------------------
(* The assignment. *)

\* The outcome stays what the contract made it.
Assigned ==
  /\ status \in {"pending", "done"}
  /\ status = "done" => /\ pc = "done"
                        /\ DOMAIN vp \subseteq DOMAIN graph
                        /\ vp \in [DOMAIN vp -> PRegs]
                        /\ Round!Proper(graph, vp)

LEMMA AssignedStep == Assigned /\ [RoundNext]_<<vars, outcome>> => Assigned'
<1> SUFFICES ASSUME Assigned, [RoundNext]_<<vars, outcome>>
             PROVE  Assigned'
  OBVIOUS
<1>1. CASE Next /\ UNCHANGED outcome
  <2>1. status' = status /\ vp' = vp
    BY <1>1 DEF outcome
  <2>2. pc # "done"
    BY <1>1 DEF Next, FillRanges, FillHoles, HolesFilled, Propagate, BuildGraph
  <2> QED
    BY <2>1, <2>2 DEF Assigned
<1>2. CASE Assign
  <2>1. pc' = "done" /\ graph' = graph /\ status' = "done"
    BY <1>2 DEF Assign, vars
  <2>2. Round!Proper(graph', vp')
    BY <1>2, <2>1 DEF Assign
  <2> QED
    BY <1>2, <2>1, <2>2 DEF Assign, Assigned
<1>3. CASE UNCHANGED <<vars, outcome>>
  BY <1>3 DEF vars, outcome, Assigned
<1> QED
  BY <1>1, <1>2, <1>3 DEF RoundNext

\* The values to be kept are those that the ranges were built from: a virtual
\* register is never destroyed, and no lasting one is while it is needed.
LEMMA KeptIsLive ==
  ASSUME function \in Programs
  PROVE  Kept = Live
<1>1. WellFormed(function)
  BY ProgramsWellFormed
<1>2. IsFiniteSet(Points(function))
  BY <1>1 DEF WellFormed
<1>3. ASSUME NEW p \in Points(function)
      PROVE  /\ Written[p] = Replaced[p] \cup Instruction(function, p).clobbers
             /\ Instruction(function, p).clobbers \subseteq PRegs
  <2>1. PICK b \in DOMAIN function.code : p \in {b} \X DOMAIN function.code[b]
    BY DEF Points
  <2>2. PICK k \in DOMAIN function.code[b] : p = <<b, k>>
    BY <2>1
  <2>3. function.code[b][k].clobbers \subseteq PRegs
    BY ProgramsAssumption
  <2> QED
    BY <2>2, <2>3 DEF Written, WrittenIn, Writes, Replaced, Instruction
<1>4. /\ Needed \subseteq Facts(function, Regs)
      /\ IsClosed(function, Regs, Replaced, Needed)
  BY <1>2, LiveIsClosed DEF Needed
<1>5. /\ Live \subseteq Facts(function, Regs)
      /\ IsClosed(function, Regs, Written, Live)
  BY <1>2, LiveIsClosed DEF Live, LiveIn, Written
<1>6. Live \subseteq Needed
  <2>1. OneStepBack(function, Regs, Written, Needed) \subseteq OneStepBack(function, Regs, Replaced, Needed)
    <3>1. ASSUME NEW x \in Facts(function, Regs), x[2] \notin Written[x[1]]
          PROVE  x[2] \notin Replaced[x[1]]
      BY <1>3, <3>1 DEF Facts
    <3> QED
      BY <3>1 DEF OneStepBack
  <2>2. IsClosed(function, Regs, Written, Needed)
    BY <1>4, <2>1 DEF IsClosed
  <2> QED
    BY <1>2, <2>2, LiveIsLeast DEF Live, LiveIn, Written
<1> DEFINE C == {x \in Facts(function, Regs) : x[2] \in VRegs \cup Lasting => x \in Live}
<1>7. ASSUME NEW x \in OneStepBack(function, Regs, Replaced, C), x[2] \in VRegs \cup Lasting
      PROVE  x \in Live
  <2>1. CASE x \in C
    BY <1>7, <2>1
  <2>2. CASE x \notin C
    <3>1. x \in Facts(function, Regs) /\ x[2] \notin Replaced[x[1]]
      BY <2>2 DEF OneStepBack
    <3>2. PICK y \in C : y[2] = x[2] /\ Follows(function, x[1], y[1])
      BY <2>2 DEF OneStepBack
    <3>3. y \in Live
      BY <1>7, <3>2
    <3>4. x[1] \in Points(function)
      BY <3>1 DEF Facts
    <3>5. x[2] \in LiveAfter(function, Needed, x[1])
      BY <1>6, <3>2, <3>3 DEF LiveAfter
    <3>6. x[2] \notin Instruction(function, x[1]).clobbers
      <4>1. CASE x[2] \in VRegs
        BY <1>3, <3>4, <4>1, RegistersAssumption
      <4>2. CASE x[2] \in Lasting
        BY <3>1, <3>4, <3>5, <4>2 DEF Lasting
      <4> QED
        BY <1>7, <4>1, <4>2
    <3>7. x[2] \notin Written[x[1]]
      BY <1>3, <3>1, <3>4, <3>6
    <3>8. x \in OneStepBack(function, Regs, Written, Live)
      BY <3>1, <3>2, <3>3, <3>7 DEF OneStepBack
    <3> QED
      BY <1>5, <3>8 DEF IsClosed
  <2> QED
    BY <2>1, <2>2
<1>8. IsClosed(function, Regs, Replaced, C)
  <2>1. Used(function, Regs) \subseteq C
    BY <1>5 DEF IsClosed, Used
  <2>2. OneStepBack(function, Regs, Replaced, C) \subseteq Facts(function, Regs)
    BY DEF OneStepBack
  <2> QED
    BY <1>7, <2>1, <2>2 DEF IsClosed
<1>9. Needed \subseteq C
  <2> HIDE DEF C
  <2> QED
    BY <1>2, <1>8, LiveIsLeast DEF Needed
<1> QED
  BY <1>9 DEF Kept

LEMMA SharedStates == IInv /\ Interference /\ Assigned => NothingShared
<1> SUFFICES ASSUME IInv, Interference, Assigned, status = "done",
                    NEW p \in Points(function), NEW v \in DOMAIN vp,
                    NEW r \in (DOMAIN vp \cup PRegs) \ {v},
                    \/ <<p, v>> \in Live /\ <<p, r>> \in Live
                    \/ v \in Written[p] /\ r \in LiveAfter(function, Live, p)
                    \/ r \in Written[p] /\ v \in LiveAfter(function, Live, p)
             PROVE  ~Round!Alias(Place(v), Place(r))
  <2>1. IInv => function \in Programs
    BY DEF IInv, Types
  <2> QED
    BY <2>1, KeptIsLive DEF NothingShared
<1>1. /\ pc = "done" /\ DOMAIN vp \subseteq VRegs /\ vp \in [DOMAIN vp -> PRegs]
      /\ Round!Proper(graph, vp)
  BY DEF Assigned, IInv, Types
<1>2. v \in VRegs /\ r \in Regs \ {v}
  BY <1>1 DEF Regs
<1>3. Canonical[r] \in graph[v]
  BY <1>1, <1>2 DEF Interference
<1>4. Place(v) = vp[v] /\ vp[v] \in PRegs
  BY <1>1, <1>2 DEF Place
<1>5. CASE r \in DOMAIN vp
  <2>1. Place(r) = vp[r] /\ Canonical[r] = r
    BY <1>1, <1>5, RegistersAssumption DEF Place
  <2> QED
    BY <1>1, <1>3, <1>4, <1>5, <2>1 DEF Round!Proper
<1>6. CASE r \in PRegs
  <2>1. /\ r \notin VRegs /\ Canonical[r] \in PRegs
        /\ Canonical[Canonical[r]] = Canonical[r]
    BY <1>6, RegistersAssumption
  <2>2. Place(r) = r
    BY <2>1 DEF Place
  <2>3. ~Round!Alias(vp[v], Canonical[r])
    BY <1>1, <1>3, <2>1 DEF Round!Proper
  <2> QED
    BY <1>4, <2>1, <2>2, <2>3 DEF Round!Alias
<1> QED
  BY <1>5, <1>6

(* If no function reads a register that nothing has written, an allocated    *)
(* function never overwrites a value that it still needs: the ranges, the    *)
(* graph and the contract of the coloring together keep values apart. Values *)
(* of virtual registers are kept across calls too. Only a value that is in a *)
(* physical register when a call destroys it is not: fillRanges starts a new *)
(* range at the call (graph_color_regalloc.cpp:255).                         *)
THEOREM RoundKeepsValues ==
  ASSUME \A f \in Programs : Strict(f)
  PROVE  RoundSpec => []NothingShared
<1>1. RoundInit => Init /\ Assigned
  BY DEF RoundInit, Assigned
<1>2. [RoundNext]_<<vars, outcome>> => [Next]_vars
  BY DEF RoundNext, Assign, outcome
<1>3. IInv /\ Assigned => NothingShared
  BY SharedStates, DoneInterference DEF IInv, Types
<1> QED
  BY <1>1, <1>2, <1>3, InitIInv, NextIInv, AssignedStep, PTL DEF RoundSpec
=============================================================================
