-------------------------- MODULE LiveRanges_proofs --------------------------
(***************************************************************************)
(* Theorems about LiveRanges for any registers and any programs.           *)
(*                                                                         *)
(* The ranges of one register in one block keep a record of the positions  *)
(* that write and use it (Recorded): fillRanges builds it, instruction by  *)
(* instruction, fillHoles adds registers that the block does not mention,  *)
(* and propagate moves only the first position of a range that is not      *)
(* assigned and the last position of the last range, to a jump.  Between   *)
(* the blocks, the worklist holds each block that still has a register to  *)
(* pass on (Pending), and propagate leaves behind blocks whose ranges      *)
(* reach their jumps and the starts of their successors (Joined).  What is *)
(* live by paths is then covered, because the points a range covers are    *)
(* closed under going one step back and LiveIn is the least such set.      *)
(***************************************************************************)
EXTENDS LiveRanges, MachineLiveness_proofs, SequenceTheorems

\* The range g reaches position k, or a jump at the end of its block.
Reaches(g, k, jumps) == g.last >= k \/ \E j \in jumps : j <= g.last

\* The ranges rs stand for the writes and uses at these positions of a block
\* of n instructions: each write starts a range, each use is inside one, and
\* only the first range may start without a write.
Recorded(rs, n, writes, uses, jumps) ==
  /\ rs \in Seq([first : 1..n, last : 1..n, assigned : BOOLEAN])
  /\ \A i \in DOMAIN rs : rs[i].assigned => rs[i].first \in writes
  /\ \A i \in DOMAIN rs : ~rs[i].assigned =>
       /\ i = 1
       /\ rs[i].first = 1 \/ (rs[i].first \in uses /\ \A k \in writes : rs[i].first <= k)
  /\ \A k \in writes : \E i \in DOMAIN rs :
       rs[i].assigned /\ rs[i].first = k /\ Reaches(rs[i], k, jumps)
  /\ \A k \in uses : \E i \in DOMAIN rs :
       (rs[i].first < k \/ ~rs[i].assigned) /\ Reaches(rs[i], k, jumps)

\* The instructions that fillRanges has seen.
Seen(b) == {k \in DOMAIN code[b] : pc # "fill" \/ b < at \/ (b = at /\ k < pos)}
WritesSeen(b, r) == {k \in Seen(b) : r \in Writes(code[b][k])}
UsesSeen(b, r) == {k \in Seen(b) : r \in code[b][k].uses}

\* The jumps that propagate may have moved the end of a range to.
JumpsSeen(b) == IF pc \in {"fill", "holes"} THEN {} ELSE Jumps(function, b)

\* The register is in block b from its start, or from the first use in it.
Enters(b, r) == ranges[b][r] # <<>> /\ ~ranges[b][r][1].assigned

Types ==
  /\ function \in Programs
  /\ pc \in {"fill", "holes", "propagate", "graph", "done", "thrown"}
  /\ at \in Blocks /\ pos \in DOMAIN code[at]
  /\ pc # "fill" => pos = 1
  /\ pc = "holes" => at = 1
  /\ worklist \in Seq(Blocks) /\ IsInjective(worklist)
  /\ ranges \in [Blocks -> [Regs -> Seq([first : Nat, last : Nat, assigned : BOOLEAN])]]
  /\ DOMAIN graph \subseteq VRegs /\ \A v \in DOMAIN graph : graph[v] \subseteq Regs

BlocksRecorded ==
  \A b \in Blocks, r \in Regs :
    Recorded(ranges[b][r], Len(code[b]), WritesSeen(b, r), UsesSeen(b, r), JumpsSeen(b))

ArgumentsEnter ==
  \A r \in function.liveIns : Enters(Entry, r) /\ ranges[Entry][r][1].first = 1

\* A block with a register to pass on is on the worklist until none is left.
Pending ==
  /\ pc = "holes" => \A b \in Blocks : Missing(b) # {} => b \in ToSet(worklist)
  /\ pc \in {"propagate", "graph", "done"} => \A b \in Blocks : Missing(b) = {}

\* Behind propagate, the last range of a register that is carried on reaches a
\* jump, and the first range of the successor begins with the block.
Joined ==
  \A b \in Blocks : (pc = "propagate" /\ b < at) \/ pc \in {"graph", "done"} =>
    \A r \in Regs : \A s \in Carried(b, r) :
      /\ \E j \in Jumps(function, b) : j <= ranges[b][r][Len(ranges[b][r])].last
      /\ ranges[s][r][1].first = 1

GraphBuilt ==
  pc = "done" =>
    graph = [v \in {u \in VRegs : \E b \in Blocks : ranges[b][u] # <<>>} |->
               UNION {Overlaps(b, v) : b \in {c \in Blocks : ranges[c][v] # <<>>}}]

\* The inductive invariant.
IInv == Types /\ BlocksRecorded /\ ArgumentsEnter /\ Pending /\ Joined /\ GraphBuilt

\* A register enters a block only where it is live or an argument.
EntersLive ==
  \A b \in Blocks, r \in Regs : Enters(b, r) =>
    <<<<b, 1>>, r>> \in Live \/ (b = Entry /\ r \in function.liveIns)

-----------------------------------------------------------------------------
(* One instruction. *)

\* The ranges q are rs with a range that position k assigns.
WithAssignment(rs, q, n, k, writes, uses) ==
  /\ Recorded(q, n, writes \cup {k}, uses, {})
  /\ q # <<>>
  /\ rs # <<>> => q[1] = rs[1]
  /\ rs = <<>> => q[1].assigned

\* The ranges q are rs with position k among the uses.
WithUse(rs, q, n, k, writes, uses) ==
  /\ Recorded(q, n, writes, uses \cup {k}, {})
  /\ q # <<>>
  /\ rs # <<>> => q[1].assigned = rs[1].assigned /\ q[1].first = rs[1].first
  /\ rs = <<>> => q[1].first = k

\* A range that an instruction assigns.
LEMMA AssignRecorded ==
  ASSUME NEW n \in Nat, NEW k \in 1..n, NEW writes \in SUBSET (1..k), NEW uses \in SUBSET (1..k),
         NEW rs, Recorded(rs, n, writes, uses, {})
  PROVE  WithAssignment(rs, RangeForRegister(rs, k, TRUE), n, k, writes, uses)
<1> DEFINE OfBlock == [first : 1..n, last : 1..n, assigned : BOOLEAN]
           new == LiveRange(k, k, TRUE)
           q == RangeForRegister(rs, k, TRUE)
<1>1. /\ rs \in Seq(OfBlock)
      /\ \A i \in DOMAIN rs : rs[i].assigned => rs[i].first \in writes
      /\ \A i \in DOMAIN rs : ~rs[i].assigned =>
           /\ i = 1
           /\ rs[i].first = 1 \/ (rs[i].first \in uses /\ \A w \in writes : rs[i].first <= w)
      /\ \A w \in writes : \E i \in DOMAIN rs :
           rs[i].assigned /\ rs[i].first = w /\ Reaches(rs[i], w, {})
      /\ \A u \in uses : \E i \in DOMAIN rs :
           (rs[i].first < u \/ ~rs[i].assigned) /\ Reaches(rs[i], u, {})
  BY DEF Recorded
<1>2. new \in OfBlock /\ new.first = k /\ new.last = k /\ new.assigned
  BY DEF LiveRange
<1>3. q = Append(rs, new)
  BY DEF RangeForRegister
<1> HIDE DEF q, new, OfBlock
<1>4. /\ q \in Seq(OfBlock) /\ q # <<>>
      /\ DOMAIN rs = 1..Len(rs) /\ Len(rs) \in Nat
      /\ DOMAIN q = 1..(Len(rs) + 1)
      /\ \A i \in DOMAIN rs : i \in DOMAIN q /\ q[i] = rs[i]
      /\ Len(rs) + 1 \in DOMAIN q /\ q[Len(rs) + 1] = new
  BY <1>1, <1>2, <1>3
<1>5. \A i \in DOMAIN q : i \in DOMAIN rs \/ q[i] = new
  BY <1>4
<1>6. \A i \in DOMAIN q : q[i].assigned => q[i].first \in writes \cup {k}
  BY <1>1, <1>2, <1>4, <1>5
<1>7. ASSUME NEW i \in DOMAIN q, ~q[i].assigned
      PROVE  /\ i = 1
             /\ \/ q[i].first = 1
                \/ q[i].first \in uses /\ \A w \in writes \cup {k} : q[i].first <= w
  <2>1. i \in DOMAIN rs /\ q[i] = rs[i]
    BY <1>2, <1>4, <1>5, <1>7
  <2>2. i = 1 /\ (rs[i].first = 1 \/ (rs[i].first \in uses /\ \A w \in writes : rs[i].first <= w))
    BY <1>1, <1>7, <2>1
  <2>3. \A u \in uses : u <= k
    OBVIOUS
  <2>. QED  BY <2>1, <2>2, <2>3
<1>8. ASSUME NEW w \in writes \cup {k}
      PROVE  \E i \in DOMAIN q : q[i].assigned /\ q[i].first = w /\ Reaches(q[i], w, {})
  <2>1. CASE w \in writes
    BY <1>1, <1>4, <2>1
  <2>2. CASE w = k
    BY <1>2, <1>4, <2>2 DEF Reaches
  <2>. QED  BY <2>1, <2>2
<1>9. ASSUME NEW u \in uses
      PROVE  \E i \in DOMAIN q : (q[i].first < u \/ ~q[i].assigned) /\ Reaches(q[i], u, {})
  <2>1. PICK i \in DOMAIN rs : (rs[i].first < u \/ ~rs[i].assigned) /\ Reaches(rs[i], u, {})
    BY <1>1
  <2>2. i \in DOMAIN q /\ q[i] = rs[i]
    BY <1>4
  <2>. QED  BY <2>1, <2>2, Zenon
<1>10. Recorded(q, n, writes \cup {k}, uses, {})
  BY <1>4, <1>6, <1>7, <1>8, <1>9 DEF Recorded, OfBlock
<1>11. (rs # <<>> => q[1] = rs[1]) /\ (rs = <<>> => q[1].assigned)
  BY <1>2, <1>4
<1>. QED  BY <1>4, <1>10, <1>11, Zenon DEF WithAssignment, q

\* A range that an instruction uses, where it has not written the register.
LEMMA UseRecorded ==
  ASSUME NEW n \in Nat, NEW k \in 1..n, NEW writes \in SUBSET (1..k), NEW uses \in SUBSET (1..k),
         k \notin writes, NEW rs, Recorded(rs, n, writes, uses, {})
  PROVE  WithUse(rs, RangeForRegister(rs, k, FALSE), n, k, writes, uses)
<1> DEFINE OfBlock == [first : 1..n, last : 1..n, assigned : BOOLEAN]
           q == RangeForRegister(rs, k, FALSE)
<1>1. /\ rs \in Seq(OfBlock)
      /\ \A i \in DOMAIN rs : rs[i].assigned => rs[i].first \in writes
      /\ \A i \in DOMAIN rs : ~rs[i].assigned =>
           /\ i = 1
           /\ rs[i].first = 1 \/ (rs[i].first \in uses /\ \A w \in writes : rs[i].first <= w)
      /\ \A w \in writes : \E i \in DOMAIN rs :
           rs[i].assigned /\ rs[i].first = w /\ Reaches(rs[i], w, {})
      /\ \A u \in uses : \E i \in DOMAIN rs :
           (rs[i].first < u \/ ~rs[i].assigned) /\ Reaches(rs[i], u, {})
  BY DEF Recorded
<1> HIDE DEF OfBlock
<1>2. CASE rs = <<>>
  <2> DEFINE new == LiveRange(k, k, FALSE)
  <2>1. new \in OfBlock /\ new.first = k /\ new.last = k /\ ~new.assigned
    BY DEF LiveRange, OfBlock
  <2>2. q = <<new>>
    BY <1>2 DEF RangeForRegister
  <2>3. writes = {} /\ uses = {}
    BY <1>1, <1>2
  <2> HIDE DEF q, new
  <2>4. q \in Seq(OfBlock) /\ DOMAIN q = {1} /\ q[1] = new /\ q # <<>>
    BY <2>1, <2>2
  <2>5. Recorded(q, n, writes, uses \cup {k}, {})
    BY <2>1, <2>3, <2>4 DEF Recorded, Reaches, OfBlock
  <2>. QED  BY <1>2, <2>1, <2>4, <2>5 DEF WithUse, q
<1>3. CASE rs # <<>>
  <2> DEFINE m == Len(rs)
  <2>1. m \in Nat /\ m >= 1 /\ DOMAIN rs = 1..m /\ m \in DOMAIN rs
    BY <1>1, <1>3
  <2>2. q = [rs EXCEPT ![m].last = k]
    BY <1>3 DEF RangeForRegister
  <2> HIDE DEF q, m
  <2>3. /\ DOMAIN q = 1..m /\ q \in Seq(OfBlock)
        /\ \A i \in 1..m : /\ q[i].first = rs[i].first
                           /\ q[i].assigned = rs[i].assigned
                           /\ q[i].last = IF i = m THEN k ELSE rs[i].last
    <3>1. \A i \in 1..m : rs[i] \in OfBlock
      BY <1>1, <2>1
    <3>2. \A i \in 1..m : q[i] = IF i = m THEN [rs[m] EXCEPT !.last = k] ELSE rs[i]
      BY <1>1, <2>1, <2>2
    <3>3. \A i \in 1..m : /\ q[i] \in OfBlock
                          /\ q[i].first = rs[i].first
                          /\ q[i].assigned = rs[i].assigned
                          /\ q[i].last = IF i = m THEN k ELSE rs[i].last
      BY <3>1, <3>2 DEF OfBlock
    <3>4. q = [i \in 1..m |-> q[i]]
      BY <1>1, <2>1, <2>2
    <3>. QED  BY <2>1, <3>3, <3>4
  <2>4. \A w \in writes \cup uses : \A i \in 1..m :
          Reaches(rs[i], w, {}) => Reaches(q[i], w, {})
    BY <2>3 DEF Reaches
  <2>5. (q[m].first < k \/ ~q[m].assigned) /\ Reaches(q[m], k, {})
    <3>1. rs[m].assigned => rs[m].first \in writes
      BY <1>1, <2>1
    <3>2. \A w \in writes : w < k
      OBVIOUS
    <3>3. q[m].last = k /\ q[m].assigned = rs[m].assigned /\ q[m].first = rs[m].first
      BY <2>1, <2>3
    <3>4. CASE rs[m].assigned
      <4>1. rs[m].first \in writes
        BY <3>1, <3>4, Zenon
      <4>2. q[m].first < k
        BY <3>2, <3>3, <4>1
      <4>. QED  BY <3>3, <4>2 DEF Reaches
    <3>5. CASE ~rs[m].assigned
      BY <3>3, <3>5 DEF Reaches
    <3>. QED  BY <3>4, <3>5
  <2>6. \A i \in DOMAIN q : q[i].assigned => q[i].first \in writes
    BY <1>1, <2>1, <2>3
  <2>7. \A i \in DOMAIN q : ~q[i].assigned =>
           /\ i = 1
           /\ \/ q[i].first = 1
              \/ q[i].first \in uses \cup {k} /\ \A w \in writes : q[i].first <= w
    BY <1>1, <2>1, <2>3
  <2>8. \A w \in writes : \E i \in DOMAIN q :
          q[i].assigned /\ q[i].first = w /\ Reaches(q[i], w, {})
    BY <1>1, <2>1, <2>3, <2>4
  <2>9. \A u \in uses \cup {k} : \E i \in DOMAIN q :
          (q[i].first < u \/ ~q[i].assigned) /\ Reaches(q[i], u, {})
    BY <1>1, <2>1, <2>3, <2>4, <2>5
  <2>10. Recorded(q, n, writes, uses \cup {k}, {})
    BY <2>3, <2>6, <2>7, <2>8, <2>9 DEF Recorded, OfBlock
  <2>11. q # <<>> /\ q[1].assigned = rs[1].assigned /\ q[1].first = rs[1].first
    BY <2>1, <2>3
  <2>. QED  BY <1>3, <2>10, <2>11, Zenon DEF WithUse, q
<1>. QED  BY <1>2, <1>3

\* q begins as p does, if p has ranges at all.
SameStart(p, q) ==
  p # <<>> => /\ q # <<>>
              /\ q[1].assigned = p[1].assigned
              /\ q[1].first = p[1].first

\* The ranges q are rs with the uses and writes of instruction i at position k.
WithInstruction(rs, q, n, k, i, r, writes, uses) ==
  /\ Recorded(q, n, IF r \in Writes(i) THEN writes \cup {k} ELSE writes,
                    IF r \in i.uses THEN uses \cup {k} ELSE uses, {})
  /\ SameStart(rs, q)
  /\ rs = <<>> /\ q # <<>> /\ ~q[1].assigned => r \in i.uses /\ q[1].first = k

\* What Visit does for one instruction that no range has seen yet.
LEMMA VisitRecorded ==
  ASSUME NEW n \in Nat, NEW k \in 1..n,
         NEW writes \in SUBSET (1..k), NEW uses \in SUBSET (1..k), k \notin writes,
         NEW i, i.uses \cap i.rets = {}, NEW r,
         NEW rs, Recorded(rs, n, writes, uses, {})
  PROVE  WithInstruction(rs, Visit(r, rs, k, i), n, k, i, r, writes, uses)
<1> DEFINE Assign(p, S) == IF r \in S THEN RangeForRegister(p, k, TRUE) ELSE p
           Marked(W, S) == IF r \in S THEN W \cup {k} ELSE W
           q1 == Assign(rs, i.rets)
           q2 == IF r \in i.uses THEN RangeForRegister(q1, k, FALSE) ELSE q1
           q3 == Assign(q2, i.clobbers)
           q4 == Assign(q3, i.defs)
           w1 == Marked(writes, i.rets)
           w3 == Marked(w1, i.clobbers)
           w4 == Marked(w3, i.defs)
           u2 == Marked(uses, i.uses)
<1>1. Visit(r, rs, k, i) = q4
  BY DEF Visit
<1>2. ASSUME NEW W \in SUBSET (1..k), NEW U \in SUBSET (1..k), NEW p, NEW S,
             Recorded(p, n, W, U, {})
      PROVE  /\ Recorded(Assign(p, S), n, Marked(W, S), U, {})
             /\ SameStart(p, Assign(p, S))
             /\ p = <<>> /\ Assign(p, S) # <<>> => Assign(p, S)[1].assigned
             /\ Marked(W, S) \in SUBSET (1..k)
  <2>1. CASE r \in S
    <3> DEFINE q == RangeForRegister(p, k, TRUE)
    <3>1. /\ Recorded(q, n, W \cup {k}, U, {}) /\ q # <<>>
          /\ p # <<>> => q[1] = p[1]
          /\ p = <<>> => q[1].assigned
      <4>1. WithAssignment(p, q, n, k, W, U)
        BY <1>2, AssignRecorded
      <4>. QED  BY <4>1, Zenon DEF WithAssignment
    <3> HIDE DEF q
    <3>2. SameStart(p, q)
      BY <3>1 DEF SameStart
    <3>3. W \cup {k} \in SUBSET (1..k)
      OBVIOUS
    <3>4. Assign(p, S) = q /\ Marked(W, S) = W \cup {k}
      BY <2>1 DEF q
    <3> HIDE DEF Assign, Marked
    <3>. QED  BY <3>1, <3>2, <3>3, <3>4
  <2>2. CASE r \notin S
    BY <1>2, <2>2 DEF SameStart
  <2>. QED  BY <2>1, <2>2
<1> HIDE DEF Assign
<1>3. /\ Recorded(q1, n, w1, uses, {}) /\ SameStart(rs, q1)
      /\ rs = <<>> /\ q1 # <<>> => q1[1].assigned
      /\ w1 \in SUBSET (1..k)
  BY <1>2
<1>4. u2 \in SUBSET (1..k)
  OBVIOUS
<1>5. /\ Recorded(q2, n, w1, u2, {}) /\ SameStart(q1, q2)
      /\ q1 = <<>> /\ q2 # <<>> => r \in i.uses /\ q2[1].first = k
  <2>1. CASE r \in i.uses
    <3>1. r \notin i.rets
      BY <2>1
    <3>2. w1 = writes /\ u2 = uses \cup {k} /\ q2 = RangeForRegister(q1, k, FALSE)
      BY <2>1, <3>1
    <3>3. Recorded(q1, n, writes, uses, {})
      BY <1>3, <3>2, Zenon
    <3> HIDE DEF q1, q2, w1, u2
    <3>4. /\ Recorded(q2, n, writes, uses \cup {k}, {}) /\ q2 # <<>>
          /\ q1 # <<>> => q2[1].assigned = q1[1].assigned /\ q2[1].first = q1[1].first
          /\ q1 = <<>> => q2[1].first = k
      <4> DEFINE q == RangeForRegister(q1, k, FALSE)
      <4>1. WithUse(q1, q, n, k, writes, uses)
        BY <3>3, UseRecorded
      <4>2. q2 = q
        BY <3>2
      <4> HIDE DEF q
      <4>. QED  BY <4>1, <4>2, Zenon DEF WithUse
    <3>. QED  BY <2>1, <3>2, <3>4 DEF SameStart
  <2>2. CASE r \notin i.uses
    <3>1. q2 = q1 /\ u2 = uses
      BY <2>2
    <3> HIDE DEF q1, q2, w1, u2
    <3>. QED  BY <1>3, <3>1 DEF SameStart
  <2>. QED  BY <2>1, <2>2
<1> HIDE DEF q1, q2, w1, u2
<1>6. /\ Recorded(q3, n, w3, u2, {}) /\ SameStart(q2, q3)
      /\ q2 = <<>> /\ q3 # <<>> => q3[1].assigned
      /\ w3 \in SUBSET (1..k)
  BY <1>2, <1>3, <1>4, <1>5
<1> HIDE DEF q3, w3
<1>7. /\ Recorded(q4, n, w4, u2, {}) /\ SameStart(q3, q4)
      /\ q3 = <<>> /\ q4 # <<>> => q4[1].assigned
  BY <1>2, <1>4, <1>6
<1> HIDE DEF q4
<1>8. w4 = IF r \in Writes(i) THEN writes \cup {k} ELSE writes
  BY DEF w1, w3, Writes
<1>9. SameStart(rs, q4)
  BY <1>3, <1>5, <1>6, <1>7 DEF SameStart
<1>10. rs = <<>> /\ q4 # <<>> /\ ~q4[1].assigned => r \in i.uses /\ q4[1].first = k
  <2>1. SUFFICES ASSUME rs = <<>>, q4 # <<>>, ~q4[1].assigned
                 PROVE  r \in i.uses /\ q4[1].first = k
    OBVIOUS
  <2>2. q3 # <<>> /\ ~q3[1].assigned /\ q4[1].first = q3[1].first
    BY <1>7, <2>1 DEF SameStart
  <2>3. q2 # <<>> /\ ~q2[1].assigned /\ q3[1].first = q2[1].first
    BY <1>6, <2>2 DEF SameStart
  <2>4. q1 = <<>>
    BY <1>3, <1>5, <2>1, <2>3 DEF SameStart
  <2>. QED  BY <1>5, <2>2, <2>3, <2>4
<1>. QED  BY <1>1, <1>7, <1>8, <1>9, <1>10 DEF u2, WithInstruction

-----------------------------------------------------------------------------
(* The programs. *)

\* What ProgramsAssumption says of one function.
WellFormed(f) ==
  /\ Len(f.code) \in Nat /\ DOMAIN f.code = 1..Len(f.code) /\ 1 \in DOMAIN f.code
  /\ f.liveIns \subseteq Regs
  /\ \A b \in DOMAIN f.code :
       /\ Len(f.code[b]) \in Nat /\ DOMAIN f.code[b] = 1..Len(f.code[b]) /\ 1 \in DOMAIN f.code[b]
       /\ f.succs[b] \subseteq DOMAIN f.code
       /\ \A k \in DOMAIN f.code[b] :
            /\ f.code[b][k].uses \subseteq Regs
            /\ f.code[b][k].uses \cap f.code[b][k].rets = {}
            /\ Writes(f.code[b][k]) \subseteq Regs
            /\ f.code[b][k].falls \/ k = Len(f.code[b])
            /\ k \in Jumps(f, b) => /\ f.code[b][k].targets \subseteq f.succs[b]
                                    /\ Writes(f.code[b][k]) = {}
                                    /\ \A j \in DOMAIN f.code[b] : k < j => j \in Jumps(f, b)
  /\ IsFiniteSet(DOMAIN f.code) /\ IsFiniteSet(Points(f))

LEMMA ProgramsWellFormed ==
  ASSUME NEW f \in Programs
  PROVE  WellFormed(f)
<1> DEFINE Instructions == [uses : SUBSET Regs, defs : SUBSET Regs, rets : SUBSET Regs,
                            clobbers : SUBSET Regs, targets : SUBSET DOMAIN f.code,
                            jump : BOOLEAN, falls : BOOLEAN, call : BOOLEAN]
<1>1. /\ f.liveIns \subseteq Regs
      /\ f.code \in Seq(Seq(Instructions))
      /\ f.code # <<>> /\ \A b \in DOMAIN f.code : f.code[b] # <<>>
      /\ f.succs \in [DOMAIN f.code -> SUBSET DOMAIN f.code]
      /\ \A b \in DOMAIN f.code : \A k \in DOMAIN f.code[b] :
           /\ f.code[b][k].falls \/ k = Len(f.code[b])
           /\ f.code[b][k].uses \cap f.code[b][k].rets = {}
           /\ k \in Jumps(f, b) => /\ f.code[b][k].targets \subseteq f.succs[b]
                                   /\ Writes(f.code[b][k]) = {}
                                   /\ \A j \in DOMAIN f.code[b] : k < j => j \in Jumps(f, b)
  BY ProgramsAssumption
<1> HIDE DEF Instructions
<1>2. Len(f.code) \in Nat /\ DOMAIN f.code = 1..Len(f.code) /\ 1 \in DOMAIN f.code
  BY <1>1
<1>3. \A b \in DOMAIN f.code : f.code[b] \in Seq(Instructions)
  BY <1>1
<1>4. ASSUME NEW b \in DOMAIN f.code
      PROVE  Len(f.code[b]) \in Nat /\ DOMAIN f.code[b] = 1..Len(f.code[b]) /\ 1 \in DOMAIN f.code[b]
  BY <1>1, <1>3
<1>5. ASSUME NEW b \in DOMAIN f.code, NEW k \in DOMAIN f.code[b]
      PROVE  f.code[b][k].uses \subseteq Regs /\ Writes(f.code[b][k]) \subseteq Regs
  <2>1. f.code[b][k] \in Instructions
    BY <1>3
  <2>. QED  BY <2>1 DEF Instructions, Writes
<1>6. IsFiniteSet(DOMAIN f.code)
  <2>1. 1 \in Int /\ Len(f.code) \in Int
    BY <1>2
  <2>. QED  BY <1>2, <2>1, FS_Interval
<1>7. IsFiniteSet(Points(f))
  BY <1>1, PointsFinite
<1>. QED  BY <1>1, <1>2, <1>4, <1>5, <1>6, <1>7 DEF WellFormed

\* A step between points stays in the block, or it is a jump to a successor.
LEMMA FollowsCases ==
  ASSUME NEW f, WellFormed(f), NEW b \in DOMAIN f.code, NEW k \in DOMAIN f.code[b],
         NEW q \in Points(f), Follows(f, <<b, k>>, q)
  PROVE  \/ q = <<b, k + 1>> /\ k + 1 \in DOMAIN f.code[b]
         \/ k \in Jumps(f, b) /\ q = <<q[1], 1>> /\ q[1] \in f.succs[b]
<1>0. PICK c \in DOMAIN f.code : q \in {c} \X DOMAIN f.code[c]
  BY DEF Points
<1>1. PICK m \in DOMAIN f.code[c] : q = <<c, m>>
  BY <1>0
<1>2. CASE f.code[b][k].falls /\ q = <<b, k + 1>>
  <2>1. c = b /\ m = k + 1
    BY <1>1, <1>2
  <2>. QED  BY <1>1, <1>2, <2>1
<1>3. CASE /\ f.code[b][k].jump
           /\ q[2] = 1
           /\ q[1] \in IF f.code[b][k].targets = {} THEN f.succs[b] ELSE f.code[b][k].targets
  <2>1. k \in Jumps(f, b)
    BY <1>3 DEF Jumps
  <2>2. f.code[b][k].targets \subseteq f.succs[b]
    BY <2>1 DEF WellFormed
  <2>3. q[1] \in f.succs[b]
    BY <1>3, <2>2, Zenon
  <2>. QED  BY <1>1, <1>3, <2>1, <2>3
<1>. QED  BY <1>2, <1>3 DEF Follows, Instruction

\* A register that is used is live; one that is live behind an instruction
\* which does not write it is live before the instruction.
LEMMA LiveInIsClosed ==
  ASSUME NEW f, WellFormed(f), NEW b \in DOMAIN f.code, NEW k \in DOMAIN f.code[b], NEW r \in Regs
  PROVE  /\ r \in f.code[b][k].uses => <<<<b, k>>, r>> \in LiveIn(f)
         /\ \A q : /\ r \notin Writes(f.code[b][k])
                   /\ Follows(f, <<b, k>>, q) /\ <<q, r>> \in LiveIn(f)
                   => <<<<b, k>>, r>> \in LiveIn(f)
<1> DEFINE kills == WrittenIn(f)
<1>1. <<b, k>> \in Points(f)
  BY DEF Points
<1>2. <<<<b, k>>, r>> \in Facts(f, Regs)
  BY <1>1 DEF Facts
<1>3. kills[<<b, k>>] = Writes(f.code[b][k])
  BY <1>1 DEF WrittenIn, Instruction
<1>4. Used(f, Regs) \subseteq LiveIn(f) /\ OneStepBack(f, Regs, kills, LiveIn(f)) \subseteq LiveIn(f)
  <2>1. IsFiniteSet(Points(f))
    BY DEF WellFormed
  <2> HIDE DEF kills
  <2>2. IsClosed(f, Regs, kills, LiveBefore(f, Regs, kills))
    BY <2>1, LiveIsClosed
  <2>. QED  BY <2>2 DEF IsClosed, LiveIn, kills
<1> HIDE DEF kills
<1>5. ASSUME r \in f.code[b][k].uses PROVE <<<<b, k>>, r>> \in LiveIn(f)
  BY <1>2, <1>4, <1>5 DEF Used, Instruction
<1>6. ASSUME NEW q, r \notin Writes(f.code[b][k]), Follows(f, <<b, k>>, q), <<q, r>> \in LiveIn(f)
      PROVE  <<<<b, k>>, r>> \in LiveIn(f)
  <2>1. <<<<b, k>>, r>> \in OneStepBack(f, Regs, kills, LiveIn(f))
    BY <1>2, <1>3, <1>6 DEF OneStepBack
  <2>. QED  BY <1>4, <2>1
<1>. QED  BY <1>5, <1>6

\* A register that is live at a position of a block and not written before it
\* is live where the block begins.
LEMMA LiveFromStart ==
  ASSUME NEW f, WellFormed(f), NEW b \in DOMAIN f.code, NEW k \in DOMAIN f.code[b], NEW r \in Regs,
         <<<<b, k>>, r>> \in LiveIn(f), \A m \in 1..(k - 1) : r \notin Writes(f.code[b][m])
  PROVE  <<<<b, 1>>, r>> \in LiveIn(f)
<1> DEFINE S == {m \in 1..k : <<<<b, m>>, r>> \in LiveIn(f)}
<1>1. DOMAIN f.code[b] = 1..Len(f.code[b]) /\ Len(f.code[b]) \in Nat /\ k \in Nat /\ k >= 1
  BY DEF WellFormed
<1>2. k \in S
  BY <1>1
<1>3. ASSUME NEW m \in 1..(k - 1), m + 1 \in S PROVE m \in S
  <2>1. m \in DOMAIN f.code[b] /\ m # Len(f.code[b]) /\ m \in 1..k
    BY <1>1
  <2>2. f.code[b][m].falls
    BY <2>1 DEF WellFormed
  <2>3. Follows(f, <<b, m>>, <<b, m + 1>>)
    BY <2>2 DEF Follows, Instruction
  <2>4. <<<<b, m>>, r>> \in LiveIn(f)
    BY <1>3, <2>1, <2>3, LiveInIsClosed
  <2>. QED  BY <2>1, <2>4
<1>4. \A m \in 1..k : m \in S
  <2> HIDE DEF S
  <2>. QED  BY <1>1, <1>2, <1>3, Downwards
<1>. QED  BY <1>1, <1>4

\* A block writes no register at a jump or behind one.
LEMMA WrittenBeforeJumps ==
  ASSUME NEW f, WellFormed(f), NEW b \in DOMAIN f.code, NEW j \in Jumps(f, b),
         NEW w \in DOMAIN f.code[b], NEW r, r \in Writes(f.code[b][w])
  PROVE  w < j
<1>1. j \in DOMAIN f.code[b]
  BY DEF Jumps
<1>2. \A i \in Jumps(f, b) : Writes(f.code[b][i]) = {} /\ \A k \in DOMAIN f.code[b] : i < k => k \in Jumps(f, b)
  <2>1. Jumps(f, b) \subseteq DOMAIN f.code[b]
    BY DEF Jumps
  <2>. QED  BY <2>1 DEF WellFormed
<1>3. w \notin Jumps(f, b)
  BY <1>2
<1>4. w # j /\ ~(j < w)
  BY <1>2, <1>3
<1>5. j \in Nat /\ w \in Nat
  BY <1>1 DEF WellFormed
<1>. QED  BY <1>4, <1>5

\* The facts of C are closed under going one step back.
BackClosed(f, C) ==
  \A b \in DOMAIN f.code : \A k \in DOMAIN f.code[b] : \A r \in Regs :
    /\ r \in f.code[b][k].uses => <<<<b, k>>, r>> \in C
    /\ /\ r \notin Writes(f.code[b][k])
       /\ \/ k + 1 \in DOMAIN f.code[b] /\ <<<<b, k + 1>>, r>> \in C
          \/ k \in Jumps(f, b) /\ \E s \in f.succs[b] : <<<<s, 1>>, r>> \in C
       => <<<<b, k>>, r>> \in C

LEMMA LiveInIsLeast ==
  ASSUME NEW f, WellFormed(f), NEW C \in SUBSET Facts(f, Regs), BackClosed(f, C)
  PROVE  LiveIn(f) \subseteq C
<1> DEFINE kills == WrittenIn(f)
<1>1. ASSUME NEW x \in Facts(f, Regs)
      PROVE  \E b \in DOMAIN f.code : \E k \in DOMAIN f.code[b] : \E r \in Regs :
               x = <<<<b, k>>, r>> /\ kills[x[1]] = Writes(f.code[b][k])
  BY DEF Facts, Points, WrittenIn, Instruction
<1> HIDE DEF kills
<1>2. ASSUME NEW x \in Used(f, Regs) PROVE x \in C
  <2>1. PICK b \in DOMAIN f.code : \E k \in DOMAIN f.code[b] : \E r \in Regs : x = <<<<b, k>>, r>>
    BY <1>1 DEF Used
  <2>2. PICK k \in DOMAIN f.code[b] : \E r \in Regs : x = <<<<b, k>>, r>>
    BY <2>1
  <2>3. PICK r \in Regs : x = <<<<b, k>>, r>>
    BY <2>2
  <2>4. r \in f.code[b][k].uses
    BY <2>3 DEF Used, Instruction
  <2>. QED  BY <2>3, <2>4 DEF BackClosed
<1>3. ASSUME NEW x \in OneStepBack(f, Regs, kills, C), x \notin C PROVE FALSE
  <2>1. x \in Facts(f, Regs) /\ x[2] \notin kills[x[1]]
    BY <1>3 DEF OneStepBack
  <2>2. PICK y \in C : y[2] = x[2] /\ Follows(f, x[1], y[1])
    BY <1>3 DEF OneStepBack
  <2>3a. PICK b \in DOMAIN f.code : \E k \in DOMAIN f.code[b] : \E r \in Regs :
          x = <<<<b, k>>, r>> /\ kills[x[1]] = Writes(f.code[b][k])
    BY <1>1, <2>1
  <2>3b. PICK k \in DOMAIN f.code[b] : \E r \in Regs :
          x = <<<<b, k>>, r>> /\ kills[x[1]] = Writes(f.code[b][k])
    BY <2>3a
  <2>3. PICK r \in Regs : x = <<<<b, k>>, r>> /\ kills[x[1]] = Writes(f.code[b][k])
    BY <2>3b
  <2>4. r \notin Writes(f.code[b][k]) /\ Follows(f, <<b, k>>, y[1])
    BY <2>1, <2>2, <2>3
  <2>5. y = <<y[1], r>> /\ y[1] \in Points(f)
    BY <2>2, <2>3 DEF Facts
  <2>6. \/ y[1] = <<b, k + 1>> /\ k + 1 \in DOMAIN f.code[b]
        \/ k \in Jumps(f, b) /\ y[1] = <<y[1][1], 1>> /\ y[1][1] \in f.succs[b]
    BY <2>4, <2>5, FollowsCases
  <2>7. <<<<b, k>>, r>> \in C
    BY <2>4, <2>5, <2>6 DEF BackClosed
  <2>. QED  BY <1>3, <2>3, <2>7
<1>4. IsClosed(f, Regs, kills, C)
  BY <1>2, <1>3 DEF IsClosed
<1>5. IsFiniteSet(Points(f))
  BY DEF WellFormed
<1>. QED  BY <1>4, <1>5, LiveIsLeast DEF LiveIn, kills

-----------------------------------------------------------------------------
(* Sequences without repetition. *)

\* A sequence of elements of a set is one of elements of a larger set.
LEMMA SeqOfSubset ==
  ASSUME NEW S, NEW T, S \subseteq T, NEW s \in Seq(S)
  PROVE  s \in Seq(T)
<1>1. s = [i \in 1..Len(s) |-> s[i]] /\ Len(s) \in Nat /\ \A i \in 1..Len(s) : s[i] \in T
  OBVIOUS
<1>. QED  BY <1>1

\* SetToSeqs gives the orders of a finite set.
LEMMA Orders ==
  ASSUME NEW S, IsFiniteSet(S), NEW order \in SetToSeqs(S)
  PROVE  order \in Seq(S) /\ IsInjective(order) /\ ToSet(order) = S
<1> DEFINE n == Cardinality(S)
           D == 1..n
<1>1. n \in Nat
  BY FS_CardinalityType
<1>2. order \in [D -> S] /\ \A i, j \in D : i # j => order[i] # order[j]
  BY DEF SetToSeqs
<1>3. order \in Seq(S)
  BY <1>1, <1>2
<1>4. IsInjective(order)
  BY <1>2 DEF IsInjective
<1>5. order \in Injection(D, S)
  BY <1>2, <1>4 DEF Injection
<1>6. IsFiniteSet(D) /\ Cardinality(D) = n
  <2>1. 1 \in Int /\ n \in Int
    BY <1>1
  <2>2. IsFiniteSet(D)
    BY <2>1, FS_Interval
  <2>3. Cardinality(D) = n
    BY <1>1, <2>1, FS_Interval
  <2>. QED  BY <2>2, <2>3
<1>7. order \in Surjection(D, S)
  <2> HIDE DEF D
  <2>. QED  BY <1>5, <1>6, FS_Injection
<1>8. ToSet(order) = S
  <2> HIDE DEF D
  <2>. QED  BY <1>2, <1>7 DEF Surjection, ToSet
<1>. QED  BY <1>3, <1>4, <1>8

\* Two sequences without repetition and with nothing in common are one.
LEMMA Concatenation ==
  ASSUME NEW S, NEW s \in Seq(S), NEW t \in Seq(S), IsInjective(s), IsInjective(t),
         ToSet(s) \cap ToSet(t) = {}
  PROVE  s \o t \in Seq(S) /\ IsInjective(s \o t) /\ ToSet(s \o t) = ToSet(s) \cup ToSet(t)
<1> DEFINE u == s \o t
           m == Len(s)
           n == Len(t)
<1>1. /\ m \in Nat /\ n \in Nat /\ DOMAIN s = 1..m /\ DOMAIN t = 1..n
      /\ u \in Seq(S) /\ DOMAIN u = 1..(m + n)
      /\ \A i \in 1..m : u[i] = s[i]
      /\ \A i \in 1..n : u[m + i] = t[i]
  OBVIOUS
<1> HIDE DEF u, m, n
<1>2. \A i \in DOMAIN u : i \in DOMAIN s \/ (i - m \in DOMAIN t /\ i = m + (i - m))
  BY <1>1
<1>3. \A i \in DOMAIN u : \/ i \in DOMAIN s /\ u[i] = s[i]
                          \/ i - m \in DOMAIN t /\ u[i] = t[i - m]
  BY <1>1, <1>2
<1>4. ASSUME NEW i \in DOMAIN u, NEW j \in DOMAIN u, u[i] = u[j] PROVE i = j
  <2>1. \A k \in DOMAIN s : s[k] \in ToSet(s)
    BY DEF ToSet
  <2>2. \A k \in DOMAIN t : t[k] \in ToSet(t)
    BY DEF ToSet
  <2>3. CASE i \in DOMAIN s /\ u[i] = s[i] /\ j \in DOMAIN s /\ u[j] = s[j]
    BY <1>4, <2>3 DEF IsInjective
  <2>4. CASE i - m \in DOMAIN t /\ u[i] = t[i - m] /\ j - m \in DOMAIN t /\ u[j] = t[j - m]
    <3>1. i - m = j - m
      BY <1>4, <2>4 DEF IsInjective
    <3>. QED  BY <1>1, <3>1
  <2>. QED  BY <1>3, <1>4, <2>1, <2>2, <2>3, <2>4
<1>5. ToSet(u) \subseteq ToSet(s) \cup ToSet(t)
  BY <1>3 DEF ToSet
<1>6. ToSet(s) \cup ToSet(t) \subseteq ToSet(u)
  <2>1. \A i \in 1..m : i \in DOMAIN u
    BY <1>1
  <2>2. \A i \in 1..n : m + i \in DOMAIN u
    BY <1>1
  <2>3. \A i \in DOMAIN s : s[i] \in ToSet(u)
    BY <1>1, <2>1 DEF ToSet
  <2>4. \A i \in DOMAIN t : t[i] \in ToSet(u)
    BY <1>1, <2>2 DEF ToSet
  <2>. QED  BY <2>3, <2>4 DEF ToSet
<1>7. u \in Seq(S) /\ IsInjective(u) /\ ToSet(u) = ToSet(s) \cup ToSet(t)
  BY <1>1, <1>4, <1>5, <1>6 DEF IsInjective
<1>. QED  BY <1>7 DEF u

\* The blocks from the last to the first are each on the worklist once.
LEMMA AllBlocksPending ==
  ASSUME NEW n \in Nat
  PROVE  LET w == Reverse([b \in 1..n |-> b]) IN
         w \in Seq(1..n) /\ IsInjective(w) /\ ToSet(w) = 1..n
<1> DEFINE s == [b \in 1..n |-> b]
           w == Reverse(s)
<1>1. s \in Seq(1..n) /\ Len(s) = n
  OBVIOUS
<1>2. w = [i \in 1..n |-> (n - i) + 1]
  BY <1>1 DEF Reverse
<1> HIDE DEF w
<1>3. w \in Seq(1..n) /\ IsInjective(w)
  BY <1>2 DEF IsInjective
<1>4. ToSet(w) = 1..n
  <2>1. \A b \in 1..n : (n - b) + 1 \in 1..n /\ w[(n - b) + 1] = b
    BY <1>2
  <2>2. DOMAIN w = 1..n /\ \A i \in 1..n : w[i] \in 1..n
    BY <1>2
  <2>. QED  BY <2>1, <2>2 DEF ToSet
<1>. QED  BY <1>3, <1>4 DEF w

-----------------------------------------------------------------------------
(* The inductive invariant holds initially, and each action preserves it. *)

LEMMA InitIInv == Init => IInv
<1> SUFFICES ASSUME Init PROVE IInv
  OBVIOUS
<1>1. WellFormed(function)
  BY ProgramsWellFormed DEF Init
<1>2. /\ Blocks = 1..Len(code) /\ 1 \in Blocks
      /\ \A b \in Blocks : Len(code[b]) \in Nat /\ DOMAIN code[b] = 1..Len(code[b]) /\ 1 \in DOMAIN code[b]
      /\ function.liveIns \subseteq Regs
  BY <1>1 DEF WellFormed, Blocks, code
<1> DEFINE first == LiveRange(1, 1, FALSE)
<1>3. /\ first.first = 1 /\ first.last = 1 /\ ~first.assigned
      /\ first \in [first : Nat, last : Nat, assigned : BOOLEAN]
      /\ \A n \in Nat : 1 \in 1..n => first \in [first : 1..n, last : 1..n, assigned : BOOLEAN]
  BY DEF LiveRange
<1>4. \A b \in Blocks, r \in Regs :
        ranges[b][r] = IF b = 1 /\ r \in function.liveIns THEN <<first>> ELSE <<>>
  BY DEF Init, Entry
<1>5. ranges = [b \in Blocks |-> [r \in Regs |->
        IF b = 1 /\ r \in function.liveIns THEN <<first>> ELSE <<>>]]
  BY DEF Init, Entry
<1> HIDE DEF first
<1>6. Types
  <2>1. ranges \in [Blocks -> [Regs -> Seq([first : Nat, last : Nat, assigned : BOOLEAN])]]
    <3>1. <<first>> \in Seq([first : Nat, last : Nat, assigned : BOOLEAN])
      BY <1>3
    <3>2. <<>> \in Seq([first : Nat, last : Nat, assigned : BOOLEAN])
      OBVIOUS
    <3> DEFINE T == Seq([first : Nat, last : Nat, assigned : BOOLEAN])
    <3> HIDE DEF T
    <3>3. \A b \in Blocks : [r \in Regs |-> IF b = 1 /\ r \in function.liveIns THEN <<first>> ELSE <<>>]
                              \in [Regs -> T]
      BY <3>1, <3>2 DEF T
    <3>. QED  BY <1>5, <3>3 DEF T
  <2>2. <<>> \in Seq(Blocks) /\ IsInjective(<<>>)
    BY DEF IsInjective
  <2>3. DOMAIN graph = {}
    BY DEF Init
  <2>. QED  BY <1>2, <2>1, <2>2, <2>3 DEF Init, Types
<1>7. BlocksRecorded
  <2>1. SUFFICES ASSUME NEW b \in Blocks, NEW r \in Regs
                 PROVE  Recorded(ranges[b][r], Len(code[b]), WritesSeen(b, r), UsesSeen(b, r), JumpsSeen(b))
    BY DEF BlocksRecorded
  <2>2. Seen(b) = {}
    BY <1>2 DEF Seen, Init
  <2>3. WritesSeen(b, r) = {} /\ UsesSeen(b, r) = {} /\ JumpsSeen(b) = {}
    BY <2>2 DEF WritesSeen, UsesSeen, JumpsSeen, Init
  <2>4. Recorded(<<>>, Len(code[b]), {}, {}, {})
    BY DEF Recorded
  <2>5. Recorded(<<first>>, Len(code[b]), {}, {}, {})
    <3>1. <<first>>[1] = first /\ DOMAIN <<first>> = {1}
      OBVIOUS
    <3>2. <<first>> \in Seq([first : 1..Len(code[b]), last : 1..Len(code[b]), assigned : BOOLEAN])
      BY <1>2, <1>3
    <3>. QED  BY <1>3, <3>1, <3>2 DEF Recorded
  <2>. QED  BY <1>4, <2>3, <2>4, <2>5
<1>8. ArgumentsEnter
  <2>1. <<first>>[1] = first /\ <<first>> # <<>>
    OBVIOUS
  <2>. QED  BY <1>2, <1>3, <1>4, <2>1 DEF ArgumentsEnter, Enters, Entry
<1>9. Pending /\ Joined /\ GraphBuilt
  BY DEF Init, Pending, Joined, GraphBuilt
<1>. QED  BY <1>6, <1>7, <1>8, <1>9 DEF IInv

\* What the invariant says of the function and the blocks.
LEMMA BlocksFacts ==
  ASSUME Types
  PROVE  /\ WellFormed(function)
         /\ Blocks = 1..Len(code) /\ Len(code) \in Nat /\ 1 \in Blocks
         /\ \A b \in Blocks : /\ Len(code[b]) \in Nat /\ DOMAIN code[b] = 1..Len(code[b])
                              /\ 1 \in DOMAIN code[b]
                              /\ Succs(b) \subseteq Blocks
         /\ function.liveIns \subseteq Regs
         /\ at \in Nat /\ pos \in Nat
         /\ IsFiniteSet(Blocks)
<1>1. WellFormed(function)
  BY ProgramsWellFormed DEF Types
<1>2. Blocks = 1..Len(code) /\ Len(code) \in Nat /\ 1 \in Blocks
  BY <1>1 DEF WellFormed, Blocks, code
<1>3. \A b \in Blocks : /\ Len(code[b]) \in Nat /\ DOMAIN code[b] = 1..Len(code[b])
                        /\ 1 \in DOMAIN code[b]
                        /\ Succs(b) \subseteq Blocks
  BY <1>1 DEF WellFormed, Blocks, code, Succs
<1>4. at \in Nat /\ pos \in Nat
  BY <1>2, <1>3 DEF Types
<1>5. function.liveIns \subseteq Regs /\ IsFiniteSet(Blocks)
  BY <1>1 DEF WellFormed, Blocks, code
<1>. QED  BY <1>1, <1>2, <1>3, <1>4, <1>5

\* What fillRanges makes of the ranges of a register.
LEMMA FillRangesEffect ==
  ASSUME Types, BlocksRecorded, FillRanges, NEW r \in Regs
  PROVE  LET W == WritesSeen(at, r)
             U == UsesSeen(at, r)
         IN  WithInstruction(ranges[at][r], ranges'[at][r], Len(code[at]), pos, code[at][pos], r, W, U)
<1> DEFINE n == Len(code[at])
           i == code[at][pos]
           W == WritesSeen(at, r)
           U == UsesSeen(at, r)
           rs == ranges[at][r]
<1>1. at \in Blocks /\ n \in Nat /\ pos \in 1..n /\ DOMAIN code[at] = 1..n
  BY BlocksFacts DEF Types
<1>2. W \in SUBSET (1..pos) /\ U \in SUBSET (1..pos) /\ pos \notin W
  BY <1>1, BlocksFacts DEF WritesSeen, UsesSeen, Seen, FillRanges
<1>3. i.uses \cap i.rets = {}
  BY <1>1, BlocksFacts DEF WellFormed, Blocks, code
<1>4. Recorded(rs, n, W, U, {})
  <2>1. JumpsSeen(at) = {}
    BY DEF JumpsSeen, FillRanges
  <2>. QED  BY <1>1, <2>1 DEF BlocksRecorded
<1>5. ranges'[at][r] = Visit(r, rs, pos, i)
  BY <1>1 DEF FillRanges, Types
<1> HIDE DEF n, i, W, U, rs
<1>6. WithInstruction(rs, Visit(r, rs, pos, i), n, pos, i, r, W, U)
  BY <1>1, <1>2, <1>3, <1>4, VisitRecorded
<1>. QED  BY <1>5, <1>6 DEF n, i, W, U, rs

LEMMA FillRangesIInv == IInv /\ FillRanges => IInv'
<1> SUFFICES ASSUME IInv, FillRanges PROVE IInv'
  OBVIOUS
<1>1. Types /\ BlocksRecorded /\ ArgumentsEnter
  BY DEF IInv
<1>2. /\ WellFormed(function)
      /\ Blocks = 1..Len(code) /\ Len(code) \in Nat /\ 1 \in Blocks
      /\ \A b \in Blocks : /\ Len(code[b]) \in Nat /\ DOMAIN code[b] = 1..Len(code[b])
                           /\ 1 \in DOMAIN code[b]
      /\ function.liveIns \subseteq Regs
      /\ at \in Blocks /\ at \in Nat /\ pos \in 1..Len(code[at])
  BY <1>1, BlocksFacts DEF Types
<1>3. function' = function /\ code' = code /\ Blocks' = Blocks /\ graph' = graph
  BY DEF FillRanges, code, Blocks
<1>4. ASSUME NEW r \in Regs
      PROVE  WithInstruction(ranges[at][r], ranges'[at][r], Len(code[at]), pos, code[at][pos], r,
                             WritesSeen(at, r), UsesSeen(at, r))
  BY <1>1, FillRangesEffect
<1>5. \A b \in Blocks : b # at => ranges'[b] = ranges[b]
  BY <1>1 DEF FillRanges, Types
<1>6. \/ pos < Len(code[at]) /\ pos' = pos + 1 /\ pc' = "fill" /\ at' = at /\ worklist' = worklist
      \/ pos = Len(code[at]) /\ at < Len(code) /\ pos' = 1 /\ pc' = "fill" /\ at' = at + 1 /\ worklist' = worklist
      \/ /\ pos = Len(code[at]) /\ at = Len(code) /\ pos' = 1 /\ pc' = "holes" /\ at' = 1
         /\ worklist' = Reverse([b \in Blocks |-> b])
  BY <1>2 DEF FillRanges
<1>7. \A b \in Blocks : Seen(b)' = IF b = at THEN Seen(b) \cup {pos} ELSE Seen(b)
  <2>1. pc = "fill"
    BY DEF FillRanges
  <2>2. CASE pos < Len(code[at]) /\ pos' = pos + 1 /\ pc' = "fill" /\ at' = at
    BY <1>2, <1>3, <2>1, <2>2 DEF Seen
  <2>3. CASE pos = Len(code[at]) /\ at < Len(code) /\ pos' = 1 /\ pc' = "fill" /\ at' = at + 1
    BY <1>2, <1>3, <2>1, <2>3 DEF Seen
  <2>4. CASE pos = Len(code[at]) /\ at = Len(code) /\ pc' = "holes"
    BY <1>2, <1>3, <2>1, <2>4 DEF Seen
  <2>. QED  BY <1>6, <2>2, <2>3, <2>4
<1>8. BlocksRecorded'
  <2>1. SUFFICES ASSUME NEW b \in Blocks, NEW r \in Regs
                 PROVE  Recorded(ranges[b][r], Len(code[b]), WritesSeen(b, r), UsesSeen(b, r), JumpsSeen(b))'
    BY <1>3 DEF BlocksRecorded
  <2>2. JumpsSeen(b) = {} /\ JumpsSeen(b)' = {}
    BY <1>6 DEF JumpsSeen, FillRanges
  <2>3. CASE b # at
    <3>1. WritesSeen(b, r)' = WritesSeen(b, r) /\ UsesSeen(b, r)' = UsesSeen(b, r)
      BY <1>3, <1>7, <2>3 DEF WritesSeen, UsesSeen
    <3>2. Recorded(ranges[b][r], Len(code[b]), WritesSeen(b, r), UsesSeen(b, r), {})
      BY <1>1, <2>2 DEF BlocksRecorded
    <3>. QED  BY <1>3, <1>5, <2>2, <2>3, <3>1, <3>2
  <2>4. CASE b = at
    <3> DEFINE i == code[b][pos]
    <3>1. Seen(b)' = Seen(b) \cup {pos} /\ pos \in DOMAIN code[b]
      BY <1>2, <1>7, <2>4
    <3>2. WritesSeen(b, r)' = IF r \in Writes(i) THEN WritesSeen(b, r) \cup {pos} ELSE WritesSeen(b, r)
      BY <1>3, <3>1 DEF WritesSeen
    <3>3. UsesSeen(b, r)' = IF r \in i.uses THEN UsesSeen(b, r) \cup {pos} ELSE UsesSeen(b, r)
      BY <1>3, <3>1 DEF UsesSeen
    <3>4. WithInstruction(ranges[b][r], ranges'[b][r], Len(code[b]), pos, i, r,
                          WritesSeen(b, r), UsesSeen(b, r))
      BY <1>4, <2>4
    <3>5. Recorded(ranges'[b][r], Len(code[b]), WritesSeen(b, r)', UsesSeen(b, r)', {})
      BY <3>2, <3>3, <3>4, Zenon DEF WithInstruction
    <3>. QED  BY <1>3, <2>2, <3>5
  <2>. QED  BY <2>3, <2>4
<1>9. Types'
  <2>1. ranges' \in [Blocks -> [Regs -> Seq([first : Nat, last : Nat, assigned : BOOLEAN])]]
    <3>1. ASSUME NEW r \in Regs
          PROVE  ranges'[at][r] \in Seq([first : Nat, last : Nat, assigned : BOOLEAN])
      <4> DEFINE S == [first : 1..Len(code[at]), last : 1..Len(code[at]), assigned : BOOLEAN]
                 T == [first : Nat, last : Nat, assigned : BOOLEAN]
      <4>1. ranges'[at][r] \in Seq(S)
        BY <1>4 DEF WithInstruction, Recorded
      <4>2. S \subseteq T
        OBVIOUS
      <4> HIDE DEF S, T
      <4>3. ranges'[at][r] \in Seq(T)
        BY <4>1, <4>2, SeqOfSubset
      <4>. QED  BY <4>3 DEF T
    <3>2. ranges' = [ranges EXCEPT ![at] = [r \in Regs |-> ranges'[at][r]]]
      BY <1>1, <1>2 DEF FillRanges, Types
    <3>. QED  BY <1>1, <3>1, <3>2 DEF Types
  <2>2. worklist' \in Seq(Blocks) /\ IsInjective(worklist')
    BY <1>1, <1>2, <1>6, AllBlocksPending DEF Types
  <2>3. at' \in Blocks /\ pos' \in DOMAIN code[at'] /\ (pc' # "fill" => pos' = 1) /\ (pc' = "holes" => at' = 1)
    BY <1>2, <1>6
  <2>4. function \in Programs /\ DOMAIN graph \subseteq VRegs /\ \A v \in DOMAIN graph : graph[v] \subseteq Regs
    BY <1>1 DEF Types
  <2>5. pc' \in {"fill", "holes", "propagate", "graph", "done", "thrown"}
    BY <1>6
  <2>. QED  BY <1>3, <2>1, <2>2, <2>3, <2>4, <2>5 DEF Types
<1>10. ArgumentsEnter'
  <2>1. ASSUME NEW r \in function.liveIns
        PROVE  Enters(Entry, r)' /\ ranges'[Entry][r][1].first = 1
    <3>1. r \in Regs /\ Entry \in Blocks
      BY <1>2 DEF Entry
    <3>2. ranges[Entry][r] # <<>> /\ ~ranges[Entry][r][1].assigned /\ ranges[Entry][r][1].first = 1
      BY <1>1 DEF ArgumentsEnter, Enters
    <3>3. SameStart(ranges[Entry][r], ranges'[Entry][r])
      <4>1. CASE Entry = at
        BY <1>4, <3>1, <4>1 DEF WithInstruction
      <4>2. CASE Entry # at
        BY <1>5, <3>1, <4>2 DEF SameStart
      <4>. QED  BY <4>1, <4>2
    <3>. QED  BY <3>2, <3>3 DEF SameStart, Enters, Entry
  <2>. QED  BY <1>3, <2>1 DEF ArgumentsEnter, Entry
<1>11. Pending'
  <2>1. pc' = "holes" => ToSet(worklist') = Blocks
    BY <1>2, <1>6, AllBlocksPending
  <2>. QED  BY <1>3, <1>6, <2>1 DEF Pending
<1>12. Joined' /\ GraphBuilt'
  BY <1>6 DEF Joined, GraphBuilt
<1>. QED  BY <1>8, <1>9, <1>10, <1>11, <1>12 DEF IInv

\* A register without a range in a block that fillRanges has seen is neither
\* used nor written there.
LEMMA NothingRecorded ==
  ASSUME BlocksRecorded, NEW b \in Blocks, NEW r \in Regs, ranges[b][r] = <<>>
  PROVE  WritesSeen(b, r) = {} /\ UsesSeen(b, r) = {}
<1>1. Recorded(ranges[b][r], Len(code[b]), WritesSeen(b, r), UsesSeen(b, r), JumpsSeen(b))
  BY DEF BlocksRecorded
<1>2. \A i \in DOMAIN ranges[b][r] : FALSE
  OBVIOUS
<1>. QED  BY <1>1, <1>2, Zenon DEF Recorded

\* What a turn of fillHoles makes of the ranges and the worklist.
FillsHoles(b, rest) ==
  /\ worklist = <<b>> \o rest /\ b \in Blocks /\ rest \in Seq(Blocks)
  /\ ToSet(rest) = ToSet(worklist) \ {b}
  /\ \A c \in Blocks, r \in Regs :
       ranges'[c][r] = IF c = b /\ r \in Missing(b)
                       THEN <<LiveRange(1, Len(code[b]), FALSE)>>
                       ELSE ranges[c][r]
  /\ ranges' \in [Blocks -> [Regs -> Seq([first : Nat, last : Nat, assigned : BOOLEAN])]]
  /\ worklist' \in Seq(Blocks) /\ IsInjective(worklist')
  /\ ToSet(worklist') = ToSet(rest) \cup Again(b, rest)

LEMMA FillHolesEffect ==
  ASSUME Types, FillHoles
  PROVE  FillsHoles(Head(worklist), Tail(worklist))
<1> DEFINE b == Head(worklist)
           rest == Tail(worklist)
           hole == LiveRange(1, Len(code[b]), FALSE)
           T == Seq([first : Nat, last : Nat, assigned : BOOLEAN])
<1>1. worklist # <<>> /\ worklist \in Seq(Blocks) /\ IsInjective(worklist)
  BY DEF FillHoles, Types
<1>2. worklist = <<b>> \o rest /\ b \in Blocks /\ rest \in Seq(Blocks)
  BY <1>1
<1>3. IsInjective(rest) /\ ToSet(rest) = ToSet(worklist) \ {b}
  <2>1. /\ Len(worklist) \in Nat /\ Len(worklist) >= 1 /\ DOMAIN worklist = 1..Len(worklist)
        /\ DOMAIN rest = 1..(Len(worklist) - 1)
        /\ b = worklist[1] /\ \A i \in DOMAIN rest : rest[i] = worklist[i + 1]
    BY <1>1
  <2> HIDE DEF b, rest
  <2>2. \A i \in DOMAIN rest : i + 1 \in DOMAIN worklist /\ i + 1 # 1
    BY <2>1
  <2>3. IsInjective(rest)
    BY <1>1, <2>1, <2>2 DEF IsInjective
  <2>4. \A i \in DOMAIN rest : rest[i] \in ToSet(worklist) /\ rest[i] # b
    BY <1>1, <2>1, <2>2 DEF IsInjective, ToSet
  <2>5. \A i \in DOMAIN worklist : i = 1 \/ (i - 1 \in DOMAIN rest /\ worklist[i] = rest[i - 1])
    BY <2>1
  <2>6. \A x \in ToSet(worklist) : x = b \/ x \in ToSet(rest)
    BY <2>1, <2>5 DEF ToSet
  <2>7. \A x \in ToSet(rest) : x \in ToSet(worklist) /\ x # b
    BY <2>4 DEF ToSet
  <2>. QED  BY <2>3, <2>6, <2>7
<1>4. PICK order \in SetToSeqs(Again(b, rest)) : worklist' = rest \o order
  BY DEF FillHoles
<1>5. Again(b, rest) \in SUBSET Blocks /\ IsFiniteSet(Again(b, rest)) /\ ToSet(rest) \cap Again(b, rest) = {}
  <2>1. Again(b, rest) \in SUBSET Blocks /\ ToSet(rest) \cap Again(b, rest) = {}
    BY DEF Again, Preds
  <2>. QED  BY <2>1, BlocksFacts, FS_Subset
<1>6. order \in Seq(Again(b, rest)) /\ IsInjective(order) /\ ToSet(order) = Again(b, rest)
  BY <1>5, Orders
<1>7. order \in Seq(Blocks)
  BY <1>5, <1>6, SeqOfSubset
<1>8. worklist' \in Seq(Blocks) /\ IsInjective(worklist') /\ ToSet(worklist') = ToSet(rest) \cup Again(b, rest)
  <2> HIDE DEF b, rest
  <2>. QED  BY <1>2, <1>3, <1>4, <1>5, <1>6, <1>7, Concatenation
<1>9. <<hole>> \in T
  <2>1. Len(code[b]) \in Nat
    BY <1>2, BlocksFacts
  <2>2. hole \in [first : Nat, last : Nat, assigned : BOOLEAN]
    BY <2>1 DEF LiveRange
  <2> HIDE DEF hole
  <2>. QED  BY <2>2
<1>10. ranges' = [ranges EXCEPT ![b] = [r \in Regs |-> IF r \in Missing(b) THEN <<hole>> ELSE ranges[b][r]]]
  BY DEF FillHoles
<1>11. ranges \in [Blocks -> [Regs -> T]]
  BY DEF Types
<1> HIDE DEF b, rest, hole, T
<1>12. [r \in Regs |-> IF r \in Missing(b) THEN <<hole>> ELSE ranges[b][r]] \in [Regs -> T]
  BY <1>2, <1>9, <1>11
<1>13. ranges' \in [Blocks -> [Regs -> T]]
  BY <1>2, <1>10, <1>11, <1>12
<1>14. \A c \in Blocks, r \in Regs :
         ranges'[c][r] = IF c = b /\ r \in Missing(b) THEN <<hole>> ELSE ranges[c][r]
  BY <1>2, <1>10, <1>11
<1>. QED  BY <1>2, <1>3, <1>8, <1>13, <1>14 DEF FillsHoles, b, rest, hole, T

LEMMA FillHolesIInv == IInv /\ FillHoles => IInv'
<1> SUFFICES ASSUME IInv, FillHoles PROVE IInv'
  OBVIOUS
<1>1. Types /\ BlocksRecorded /\ ArgumentsEnter /\ Pending
  BY DEF IInv
<1>2. /\ \A b \in Blocks : Len(code[b]) \in Nat /\ DOMAIN code[b] = 1..Len(code[b]) /\ 1 \in DOMAIN code[b]
      /\ \A b \in Blocks : Succs(b) \subseteq Blocks
      /\ 1 \in Blocks /\ function.liveIns \subseteq Regs
  BY <1>1, BlocksFacts
<1>3. /\ function' = function /\ code' = code /\ Blocks' = Blocks /\ graph' = graph
      /\ pc = "holes" /\ pc' = "holes" /\ at' = at /\ pos' = pos
      /\ \A b \in Blocks : Succs(b)' = Succs(b)
  BY DEF FillHoles, code, Blocks, Succs
<1> DEFINE hd == Head(worklist)
           tl == Tail(worklist)
<1>4. FillsHoles(hd, tl)
  BY <1>1, FillHolesEffect
<1> HIDE DEF hd, tl
<1>5. PICK b \in Blocks, rest \in Seq(Blocks) : FillsHoles(b, rest)
  BY <1>4 DEF FillsHoles
<1>6. /\ \A c \in Blocks, r \in Regs :
           ranges'[c][r] = IF c = b /\ r \in Missing(b)
                           THEN <<LiveRange(1, Len(code[b]), FALSE)>>
                           ELSE ranges[c][r]
      /\ ToSet(worklist') = ToSet(rest) \cup Again(b, rest)
      /\ ToSet(rest) = ToSet(worklist) \ {b}
  BY <1>5 DEF FillsHoles
<1>7. Types'
  BY <1>1, <1>3, <1>5 DEF Types, FillsHoles
<1>8. BlocksRecorded'
  <2>1. SUFFICES ASSUME NEW c \in Blocks, NEW r \in Regs
                 PROVE  Recorded(ranges[c][r], Len(code[c]), WritesSeen(c, r), UsesSeen(c, r), JumpsSeen(c))'
    BY <1>3 DEF BlocksRecorded
  <2>2. /\ WritesSeen(c, r)' = WritesSeen(c, r) /\ UsesSeen(c, r)' = UsesSeen(c, r)
        /\ JumpsSeen(c)' = {} /\ JumpsSeen(c) = {}
    BY <1>3 DEF WritesSeen, UsesSeen, JumpsSeen, Seen
  <2>3. Recorded(ranges[c][r], Len(code[c]), WritesSeen(c, r), UsesSeen(c, r), {})
    BY <1>1, <2>2 DEF BlocksRecorded
  <2>4. CASE c = b /\ r \in Missing(b)
    <3> DEFINE n == Len(code[c])
               hole == LiveRange(1, n, FALSE)
    <3>1. ranges[c][r] = <<>>
      BY <2>4 DEF Missing
    <3>2. WritesSeen(c, r) = {} /\ UsesSeen(c, r) = {}
      BY <1>1, <3>1, NothingRecorded
    <3>3. n \in Nat /\ 1 \in 1..n /\ n \in 1..n
      BY <1>2
    <3>4. hole \in [first : 1..n, last : 1..n, assigned : BOOLEAN] /\ hole.first = 1 /\ ~hole.assigned
      BY <3>3 DEF LiveRange
    <3>5. ranges'[c][r] = <<hole>>
      BY <1>6, <2>4
    <3> HIDE DEF n, hole
    <3>6. Recorded(<<hole>>, n, {}, {}, {})
      <4>1. <<hole>> \in Seq([first : 1..n, last : 1..n, assigned : BOOLEAN])
        BY <3>4
      <4>2. DOMAIN <<hole>> = {1} /\ <<hole>>[1] = hole
        OBVIOUS
      <4>. QED  BY <3>4, <4>1, <4>2 DEF Recorded
    <3>. QED  BY <1>3, <2>2, <3>2, <3>5, <3>6 DEF n
  <2>5. CASE ~(c = b /\ r \in Missing(b))
    <3>1. ranges'[c][r] = ranges[c][r]
      BY <1>6, <2>5
    <3>. QED  BY <1>3, <2>2, <2>3, <3>1
  <2>. QED  BY <2>4, <2>5
<1>9. ArgumentsEnter'
  <2>1. ASSUME NEW r \in function.liveIns
        PROVE  ranges'[Entry][r] = ranges[Entry][r] /\ Enters(Entry, r) /\ ranges[Entry][r][1].first = 1
    <3>1. r \in Regs /\ Entry \in Blocks
      BY <1>2 DEF Entry
    <3>2. Enters(Entry, r) /\ ranges[Entry][r][1].first = 1
      BY <1>1 DEF ArgumentsEnter
    <3>3. ~(Entry = b /\ r \in Missing(b))
      BY <3>2 DEF Enters, Missing
    <3>. QED  BY <1>6, <3>1, <3>2, <3>3
  <2>. QED  BY <1>3, <2>1 DEF ArgumentsEnter, Enters, Entry
<1>10. Pending'
  <2>1. SUFFICES ASSUME NEW c \in Blocks, Missing(c)' # {} PROVE c \in ToSet(worklist')
    BY <1>3 DEF Pending
  <2>2. PICK r \in Regs, s \in Succs(c) :
          ranges'[c][r] = <<>> /\ ranges'[s][r] # <<>> /\ ~ranges'[s][r][1].assigned
    BY <1>3, <2>1 DEF Missing
  <2>3. s \in Blocks
    BY <1>2
  <2>4. ranges[c][r] = <<>> /\ ~(c = b /\ r \in Missing(b))
    <3>1. <<LiveRange(1, Len(code[b]), FALSE)>> # <<>>
      OBVIOUS
    <3>. QED  BY <1>6, <2>2, <3>1
  <2>5. CASE ranges'[s][r] = ranges[s][r]
    <3>1. r \in Missing(c)
      BY <2>2, <2>4, <2>5 DEF Missing
    <3>2. c # b /\ c \in ToSet(worklist)
      BY <1>1, <1>3, <2>4, <3>1 DEF Pending
    <3>. QED  BY <1>6, <3>2
  <2>6. CASE ranges'[s][r] # ranges[s][r]
    <3>1. s = b /\ r \in Missing(b)
      BY <1>6, <2>3, <2>6
    <3>2. c \in Preds(b)
      BY <3>1 DEF Preds
    <3>3. Again(b, rest) = Preds(b) \ ToSet(rest)
      BY <3>1 DEF Again
    <3>. QED  BY <1>6, <3>2, <3>3
  <2>. QED  BY <2>5, <2>6
<1>11. Joined' /\ GraphBuilt'
  BY <1>3 DEF Joined, GraphBuilt
<1>. QED  BY <1>7, <1>8, <1>9, <1>10, <1>11 DEF IInv

LEMMA HolesFilledIInv == IInv /\ HolesFilled => IInv'
<1> SUFFICES ASSUME IInv, HolesFilled PROVE IInv'
  OBVIOUS
<1>1. Types /\ BlocksRecorded /\ ArgumentsEnter /\ Pending
  BY DEF IInv
<1>2. /\ function' = function /\ code' = code /\ Blocks' = Blocks /\ graph' = graph /\ ranges' = ranges
      /\ pc = "holes" /\ pc' = "propagate" /\ at' = at /\ pos' = pos /\ worklist' = worklist
      /\ worklist = <<>>
      /\ \A b \in Blocks : Succs(b)' = Succs(b)
  BY DEF HolesFilled, code, Blocks, Succs
<1>3. Types'
  BY <1>1, <1>2 DEF Types
<1>4. BlocksRecorded'
  <2>1. SUFFICES ASSUME NEW b \in Blocks, NEW r \in Regs
                 PROVE  Recorded(ranges[b][r], Len(code[b]), WritesSeen(b, r), UsesSeen(b, r), JumpsSeen(b))'
    BY <1>2 DEF BlocksRecorded
  <2>2. WritesSeen(b, r)' = WritesSeen(b, r) /\ UsesSeen(b, r)' = UsesSeen(b, r) /\ JumpsSeen(b) = {}
    BY <1>2 DEF WritesSeen, UsesSeen, JumpsSeen, Seen
  <2>3. Recorded(ranges[b][r], Len(code[b]), WritesSeen(b, r), UsesSeen(b, r), {})
    BY <1>1, <2>2 DEF BlocksRecorded
  <2>4. Recorded(ranges[b][r], Len(code[b]), WritesSeen(b, r), UsesSeen(b, r), JumpsSeen(b)')
    BY <2>3 DEF Recorded, Reaches
  <2>. QED  BY <1>2, <2>2, <2>4
<1>5. ArgumentsEnter'
  BY <1>1, <1>2 DEF ArgumentsEnter, Enters, Entry
<1>6. Pending'
  <2>1. ToSet(worklist) = {}
    BY <1>2 DEF ToSet
  <2>2. \A b \in Blocks : Missing(b) = {}
    BY <1>1, <1>2, <2>1 DEF Pending
  <2>3. \A b \in Blocks : Missing(b)' = {}
    BY <1>2, <2>2 DEF Missing
  <2>. QED  BY <1>2, <2>3 DEF Pending
<1>7. Joined'
  <2>1. at = 1 /\ \A b \in Blocks : ~(b < 1)
    BY <1>1, <1>2, BlocksFacts DEF Types
  <2>. QED  BY <1>2, <2>1 DEF Joined
<1>8. GraphBuilt'
  BY <1>2 DEF GraphBuilt
<1>. QED  BY <1>3, <1>4, <1>5, <1>6, <1>7, <1>8 DEF IInv

\* The ranges p are q with the first position of a range that is not assigned
\* moved to the front, and the end of ranges moved to jumps.
Moved(q, p, n, jumps) ==
  /\ p \in Seq([first : 1..n, last : 1..n, assigned : BOOLEAN])
  /\ DOMAIN p = DOMAIN q
  /\ \A i \in DOMAIN q :
       /\ p[i].assigned = q[i].assigned
       /\ p[i].first = q[i].first \/ (p[i].first = 1 /\ ~q[i].assigned)
       /\ p[i].last = q[i].last \/ p[i].last \in jumps

LEMMA MovedRecorded ==
  ASSUME NEW n \in Nat, NEW jumps \in SUBSET (1..n), NEW writes \in SUBSET (1..n), NEW uses \in SUBSET (1..n),
         NEW q, NEW p, Recorded(q, n, writes, uses, jumps), Moved(q, p, n, jumps)
  PROVE  Recorded(p, n, writes, uses, jumps)
<1>1. /\ q \in Seq([first : 1..n, last : 1..n, assigned : BOOLEAN])
      /\ p \in Seq([first : 1..n, last : 1..n, assigned : BOOLEAN])
      /\ DOMAIN p = DOMAIN q
  BY DEF Recorded, Moved
<1>2. \A i \in DOMAIN q : /\ q[i].first \in 1..n /\ q[i].last \in 1..n /\ q[i].assigned \in BOOLEAN
                          /\ p[i].first \in 1..n /\ p[i].last \in 1..n /\ p[i].assigned \in BOOLEAN
  <2> DEFINE OfBlock == [first : 1..n, last : 1..n, assigned : BOOLEAN]
  <2>1. \A g \in OfBlock : g.first \in 1..n /\ g.last \in 1..n /\ g.assigned \in BOOLEAN
    OBVIOUS
  <2>2. q \in Seq(OfBlock) /\ p \in Seq(OfBlock)
    BY <1>1
  <2> HIDE DEF OfBlock
  <2>3. \A i \in DOMAIN q : q[i] \in OfBlock /\ p[i] \in OfBlock
    BY <1>1, <2>2
  <2>. QED  BY <2>1, <2>3
<1>3. \A i \in DOMAIN q :
        /\ p[i].assigned = q[i].assigned
        /\ p[i].first = q[i].first \/ (p[i].first = 1 /\ ~q[i].assigned)
        /\ p[i].last = q[i].last \/ p[i].last \in jumps
  BY DEF Moved
<1>4. \A i \in DOMAIN q, k \in 1..n : Reaches(q[i], k, jumps) => Reaches(p[i], k, jumps)
  BY <1>2, <1>3 DEF Reaches
<1>5. \A i \in DOMAIN p : p[i].assigned => p[i].first \in writes
  BY <1>1, <1>3 DEF Recorded
<1>6. ASSUME NEW i \in DOMAIN p, ~p[i].assigned
      PROVE  /\ i = 1
             /\ p[i].first = 1 \/ (p[i].first \in uses /\ \A k \in writes : p[i].first <= k)
  BY <1>1, <1>3, <1>6 DEF Recorded
<1>7. ASSUME NEW k \in writes
      PROVE  \E i \in DOMAIN p : p[i].assigned /\ p[i].first = k /\ Reaches(p[i], k, jumps)
  <2>1. PICK i \in DOMAIN q : q[i].assigned /\ q[i].first = k /\ Reaches(q[i], k, jumps)
    BY DEF Recorded
  <2>. QED  BY <1>1, <1>3, <1>4, <2>1
<1>8. ASSUME NEW k \in uses
      PROVE  \E i \in DOMAIN p : (p[i].first < k \/ ~p[i].assigned) /\ Reaches(p[i], k, jumps)
  <2>1. PICK i \in DOMAIN q : (q[i].first < k \/ ~q[i].assigned) /\ Reaches(q[i], k, jumps)
    BY DEF Recorded
  <2>2. Reaches(p[i], k, jumps) /\ (p[i].first < k \/ ~p[i].assigned)
    BY <1>3, <1>4, <2>1
  <2>. QED  BY <1>1, <2>2
<1>. QED  BY <1>1, <1>5, <1>6, <1>7, <1>8 DEF Recorded

LEMMA MaxIsElement ==
  ASSUME NEW n \in Nat, NEW S \in SUBSET (1..n), S # {}
  PROVE  Max(S) \in S
<1>1. S \in SUBSET Nat /\ \A i \in S : i <= n
  OBVIOUS
<1>2. PICK i \in S : \A j \in S : j <= i
  BY <1>1, LargestElement
<1>3. \A j \in S : i >= j
  BY <1>1, <1>2
<1>. QED  BY <1>3 DEF Max

\* The last range of a register that is carried on is stretched to a jump.
LEMMA StretchedEffect ==
  ASSUME Types, BlocksRecorded, NEW r \in Regs, NEW order \in SetToSeqs(Succs(at)),
         \A s \in Carried(at, r) : JumpsTo(at, s) # {}
  PROVE  LET p == Stretched(at, r, order) IN
         /\ Moved(ranges[at][r], p, Len(code[at]), Jumps(function, at))
         /\ \A i \in DOMAIN p : p[i].first = ranges[at][r][i].first
         /\ Carried(at, r) # {} => p[Len(p)].last \in Jumps(function, at)
<1> DEFINE rs == ranges[at][r]
           n == Len(code[at])
           OfBlock == [first : 1..n, last : 1..n, assigned : BOOLEAN]
           taken == {k \in DOMAIN order : order[k] \in Carried(at, r)}
           last == LastJumpFor(at, order[Max(taken)])
           p == Stretched(at, r, order)
<1>1. at \in Blocks /\ n \in Nat /\ Jumps(function, at) \in SUBSET (1..n)
  BY BlocksFacts DEF Types, Jumps, code
<1>2. rs \in Seq(OfBlock)
  BY <1>1 DEF BlocksRecorded, Recorded
<1>3. order \in Seq(Succs(at)) /\ ToSet(order) = Succs(at)
  <2>1. Succs(at) \subseteq Blocks /\ IsFiniteSet(Blocks)
    BY <1>1, BlocksFacts
  <2>2. IsFiniteSet(Succs(at))
    BY <2>1, FS_Subset
  <2>. QED  BY <2>2, Orders
<1>4. CASE taken = {}
  <2>1. Carried(at, r) = {}
    BY <1>3, <1>4 DEF Carried, ToSet
  <2>2. p = rs
    BY <1>4 DEF Stretched
  <2> HIDE DEF p, rs, OfBlock, taken
  <2>. QED  BY <1>2, <2>1, <2>2 DEF Moved, OfBlock, rs, p
<1>5. CASE taken # {}
  <2>1. last \in Jumps(function, at)
    <3>1. taken \in SUBSET (1..Len(order)) /\ Len(order) \in Nat
      BY <1>3
    <3>2. Max(taken) \in taken
      <4> HIDE DEF taken
      <4>. QED  BY <1>5, <3>1, MaxIsElement
    <3>3. JumpsTo(at, order[Max(taken)]) # {}
      BY <3>2
    <3>4. JumpsTo(at, order[Max(taken)]) \in SUBSET (1..n) /\ JumpsTo(at, order[Max(taken)]) \subseteq Jumps(function, at)
      BY <1>1 DEF JumpsTo
    <3> HIDE DEF taken, n
    <3>5. Max(JumpsTo(at, order[Max(taken)])) \in JumpsTo(at, order[Max(taken)])
      BY <1>1, <3>3, <3>4, MaxIsElement
    <3>. QED  BY <3>4, <3>5 DEF LastJumpFor
  <2>2. rs # <<>>
    BY <1>5 DEF Carried
  <2>3. p = [rs EXCEPT ![Len(rs)].last = last]
    BY <1>5 DEF Stretched
  <2> DEFINE m == Len(rs)
  <2> HIDE DEF rs, OfBlock
  <2>4. m \in Nat /\ m >= 1 /\ DOMAIN rs = 1..m /\ \A i \in 1..m : rs[i] \in OfBlock
    BY <1>2, <2>2
  <2>5. last \in 1..n
    BY <1>1, <2>1
  <2> HIDE DEF last, p, taken
  <2>6. DOMAIN p = 1..m /\ p = [i \in 1..m |-> p[i]]
    BY <1>2, <2>3, <2>4
  <2>7. \A i \in 1..m : p[i] = IF i = m THEN [rs[m] EXCEPT !.last = last] ELSE rs[i]
    BY <1>2, <2>3, <2>4
  <2> HIDE DEF m
  <2>8. \A i \in 1..m : /\ p[i] \in OfBlock
                        /\ p[i].first = rs[i].first
                        /\ p[i].assigned = rs[i].assigned
                        /\ p[i].last = IF i = m THEN last ELSE rs[i].last
    BY <2>4, <2>5, <2>7 DEF OfBlock
  <2>9. p \in Seq(OfBlock) /\ Len(p) = m
    BY <2>4, <2>6, <2>8
  <2>. QED  BY <2>1, <2>4, <2>6, <2>8, <2>9 DEF Moved, OfBlock, rs, p
<1>. QED  BY <1>4, <1>5

LEMMA FrontMoved ==
  ASSUME NEW n \in Nat, n >= 1, NEW jumps, NEW q, NEW p, Moved(q, p, n, jumps),
         1 \in DOMAIN q, ~q[1].assigned
  PROVE  /\ Moved(q, FromFront(p), n, jumps)
         /\ FromFront(p)[1].first = 1
         /\ Len(FromFront(p)) = Len(p)
         /\ FromFront(p)[Len(p)].last = p[Len(p)].last
<1> DEFINE OfBlock == [first : 1..n, last : 1..n, assigned : BOOLEAN]
           new == FromFront(p)
           m == Len(p)
<1>1. p \in Seq(OfBlock) /\ DOMAIN p = DOMAIN q /\ 1 \in DOMAIN p
  BY DEF Moved
<1>2. new = [p EXCEPT ![1].first = 1]
  BY DEF FromFront
<1> HIDE DEF OfBlock, new
<1>3. m \in Nat /\ m >= 1 /\ DOMAIN p = 1..m /\ \A i \in 1..m : p[i] \in OfBlock
  BY <1>1
<1>4. DOMAIN new = 1..m /\ new = [i \in 1..m |-> new[i]]
  BY <1>1, <1>2, <1>3
<1>5. \A i \in 1..m : new[i] = IF i = 1 THEN [p[1] EXCEPT !.first = 1] ELSE p[i]
  BY <1>1, <1>2, <1>3
<1>6. 1 \in 1..n
  OBVIOUS
<1> HIDE DEF m
<1>7. \A i \in 1..m : /\ new[i] \in OfBlock
                      /\ new[i].first = IF i = 1 THEN 1 ELSE p[i].first
                      /\ new[i].last = p[i].last
                      /\ new[i].assigned = p[i].assigned
  BY <1>3, <1>5, <1>6 DEF OfBlock
<1>8. new \in Seq(OfBlock) /\ Len(new) = m
  BY <1>3, <1>4, <1>7
<1>9. Moved(q, new, n, jumps)
  BY <1>1, <1>3, <1>4, <1>7, <1>8 DEF Moved, OfBlock
<1>10. new[1].first = 1 /\ new[m].last = p[m].last
  BY <1>3, <1>7
<1>. QED  BY <1>8, <1>9, <1>10 DEF new, m

\* What propagate makes of the ranges when it does not throw.
Propagates ==
  \A s \in Blocks, r \in Regs :
    /\ Moved(ranges[s][r], ranges'[s][r], Len(code[s]), Jumps(function, s))
    /\ s \in Carried(at, r) => ranges'[s][r][1].first = 1
    /\ s = at /\ Carried(at, r) # {} =>
         ranges'[s][r][Len(ranges'[s][r])].last \in Jumps(function, s)

LEMMA PropagateEffect ==
  ASSUME Types, BlocksRecorded, NEW order \in SetToSeqs(Succs(at)),
         \A r \in Regs : \A s \in Carried(at, r) : JumpsTo(at, s) # {},
         ranges' = Propagated(at, order)
  PROVE  /\ Propagates
         /\ ranges' \in [Blocks -> [Regs -> Seq([first : Nat, last : Nat, assigned : BOOLEAN])]]
<1> DEFINE back == [ranges EXCEPT ![at] = [r \in Regs |-> Stretched(at, r, order)]]
           T == [first : Nat, last : Nat, assigned : BOOLEAN]
<1>1. /\ at \in Blocks
      /\ \A s \in Blocks : Len(code[s]) \in Nat /\ Len(code[s]) >= 1
  BY BlocksFacts DEF Types
<1>2. \A s \in Blocks, r \in Regs : back[s][r] = IF s = at THEN Stretched(at, r, order) ELSE ranges[s][r]
  BY <1>1 DEF Types
<1>3. ranges' = [s \in Blocks |-> [r \in Regs |->
        IF s \in Carried(at, r) THEN FromFront(back[s][r]) ELSE back[s][r]]]
  BY DEF Propagated
<1> HIDE DEF back
<1>4. ASSUME NEW s \in Blocks, NEW r \in Regs
      PROVE  /\ Moved(ranges[s][r], ranges'[s][r], Len(code[s]), Jumps(function, s))
             /\ s \in Carried(at, r) => ranges'[s][r][1].first = 1
             /\ s = at /\ Carried(at, r) # {} =>
                  ranges'[s][r][Len(ranges'[s][r])].last \in Jumps(function, s)
             /\ ranges'[s][r] \in Seq(T)
  <2> DEFINE q == ranges[s][r]
             b == back[s][r]
             p == ranges'[s][r]
             n == Len(code[s])
             S == [first : 1..n, last : 1..n, assigned : BOOLEAN]
  <2>1. p = IF s \in Carried(at, r) THEN FromFront(b) ELSE b
    BY <1>3
  <2>2. q \in Seq(S)
    BY DEF BlocksRecorded, Recorded
  <2>3. /\ Moved(q, b, n, Jumps(function, s))
        /\ s = at /\ Carried(at, r) # {} => b[Len(b)].last \in Jumps(function, s)
    <3>1. CASE s = at
      BY <1>2, <3>1, StretchedEffect
    <3>2. CASE s # at
      BY <1>2, <2>2, <3>2 DEF Moved
    <3>. QED  BY <3>1, <3>2
  <2>4. S \subseteq T
    OBVIOUS
  <2>5. s \in Carried(at, r) => q # <<>> /\ ~q[1].assigned
    BY DEF Carried
  <2>6. n \in Nat /\ n >= 1
    BY <1>1
  <2>7. b \in Seq(S)
    BY <2>3 DEF Moved
  <2>8. s \in Carried(at, r) =>
          /\ Moved(q, FromFront(b), n, Jumps(function, s))
          /\ FromFront(b)[1].first = 1
          /\ Len(FromFront(b)) = Len(b)
          /\ FromFront(b)[Len(b)].last = b[Len(b)].last
    <3>1. SUFFICES ASSUME s \in Carried(at, r)
                   PROVE  /\ Moved(q, FromFront(b), n, Jumps(function, s))
                          /\ FromFront(b)[1].first = 1
                          /\ Len(FromFront(b)) = Len(b)
                          /\ FromFront(b)[Len(b)].last = b[Len(b)].last
      OBVIOUS
    <3>2. 1 \in DOMAIN q /\ ~q[1].assigned
      BY <2>2, <2>5, <3>1
    <3> HIDE DEF q, b, n, p
    <3>. QED  BY <2>3, <2>6, <3>2, FrontMoved
  <2> HIDE DEF q, b, n, p, S, T
  <2>9. Moved(q, p, n, Jumps(function, s)) /\ (s \in Carried(at, r) => p[1].first = 1)
    BY <2>1, <2>3, <2>8
  <2>10. p \in Seq(T)
    <3>1. p \in Seq(S)
      BY <2>9 DEF Moved, S
    <3>. QED  BY <2>4, <3>1, SeqOfSubset
  <2>11. ASSUME s = at, Carried(at, r) # {} PROVE p[Len(p)].last \in Jumps(function, s)
    <3>1. q # <<>> /\ DOMAIN b = DOMAIN q
      BY <2>3, <2>11 DEF Carried, Moved, q
    <3>2. Len(b) \in DOMAIN b
      BY <2>2, <2>7, <3>1
    <3>. QED  BY <2>1, <2>3, <2>8, <2>11, <3>2
  <2>. QED  BY <2>9, <2>10, <2>11 DEF q, p, n
<1>5. Propagates
  BY <1>4, Zenon DEF Propagates
<1>6. ranges' \in [Blocks -> [Regs -> Seq(T)]]
  <2>1. \A s \in Blocks : ranges'[s] = [r \in Regs |-> ranges'[s][r]]
    BY <1>3
  <2>2. ranges' = [s \in Blocks |-> [r \in Regs |-> ranges'[s][r]]]
    BY <1>3, <2>1
  <2> HIDE DEF T
  <2>. QED  BY <1>4, <2>2
<1>. QED  BY <1>5, <1>6

\* propagate leaves no register out and lets none in.
LEMMA PropagatesKeeps ==
  ASSUME Types, BlocksRecorded, Propagates, function' = function
  PROVE  /\ \A s \in Blocks, r \in Regs : /\ ranges'[s][r] = <<>> <=> ranges[s][r] = <<>>
                                          /\ Len(ranges'[s][r]) = Len(ranges[s][r])
                                          /\ Enters(s, r)' <=> Enters(s, r)
         /\ \A b \in Blocks : Missing(b)' = Missing(b)
         /\ \A b \in Blocks, r \in Regs : Carried(b, r)' = Carried(b, r)
<1>1. \A b \in Blocks : Succs(b)' = Succs(b) /\ Succs(b) \subseteq Blocks
  BY BlocksFacts DEF Succs
<1>2. ASSUME NEW s \in Blocks, NEW r \in Regs
      PROVE  /\ ranges'[s][r] = <<>> <=> ranges[s][r] = <<>>
             /\ Len(ranges'[s][r]) = Len(ranges[s][r])
             /\ ranges[s][r] # <<>> => ranges'[s][r][1].assigned = ranges[s][r][1].assigned
  <2> DEFINE q == ranges[s][r]
             p == ranges'[s][r]
             S == [first : 1..Len(code[s]), last : 1..Len(code[s]), assigned : BOOLEAN]
  <2>1. q \in Seq(S)
    BY DEF BlocksRecorded, Recorded
  <2>2. p \in Seq(S) /\ DOMAIN p = DOMAIN q /\ \A i \in DOMAIN q : p[i].assigned = q[i].assigned
    BY DEF Propagates, Moved
  <2> HIDE DEF q, p, S
  <2>3. Len(p) = Len(q) /\ (p = <<>> <=> q = <<>>) /\ (q # <<>> => 1 \in DOMAIN q)
    BY <2>1, <2>2
  <2>. QED  BY <2>2, <2>3 DEF q, p
<1>3. \A s \in Blocks, r \in Regs : Enters(s, r)' <=> Enters(s, r)
  BY <1>2 DEF Enters
<1>4. ASSUME NEW b \in Blocks PROVE Missing(b)' = Missing(b)
  BY <1>1, <1>2 DEF Missing
<1>5. ASSUME NEW b \in Blocks, NEW r \in Regs PROVE Carried(b, r)' = Carried(b, r)
  BY <1>1, <1>2 DEF Carried
<1>. QED  BY <1>2, <1>3, <1>4, <1>5

LEMMA PropagateIInv == IInv /\ Propagate => IInv'
<1> SUFFICES ASSUME IInv, Propagate PROVE IInv'
  OBVIOUS
<1>1. Types /\ BlocksRecorded /\ ArgumentsEnter /\ Pending /\ Joined
  BY DEF IInv
<1>2. /\ function' = function /\ code' = code /\ Blocks' = Blocks /\ graph' = graph
      /\ pc = "propagate" /\ pos' = pos /\ worklist' = worklist
      /\ \A b \in Blocks : Succs(b)' = Succs(b) /\ Jumps(function, b) = Jumps(function, b)'
  BY DEF Propagate, code, Blocks, Succs
<1>3. /\ \A b \in Blocks : Len(code[b]) \in Nat /\ DOMAIN code[b] = 1..Len(code[b])
      /\ Blocks = 1..Len(code) /\ Len(code) \in Nat /\ 1 \in Blocks /\ at \in Blocks /\ at \in Nat
      /\ \A b \in Blocks : Succs(b) \subseteq Blocks
      /\ function.liveIns \subseteq Regs
  BY <1>1, BlocksFacts DEF Types
<1>4. CASE pc' = "thrown" /\ at' = at /\ ranges' = ranges
  <2>1. Types'
    BY <1>1, <1>2, <1>4 DEF Types
  <2>2. BlocksRecorded'
    <3>1. ASSUME NEW b \in Blocks, NEW r \in Regs
          PROVE  WritesSeen(b, r)' = WritesSeen(b, r) /\ UsesSeen(b, r)' = UsesSeen(b, r) /\ JumpsSeen(b)' = JumpsSeen(b)
      BY <1>2, <1>4 DEF WritesSeen, UsesSeen, JumpsSeen, Seen
    <3>. QED  BY <1>1, <1>2, <1>4, <3>1 DEF BlocksRecorded
  <2>3. ArgumentsEnter'
    BY <1>1, <1>2, <1>4 DEF ArgumentsEnter, Enters, Entry
  <2>4. Pending' /\ Joined' /\ GraphBuilt'
    BY <1>4 DEF Pending, Joined, GraphBuilt
  <2>. QED  BY <2>1, <2>2, <2>3, <2>4 DEF IInv
<1>5. CASE /\ ~(\E r \in Regs : \E s \in Carried(at, r) : JumpsTo(at, s) = {})
           /\ \E order \in SetToSeqs(Succs(at)) : ranges' = Propagated(at, order)
           /\ \/ at < Len(code) /\ at' = at + 1 /\ pc' = pc
              \/ at = Len(code) /\ at' = 1 /\ pc' = "graph"
  <2>1. Propagates /\ ranges' \in [Blocks -> [Regs -> Seq([first : Nat, last : Nat, assigned : BOOLEAN])]]
    BY <1>1, <1>5, PropagateEffect
  <2>2. /\ \A s \in Blocks, r \in Regs : /\ ranges'[s][r] = <<>> <=> ranges[s][r] = <<>>
                                         /\ Len(ranges'[s][r]) = Len(ranges[s][r])
                                         /\ Enters(s, r)' <=> Enters(s, r)
        /\ \A b \in Blocks : Missing(b)' = Missing(b)
        /\ \A b \in Blocks, r \in Regs : Carried(b, r)' = Carried(b, r)
    BY <1>1, <1>2, <2>1, PropagatesKeeps
  <2>3. Types'
    <3>1. at' \in Blocks /\ pos' = 1 /\ \A b \in Blocks : 1 \in DOMAIN code[b]
      BY <1>1, <1>2, <1>3, <1>5, BlocksFacts DEF Types
    <3>. QED  BY <1>1, <1>2, <1>5, <2>1, <3>1 DEF Types
  <2>4. BlocksRecorded'
    <3>1. SUFFICES ASSUME NEW b \in Blocks, NEW r \in Regs
                   PROVE  Recorded(ranges[b][r], Len(code[b]), WritesSeen(b, r), UsesSeen(b, r), JumpsSeen(b))'
      BY <1>2 DEF BlocksRecorded
    <3>2. /\ WritesSeen(b, r)' = WritesSeen(b, r) /\ UsesSeen(b, r)' = UsesSeen(b, r)
          /\ JumpsSeen(b)' = JumpsSeen(b) /\ JumpsSeen(b) = Jumps(function, b)
      BY <1>2, <1>5 DEF WritesSeen, UsesSeen, JumpsSeen, Seen
    <3>3. /\ WritesSeen(b, r) \in SUBSET (1..Len(code[b])) /\ UsesSeen(b, r) \in SUBSET (1..Len(code[b]))
          /\ Jumps(function, b) \in SUBSET (1..Len(code[b])) /\ Len(code[b]) \in Nat
      BY <1>3 DEF WritesSeen, UsesSeen, Seen, Jumps, code
    <3>4. Recorded(ranges[b][r], Len(code[b]), WritesSeen(b, r), UsesSeen(b, r), Jumps(function, b))
      BY <1>1, <3>2 DEF BlocksRecorded
    <3>5. Moved(ranges[b][r], ranges'[b][r], Len(code[b]), Jumps(function, b))
      BY <2>1 DEF Propagates
    <3>6. Recorded(ranges'[b][r], Len(code[b]), WritesSeen(b, r), UsesSeen(b, r), Jumps(function, b))
      BY <3>3, <3>4, <3>5, MovedRecorded
    <3>. QED  BY <1>2, <3>2, <3>6
  <2>5. ASSUME NEW s \in Blocks, NEW r \in Regs, Enters(s, r)
        PROVE  ranges[s][r][1].first = 1 => ranges'[s][r][1].first = 1
    <3>1. Moved(ranges[s][r], ranges'[s][r], Len(code[s]), Jumps(function, s))
      BY <2>1 DEF Propagates
    <3>2. 1 \in DOMAIN ranges[s][r]
      BY <1>1, <2>5 DEF Types, Enters
    <3>. QED  BY <3>1, <3>2 DEF Moved
  <2>6. ArgumentsEnter'
    <3>1. \A r \in function.liveIns : Entry \in Blocks /\ r \in Regs
      BY <1>3 DEF Entry
    <3>2. \A r \in function.liveIns : Enters(Entry, r) /\ ranges[Entry][r][1].first = 1
      BY <1>1 DEF ArgumentsEnter
    <3>3. \A r \in function.liveIns : Enters(Entry, r)' /\ ranges'[Entry][r][1].first = 1
      BY <2>2, <2>5, <3>1, <3>2 DEF Entry
    <3>. QED  BY <1>2, <3>3 DEF ArgumentsEnter, Entry
  <2>7. Pending'
    BY <1>1, <1>2, <1>5, <2>2 DEF Pending
  <2>8. Joined'
    <3>1. SUFFICES ASSUME NEW b \in Blocks, b < at \/ b = at, NEW r \in Regs, NEW s \in Carried(b, r)
                   PROVE  /\ \E j \in Jumps(function, b) : j <= ranges'[b][r][Len(ranges'[b][r])].last
                          /\ ranges'[s][r][1].first = 1
      <4>1. \A b \in Blocks : b < at' \/ pc' = "graph" => b < at \/ b = at
        BY <1>2, <1>3, <1>5
      <4>. QED  BY <1>2, <1>5, <2>2, <3>1, <4>1 DEF Joined
    <3>2. s \in Blocks /\ Enters(s, r) /\ ranges[b][r] # <<>>
      BY <1>3 DEF Carried, Enters
    <3> DEFINE q == ranges[b][r]
               p == ranges'[b][r]
               m == Len(q)
    <3>3. Moved(q, p, Len(code[b]), Jumps(function, b)) /\ Len(p) = m /\ m \in DOMAIN q
      <4>1. q \in Seq([first : Nat, last : Nat, assigned : BOOLEAN])
        BY <1>1 DEF Types
      <4>2. m \in DOMAIN q
        BY <3>2, <4>1
      <4>. QED  BY <2>1, <2>2, <4>2 DEF Propagates
    <3>4. \A j \in Jumps(function, b) : j \in Nat
      BY <1>3 DEF Jumps, code
    <3>5. p[m].last = q[m].last \/ p[m].last \in Jumps(function, b)
      <4> HIDE DEF q, p, m
      <4>. QED  BY <3>3 DEF Moved
    <3>6. CASE b < at
      <4>1. (\E j \in Jumps(function, b) : j <= q[m].last) /\ ranges[s][r][1].first = 1
        BY <1>1, <1>2, <3>6 DEF Joined
      <4>2. ranges'[s][r][1].first = 1
        BY <2>5, <3>2, <4>1
      <4> HIDE DEF q, p, m
      <4>3. \E j \in Jumps(function, b) : j <= p[m].last
        BY <3>4, <3>5, <4>1
      <4>. QED  BY <3>3, <4>2, <4>3 DEF p
    <3>7. CASE b = at
      <4>1. p[m].last \in Jumps(function, b) /\ ranges'[s][r][1].first = 1
        BY <2>1, <3>2, <3>3, <3>7 DEF Propagates
      <4> HIDE DEF q, p, m
      <4>2. \E j \in Jumps(function, b) : j <= p[m].last
        BY <3>4, <4>1
      <4>. QED  BY <3>3, <4>1, <4>2 DEF p
    <3>. QED  BY <3>1, <3>6, <3>7
  <2>9. GraphBuilt'
    BY <1>2, <1>5 DEF GraphBuilt
  <2>. QED  BY <2>3, <2>4, <2>6, <2>7, <2>8, <2>9 DEF IInv
<1>6. at < Len(code) \/ at = Len(code)
  BY <1>3
<1>. QED  BY <1>4, <1>5, <1>6 DEF Propagate

LEMMA BuildGraphIInv == IInv /\ BuildGraph => IInv'
<1> SUFFICES ASSUME IInv, BuildGraph PROVE IInv'
  OBVIOUS
<1>1. Types /\ BlocksRecorded /\ ArgumentsEnter /\ Pending /\ Joined
  BY DEF IInv
<1>2. /\ function' = function /\ code' = code /\ Blocks' = Blocks /\ ranges' = ranges
      /\ pc = "graph" /\ pc' = "done" /\ at' = at /\ pos' = pos /\ worklist' = worklist
      /\ \A b \in Blocks : Succs(b)' = Succs(b)
  BY DEF BuildGraph, code, Blocks, Succs
<1>3. graph' = [v \in {u \in VRegs : \E b \in Blocks : ranges[b][u] # <<>>} |->
                  UNION {Overlaps(b, v) : b \in {c \in Blocks : ranges[c][v] # <<>>}}]
  BY DEF BuildGraph
<1>4. Types'
  <2>1. \A b, v : Overlaps(b, v) \subseteq Regs
    BY RegistersAssumption DEF Overlaps
  <2>2. DOMAIN graph' \subseteq VRegs /\ \A v \in DOMAIN graph' : graph'[v] \subseteq Regs
    BY <1>3, <2>1
  <2>. QED  BY <1>1, <1>2, <2>2 DEF Types
<1>5. BlocksRecorded'
  <2>1. ASSUME NEW b \in Blocks, NEW r \in Regs
        PROVE  WritesSeen(b, r)' = WritesSeen(b, r) /\ UsesSeen(b, r)' = UsesSeen(b, r) /\ JumpsSeen(b)' = JumpsSeen(b)
    BY <1>2 DEF WritesSeen, UsesSeen, JumpsSeen, Seen
  <2>. QED  BY <1>1, <1>2, <2>1 DEF BlocksRecorded
<1>6. ArgumentsEnter'
  BY <1>1, <1>2 DEF ArgumentsEnter, Enters, Entry
<1>7. Pending'
  BY <1>1, <1>2 DEF Pending, Missing
<1>8. Joined'
  <2>1. \A b \in Blocks, r \in Regs : Carried(b, r)' = Carried(b, r)
    BY <1>2 DEF Carried
  <2>. QED  BY <1>1, <1>2, <2>1 DEF Joined
<1>9. GraphBuilt'
  <2>1. \A b \in Blocks : \A v : Overlaps(b, v)' = Overlaps(b, v)
    BY <1>2 DEF Overlaps, Meet
  <2>. QED  BY <1>2, <1>3, <2>1 DEF GraphBuilt
<1>. QED  BY <1>4, <1>5, <1>6, <1>7, <1>8, <1>9 DEF IInv

LEMMA NextIInv == IInv /\ [Next]_vars => IInv'
<1>1. IInv /\ UNCHANGED vars => IInv'
  <2> SUFFICES ASSUME IInv, UNCHANGED vars PROVE IInv'
    OBVIOUS
  <2>1. /\ function' = function /\ code' = code /\ Blocks' = Blocks /\ ranges' = ranges /\ graph' = graph
        /\ pc' = pc /\ at' = at /\ pos' = pos /\ worklist' = worklist
        /\ \A b \in Blocks : Succs(b)' = Succs(b)
    BY DEF vars, code, Blocks, Succs
  <2>2. Types' /\ ArgumentsEnter'
    BY <2>1 DEF IInv, Types, ArgumentsEnter, Enters, Entry
  <2>3. BlocksRecorded'
    <3>1. ASSUME NEW b \in Blocks, NEW r \in Regs
          PROVE  WritesSeen(b, r)' = WritesSeen(b, r) /\ UsesSeen(b, r)' = UsesSeen(b, r) /\ JumpsSeen(b)' = JumpsSeen(b)
      BY <2>1 DEF WritesSeen, UsesSeen, JumpsSeen, Seen
    <3>. QED  BY <2>1, <3>1 DEF IInv, BlocksRecorded
  <2>4. Pending'
    BY <2>1 DEF IInv, Pending, Missing
  <2>5. Joined'
    <3>1. \A b \in Blocks, r \in Regs : Carried(b, r)' = Carried(b, r)
      BY <2>1 DEF Carried
    <3>. QED  BY <2>1, <3>1 DEF IInv, Joined
  <2>6. GraphBuilt'
    <3>1. \A b \in Blocks : \A v : Overlaps(b, v)' = Overlaps(b, v)
      BY <2>1 DEF Overlaps, Meet
    <3>. QED  BY <2>1, <3>1 DEF IInv, GraphBuilt
  <2>. QED  BY <2>2, <2>3, <2>4, <2>5, <2>6 DEF IInv
<1>. QED  BY <1>1, FillRangesIInv, FillHolesIInv, HolesFilledIInv, PropagateIInv, BuildGraphIInv DEF Next

\* The invariant holds in every reachable state.
THEOREM Invariance == Spec => []IInv
BY InitIInv, NextIInv, PTL DEF Spec

\* Every range lies inside its block, the worklist of fillHoles holds blocks
\* without repetition, and the graph joins registers of the function.
THEOREM TypeCorrect == Spec => []TypeOK
<1>1. IInv => TypeOK
  <2> SUFFICES ASSUME IInv PROVE TypeOK
    OBVIOUS
  <2>1. Types /\ BlocksRecorded
    BY DEF IInv
  <2>2. ASSUME NEW b \in Blocks, NEW r \in Regs, NEW k \in DOMAIN ranges[b][r]
        PROVE  ranges[b][r][k] \in [first : DOMAIN code[b], last : DOMAIN code[b], assigned : BOOLEAN]
    <3> DEFINE S == [first : 1..Len(code[b]), last : 1..Len(code[b]), assigned : BOOLEAN]
    <3>1. ranges[b][r] \in Seq(S)
      BY <2>1 DEF BlocksRecorded, Recorded
    <3>2. DOMAIN code[b] = 1..Len(code[b])
      BY <2>1, BlocksFacts
    <3> HIDE DEF S
    <3>3. ranges[b][r][k] \in S
      BY <3>1
    <3>. QED  BY <3>2, <3>3 DEF S
  <2>. QED  BY <2>1, <2>2 DEF Types, TypeOK
<1>. QED  BY <1>1, Invariance, PTL

-----------------------------------------------------------------------------
(* The ranges meet where registers are live together. *)

\* What the invariant says of a block when fillRanges is through.
LEMMA BlockRecord ==
  ASSUME IInv, pc # "fill", NEW b \in Blocks, NEW r \in Regs
  PROVE  LET rs == ranges[b][r] IN
         /\ \A i \in DOMAIN rs : /\ rs[i].first \in DOMAIN code[b] /\ rs[i].last \in DOMAIN code[b]
                                 /\ rs[i].assigned \in BOOLEAN
         /\ rs # <<>> => 1 \in DOMAIN rs /\ Len(rs) \in DOMAIN rs
         /\ \A i \in DOMAIN rs : rs[i].assigned => r \in Writes(code[b][rs[i].first])
         /\ \A i \in DOMAIN rs : ~rs[i].assigned => i = 1 /\ Enters(b, r)
         /\ Enters(b, r) /\ rs[1].first # 1 =>
              /\ r \in code[b][rs[1].first].uses
              /\ \A k \in DOMAIN code[b] : r \in Writes(code[b][k]) => rs[1].first <= k
         /\ \A k \in DOMAIN code[b] : r \in Writes(code[b][k]) =>
              \E i \in DOMAIN rs : rs[i].assigned /\ rs[i].first = k /\ Reaches(rs[i], k, JumpsSeen(b))
         /\ \A k \in DOMAIN code[b] : r \in code[b][k].uses =>
              \E i \in DOMAIN rs :
                (rs[i].first < k \/ ~rs[i].assigned) /\ Reaches(rs[i], k, JumpsSeen(b))
<1> DEFINE rs == ranges[b][r]
           n == Len(code[b])
           S == [first : 1..n, last : 1..n, assigned : BOOLEAN]
<1>1. Recorded(rs, n, WritesSeen(b, r), UsesSeen(b, r), JumpsSeen(b))
  BY DEF IInv, BlocksRecorded
<1>2. /\ WritesSeen(b, r) = {k \in DOMAIN code[b] : r \in Writes(code[b][k])}
      /\ UsesSeen(b, r) = {k \in DOMAIN code[b] : r \in code[b][k].uses}
  BY DEF WritesSeen, UsesSeen, Seen
<1>3. DOMAIN code[b] = 1..n /\ n \in Nat
  BY BlocksFacts DEF IInv
<1>4. rs \in Seq(S)
  BY <1>1 DEF Recorded
<1>5. \A g \in S : g.first \in 1..n /\ g.last \in 1..n /\ g.assigned \in BOOLEAN
  OBVIOUS
<1> HIDE DEF rs, n, S
<1>6. \A i \in DOMAIN rs : rs[i] \in S
  BY <1>4
<1>7. rs # <<>> => 1 \in DOMAIN rs /\ Len(rs) \in DOMAIN rs
  BY <1>4
<1>8. \A i \in DOMAIN rs : rs[i].assigned => r \in Writes(code[b][rs[i].first])
  BY <1>1, <1>2 DEF Recorded
<1>9. \A i \in DOMAIN rs : ~rs[i].assigned => i = 1 /\ Enters(b, r)
  <2>1. \A i \in DOMAIN rs : rs # <<>>
    BY <1>4
  <2>. QED  BY <1>1, <2>1 DEF Recorded, Enters, rs
<1>10. ASSUME Enters(b, r), rs[1].first # 1
       PROVE  /\ r \in code[b][rs[1].first].uses
              /\ \A k \in DOMAIN code[b] : r \in Writes(code[b][k]) => rs[1].first <= k
  <2>1. 1 \in DOMAIN rs /\ ~rs[1].assigned
    BY <1>7, <1>10 DEF Enters, rs
  <2>2. rs[1].first \in UsesSeen(b, r) /\ \A k \in WritesSeen(b, r) : rs[1].first <= k
    BY <1>1, <1>10, <2>1 DEF Recorded
  <2>. QED  BY <1>2, <2>2
<1>11. \A k \in DOMAIN code[b] : r \in Writes(code[b][k]) =>
         \E i \in DOMAIN rs : rs[i].assigned /\ rs[i].first = k /\ Reaches(rs[i], k, JumpsSeen(b))
  <2>1. \A k \in WritesSeen(b, r) : \E i \in DOMAIN rs :
          rs[i].assigned /\ rs[i].first = k /\ Reaches(rs[i], k, JumpsSeen(b))
    BY <1>1 DEF Recorded
  <2>. QED  BY <1>2, <2>1
<1>12. \A k \in DOMAIN code[b] : r \in code[b][k].uses =>
         \E i \in DOMAIN rs : (rs[i].first < k \/ ~rs[i].assigned) /\ Reaches(rs[i], k, JumpsSeen(b))
  <2>1. \A k \in UsesSeen(b, r) : \E i \in DOMAIN rs :
          (rs[i].first < k \/ ~rs[i].assigned) /\ Reaches(rs[i], k, JumpsSeen(b))
    BY <1>1 DEF Recorded
  <2>. QED  BY <1>2, <2>1
<1>. QED  BY <1>3, <1>5, <1>6, <1>7, <1>8, <1>9, <1>10, <1>11, <1>12 DEF rs

\* In a strict function, a register that enters a block is in it from the start.
LEMMA EntersAtFront ==
  ASSUME IInv, pc = "done", Strict(function), NEW b \in Blocks, NEW r \in Regs, Enters(b, r)
  PROVE  ranges[b][r][1].first = 1
<1>1. Types /\ ArgumentsEnter /\ Pending /\ Joined
  BY DEF IInv
<1>2. WellFormed(function) /\ Blocks = DOMAIN function.code
  BY <1>1, BlocksFacts DEF Blocks, code
<1>3. CASE \E p \in Blocks : b \in Succs(p)
  <2>1. PICK p \in Blocks : b \in Succs(p)
    BY <1>3
  <2>2. ranges[b][r] # <<>> /\ ~ranges[b][r][1].assigned
    BY DEF Enters
  <2>3. Missing(p) = {}
    BY <1>1 DEF Pending
  <2>4. ranges[p][r] # <<>>
    BY <2>1, <2>2, <2>3 DEF Missing
  <2>5. b \in Carried(p, r)
    BY <2>1, <2>2, <2>4 DEF Carried
  <2>. QED  BY <1>1, <2>5 DEF Joined
<1>4. CASE \A p \in Blocks : b \notin Succs(p)
  <2>1. SUFFICES ASSUME ranges[b][r][1].first # 1 PROVE FALSE
    OBVIOUS
  <2> DEFINE k == ranges[b][r][1].first
  <2>2. /\ r \in code[b][k].uses
        /\ \A m \in DOMAIN code[b] : r \in Writes(code[b][m]) => k <= m
        /\ k \in DOMAIN code[b]
    BY <2>1, BlockRecord DEF Enters
  <2>3. DOMAIN code[b] = 1..Len(code[b]) /\ Len(code[b]) \in Nat
    BY <1>1, BlocksFacts
  <2>4. \A m \in 1..(k - 1) : r \notin Writes(function.code[b][m])
    <3>1. \A m \in 1..(k - 1) : m \in DOMAIN code[b] /\ ~(k <= m)
      BY <2>2, <2>3
    <3>. QED  BY <2>2, <3>1 DEF code
  <2> HIDE DEF k
  <2>5. <<<<b, k>>, r>> \in LiveIn(function)
    BY <1>2, <2>2, LiveInIsClosed DEF code
  <2>6. <<<<b, 1>>, r>> \in LiveIn(function)
    BY <1>2, <2>2, <2>4, <2>5, LiveFromStart DEF code
  <2>7. b = 1 /\ r \in function.liveIns
    BY <1>2, <1>4, <2>6 DEF Strict, Succs
  <2>. QED  BY <1>1, <2>1, <2>7 DEF ArgumentsEnter, Entry
<1>. QED  BY <1>3, <1>4

\* A range that begins before position k, or with the block, and reaches k.
Covers(g, b, k) ==
  /\ Reaches(g, k, Jumps(function, b))
  /\ IF g.assigned THEN g.first < k ELSE g.first = 1

Covered(b, k, r) == \E i \in DOMAIN ranges[b][r] : Covers(ranges[b][r][i], b, k)

CoveredFacts ==
  {x \in Facts(function, Regs) : Covered(x[1][1], x[1][2], x[2])}

LEMMA CoveredBackClosed ==
  ASSUME IInv, pc = "done", Strict(function)
  PROVE  BackClosed(function, CoveredFacts)
<1>1. Types /\ Pending /\ Joined /\ \A b \in Blocks : JumpsSeen(b) = Jumps(function, b)
  BY DEF IInv, JumpsSeen
<1>2. /\ WellFormed(function) /\ Blocks = DOMAIN function.code
      /\ \A b \in Blocks : /\ DOMAIN code[b] = 1..Len(code[b]) /\ Len(code[b]) \in Nat
                           /\ Succs(b) \subseteq Blocks
  BY <1>1, BlocksFacts DEF Blocks, code
<1>3. \A b \in Blocks : \A k \in DOMAIN code[b] : \A r \in Regs :
        <<<<b, k>>, r>> \in CoveredFacts <=> Covered(b, k, r)
  <2>1. ASSUME NEW b \in Blocks, NEW k \in DOMAIN code[b], NEW r \in Regs
        PROVE  <<<<b, k>>, r>> \in CoveredFacts <=> Covered(b, k, r)
    <3>1. <<b, k>> \in Points(function)
      BY DEF Points, Blocks, code
    <3>2. <<<<b, k>>, r>> \in Facts(function, Regs)
      BY <3>1 DEF Facts
    <3>. QED  BY <3>2 DEF CoveredFacts
  <2>. QED  BY <2>1
<1>4. ASSUME NEW b \in Blocks, NEW k \in DOMAIN code[b], NEW r \in Regs, r \in code[b][k].uses
      PROVE  Covered(b, k, r)
  <2>1. PICK i \in DOMAIN ranges[b][r] :
          /\ ranges[b][r][i].first < k \/ ~ranges[b][r][i].assigned
          /\ Reaches(ranges[b][r][i], k, JumpsSeen(b))
    BY <1>4, BlockRecord
  <2>2. ~ranges[b][r][i].assigned => i = 1 /\ Enters(b, r)
    BY BlockRecord
  <2>3. ~ranges[b][r][i].assigned => ranges[b][r][i].first = 1
    BY <2>2, EntersAtFront
  <2>. QED  BY <1>1, <2>1, <2>3 DEF Covered, Covers
<1>5. ASSUME NEW b \in Blocks, NEW k \in DOMAIN code[b], NEW r \in Regs, r \notin Writes(code[b][k]),
             k + 1 \in DOMAIN code[b], Covered(b, k + 1, r)
      PROVE  Covered(b, k, r)
  <2>1. PICK i \in DOMAIN ranges[b][r] : Covers(ranges[b][r][i], b, k + 1)
    BY <1>5 DEF Covered
  <2> DEFINE g == ranges[b][r][i]
  <2>2. g.first \in DOMAIN code[b] /\ g.last \in DOMAIN code[b]
        /\ (g.assigned => r \in Writes(code[b][g.first]))
    BY BlockRecord
  <2> HIDE DEF g
  <2>3. Reaches(g, k, Jumps(function, b))
    BY <1>2, <2>1, <2>2 DEF Covers, Reaches, g
  <2>4. g.assigned => g.first # k
    BY <1>5, <2>2
  <2>5. Covers(g, b, k)
    BY <1>2, <2>1, <2>2, <2>3, <2>4 DEF Covers, g
  <2>. QED  BY <2>5 DEF Covered, g
<1>6. ASSUME NEW b \in Blocks, NEW k \in Jumps(function, b), NEW r \in Regs,
             NEW s \in Succs(b), Covered(s, 1, r)
      PROVE  Covered(b, k, r)
  <2>1. s \in Blocks
    BY <1>2
  <2>2. PICK i \in DOMAIN ranges[s][r] : Covers(ranges[s][r][i], s, 1)
    BY <1>6 DEF Covered
  <2>3. /\ ranges[s][r][i].first \in DOMAIN code[s] /\ ranges[s][r][i].assigned \in BOOLEAN
        /\ ~ranges[s][r][i].assigned => i = 1 /\ Enters(s, r)
    BY <2>1, BlockRecord
  <2>4. ~ranges[s][r][i].assigned
    BY <1>2, <2>1, <2>2, <2>3 DEF Covers
  <2>5. ranges[s][r] # <<>> /\ ~ranges[s][r][1].assigned
    BY <2>3, <2>4 DEF Enters
  <2>6. ranges[b][r] # <<>>
    BY <1>1, <2>5 DEF Pending, Missing
  <2>7. s \in Carried(b, r)
    BY <2>5, <2>6 DEF Carried
  <2> DEFINE m == Len(ranges[b][r])
             g == ranges[b][r][m]
  <2>8. PICK j \in Jumps(function, b) : j <= g.last
    BY <1>1, <2>7 DEF Joined
  <2>9a. m \in DOMAIN ranges[b][r]
    BY <2>6, BlockRecord
  <2>9. /\ g.first \in DOMAIN code[b] /\ g.assigned \in BOOLEAN
        /\ (g.assigned => r \in Writes(code[b][g.first]))
        /\ (~g.assigned => m = 1 /\ Enters(b, r))
    <3>1. \A x \in DOMAIN ranges[b][r] :
            /\ ranges[b][r][x].first \in DOMAIN code[b] /\ ranges[b][r][x].assigned \in BOOLEAN
            /\ ranges[b][r][x].assigned => r \in Writes(code[b][ranges[b][r][x].first])
            /\ ~ranges[b][r][x].assigned => x = 1 /\ Enters(b, r)
      BY BlockRecord
    <3> HIDE DEF m
    <3>. QED  BY <2>9a, <3>1
  <2>10. ~g.assigned => g.first = 1
    BY <2>9, EntersAtFront
  <2> HIDE DEF m, g
  <2>11. g.assigned => g.first < k
    <3>1. \A w \in DOMAIN code[b] : r \in Writes(code[b][w]) => w < k
      BY <1>2, WrittenBeforeJumps DEF code
    <3>. QED  BY <2>9, <3>1
  <2>12. Covers(g, b, k)
    BY <2>8, <2>10, <2>11 DEF Covers, Reaches
  <2>. QED  BY <2>9a, <2>12 DEF Covered, g
<1>7. ASSUME NEW b \in DOMAIN function.code, NEW k \in DOMAIN function.code[b], NEW r \in Regs
      PROVE  /\ r \in function.code[b][k].uses => <<<<b, k>>, r>> \in CoveredFacts
             /\ /\ r \notin Writes(function.code[b][k])
                /\ \/ k + 1 \in DOMAIN function.code[b] /\ <<<<b, k + 1>>, r>> \in CoveredFacts
                   \/ k \in Jumps(function, b) /\ \E s \in function.succs[b] : <<<<s, 1>>, r>> \in CoveredFacts
                => <<<<b, k>>, r>> \in CoveredFacts
  <2>1. b \in Blocks /\ k \in DOMAIN code[b] /\ code[b] = function.code[b]
    BY DEF Blocks, code
  <2>2. r \in function.code[b][k].uses => <<<<b, k>>, r>> \in CoveredFacts
    BY <1>3, <1>4, <2>1
  <2>3. ASSUME r \notin Writes(function.code[b][k]),
               k + 1 \in DOMAIN function.code[b], <<<<b, k + 1>>, r>> \in CoveredFacts
        PROVE  <<<<b, k>>, r>> \in CoveredFacts
    BY <1>3, <1>5, <2>1, <2>3
  <2>4. ASSUME k \in Jumps(function, b), NEW s \in function.succs[b], <<<<s, 1>>, r>> \in CoveredFacts
        PROVE  <<<<b, k>>, r>> \in CoveredFacts
    <3>1. s \in Succs(b) /\ s \in Blocks /\ 1 \in DOMAIN code[s]
      BY <1>1, <1>2, <2>1, BlocksFacts DEF Succs
    <3>. QED  BY <1>3, <1>6, <2>1, <2>4, <3>1
  <2>. QED  BY <2>2, <2>3, <2>4
<1>. QED  BY <1>7 DEF BackClosed

\* A range that holds position k or reaches over it to a jump.
Spans(g, b, k) ==
  /\ g.first <= k
  /\ Reaches(g, k, Jumps(function, b))
  /\ \A j \in Jumps(function, b) : g.first <= j

Spanned(b, k, r) == \E i \in DOMAIN ranges[b][r] : Spans(ranges[b][r][i], b, k)

\* What is covered is spanned, and so is what an instruction writes.
LEMMA CoveredIsSpanned ==
  ASSUME IInv, pc = "done", NEW b \in Blocks, NEW k \in DOMAIN code[b], NEW r \in Regs,
         \/ Covered(b, k, r)
         \/ r \in Writes(code[b][k])
         \/ k + 1 \in DOMAIN code[b] /\ Covered(b, k + 1, r)
  PROVE  Spanned(b, k, r)
<1>1. /\ WellFormed(function) /\ Blocks = DOMAIN function.code
      /\ DOMAIN code[b] = 1..Len(code[b]) /\ Len(code[b]) \in Nat
      /\ JumpsSeen(b) = Jumps(function, b)
      /\ Jumps(function, b) \subseteq DOMAIN code[b]
  BY BlocksFacts DEF IInv, Blocks, code, JumpsSeen, Jumps
<1>2. ASSUME NEW i \in DOMAIN ranges[b][r], Reaches(ranges[b][r][i], k, Jumps(function, b)),
             IF ranges[b][r][i].assigned THEN ranges[b][r][i].first <= k ELSE ranges[b][r][i].first = 1
      PROVE  Spanned(b, k, r)
  <2> DEFINE g == ranges[b][r][i]
  <2>1. g.first \in DOMAIN code[b] /\ (g.assigned => r \in Writes(code[b][g.first]))
    BY BlockRecord
  <2>2. ASSUME NEW j \in Jumps(function, b) PROVE g.first <= j
    <3>1. CASE g.assigned
      <4>1. r \in Writes(function.code[b][g.first]) /\ g.first \in DOMAIN function.code[b]
        BY <2>1, <3>1 DEF code
      <4> HIDE DEF g
      <4>2. g.first < j
        BY <1>1, <4>1, WrittenBeforeJumps
      <4>. QED  BY <1>1, <2>1, <4>2
    <3>2. CASE ~g.assigned
      BY <1>1, <1>2, <3>2
    <3>. QED  BY <3>1, <3>2
  <2>3. g.first <= k
    BY <1>1, <1>2
  <2>. QED  BY <1>2, <2>2, <2>3 DEF Spanned, Spans
<1>3. CASE Covered(b, k, r)
  <2>1. PICK i \in DOMAIN ranges[b][r] : Covers(ranges[b][r][i], b, k)
    BY <1>3 DEF Covered
  <2>2. ranges[b][r][i].first \in DOMAIN code[b]
    BY BlockRecord
  <2>. QED  BY <1>1, <1>2, <2>1, <2>2 DEF Covers
<1>4. CASE r \in Writes(code[b][k])
  <2>1. PICK i \in DOMAIN ranges[b][r] :
          ranges[b][r][i].assigned /\ ranges[b][r][i].first = k /\ Reaches(ranges[b][r][i], k, JumpsSeen(b))
    BY <1>4, BlockRecord
  <2>. QED  BY <1>1, <1>2, <2>1
<1>5. CASE k + 1 \in DOMAIN code[b] /\ Covered(b, k + 1, r)
  <2>1. PICK i \in DOMAIN ranges[b][r] : Covers(ranges[b][r][i], b, k + 1)
    BY <1>5 DEF Covered
  <2>2. ranges[b][r][i].first \in DOMAIN code[b] /\ ranges[b][r][i].last \in DOMAIN code[b]
    BY BlockRecord
  <2>3. Reaches(ranges[b][r][i], k, Jumps(function, b))
    BY <1>1, <2>1, <2>2 DEF Covers, Reaches
  <2>. QED  BY <1>1, <1>2, <2>1, <2>2, <2>3 DEF Covers
<1>. QED  BY <1>3, <1>4, <1>5

\* Two registers spanned at one position are joined in the graph.
LEMMA SpannedAreJoined ==
  ASSUME IInv, pc = "done", NEW b \in Blocks, NEW k \in DOMAIN code[b],
         NEW v \in VRegs, NEW r \in Regs \ {v}, Spanned(b, k, v), Spanned(b, k, r)
  PROVE  Canonical[r] \in graph[v]
<1>1. PICK i \in DOMAIN ranges[b][v] : Spans(ranges[b][v][i], b, k)
  BY DEF Spanned
<1>2. PICK j \in DOMAIN ranges[b][r] : Spans(ranges[b][r][j], b, k)
  BY DEF Spanned
<1> DEFINE g == ranges[b][v][i]
           h == ranges[b][r][j]
<1>3. v \in Regs /\ DOMAIN code[b] = 1..Len(code[b]) /\ Len(code[b]) \in Nat /\ Jumps(function, b) \subseteq DOMAIN code[b]
  BY BlocksFacts DEF IInv, Regs, Jumps, code
<1>4. g.first \in DOMAIN code[b] /\ g.last \in DOMAIN code[b]
  BY <1>3, BlockRecord
<1>5. h.first \in DOMAIN code[b] /\ h.last \in DOMAIN code[b]
  BY <1>3, BlockRecord
<1>6. Meet(g, h)
  <2> HIDE DEF g, h
  <2>1. Spans(g, b, k) /\ Spans(h, b, k)
    BY <1>1, <1>2 DEF g, h
  <2>2. g.first <= h.last
    BY <1>3, <1>4, <1>5, <2>1 DEF Spans, Reaches
  <2>3. h.first <= g.last
    BY <1>3, <1>4, <1>5, <2>1 DEF Spans, Reaches
  <2>. QED  BY <2>2, <2>3 DEF Meet
<1>7. Canonical[r] \in Overlaps(b, v)
  BY <1>6 DEF Overlaps
<1>8. ranges[b][v] # <<>>
  BY <1>1
<1>9. graph[v] = UNION {Overlaps(c, v) : c \in {d \in Blocks : ranges[d][v] # <<>>}}
  BY <1>8 DEF IInv, GraphBuilt
<1>. QED  BY <1>7, <1>8, <1>9

LEMMA DoneInterference ==
  ASSUME IInv, Strict(function)
  PROVE  Interference
<1> SUFFICES ASSUME pc = "done",
                    NEW p \in Points(function), NEW v \in VRegs, NEW r \in Regs \ {v},
                    \/ <<p, v>> \in Live /\ <<p, r>> \in Live
                    \/ v \in Written[p] /\ r \in LiveAfter(function, Live, p)
                    \/ r \in Written[p] /\ v \in LiveAfter(function, Live, p)
             PROVE  Canonical[r] \in graph[v]
  BY DEF Interference
<1>1. /\ WellFormed(function) /\ Blocks = DOMAIN function.code /\ v \in Regs
  BY BlocksFacts DEF IInv, Blocks, code, Regs
<1>2. PICK b \in Blocks : p \in {b} \X DOMAIN code[b]
  BY DEF Points, Blocks, code
<1>3. PICK k \in DOMAIN code[b] : p = <<b, k>>
  BY <1>2
<1>4. Live \subseteq CoveredFacts
  <2>1. CoveredFacts \in SUBSET Facts(function, Regs)
    BY DEF CoveredFacts
  <2>. QED  BY <1>1, <2>1, CoveredBackClosed, LiveInIsLeast DEF Live
<1>5. ASSUME NEW u \in Regs, <<p, u>> \in Live PROVE Covered(b, k, u)
  BY <1>3, <1>4, <1>5 DEF CoveredFacts
<1>6. Written[p] = Writes(code[b][k])
  BY <1>3 DEF Written, WrittenIn, Instruction, code
<1>7. ASSUME NEW u \in Regs, Written[p] # {}, u \in LiveAfter(function, Live, p)
      PROVE  k + 1 \in DOMAIN code[b] /\ Covered(b, k + 1, u)
  <2>1. PICK y \in Live : Follows(function, p, y[1]) /\ y[2] = u
    BY <1>7 DEF LiveAfter
  <2>2. y \in CoveredFacts
    BY <1>4
  <2>3. y[1] \in Points(function) /\ Covered(y[1][1], y[1][2], u)
    BY <2>1, <2>2 DEF CoveredFacts, Facts
  <2>4. k \notin Jumps(function, b)
    BY <1>1, <1>6, <1>7 DEF WellFormed, code
  <2>5. y[1] = <<b, k + 1>> /\ k + 1 \in DOMAIN function.code[b]
    BY <1>1, <1>3, <2>1, <2>3, <2>4, FollowsCases DEF code
  <2>. QED  BY <2>3, <2>5 DEF code
<1>8. Spanned(b, k, v) /\ Spanned(b, k, r)
  <2>1. CASE <<p, v>> \in Live /\ <<p, r>> \in Live
    BY <1>1, <1>5, <2>1, CoveredIsSpanned
  <2>2. CASE v \in Written[p] /\ r \in LiveAfter(function, Live, p)
    <3>1. k + 1 \in DOMAIN code[b] /\ Covered(b, k + 1, r)
      BY <1>7, <2>2
    <3>. QED  BY <1>1, <1>6, <2>2, <3>1, CoveredIsSpanned
  <2>3. CASE r \in Written[p] /\ v \in LiveAfter(function, Live, p)
    <3>1. k + 1 \in DOMAIN code[b] /\ Covered(b, k + 1, v)
      BY <1>1, <1>7, <2>3
    <3>. QED  BY <1>1, <1>6, <2>3, <3>1, CoveredIsSpanned
  <2>. QED  BY <2>1, <2>2, <2>3
<1>. QED  BY <1>8, SpannedAreJoined

\* The graph joins two registers of any strict function wherever one is live
\* or written while the other is live: no path through the blocks, loops
\* included, reaches a position that the ranges leave out.
THEOREM InterferenceFound ==
  ASSUME \A f \in Programs : Strict(f)
  PROVE  Spec => []Interference
<1>1. IInv => Interference
  BY DoneInterference DEF IInv, Types
<1>. QED  BY <1>1, Invariance, PTL

-----------------------------------------------------------------------------
(* A register enters a block exactly where it is live. *)

\* A register that can be passed on to a successor is live in a block that
\* neither writes it nor has a range for it.
LEMMA HoleIsLive ==
  ASSUME IInv, pc = "holes", EntersLive, EdgesTaken(function),
         NEW b \in Blocks, NEW r \in Missing(b)
  PROVE  <<<<b, 1>>, r>> \in Live
<1>1. WellFormed(function) /\ Blocks = DOMAIN function.code /\ Succs(b) \subseteq Blocks
  BY BlocksFacts DEF IInv, Blocks, code
<1>2. r \in Regs /\ ranges[b][r] = <<>>
  BY DEF Missing
<1>3. PICK s \in Succs(b) : Enters(s, r)
  BY DEF Missing, Enters
<1>4. PICK j \in Jumps(function, b) : s # 1 /\ Follows(function, <<b, j>>, <<s, 1>>)
  BY <1>1 DEF EdgesTaken, Succs
<1>5. <<<<s, 1>>, r>> \in LiveIn(function)
  BY <1>1, <1>2, <1>3, <1>4 DEF EntersLive, Live, Entry
<1>6. \A k \in DOMAIN code[b] : r \notin Writes(code[b][k])
  <2>1. WritesSeen(b, r) = {}
    BY <1>2, NothingRecorded DEF IInv
  <2>. QED  BY <2>1 DEF WritesSeen, Seen
<1>7. j \in DOMAIN code[b] /\ DOMAIN code[b] = 1..Len(code[b]) /\ Len(code[b]) \in Nat
  BY BlocksFacts DEF IInv, Jumps, code
<1>8. <<<<b, j>>, r>> \in LiveIn(function)
  BY <1>1, <1>2, <1>4, <1>5, <1>6, <1>7, LiveInIsClosed DEF code
<1>9. \A m \in 1..(j - 1) : r \notin Writes(function.code[b][m])
  <2>1. \A m \in 1..(j - 1) : m \in DOMAIN code[b]
    BY <1>7
  <2>. QED  BY <1>6, <2>1 DEF code
<1>. QED  BY <1>1, <1>2, <1>7, <1>8, <1>9, LiveFromStart DEF Live, code

\* fillRanges lets a register in at a use that no write of the block precedes.
LEMMA FillRangesEntersLive == IInv /\ EntersLive /\ FillRanges => EntersLive'
<1> SUFFICES ASSUME IInv, EntersLive, FillRanges PROVE EntersLive'
  OBVIOUS
<1>1. Types /\ BlocksRecorded
  BY DEF IInv
<1>2. /\ WellFormed(function) /\ Blocks = DOMAIN function.code
      /\ at \in Blocks /\ pos \in DOMAIN code[at]
      /\ DOMAIN code[at] = 1..Len(code[at]) /\ Len(code[at]) \in Nat
  BY <1>1, BlocksFacts DEF Types, Blocks, code
<1>3. function' = function /\ Blocks' = Blocks /\ Live' = Live
  BY DEF FillRanges, Blocks, code, Live
<1>4. SUFFICES ASSUME NEW b \in Blocks, NEW r \in Regs, Enters(b, r)'
               PROVE  <<<<b, 1>>, r>> \in Live \/ (b = Entry /\ r \in function.liveIns)
  BY <1>3 DEF EntersLive, Entry
<1>5. CASE Enters(b, r)
  BY <1>5 DEF EntersLive
<1>6. CASE ~Enters(b, r)
  <2>1. b = at
    <3>1. b # at => ranges'[b] = ranges[b]
      BY <1>1 DEF FillRanges, Types
    <3>. QED  BY <1>4, <1>6, <3>1 DEF Enters
  <2>2. WithInstruction(ranges[b][r], ranges'[b][r], Len(code[b]), pos, code[b][pos], r,
                        WritesSeen(b, r), UsesSeen(b, r))
    BY <1>1, <2>1, FillRangesEffect
  <2>3. ranges[b][r] = <<>>
    BY <1>4, <1>6, <2>2 DEF WithInstruction, SameStart, Enters
  <2>4. r \in code[b][pos].uses
    BY <1>4, <2>2, <2>3 DEF WithInstruction, Enters
  <2>5. WritesSeen(b, r) = {}
    BY <1>1, <2>3, NothingRecorded
  <2>6. \A m \in 1..(pos - 1) : r \notin Writes(function.code[b][m])
    <3>1. \A m \in 1..(pos - 1) : m \in Seen(b)
      BY <1>2, <2>1 DEF Seen
    <3>. QED  BY <2>5, <3>1 DEF WritesSeen, code
  <2>7. <<<<b, pos>>, r>> \in LiveIn(function)
    BY <1>2, <2>1, <2>4, LiveInIsClosed DEF code
  <2>. QED  BY <1>2, <2>1, <2>6, <2>7, LiveFromStart DEF Live, code
<1>. QED  BY <1>5, <1>6

LEMMA FillHolesEntersLive ==
  IInv /\ EntersLive /\ EdgesTaken(function) /\ FillHoles => EntersLive'
<1> SUFFICES ASSUME IInv, EntersLive, EdgesTaken(function), FillHoles PROVE EntersLive'
  OBVIOUS
<1>1. function' = function /\ Blocks' = Blocks /\ Live' = Live /\ pc = "holes"
  BY DEF FillHoles, Blocks, code, Live
<1>2. SUFFICES ASSUME NEW b \in Blocks, NEW r \in Regs, Enters(b, r)'
               PROVE  <<<<b, 1>>, r>> \in Live \/ (b = Entry /\ r \in function.liveIns)
  BY <1>1 DEF EntersLive, Entry
<1>3. CASE r \in Missing(b)
  BY <1>1, <1>3, HoleIsLive
<1>4. CASE r \notin Missing(b)
  <2>1. ranges'[b][r] = ranges[b][r]
    BY <1>4, FillHolesEffect DEF FillsHoles, IInv
  <2>. QED  BY <1>2, <2>1 DEF EntersLive, Enters
<1>. QED  BY <1>3, <1>4

LEMMA NextEntersLive ==
  IInv /\ EntersLive /\ EdgesTaken(function) /\ [Next]_vars => EntersLive'
<1> SUFFICES ASSUME IInv, EntersLive, EdgesTaken(function), [Next]_vars PROVE EntersLive'
  OBVIOUS
<1>1. CASE FillRanges
  BY <1>1, FillRangesEntersLive
<1>2. CASE FillHoles
  BY <1>2, FillHolesEntersLive
<1>3. CASE HolesFilled \/ BuildGraph \/ UNCHANGED vars
  <2>1. function' = function /\ Blocks' = Blocks /\ Live' = Live /\ ranges' = ranges
    BY <1>3 DEF HolesFilled, BuildGraph, vars, Blocks, code, Live
  <2>. QED  BY <2>1 DEF EntersLive, Enters, Entry
<1>4. CASE Propagate
  <2>1. function' = function /\ Blocks' = Blocks /\ Live' = Live
    BY <1>4 DEF Propagate, Blocks, code, Live
  <2>2. \A b \in Blocks, r \in Regs : Enters(b, r)' <=> Enters(b, r)
    <3>1. CASE ranges' = ranges
      BY <3>1 DEF Enters
    <3>2. CASE ranges' # ranges
      <4>1. PICK order \in SetToSeqs(Succs(at)) :
              /\ ranges' = Propagated(at, order)
              /\ \A r \in Regs : \A s \in Carried(at, r) : JumpsTo(at, s) # {}
        BY <1>4, <3>2 DEF Propagate
      <4>2. Propagates
        BY <4>1, PropagateEffect DEF IInv
      <4>. QED  BY <2>1, <4>2, PropagatesKeeps DEF IInv
    <3>. QED  BY <3>1, <3>2
  <2>. QED  BY <2>1, <2>2 DEF EntersLive, Entry
<1>. QED  BY <1>1, <1>2, <1>3, <1>4 DEF Next

\* A register is used from position k on before it is written, in the block or
\* behind it.
Awaited(b, k, r) ==
  \/ \E u \in DOMAIN code[b] : /\ k <= u /\ r \in code[b][u].uses
                               /\ \A m \in DOMAIN code[b] : k <= m /\ m < u => r \notin Writes(code[b][m])
  \/ /\ \A m \in DOMAIN code[b] : k <= m => r \notin Writes(code[b][m])
     /\ \E s \in Succs(b) : Enters(s, r)

AwaitedFacts == {x \in Facts(function, Regs) : Awaited(x[1][1], x[1][2], x[2])}

\* A register that a block awaits at its start enters it.
LEMMA AwaitedEnters ==
  ASSUME IInv, pc \in {"propagate", "graph", "done"},
         NEW b \in Blocks, NEW r \in Regs, Awaited(b, 1, r)
  PROVE  Enters(b, r)
<1>1. DOMAIN code[b] = 1..Len(code[b]) /\ Len(code[b]) \in Nat
  BY BlocksFacts DEF IInv
<1>2. \A i \in DOMAIN ranges[b][r] :
        /\ ranges[b][r][i].first \in DOMAIN code[b]
        /\ ranges[b][r][i].assigned => r \in Writes(code[b][ranges[b][r][i].first])
        /\ ~ranges[b][r][i].assigned => Enters(b, r)
  BY BlockRecord
<1>3. CASE \E u \in DOMAIN code[b] :
             /\ 1 <= u /\ r \in code[b][u].uses
             /\ \A m \in DOMAIN code[b] : 1 <= m /\ m < u => r \notin Writes(code[b][m])
  <2>1. PICK u \in DOMAIN code[b] :
             /\ 1 <= u /\ r \in code[b][u].uses
             /\ \A m \in DOMAIN code[b] : 1 <= m /\ m < u => r \notin Writes(code[b][m])
    BY <1>3
  <2>2. PICK i \in DOMAIN ranges[b][r] :
             ranges[b][r][i].first < u \/ ~ranges[b][r][i].assigned
    BY <2>1, BlockRecord
  <2>. QED  BY <1>1, <1>2, <2>1, <2>2
<1>4. CASE /\ \A m \in DOMAIN code[b] : 1 <= m => r \notin Writes(code[b][m])
           /\ \E s \in Succs(b) : Enters(s, r)
  <2>1. Missing(b) = {}
    BY DEF IInv, Pending
  <2>2. ranges[b][r] # <<>>
    BY <1>4, <2>1 DEF Missing, Enters
  <2>3. 1 \in DOMAIN ranges[b][r]
    BY <2>2, BlockRecord
  <2>. QED  BY <1>1, <1>2, <1>4, <2>3
<1>. QED  BY <1>3, <1>4 DEF Awaited

LEMMA AwaitedBackClosed ==
  ASSUME IInv, pc \in {"propagate", "graph", "done"}
  PROVE  BackClosed(function, AwaitedFacts)
<1>1. /\ WellFormed(function) /\ Blocks = DOMAIN function.code
      /\ \A b \in Blocks : /\ DOMAIN code[b] = 1..Len(code[b]) /\ Len(code[b]) \in Nat
                           /\ 1 \in DOMAIN code[b] /\ Succs(b) \subseteq Blocks
  BY BlocksFacts DEF IInv, Blocks, code
<1>2. ASSUME NEW b \in Blocks, NEW k \in DOMAIN code[b], NEW r \in Regs
      PROVE  <<<<b, k>>, r>> \in AwaitedFacts <=> Awaited(b, k, r)
  <2>1. <<b, k>> \in Points(function)
    BY DEF Points, Blocks, code
  <2>2. <<<<b, k>>, r>> \in Facts(function, Regs)
    BY <2>1 DEF Facts
  <2>. QED  BY <2>2 DEF AwaitedFacts
<1>3. ASSUME NEW b \in Blocks, NEW k \in DOMAIN code[b], NEW r \in Regs, r \in code[b][k].uses
      PROVE  Awaited(b, k, r)
  <2>1. k <= k /\ \A m \in DOMAIN code[b] : ~(k <= m /\ m < k)
    BY <1>1
  <2>. QED  BY <1>3, <2>1 DEF Awaited
<1>4. ASSUME NEW b \in Blocks, NEW k \in DOMAIN code[b], NEW r \in Regs, r \notin Writes(code[b][k]),
             k + 1 \in DOMAIN code[b], Awaited(b, k + 1, r)
      PROVE  Awaited(b, k, r)
  <2>1. \A m \in DOMAIN code[b] : k <= m => m = k \/ k + 1 <= m
    BY <1>1
  <2>2. \A u \in DOMAIN code[b] : k + 1 <= u => k <= u
    BY <1>1
  <2>. QED  BY <1>4, <2>1, <2>2 DEF Awaited
<1>5. ASSUME NEW b \in Blocks, NEW k \in Jumps(function, b), NEW r \in Regs, r \notin Writes(code[b][k]),
             NEW s \in Succs(b), Awaited(s, 1, r)
      PROVE  Awaited(b, k, r)
  <2>1. Enters(s, r)
    BY <1>1, <1>5, AwaitedEnters
  <2>2. ASSUME NEW m \in DOMAIN code[b], k <= m, r \in Writes(code[b][m]) PROVE FALSE
    <3>1. m < k
      BY <1>1, <2>2, WrittenBeforeJumps DEF code
    <3>2. k \in DOMAIN code[b]
      BY DEF Jumps, code
    <3>. QED  BY <1>1, <2>2, <3>1, <3>2
  <2>. QED  BY <2>1, <2>2 DEF Awaited
<1>6. ASSUME NEW b \in DOMAIN function.code, NEW k \in DOMAIN function.code[b], NEW r \in Regs
      PROVE  /\ r \in function.code[b][k].uses => <<<<b, k>>, r>> \in AwaitedFacts
             /\ /\ r \notin Writes(function.code[b][k])
                /\ \/ k + 1 \in DOMAIN function.code[b] /\ <<<<b, k + 1>>, r>> \in AwaitedFacts
                   \/ k \in Jumps(function, b) /\ \E s \in function.succs[b] : <<<<s, 1>>, r>> \in AwaitedFacts
                => <<<<b, k>>, r>> \in AwaitedFacts
  <2>1. b \in Blocks /\ k \in DOMAIN code[b] /\ code[b] = function.code[b]
    BY DEF Blocks, code
  <2>2. r \in function.code[b][k].uses => <<<<b, k>>, r>> \in AwaitedFacts
    BY <1>2, <1>3, <2>1
  <2>3. ASSUME r \notin Writes(function.code[b][k]),
               k + 1 \in DOMAIN function.code[b], <<<<b, k + 1>>, r>> \in AwaitedFacts
        PROVE  <<<<b, k>>, r>> \in AwaitedFacts
    BY <1>2, <1>4, <2>1, <2>3
  <2>4. ASSUME r \notin Writes(function.code[b][k]), k \in Jumps(function, b),
               NEW s \in function.succs[b], <<<<s, 1>>, r>> \in AwaitedFacts
        PROVE  <<<<b, k>>, r>> \in AwaitedFacts
    <3>1. s \in Succs(b) /\ s \in Blocks /\ 1 \in DOMAIN code[s]
      BY <1>1, <2>1 DEF Succs
    <3>. QED  BY <1>2, <1>5, <2>1, <2>4, <3>1
  <2>. QED  BY <2>2, <2>3, <2>4
<1>. QED  BY <1>6 DEF BackClosed

LEMMA FilledIsExact ==
  ASSUME IInv, EntersLive
  PROVE  BoundaryExact
<1> SUFFICES ASSUME pc \in {"propagate", "graph", "done"}, NEW b \in Blocks, NEW r \in Regs
             PROVE  Enters(b, r) <=> <<<<b, 1>>, r>> \in Live \/ (b = Entry /\ r \in function.liveIns)
  BY DEF BoundaryExact, Enters
<1>1. ASSUME <<<<b, 1>>, r>> \in Live PROVE Enters(b, r)
  <2>1. WellFormed(function)
    BY BlocksFacts DEF IInv
  <2>2. Live \subseteq AwaitedFacts
    <3>1. AwaitedFacts \in SUBSET Facts(function, Regs)
      BY DEF AwaitedFacts
    <3>. QED  BY <2>1, <3>1, AwaitedBackClosed, LiveInIsLeast DEF Live
  <2>3. Awaited(b, 1, r)
    BY <1>1, <2>2 DEF AwaitedFacts
  <2>. QED  BY <2>3, AwaitedEnters
<1>2. ASSUME b = Entry, r \in function.liveIns PROVE Enters(b, r)
  BY <1>2 DEF IInv, ArgumentsEnter
<1>. QED  BY <1>1, <1>2 DEF EntersLive

\* When the worklist of fillHoles runs empty, the registers that enter a block
\* are those that are live where it begins, and the arguments of the function
\* at its entry, if a jump leads to each successor of a block.
THEOREM HolesFilledExactly ==
  ASSUME \A f \in Programs : EdgesTaken(f)
  PROVE  Spec => []BoundaryExact
<1>1. Init => EntersLive
  BY DEF Init, EntersLive, Enters, Entry, Blocks, code
<1>2. IInv => EdgesTaken(function)
  BY DEF IInv, Types
<1>3. IInv /\ EntersLive /\ [Next]_vars => EntersLive'
  BY <1>2, NextEntersLive
<1>4. IInv /\ EntersLive => BoundaryExact
  BY FilledIsExact
<1>. QED  BY <1>1, <1>3, <1>4, Invariance, PTL DEF Spec
=============================================================================
