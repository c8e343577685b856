------------------------ MODULE ParallelCopy_proofs ------------------------
(***************************************************************************)
(* When the phis of an edge are copied as if at once, and when not: for    *)
(* every list of copies, those that read each other's registers included,  *)
(* any jumps the code is put in front of and any number of them passed.    *)
(***************************************************************************)
EXTENDS ParallelCopy, SequenceTheorems, Induction, TLAPS

\* The phi takes the register of a phi: its source has to be saved.
Bound(i) == phis[i].src \in Destinations

\* What nothing overwrites with another value.
Constant(o) ==
  o \in Destinations => \E f \in DOMAIN phis : phis[f].dst = o /\ phis[f].src = o

\* The copy at m, the move at k is the one of the i-th phi.
CopyOf(m, i) == copies[m].dst = phis[i].dst
MoveOf(k, i) == code[k].dst = phis[i].dst
Save(t, i) == [dst |-> t, src |-> phis[i].src]

\* Executed since the last jump; or ever.
Done(i) == \E k \in DOMAIN code : MoveOf(k, i) /\ k < at
Ever(i) == Done(i) \/ passed > 0

PhisOK ==
  /\ phis \in PhiLists
  /\ \A i, j \in DOMAIN phis : phis[i].dst = phis[j].dst => i = j

\* The copies left are in the order of the phis; bound ones come last, and only
\* the first of them may have been saved, by the last move there is.
Saved(m, i) ==
  /\ m = 1 /\ Bound(i)
  /\ copies[m].src \in Temps
  /\ Len(code) \in DOMAIN code /\ code[Len(code)] = Save(copies[m].src, i)
PendingOK ==
  /\ \A m \in DOMAIN copies : \E i \in DOMAIN phis :
       CopyOf(m, i) /\ (copies[m].src = phis[i].src \/ Saved(m, i))
  /\ \A m, q \in DOMAIN copies, i, j \in DOMAIN phis :
       CopyOf(m, i) /\ CopyOf(q, j) /\ m < q => i < j
  /\ \A m \in DOMAIN copies, k \in DOMAIN code : code[k].dst # copies[m].dst
  /\ \A m \in DOMAIN copies, k \in DOMAIN code, i, j \in DOMAIN phis :
       CopyOf(m, j) /\ MoveOf(k, i) /\ Bound(i) => Bound(j) /\ i < j
  /\ \A m \in DOMAIN copies, j \in DOMAIN phis :
       1 \in DOMAIN copies /\ copies[1].src \in Temps /\ CopyOf(m, j) => Bound(j)

\* A move saves a register, copies what is no destination, or restores what the
\* move before it saved; bound copies are behind the others, in their order.
Placed(k, i) ==
  /\ MoveOf(k, i)
  /\ \/ ~Bound(i) /\ code[k].src = phis[i].src
     \/ /\ Bound(i) /\ code[k].src \in Temps
        /\ k - 1 \in DOMAIN code /\ code[k - 1] = Save(code[k].src, i)
CodeOK ==
  /\ \A k \in DOMAIN code : \/ code[k].dst \in Temps /\ code[k].src \in Regs
                            \/ \E i \in DOMAIN phis : Placed(k, i)
  /\ \A k, m \in DOMAIN code, i \in DOMAIN phis : MoveOf(k, i) /\ MoveOf(m, i) => k = m
  /\ \A k, m \in DOMAIN code, i, j \in DOMAIN phis :
       MoveOf(k, i) /\ MoveOf(m, j) /\ Bound(i) /\ (~Bound(j) \/ j < i) => m < k
  /\ \A i \in DOMAIN phis : \/ \E m \in DOMAIN copies : CopyOf(m, i)
                            \/ \E k \in DOMAIN code : MoveOf(k, i)
  /\ pc # "order" => DOMAIN copies = {}

\* What the registers hold while the code runs: constants, copies of constants,
\* what was just saved, what a phi found in the register of an earlier one; the
\* first time through also what is not yet overwritten and, if all reads come
\* in time, the right values; later also what the phi of a copied constant had.
EnvOK ==
  /\ \A o \in Regs \cup Imms : Constant(o) => env[o] = o
  /\ \A i \in DOMAIN phis : Constant(phis[i].src) /\ Ever(i) => env[phis[i].dst] = phis[i].src
  /\ at - 1 \in DOMAIN code /\ code[at - 1].dst \in Temps =>
       env[code[at - 1].dst] = env[code[at - 1].src]
  /\ \A k, m \in DOMAIN code, i, j \in DOMAIN phis :
       m < k /\ k < at /\ MoveOf(k, i) /\ MoveOf(m, j) /\ phis[i].src = phis[j].dst =>
         env[phis[i].dst] = env[phis[j].dst]
  /\ passed = 0 => \A i \in DOMAIN phis : ~Done(i) => env[phis[i].dst] = phis[i].dst
  /\ passed = 0 /\ (\A i, j \in DOMAIN phis : Reads(i, j) => InTime(i, j)) =>
       \A i \in DOMAIN phis : Done(i) => env[phis[i].dst] = phis[i].src
  /\ passed > 0 =>
       \A i, j \in DOMAIN phis :
         Done(i) /\ i # j /\ phis[i].src = phis[j].dst /\ Constant(phis[j].src) =>
           env[phis[i].dst] = phis[j].src
  /\ pc = "order" => at = 1 /\ passed = 0 /\ \A o \in Operands : env[o] = o
  /\ pc = "left" => at > Len(code)

IInv == TypeOK /\ PhisOK /\ PendingOK /\ CodeOK /\ EnvOK

-----------------------------------------------------------------------------
(* Types. *)

\* A sequence has elements of its set, at places 1 to its length.
LEMMA Element ==
  ASSUME NEW S, NEW s \in Seq(S)
  PROVE  /\ Len(s) \in Nat /\ DOMAIN s = 1..Len(s)
         /\ \A k \in DOMAIN s : s[k] \in S
OBVIOUS

\* Appending an element.
LEMMA Appended ==
  ASSUME NEW S, NEW s \in Seq(S), NEW e \in S, NEW r, r = Append(s, e)
  PROVE  /\ r \in Seq(S) /\ Len(r) = Len(s) + 1
         /\ r[Len(s) + 1] = e /\ \A k \in DOMAIN s : k \in DOMAIN r /\ r[k] = s[k]
         /\ \A k \in DOMAIN r : k \in DOMAIN s \/ k = Len(s) + 1
OBVIOUS

\* The places of a sequence of n elements before and after the i-th goes.
LEMMA Places ==
  ASSUME NEW n \in Nat, NEW i \in 1..n
  PROVE  /\ (i - 1) + (n - i) = n - 1
         /\ \A k \in 1..(n - 1) :
              IF k <= i - 1 THEN k \in 1..(i - 1) /\ k \in 1..n
              ELSE /\ k - (i - 1) \in 1..(n - i) /\ i + (k - (i - 1)) = k + 1
                   /\ k + 1 \in 1..n
         /\ \A m \in 1..n : m # i =>
              IF m <= i - 1 THEN m \in 1..(n - 1)
              ELSE m - 1 \in 1..(n - 1) /\ ~(m - 1 <= i - 1) /\ (m - 1) + 1 = m
OBVIOUS

\* r is s without its i-th element; old tells where each element was.
Without(s, i, r, old) ==
  /\ \A k \in DOMAIN r : old[k] \in DOMAIN s /\ old[k] # i /\ r[k] = s[old[k]]
  /\ \A k, q \in DOMAIN r : k < q => old[k] < old[q]
  /\ \A m \in DOMAIN s : m # i => \E k \in DOMAIN r : old[k] = m
  /\ 1 \in DOMAIN r => old[1] = 1 \/ i = 1

\* Erasing an element of a sequence leaves the others, in their order.
LEMMA Erase ==
  ASSUME NEW S, NEW s \in Seq(S), NEW i \in DOMAIN s
  PROVE  /\ RemoveAt(s, i) \in Seq(S)
         /\ \E old : Without(s, i, RemoveAt(s, i), old)
<1> PICK r : r = RemoveAt(s, i)
  OBVIOUS
<1> DEFINE u == SubSeq(s, 1, i - 1)
           v == SubSeq(s, i + 1, Len(s))
<1>0. i \in 1..Len(s) /\ Len(s) \in Nat /\ r = u \o v /\ r = RemoveAt(s, i)
  BY DEF RemoveAt
<1>1. u \in Seq(S) /\ Len(u) = i - 1 /\ \A k \in 1..(i - 1) : u[k] = s[k]
  OBVIOUS
<1>2. v \in Seq(S) /\ Len(v) = Len(s) - i /\ \A k \in 1..(Len(s) - i) : v[k] = s[i + k]
  OBVIOUS
<1> HIDE DEF u, v
<1>3. /\ r \in Seq(S) /\ Len(r) = Len(u) + Len(v)
      /\ \A k \in 1..(Len(u) + Len(v)) : r[k] = IF k <= Len(u) THEN u[k] ELSE v[k - Len(u)]
  <2>1. u \in Seq(S) /\ v \in Seq(S)
    BY <1>1, <1>2
  <2>2. /\ u \o v \in Seq(S) /\ Len(u \o v) = Len(u) + Len(v)
        /\ \A k \in 1..(Len(u) + Len(v)) : (u \o v)[k] = IF k <= Len(u) THEN u[k] ELSE v[k - Len(u)]
    BY <2>1, ConcatProperties, Zenon
  <2> QED BY <1>0, <2>2, Zenon
<1>4. /\ DOMAIN s = 1..Len(s) /\ DOMAIN r = 1..(Len(s) - 1)
      /\ \A k \in 1..(Len(s) - 1) : r[k] = IF k <= i - 1 THEN u[k] ELSE v[k - (i - 1)]
  <2>1. (i - 1) + (Len(s) - i) = Len(s) - 1
    BY <1>0, Places
  <2>2. DOMAIN s = 1..Len(s) /\ DOMAIN r = 1..Len(r)
    BY <1>3
  <2> QED BY <1>1, <1>2, <1>3, <2>1, <2>2
<1> PICK n : n = Len(s)
  OBVIOUS
<1>5. \A k \in 1..(n - 1) : r[k] = IF k <= i - 1 THEN s[k] ELSE s[k + 1]
  <2> TAKE k \in 1..(n - 1)
  <2>1. CASE k <= i - 1
    <3>1. k \in 1..(i - 1)
      BY <1>0, <2>1, Places
    <3> QED BY <1>1, <1>4, <2>1, <3>1
  <2>2. CASE ~(k <= i - 1)
    <3>1. k - (i - 1) \in 1..(n - i) /\ i + (k - (i - 1)) = k + 1
      BY <1>0, <2>2, Places
    <3>2. v[k - (i - 1)] = s[k + 1]
      BY <1>2, <3>1
    <3> QED BY <1>4, <2>2, <3>2
  <2> QED BY <2>1, <2>2
<1>6. DOMAIN s = 1..n /\ DOMAIN r = 1..(n - 1) /\ n \in Nat /\ i \in 1..n
  BY <1>0, <1>4
<1> DEFINE old == [k \in DOMAIN r |-> IF k <= i - 1 THEN k ELSE k + 1]
<1>7. \A k \in DOMAIN r : old[k] \in DOMAIN s /\ old[k] # i /\ r[k] = s[old[k]]
  <2> TAKE k \in DOMAIN r
  <2>1. old[k] \in 1..n /\ old[k] # i
    BY <1>6
  <2>2. r[k] = s[old[k]]
    BY <1>5, <1>6
  <2> QED BY <1>6, <2>1, <2>2
<1>8. /\ \A k, q \in DOMAIN r : k < q => old[k] < old[q]
      /\ 1 \in DOMAIN r => old[1] = 1 \/ i = 1
  BY <1>6
<1>9. ASSUME NEW m \in DOMAIN s, m # i PROVE \E k \in DOMAIN r : old[k] = m
  <2>1. CASE m <= i - 1
    <3>1. m \in DOMAIN r /\ old[m] = m
      BY <1>6, <2>1
    <3> QED BY <3>1
  <2>2. CASE ~(m <= i - 1)
    <3>1. m - 1 \in DOMAIN r /\ old[m - 1] = m
      BY <1>6, <1>9, <2>2
    <3> QED BY <3>1
  <2> QED BY <2>1, <2>2
<1>10. Without(s, i, r, old)
  BY <1>7, <1>8, <1>9 DEF Without
<1> QED BY <1>0, <1>3, <1>10, Zenon

MoveSet == [dst : Regs \cup Temps, src : Operands]
CopySet == [dst : Regs, src : Operands]

\* What copies and moves are made of; a copy is a move to one of Regs.
LEMMA CopySetIsMoveSet ==
  /\ \A c \in CopySet : c \in MoveSet /\ c.dst \in Regs /\ c.src \in Operands
  /\ \A c \in MoveSet : c.dst \in Operands /\ c.src \in Operands
  /\ \A d \in Regs, o \in Operands : [dst |-> d, src |-> o] \in CopySet
  /\ \A d \in Regs \cup Temps, o \in Operands : [dst |-> d, src |-> o] \in MoveSet
  /\ \A c \in CopySet, o \in Operands : [c EXCEPT !.src = o] \in CopySet
BY DEF MoveSet, CopySet, Operands

\* TypeOK, spelled out element by element.
LEMMA Typed ==
  ASSUME TypeOK
  PROVE  /\ copies \in Seq(CopySet) /\ code \in Seq(MoveSet)
         /\ Len(copies) \in Nat /\ DOMAIN copies = 1..Len(copies)
         /\ \A i \in DOMAIN copies : copies[i] \in CopySet
         /\ Len(code) \in Nat /\ DOMAIN code = 1..Len(code)
         /\ \A k \in DOMAIN code : code[k] \in MoveSet
<1>1. copies \in Seq(CopySet) /\ code \in Seq(MoveSet)
  BY DEF TypeOK, CopySet, MoveSet
<1> QED BY <1>1, Element

\* Every step keeps the types.
LEMMA TypeStep == TypeOK /\ [Next]_vars => TypeOK'
<1> SUFFICES ASSUME TypeOK, [Next]_vars PROVE TypeOK'
  OBVIOUS
<1>0. /\ copies \in Seq(CopySet) /\ code \in Seq(MoveSet)
      /\ Len(copies) \in Nat /\ DOMAIN copies = 1..Len(copies)
      /\ \A i \in DOMAIN copies : copies[i] \in CopySet
      /\ Len(code) \in Nat /\ DOMAIN code = 1..Len(code)
      /\ \A k \in DOMAIN code : code[k] \in MoveSet
  BY Typed
<1>1. ASSUME NEW i \in DOMAIN copies, EmitMove(i) PROVE TypeOK'
  <2>1. copies' \in Seq(CopySet)
    <3>1. copies' = RemoveAt(copies, i)
      BY <1>1 DEF EmitMove, WithoutCopy
    <3> QED BY <1>0, <3>1, Erase
  <2>2. code' \in Seq(MoveSet) /\ Len(code') = Len(code) + 1
    <3>1. copies[i] \in MoveSet
      BY <1>0, CopySetIsMoveSet
    <3>2. code' = Append(code, copies[i])
      BY <1>1 DEF EmitMove
    <3> QED BY <1>0, <3>1, <3>2, Appended
  <2>3. at' \in 1..(Len(code') + 1)
    BY <1>0, <1>1, <2>2 DEF EmitMove, TypeOK
  <2> QED BY <1>1, <2>1, <2>2, <2>3 DEF EmitMove, TypeOK, CopySet, MoveSet
<1>2. CASE SaveSource
  <2>1. fresh' \in 0..MaxTemps /\ fresh' \in Temps /\ fresh' \in Operands
    BY <1>2, CopiesAssumption DEF SaveSource, TypeOK, Temps, Operands
  <2>2. copies' \in Seq(CopySet)
    <3>1. 1 \in DOMAIN copies /\ [copies[1] EXCEPT !.src = fresh'] \in CopySet
      BY <1>0, <1>2, <2>1, CopySetIsMoveSet DEF SaveSource
    <3>2. copies' = [copies EXCEPT ![1] = [copies[1] EXCEPT !.src = fresh']]
      BY <1>2 DEF SaveSource
    <3> QED BY <1>0, <3>1, <3>2
  <2>3. code' \in Seq(MoveSet) /\ Len(code') = Len(code) + 1
    <3>1. 1 \in DOMAIN copies
      BY <1>0, <1>2 DEF SaveSource
    <3>2. [dst |-> fresh', src |-> copies[1].src] \in MoveSet
      BY <1>0, <2>1, <3>1, CopySetIsMoveSet
    <3>3. code' = Append(code, [dst |-> fresh', src |-> copies[1].src])
      BY <1>2 DEF SaveSource
    <3> QED BY <1>0, <3>2, <3>3, Appended
  <2>4. at' \in 1..(Len(code') + 1)
    BY <1>0, <1>2, <2>3 DEF SaveSource, TypeOK
  <2> QED BY <1>2, <2>1, <2>2, <2>3, <2>4 DEF SaveSource, TypeOK, CopySet, MoveSet
<1>3. CASE Ordered
  BY <1>3 DEF Ordered, TypeOK
<1>4. CASE Move
  <2>1. at \in DOMAIN code /\ at' \in 1..(Len(code') + 1)
    BY <1>0, <1>4 DEF Move, TypeOK
  <2>2. code[at].dst \in Operands /\ code[at].src \in Operands
    BY <1>0, <2>1, CopySetIsMoveSet
  <2>3. env' \in [Operands -> Operands]
    BY <1>4, <2>2 DEF Move, TypeOK
  <2> QED BY <1>4, <2>1, <2>3 DEF Move, TypeOK
<1>5. CASE Leave
  BY <1>5 DEF Leave, TypeOK
<1>6. CASE FallThrough
  <2>1. passed' \in 0..(jumps' - 1) /\ at' \in 1..(Len(code') + 1)
    BY <1>0, <1>6, CopiesAssumption DEF FallThrough, TypeOK
  <2> QED BY <1>6, <2>1 DEF FallThrough, TypeOK
<1>7. CASE UNCHANGED vars
  BY <1>7 DEF vars, TypeOK
<1> QED BY <1>1, <1>2, <1>3, <1>4, <1>5, <1>6, <1>7 DEF Next

\* TypeOK holds before the first copy is ordered.
LEMMA TypeInit == Init => TypeOK
<1> SUFFICES ASSUME Init PROVE TypeOK
  OBVIOUS
<1>1. phis \in Seq([dst : Regs, src : Regs \cup Imms])
  BY CopiesAssumption DEF Init
<1>2. \A i \in DOMAIN phis : phis[i] \in CopySet
  <2>1. \A i \in DOMAIN phis : phis[i] \in [dst : Regs, src : Regs \cup Imms]
    BY <1>1, Element
  <2>2. [dst : Regs, src : Regs \cup Imms] \subseteq CopySet
    BY DEF CopySet, Operands
  <2> QED BY <2>1, <2>2
<1>3. copies \in Seq(CopySet)
  BY <1>1, <1>2 DEF Init
<1>4. code \in Seq(MoveSet) /\ at \in 1..(Len(code) + 1)
  BY DEF Init
<1>5. jumps \in 1..MaxJumps /\ passed \in 0..(jumps - 1) /\ fresh \in 0..MaxTemps
  BY CopiesAssumption DEF Init
<1> QED BY <1>1, <1>3, <1>4, <1>5 DEF Init, TypeOK, CopySet, MoveSet

\* No variable ever leaves its type: in particular only registers are written,
\* and the program never runs past the last jump.
THEOREM TypeCorrect == Spec => []TypeOK
BY TypeInit, TypeStep, PTL DEF Spec

-----------------------------------------------------------------------------
(* The invariant. *)

\* Registers, immediates and the registers created are never confused, and
\* destinations are registers.
LEMMA Apart ==
  ASSUME TypeOK
  PROVE  /\ DOMAIN phis = 1..Len(phis) /\ Len(phis) \in Nat
         /\ \A i \in DOMAIN phis : /\ phis[i].src \in Regs \cup Imms
                                   /\ phis[i].dst \in Regs /\ phis[i].dst \in Destinations
         /\ Destinations \subseteq Regs
         /\ \A d \in Destinations : \E i \in DOMAIN phis : phis[i].dst = d
         /\ \A t \in Temps : t \notin Regs /\ t \notin Imms /\ t \notin Destinations
         /\ \A o \in Regs \cup Imms : o \in Operands
<1>1. phis \in Seq([dst : Regs, src : Regs \cup Imms])
  BY DEF TypeOK
<1>2. /\ Len(phis) \in Nat /\ DOMAIN phis = 1..Len(phis)
      /\ \A i \in DOMAIN phis : phis[i] \in [dst : Regs, src : Regs \cup Imms]
  BY <1>1, Element
<1>3. \A i \in DOMAIN phis : phis[i].src \in Regs \cup Imms /\ phis[i].dst \in Regs
  BY <1>2
<1>4. \A t \in Temps : t \notin Regs /\ t \notin Imms
  BY CopiesAssumption
<1>5. Destinations \subseteq Regs
  BY <1>3 DEF Destinations
<1>6. \A i \in DOMAIN phis : phis[i].dst \in Destinations
  BY DEF Destinations
<1>7. \A d \in Destinations : \E i \in DOMAIN phis : phis[i].dst = d
  BY DEF Destinations
<1>8. \A o \in Regs \cup Imms : o \in Operands
  BY DEF Operands
<1> QED BY <1>2, <1>3, <1>4, <1>5, <1>6, <1>7, <1>8

\* While the copies are ordered nothing is executed.
LEMMA EnvWhileOrdering ==
  ASSUME IInv, pc = "order", pc' = "order", UNCHANGED <<phis, env, at, passed>>,
         code' \in Seq(MoveSet)
  PROVE  EnvOK'
<1>1. /\ \A o \in Regs \cup Imms : env'[o] = o
      /\ \A i \in DOMAIN phis' : env'[phis'[i].dst] = phis'[i].dst
  BY Apart DEF IInv, EnvOK
<1>2. DOMAIN code' = 1..Len(code') /\ Len(code') \in Nat
  BY Element
<1>3. /\ at' = 1 /\ passed' = 0 /\ \A o \in Operands : env'[o] = o
      /\ \A k \in DOMAIN code' : ~(k < at') /\ at' - 1 # k
  BY <1>2 DEF IInv, EnvOK
<1>4. \A i \in DOMAIN phis' : ~Done(i)' /\ ~Ever(i)'
  BY <1>3 DEF Done, Ever
<1> QED BY <1>1, <1>3, <1>4 DEF EnvOK

\* The invariant holds before the first copy is ordered.
LEMMA InitInvariant == Init => IInv
<1> SUFFICES ASSUME Init PROVE IInv
  OBVIOUS
<1>1. TypeOK
  BY TypeInit
<1>2. PhisOK
  BY CopiesAssumption DEF Init, PhisOK
<1>3. DOMAIN code = {} /\ copies = phis
  BY DEF Init
<1>4. PendingOK
  <2>1. \A m, q, i, j \in DOMAIN phis :
          phis[m].dst = phis[i].dst /\ phis[q].dst = phis[j].dst /\ m < q => i < j
    BY <1>2 DEF PhisOK
  <2>2. 1 \in DOMAIN copies => copies[1].src \notin Temps
    BY <1>1, <1>3, Apart
  <2> QED BY <1>3, <2>1, <2>2 DEF PendingOK, CopyOf
<1>5. CodeOK
  BY <1>3 DEF CodeOK, CopyOf, Init
<1>6. EnvOK
  <2>1. \A o \in Regs \cup Imms : env[o] = o
    BY DEF Init, Operands
  <2>2. \A i \in DOMAIN phis : ~Done(i) /\ ~Ever(i)
    BY <1>3 DEF Done, Ever, Init
  <2>3. \A i \in DOMAIN phis : phis[i].dst \in Regs
    BY <1>1, Apart
  <2> QED BY <1>3, <2>1, <2>2, <2>3 DEF EnvOK, Init
<1> QED BY <1>1, <1>2, <1>4, <1>5, <1>6 DEF IInv

\* What a move appended to the code leaves as it is.
LEMMA Extended ==
  ASSUME IInv, UNCHANGED phis, NEW e \in MoveSet, code' = Append(code, e)
  PROVE  /\ code' \in Seq(MoveSet)
         /\ Len(code) \in Nat /\ DOMAIN code = 1..Len(code)
         /\ DOMAIN code' = 1..(Len(code) + 1) /\ Len(code') = Len(code) + 1
         /\ code'[Len(code) + 1] = e
         /\ \A k \in DOMAIN code : k \in DOMAIN code' /\ code'[k] = code[k]
         /\ \A k \in DOMAIN code' : k \in DOMAIN code \/ k = Len(code) + 1
         /\ Destinations' = Destinations
         /\ \A i \in DOMAIN phis : Bound(i)' <=> Bound(i)
         /\ \A k \in DOMAIN code, i \in DOMAIN phis : Placed(k, i) => Placed(k, i)'
<1>1. code \in Seq(MoveSet) /\ Len(code) \in Nat /\ DOMAIN code = 1..Len(code)
  BY Typed DEF IInv
<1>2. /\ code' \in Seq(MoveSet) /\ Len(code') = Len(code) + 1
      /\ code'[Len(code) + 1] = e /\ \A k \in DOMAIN code : k \in DOMAIN code' /\ code'[k] = code[k]
      /\ \A k \in DOMAIN code' : k \in DOMAIN code \/ k = Len(code) + 1
  BY <1>1, Appended
<1>3. DOMAIN code' = 1..(Len(code) + 1)
  BY <1>2, Element
<1>4. Destinations' = Destinations
  BY DEF Destinations
<1>5. \A i \in DOMAIN phis : Bound(i)' <=> Bound(i)
  BY <1>4 DEF Bound
<1>6. \A k \in DOMAIN code, i \in DOMAIN phis : Placed(k, i) => Placed(k, i)'
  BY <1>2, <1>5 DEF Placed, MoveOf, Save
<1> QED BY <1>1, <1>2, <1>3, <1>4, <1>5, <1>6

\* Emitting a copy: free ones come before all bound ones, and a bound one is
\* the first of what is left and has just been saved.
LEMMA EmitInvariant ==
  ASSUME IInv, TypeOK', NEW n \in DOMAIN copies, EmitMove(n)
  PROVE  IInv'
<1> PICK new : new = Len(code) + 1
  OBVIOUS
<1>0. TypeOK /\ \A m \in DOMAIN copies : copies[m] \in CopySet
  BY Typed DEF IInv
<1>1. /\ code' = Append(code, copies[n]) /\ copies' = RemoveAt(copies, n)
      /\ UNCHANGED <<phis, env, at, passed>> /\ pc = "order" /\ pc' = "order"
      /\ Acyclic(n) /\ \A m \in 1..(n - 1) : ~Acyclic(m)
  BY DEF EmitMove, WithoutCopy
<1>2. copies[n] \in MoveSet /\ copies[n].dst \in Regs
  BY <1>0, CopySetIsMoveSet
<1>3. /\ code' \in Seq(MoveSet)
      /\ Len(code) \in Nat /\ DOMAIN code = 1..Len(code)
      /\ DOMAIN code' = 1..new /\ Len(code') = new
      /\ code'[new] = copies[n]
      /\ \A k \in DOMAIN code : k \in DOMAIN code' /\ code'[k] = code[k]
      /\ \A k \in DOMAIN code' : k \in DOMAIN code \/ k = new
      /\ Destinations' = Destinations
      /\ \A i \in DOMAIN phis : Bound(i)' <=> Bound(i)
      /\ \A k \in DOMAIN code, i \in DOMAIN phis : Placed(k, i) => Placed(k, i)'
  BY <1>1, <1>2, Extended
<1>4. PICK old : /\ \A k \in DOMAIN copies' : /\ old[k] \in DOMAIN copies /\ old[k] # n
                                               /\ copies'[k] = copies[old[k]]
                 /\ \A k, q \in DOMAIN copies' : k < q => old[k] < old[q]
                 /\ \A m \in DOMAIN copies : m # n => \E k \in DOMAIN copies' : old[k] = m
                 /\ 1 \in DOMAIN copies' => old[1] = 1 \/ n = 1
  <2>1. copies \in Seq(CopySet)
    BY <1>0, Typed
  <2>2. PICK old : Without(copies, n, copies', old)
    BY <1>1, <2>1, Erase
  <2> QED BY <2>2 DEF Without
<1>5. DOMAIN copies = 1..Len(copies) /\ Len(copies) \in Nat
  BY <1>0, Typed
<1>6. PICK i \in DOMAIN phis : CopyOf(n, i) /\ (copies[n].src = phis[i].src \/ Saved(n, i))
  BY DEF IInv, PendingOK
\* Only the first copy can have been saved, and it is then the one emitted.
<1>7. \A m \in DOMAIN copies : copies[m].src \in Temps => m = 1 /\ n = 1
  <2> SUFFICES ASSUME NEW m \in DOMAIN copies, copies[m].src \in Temps PROVE m = 1 /\ n = 1
    OBVIOUS
  <2>1. m = 1
    BY <1>0, Apart DEF IInv, PendingOK, Saved
  <2>2. Acyclic(1)
    BY <1>0, <2>1, Apart DEF Acyclic
  <2> QED BY <1>1, <1>5, <2>1, <2>2
<1>8. \A m \in DOMAIN copies, j \in DOMAIN phis : CopyOf(m, j) /\ m # n => i # j
  <2>1. ASSUME NEW m \in DOMAIN copies, NEW q \in DOMAIN copies, m < q,
               copies[m].dst = copies[q].dst
        PROVE  FALSE
    <3>1. PICK j \in DOMAIN phis : CopyOf(m, j) /\ CopyOf(q, j)
      BY <2>1 DEF IInv, PendingOK, CopyOf
    <3>2. j < j /\ j \in Nat
      BY <1>0, <2>1, <3>1, Apart DEF IInv, PendingOK
    <3> QED BY <3>2
  <2>2. \A m, q \in DOMAIN copies : m < q \/ q < m \/ m = q
    BY <1>5
  <2> QED BY <1>6, <2>1, <2>2 DEF CopyOf
\* A bound copy is emitted as the first one; a free one while no bound one is.
<1>9. Bound(i) => n = 1 /\ copies[n].src \in Temps /\ Saved(n, i)
  <2>1. Bound(i) => copies[n].src # phis[i].src
    BY <1>1 DEF Acyclic, Bound
  <2> QED BY <1>6, <2>1 DEF Saved
<1>10. ~Bound(i) => /\ copies[n].src = phis[i].src
                    /\ \A k \in DOMAIN code, j \in DOMAIN phis : MoveOf(k, j) => ~Bound(j)
  BY <1>6 DEF IInv, PendingOK, Saved
<1>11. \A k \in DOMAIN code, j \in DOMAIN phis : MoveOf(k, j)' <=> MoveOf(k, j)
  BY <1>1, <1>3 DEF MoveOf
<1>12. \A j \in DOMAIN phis : MoveOf(new, j)' <=> j = i
  BY <1>1, <1>3, <1>6 DEF MoveOf, CopyOf, IInv, PhisOK
<1>13. \A m \in DOMAIN copies', j \in DOMAIN phis : CopyOf(m, j)' <=> CopyOf(old[m], j)
  BY <1>1, <1>4 DEF CopyOf
<1>14. \A m \in DOMAIN copies' : copies'[m].src \notin Temps
  BY <1>4, <1>7
<1>15. PhisOK'
  BY <1>1 DEF IInv, PhisOK
<1>16. PendingOK'
  <2>1. \A m \in DOMAIN copies' : \E j \in DOMAIN phis' : CopyOf(m, j)' /\ copies'[m].src = phis'[j].src
    <3> SUFFICES ASSUME NEW m \in DOMAIN copies'
                 PROVE  \E j \in DOMAIN phis : CopyOf(m, j)' /\ copies'[m].src = phis[j].src
      BY <1>1
    <3>1. PICK j \in DOMAIN phis : CopyOf(old[m], j) /\ (copies[old[m]].src = phis[j].src \/ Saved(old[m], j))
      BY <1>4 DEF IInv, PendingOK
    <3>2. copies[old[m]].src = phis[j].src
      BY <1>4, <1>14, <3>1 DEF Saved
    <3> QED BY <1>4, <1>13, <3>1, <3>2
  <2>2. \A m, q \in DOMAIN copies', j, l \in DOMAIN phis' :
          CopyOf(m, j)' /\ CopyOf(q, l)' /\ m < q => j < l
    BY <1>1, <1>4, <1>13 DEF IInv, PendingOK
  <2>3. \A m \in DOMAIN copies', k \in DOMAIN code' : code'[k].dst # copies'[m].dst
    <3> SUFFICES ASSUME NEW m \in DOMAIN copies', NEW k \in DOMAIN code'
                 PROVE  code'[k].dst # copies'[m].dst
      OBVIOUS
    <3>1. CASE k \in DOMAIN code
      BY <1>3, <1>4, <3>1 DEF IInv, PendingOK
    <3>2. CASE k = new
      <4>1. PICK j \in DOMAIN phis : CopyOf(old[m], j)
        BY <1>4 DEF IInv, PendingOK
      <4>2. i # j
        BY <1>4, <1>8, <4>1
      <4> QED BY <1>3, <1>4, <1>6, <3>2, <4>1, <4>2 DEF CopyOf, IInv, PhisOK
    <3> QED BY <1>3, <3>1, <3>2
  <2>4. \A m \in DOMAIN copies', k \in DOMAIN code', l, j \in DOMAIN phis' :
          CopyOf(m, j)' /\ MoveOf(k, l)' /\ Bound(l)' => Bound(j)' /\ l < j
    <3> SUFFICES ASSUME NEW m \in DOMAIN copies', NEW k \in DOMAIN code', NEW l \in DOMAIN phis,
                        NEW j \in DOMAIN phis, CopyOf(old[m], j), MoveOf(k, l)', Bound(l)
                 PROVE  Bound(j) /\ l < j
      BY <1>1, <1>3, <1>13
    <3>1. CASE k \in DOMAIN code
      BY <1>4, <1>11, <3>1 DEF IInv, PendingOK
    <3>2. CASE k = new
      <4>1. l = i /\ n = 1 /\ copies[1].src \in Temps
        BY <1>9, <1>12, <3>2
      <4>2. Bound(j)
        BY <1>4, <1>5, <4>1 DEF IInv, PendingOK
      <4>3. 1 < old[m]
        BY <1>4, <1>5, <4>1
      <4>4. i < j
        BY <1>4, <1>6, <4>1, <4>3 DEF IInv, PendingOK
      <4> QED BY <4>1, <4>2, <4>4
    <3> QED BY <1>3, <3>1, <3>2
  <2>5. 1 \in DOMAIN copies' => copies'[1].src \notin Temps
    BY <1>14
  <2> QED BY <2>1, <2>2, <2>3, <2>4, <2>5 DEF PendingOK
<1>17. CodeOK'
  <2>1. Placed(new, i)'
    <3>1. MoveOf(new, i)'
      BY <1>12
    <3>2. CASE ~Bound(i)
      BY <1>1, <1>3, <1>10, <3>1, <3>2 DEF Placed
    <3>3. CASE Bound(i)
      <4>1. new - 1 = Len(code) /\ new - 1 \in DOMAIN code /\ code[new - 1] = Save(copies[n].src, i)
        BY <1>3, <1>9, <3>3 DEF Saved
      <4>2. new - 1 \in DOMAIN code' /\ code'[new - 1] = code[new - 1] /\ code'[new].src = copies[n].src
        BY <1>3, <4>1
      <4>3. code'[new - 1] = Save(code[new].src, i)'
        BY <1>1, <4>1, <4>2 DEF Save
      <4> QED BY <1>3, <1>9, <3>1, <3>3, <4>2, <4>3 DEF Placed
    <3> QED BY <3>2, <3>3
  <2>2. \A k \in DOMAIN code' : \/ code'[k].dst \in Temps /\ code'[k].src \in Regs
                                \/ \E j \in DOMAIN phis' : Placed(k, j)'
    BY <1>1, <1>3, <2>1 DEF IInv, CodeOK
  <2>3. \A k, m \in DOMAIN code', j \in DOMAIN phis' : MoveOf(k, j)' /\ MoveOf(m, j)' => k = m
    <3>1. \A k \in DOMAIN code : ~MoveOf(k, i)
      BY <1>6 DEF IInv, PendingOK, CopyOf, MoveOf
    <3> QED BY <1>1, <1>3, <1>11, <1>12, <3>1 DEF IInv, CodeOK
  <2>4. \A k, m \in DOMAIN code', j, l \in DOMAIN phis' :
          MoveOf(k, j)' /\ MoveOf(m, l)' /\ Bound(j)' /\ (~Bound(l)' \/ l < j) => m < k
    <3> SUFFICES ASSUME NEW k \in DOMAIN code', NEW m \in DOMAIN code', NEW j \in DOMAIN phis,
                        NEW l \in DOMAIN phis, MoveOf(k, j)', MoveOf(m, l)', Bound(j),
                        ~Bound(l) \/ l < j
                 PROVE  m < k
      BY <1>1, <1>3
    <3>0. DOMAIN phis = 1..Len(phis) /\ Len(phis) \in Nat /\ new = Len(code) + 1
      BY <1>0, Apart
    <3>1. CASE m \in DOMAIN code /\ k \in DOMAIN code
      BY <1>11, <3>1 DEF IInv, CodeOK
    <3>2. CASE m \in DOMAIN code /\ k = new
      BY <1>3, <3>0, <3>2
    <3>3. CASE m = new /\ k \in DOMAIN code
      <4>1. l = i /\ MoveOf(k, j)
        BY <1>11, <1>12, <3>3
      <4>2. Bound(i) /\ j < i
        BY <1>6, <3>3, <4>1 DEF IInv, PendingOK
      <4> QED BY <3>0, <4>1, <4>2
    <3>4. CASE m = new /\ k = new
      BY <1>12, <3>0, <3>4
    <3> QED BY <1>3, <3>1, <3>2, <3>3, <3>4
  <2>5. \A j \in DOMAIN phis' : \/ \E m \in DOMAIN copies' : CopyOf(m, j)'
                                \/ \E k \in DOMAIN code' : MoveOf(k, j)'
    <3> SUFFICES ASSUME NEW j \in DOMAIN phis
                 PROVE  \/ \E m \in DOMAIN copies' : CopyOf(m, j)'
                        \/ \E k \in DOMAIN code' : MoveOf(k, j)'
      BY <1>1
    <3>1. CASE \E k \in DOMAIN code : MoveOf(k, j)
      BY <1>3, <1>11, <3>1
    <3>2. ASSUME NEW m \in DOMAIN copies, CopyOf(m, j), m # n
          PROVE  \E q \in DOMAIN copies' : CopyOf(q, j)'
      BY <1>4, <1>13, <3>2
    <3>3. CASE CopyOf(n, j)
      <4>1. j = i
        BY <1>6, <3>3 DEF CopyOf, IInv, PhisOK
      <4> QED BY <1>3, <1>12, <4>1
    <3> QED BY <3>1, <3>2, <3>3 DEF IInv, CodeOK
  <2> QED BY <1>1, <2>2, <2>3, <2>4, <2>5 DEF CodeOK
<1>18. EnvOK'
  BY <1>1, <1>3, EnvWhileOrdering
<1> QED BY <1>15, <1>16, <1>17, <1>18 DEF IInv

\* Saving: all that is left is bound, and the first of it can be emitted next.
LEMMA SaveInvariant ==
  ASSUME IInv, TypeOK', SaveSource
  PROVE  IInv'
<1> PICK t, new : t = fresh' /\ new = Len(code) + 1
  OBVIOUS
<1>0. /\ TypeOK /\ DOMAIN copies = 1..Len(copies) /\ Len(copies) \in Nat
      /\ \A m \in DOMAIN copies : copies[m] \in CopySet
  BY Typed DEF IInv
<1>1. /\ code' = Append(code, [dst |-> t, src |-> copies[1].src])
      /\ copies' = [copies EXCEPT ![1].src = t]
      /\ UNCHANGED <<phis, env, at, passed>> /\ pc = "order" /\ pc' = "order"
      /\ \A m \in DOMAIN copies : copies[m].src \in Destinations
      /\ 1 \in DOMAIN copies
  BY <1>0 DEF SaveSource, Acyclic
<1>2. t \in Temps
  BY <1>0, CopiesAssumption DEF SaveSource, TypeOK, Temps
<1>3. \A m \in DOMAIN copies : copies[m].src \notin Temps /\ copies[m].src \in Regs
  BY <1>0, <1>1, Apart
\* Nothing has been saved, so every copy still has its source.
<1>4. \A m \in DOMAIN copies : \E i \in DOMAIN phis : CopyOf(m, i) /\ copies[m].src = phis[i].src
  BY <1>3 DEF IInv, PendingOK, Saved
<1>5. PICK e \in MoveSet : e = [dst |-> t, src |-> copies[1].src]
  BY <1>0, <1>1, <1>2, CopySetIsMoveSet
<1>6. /\ code' \in Seq(MoveSet)
      /\ Len(code) \in Nat /\ DOMAIN code = 1..Len(code)
      /\ DOMAIN code' = 1..new /\ Len(code') = new
      /\ code'[new] = e
      /\ \A k \in DOMAIN code : k \in DOMAIN code' /\ code'[k] = code[k]
      /\ \A k \in DOMAIN code' : k \in DOMAIN code \/ k = new
      /\ Destinations' = Destinations
      /\ \A i \in DOMAIN phis : Bound(i)' <=> Bound(i)
      /\ \A k \in DOMAIN code, i \in DOMAIN phis : Placed(k, i) => Placed(k, i)'
  BY <1>1, <1>5, Extended
<1>7. /\ DOMAIN copies' = DOMAIN copies
      /\ \A m \in DOMAIN copies : copies'[m].dst = copies[m].dst
      /\ \A m \in DOMAIN copies : m # 1 => copies'[m].src = copies[m].src
      /\ copies'[1].src = t
  <2>1. \A c \in CopySet : [c EXCEPT !.src = t].dst = c.dst /\ [c EXCEPT !.src = t].src = t
    BY DEF CopySet
  <2>2. /\ DOMAIN copies' = DOMAIN copies
        /\ copies'[1] = [copies[1] EXCEPT !.src = t]
        /\ \A m \in DOMAIN copies : m # 1 => copies'[m] = copies[m]
    BY <1>1
  <2> QED BY <1>0, <1>1, <2>1, <2>2
<1>8. \A m \in DOMAIN copies, i \in DOMAIN phis : CopyOf(m, i)' <=> CopyOf(m, i)
  BY <1>1, <1>7 DEF CopyOf
<1>9. \A k \in DOMAIN code, i \in DOMAIN phis : MoveOf(k, i)' <=> MoveOf(k, i)
  BY <1>1, <1>6 DEF MoveOf
<1>10. \A i \in DOMAIN phis : ~MoveOf(new, i)'
  BY <1>0, <1>1, <1>2, <1>5, <1>6, Apart DEF MoveOf
<1>11. \A m \in DOMAIN copies, i \in DOMAIN phis : CopyOf(m, i) => Bound(i)
  <2> TAKE m \in DOMAIN copies, i \in DOMAIN phis
  <2> HAVE CopyOf(m, i)
  <2>1. PICK j \in DOMAIN phis : CopyOf(m, j) /\ copies[m].src = phis[j].src
    BY <1>4
  <2>2. i = j
    BY <2>1 DEF CopyOf, IInv, PhisOK
  <2> QED BY <1>1, <2>1, <2>2 DEF Bound
<1>12. PhisOK'
  BY <1>1 DEF IInv, PhisOK
<1>13. PendingOK'
  <2>1. \A m \in DOMAIN copies' : \E i \in DOMAIN phis' :
          CopyOf(m, i)' /\ (copies'[m].src = phis'[i].src \/ Saved(m, i)')
    <3> SUFFICES ASSUME NEW m \in DOMAIN copies
                 PROVE  \E i \in DOMAIN phis : CopyOf(m, i)' /\ (copies'[m].src = phis[i].src \/ Saved(m, i)')
      BY <1>1, <1>7
    <3>1. PICK i \in DOMAIN phis : CopyOf(m, i) /\ copies[m].src = phis[i].src
      BY <1>4
    <3>2. CASE m # 1
      BY <1>7, <1>8, <3>1, <3>2
    <3>3. CASE m = 1
      <4>1. code'[new] = Save(t, i)
        BY <1>5, <1>6, <3>1, <3>3 DEF Save
      <4>2. Save(copies[m].src, i)' = Save(t, i)
        BY <1>1, <1>7, <3>3 DEF Save
      <4>3. Bound(i)'
        BY <1>6, <1>11, <3>1
      <4>4. Len(code') = new /\ new \in DOMAIN code'
        BY <1>6
      <4>5. Saved(m, i)'
        BY <1>2, <1>7, <3>3, <4>1, <4>2, <4>3, <4>4 DEF Saved
      <4> QED BY <1>8, <3>1, <4>5
    <3> QED BY <3>2, <3>3
  <2>2. \A m, q \in DOMAIN copies', i, j \in DOMAIN phis' :
          CopyOf(m, i)' /\ CopyOf(q, j)' /\ m < q => i < j
    BY <1>1, <1>7, <1>8 DEF IInv, PendingOK
  <2>3. \A m \in DOMAIN copies', k \in DOMAIN code' : code'[k].dst # copies'[m].dst
    <3>1. \A m \in DOMAIN copies : copies[m].dst \in Regs
      BY <1>0, CopySetIsMoveSet
    <3> QED BY <1>0, <1>2, <1>5, <1>6, <1>7, <3>1, Apart DEF IInv, PendingOK
  <2>4. \A m \in DOMAIN copies', k \in DOMAIN code', i, j \in DOMAIN phis' :
          CopyOf(m, j)' /\ MoveOf(k, i)' /\ Bound(i)' => Bound(j)' /\ i < j
    BY <1>1, <1>6, <1>7, <1>8, <1>9, <1>10 DEF IInv, PendingOK
  <2>5. \A m \in DOMAIN copies', j \in DOMAIN phis' : CopyOf(m, j)' => Bound(j)'
    BY <1>1, <1>6, <1>7, <1>8, <1>11
  <2> QED BY <2>1, <2>2, <2>3, <2>4, <2>5 DEF PendingOK
<1>14. CodeOK'
  <2>1. \A k \in DOMAIN code' : \/ code'[k].dst \in Temps /\ code'[k].src \in Regs
                                \/ \E i \in DOMAIN phis' : Placed(k, i)'
    <3>1. code'[new].dst \in Temps /\ code'[new].src \in Regs
      BY <1>1, <1>2, <1>3, <1>5, <1>6
    <3> QED BY <1>1, <1>6, <3>1 DEF IInv, CodeOK
  <2>2. \A k, m \in DOMAIN code', i \in DOMAIN phis' : MoveOf(k, i)' /\ MoveOf(m, i)' => k = m
    BY <1>1, <1>6, <1>9, <1>10 DEF IInv, CodeOK
  <2>3. \A k, m \in DOMAIN code', i, j \in DOMAIN phis' :
          MoveOf(k, i)' /\ MoveOf(m, j)' /\ Bound(i)' /\ (~Bound(j)' \/ j < i) => m < k
    BY <1>1, <1>6, <1>9, <1>10 DEF IInv, CodeOK
  <2>4. \A i \in DOMAIN phis' : \/ \E m \in DOMAIN copies' : CopyOf(m, i)'
                                \/ \E k \in DOMAIN code' : MoveOf(k, i)'
    BY <1>1, <1>6, <1>7, <1>8, <1>9 DEF IInv, CodeOK
  <2> QED BY <1>1, <2>1, <2>2, <2>3, <2>4 DEF CodeOK
<1>15. EnvOK'
  BY <1>1, <1>6, EnvWhileOrdering
<1> QED BY <1>12, <1>13, <1>14, <1>15 DEF IInv

\* Only EmitMove and SaveSource change the code.
LEMMA CodeUnchanged ==
  ASSUME IInv, UNCHANGED <<phis, copies, code>>, DOMAIN copies = {}
  PROVE  /\ PhisOK' /\ PendingOK' /\ CodeOK'
         /\ \A k \in DOMAIN code, i \in DOMAIN phis : MoveOf(k, i)' <=> MoveOf(k, i)
         /\ \A o : Constant(o)' <=> Constant(o)
<1>1. \A i : (Bound(i)' <=> Bound(i)) /\ \A k : (MoveOf(k, i)' <=> MoveOf(k, i)) /\ (Placed(k, i)' <=> Placed(k, i))
  BY DEF Bound, MoveOf, Placed, Save, Destinations
<1>2. \A o : Constant(o)' <=> Constant(o)
  BY DEF Constant, Destinations
<1>3. PhisOK'
  BY DEF IInv, PhisOK
<1>4. PendingOK'
  BY DEF PendingOK
<1>5. CodeOK'
  BY <1>1 DEF IInv, CodeOK
<1> QED BY <1>1, <1>2, <1>3, <1>4, <1>5

\* When no copy is left, every phi has its move in the code.
LEMMA OrderedInvariant ==
  ASSUME IInv, TypeOK', Ordered
  PROVE  IInv'
<1>1. /\ UNCHANGED <<phis, copies, jumps, fresh, code, env, at, passed>> /\ pc' = "run"
      /\ DOMAIN copies = {}
  BY DEF Ordered
<1>2. /\ PhisOK' /\ PendingOK' /\ CodeOK'
      /\ \A o : Constant(o)' <=> Constant(o)
  BY <1>1, CodeUnchanged
<1>3. EnvOK'
  BY <1>1 DEF IInv, EnvOK, Constant, Destinations, Done, Ever, MoveOf, Reads, InTime
<1> QED BY <1>2, <1>3 DEF IInv

\* What the move at hand makes of the registers: a save changes none of the
\* function's own, any other move gives the register of a phi what its operand
\* holds now, since nothing is written between saving and restoring.
LEMMA MoveEffect ==
  ASSUME IInv, TypeOK', Move
  PROVE  /\ UNCHANGED <<phis, copies, code, passed>> /\ at' = at + 1 /\ at \in Nat /\ pc' = "run"
         /\ DOMAIN copies = {} /\ DOMAIN code = 1..Len(code) /\ Len(code) \in Nat
         /\ at \in DOMAIN code
         /\ \/ /\ \A o \in Regs \cup Imms : env'[o] = env[o]
               /\ \A i \in DOMAIN phis : ~MoveOf(at, i)
               /\ env'[code[at].dst] = env'[code[at].src]
            \/ /\ code[at].dst \notin Temps
               /\ \E l \in DOMAIN phis :
                    /\ MoveOf(at, l)
                    /\ env'[phis[l].dst] = env[phis[l].src]
                    /\ \A o \in Regs \cup Imms : o # phis[l].dst => env'[o] = env[o]
<1> PICK m, r, v : m = code[at] /\ r = m.dst /\ v = env[m.src]
  OBVIOUS
<1>0. /\ TypeOK /\ at \in DOMAIN code /\ m \in MoveSet
      /\ DOMAIN code = 1..Len(code) /\ Len(code) \in Nat
      /\ env' = [env EXCEPT ![r] = v] /\ at' = at + 1 /\ at \in Nat
      /\ UNCHANGED <<pc, phis, copies, jumps, fresh, code, passed>> /\ pc = "run"
  BY Typed DEF IInv, Move, TypeOK
<1>1. /\ r \in Operands /\ DOMAIN env = Operands /\ env'[r] = v
      /\ \A o \in Operands : o # r => env'[o] = env[o]
  BY <1>0, CopySetIsMoveSet DEF TypeOK
<1>2. \A o \in Regs \cup Imms : o # r => env'[o] = env[o]
  BY <1>0, <1>1, Apart
<1>3. DOMAIN copies = {}
  BY <1>0 DEF IInv, CodeOK
<1>4. CASE r \in Temps /\ m.src \in Regs
  <2>1. \A o \in Regs \cup Imms : env'[o] = env[o]
    BY <1>0, <1>2, <1>4, Apart
  <2>2. env'[r] = env'[m.src]
    BY <1>1, <1>4, <2>1
  <2>3. \A i \in DOMAIN phis : ~MoveOf(at, i)
    BY <1>0, <1>4, Apart DEF MoveOf
  <2> QED BY <1>0, <1>3, <2>1, <2>2, <2>3
<1>5. ASSUME NEW l \in DOMAIN phis, Placed(at, l)
      PROVE  /\ r \notin Temps /\ r = phis[l].dst /\ v = env[phis[l].src]
  <2>1. r = phis[l].dst /\ r \notin Temps
    BY <1>0, <1>5, Apart DEF Placed, MoveOf
  <2>2. CASE m.src = phis[l].src
    BY <2>1, <2>2
  <2>3. CASE m.src \in Temps /\ at - 1 \in DOMAIN code /\ code[at - 1] = Save(m.src, l)
    <3>1. code[at - 1].dst = m.src /\ code[at - 1].src = phis[l].src
      BY <2>3 DEF Save
    <3>2. env[code[at - 1].dst] = env[code[at - 1].src]
      BY <2>3, <3>1 DEF IInv, EnvOK
    <3> QED BY <2>1, <3>1, <3>2
  <2> QED BY <1>5, <2>2, <2>3 DEF Placed
<1>6. CASE \E l \in DOMAIN phis : Placed(at, l)
  <2>1. PICK l \in DOMAIN phis : Placed(at, l)
    BY <1>6
  <2>2. r \notin Temps /\ r = phis[l].dst /\ v = env[phis[l].src]
    BY <1>5, <2>1
  <2>3. MoveOf(at, l)
    BY <2>1 DEF Placed
  <2> QED BY <1>0, <1>1, <1>2, <1>3, <2>2, <2>3
<1> QED BY <1>0, <1>4, <1>6 DEF IInv, CodeOK

\* A save, and what is known of the registers.
LEMMA SaveExecuted ==
  ASSUME IInv, TypeOK', Move, \A o \in Regs \cup Imms : env'[o] = env[o],
         \A i \in DOMAIN phis : ~MoveOf(at, i), env'[code[at].dst] = env'[code[at].src]
  PROVE  EnvOK'
<1>0. /\ UNCHANGED <<phis, copies, code, passed>> /\ at' = at + 1 /\ at \in Nat /\ pc' = "run"
      /\ DOMAIN copies = {} /\ DOMAIN code = 1..Len(code) /\ Len(code) \in Nat
      /\ at \in DOMAIN code
  BY MoveEffect
<1>1. /\ \A k \in DOMAIN code, i \in DOMAIN phis : MoveOf(k, i)' <=> MoveOf(k, i)
      /\ \A o : Constant(o)' <=> Constant(o)
  BY <1>0, CodeUnchanged
<1>2. \A k \in DOMAIN code, i \in DOMAIN phis : MoveOf(k, i) /\ k < at' => k < at
  BY <1>0
<1>3. \A i \in DOMAIN phis : (Done(i)' <=> Done(i)) /\ (Ever(i)' <=> Ever(i))
  <2>1. \A i \in DOMAIN phis : Done(i)' <=> Done(i)
    BY <1>0, <1>1, <1>2 DEF Done
  <2> QED BY <1>0, <2>1 DEF Ever
<1>4. \A i \in DOMAIN phis : phis[i].dst \in Regs \cup Imms /\ env'[phis[i].dst] = env[phis[i].dst]
  BY Apart DEF IInv
<1>5. \A i, j \in DOMAIN phis : (Reads(i, j) => InTime(i, j))' => (Reads(i, j) => InTime(i, j))
  BY <1>0 DEF Reads, InTime, Destinations
<1>6. /\ \A o \in Regs \cup Imms : Constant(o)' => env'[o] = o
      /\ \A i \in DOMAIN phis' : Constant(phis[i].src)' /\ Ever(i)' => env'[phis'[i].dst] = phis'[i].src
  BY <1>0, <1>1, <1>3, <1>4 DEF IInv, EnvOK
<1>7. at' - 1 = at
  BY <1>0
<1>8. \A k, m \in DOMAIN code', i, j \in DOMAIN phis' :
        m < k /\ k < at' /\ MoveOf(k, i)' /\ MoveOf(m, j)' /\ phis'[i].src = phis'[j].dst =>
          env'[phis'[i].dst] = env'[phis'[j].dst]
  BY <1>0, <1>1, <1>2, <1>4 DEF IInv, EnvOK
<1>9. passed' = 0 => \A i \in DOMAIN phis' : ~Done(i)' => env'[phis'[i].dst] = phis'[i].dst
  BY <1>0, <1>3, <1>4 DEF IInv, EnvOK
<1>10. passed' = 0 /\ (\A i, j \in DOMAIN phis' : Reads(i, j)' => InTime(i, j)') =>
         \A i \in DOMAIN phis' : Done(i)' => env'[phis'[i].dst] = phis'[i].src
  BY <1>0, <1>3, <1>4, <1>5 DEF IInv, EnvOK
<1>11. passed' > 0 =>
         \A i, j \in DOMAIN phis' :
           Done(i)' /\ i # j /\ phis'[i].src = phis'[j].dst /\ Constant(phis[j].src)' =>
             env'[phis'[i].dst] = phis'[j].src
  BY <1>0, <1>1, <1>3, <1>4 DEF IInv, EnvOK
<1> QED BY <1>0, <1>6, <1>7, <1>8, <1>9, <1>10, <1>11 DEF EnvOK

\* The move of a phi, and what is known of the registers.
LEMMA CopyExecuted ==
  ASSUME IInv, TypeOK', Move, code[at].dst \notin Temps,
         NEW l \in DOMAIN phis, MoveOf(at, l), env'[phis[l].dst] = env[phis[l].src],
         \A o \in Regs \cup Imms : o # phis[l].dst => env'[o] = env[o]
  PROVE  EnvOK'
<1>0. /\ UNCHANGED <<phis, copies, code, passed>> /\ at' = at + 1 /\ at \in Nat /\ pc' = "run"
      /\ DOMAIN copies = {} /\ DOMAIN code = 1..Len(code) /\ Len(code) \in Nat
      /\ at \in DOMAIN code
  BY MoveEffect
<1>1. /\ \A k \in DOMAIN code, i \in DOMAIN phis : MoveOf(k, i)' <=> MoveOf(k, i)
      /\ \A o : Constant(o)' <=> Constant(o)
  BY <1>0, CodeUnchanged
<1>2. \A k \in DOMAIN code, i \in DOMAIN phis : MoveOf(k, i) /\ k < at => i # l
  BY <1>0 DEF IInv, CodeOK
<1>3. \A k \in DOMAIN code, i \in DOMAIN phis : MoveOf(k, i) /\ k < at' => k < at \/ (k = at /\ i = l)
  BY <1>0 DEF IInv, PhisOK, MoveOf
<1>4. \A i \in DOMAIN phis : i # l => /\ Done(i)' <=> Done(i)
                                      /\ Ever(i)' <=> Ever(i)
  <2>1. \A i \in DOMAIN phis : i # l => (Done(i)' <=> Done(i))
    BY <1>0, <1>1, <1>3 DEF Done
  <2> QED BY <1>0, <2>1 DEF Ever
<1>5. Done(l)'
  BY <1>0, <1>1 DEF Done
<1>6. \A i \in DOMAIN phis : i # l => env'[phis[i].dst] = env[phis[i].dst]
  BY Apart DEF IInv, PhisOK
<1>7. \A i, j \in DOMAIN phis : (Reads(i, j) => InTime(i, j))' => (Reads(i, j) => InTime(i, j))
  BY <1>0 DEF Reads, InTime, Destinations
<1>8. phis[l].src \in Regs \cup Imms /\ phis[l].dst \in Regs
  BY Apart DEF IInv
<1>9. \A o \in Regs \cup Imms : Constant(o)' => env'[o] = o
  <2> SUFFICES ASSUME NEW o \in Regs \cup Imms, Constant(o) PROVE env'[o] = o
    BY <1>1
  <2>1. CASE o # phis[l].dst
    BY <2>1 DEF IInv, EnvOK
  <2>2. CASE o = phis[l].dst
    <3>1. phis[l].src = o
      BY <2>2, Apart DEF Constant, IInv, PhisOK
    <3>2. env[o] = o
      BY DEF IInv, EnvOK
    <3> QED BY <2>2, <3>1, <3>2
  <2> QED BY <2>1, <2>2
<1>10. \A i \in DOMAIN phis' : Constant(phis[i].src)' /\ Ever(i)' => env'[phis'[i].dst] = phis'[i].src
  <2> SUFFICES ASSUME NEW i \in DOMAIN phis, Constant(phis[i].src), Ever(i)'
               PROVE  env'[phis[i].dst] = phis[i].src
    BY <1>0, <1>1
  <2>1. CASE i = l
    BY <1>8, <2>1 DEF IInv, EnvOK
  <2>2. CASE i # l
    BY <1>4, <1>6, <2>2 DEF IInv, EnvOK
  <2> QED BY <2>1, <2>2
<1>11. at' - 1 = at
  BY <1>0
<1>12. \A k, m \in DOMAIN code', i, j \in DOMAIN phis' :
         m < k /\ k < at' /\ MoveOf(k, i)' /\ MoveOf(m, j)' /\ phis'[i].src = phis'[j].dst =>
           env'[phis'[i].dst] = env'[phis'[j].dst]
  <2> SUFFICES ASSUME NEW k \in DOMAIN code, NEW m \in DOMAIN code, NEW i \in DOMAIN phis,
                      NEW j \in DOMAIN phis, m < k, k < at', MoveOf(k, i), MoveOf(m, j),
                      phis[i].src = phis[j].dst
               PROVE  env'[phis[i].dst] = env'[phis[j].dst]
    BY <1>0, <1>1
  <2>1. m < at /\ j # l
    BY <1>0, <1>2
  <2>2. CASE k = at
    <3>1. i = l
      BY <1>0, <1>3, <2>2
    <3> QED BY <1>6, <2>1, <3>1
  <2>3. CASE k # at
    <3>1. k < at /\ i # l
      BY <1>0, <1>2, <2>3
    <3>2. env[phis[i].dst] = env[phis[j].dst]
      BY <3>1 DEF IInv, EnvOK
    <3> QED BY <1>6, <2>1, <3>1, <3>2
  <2> QED BY <2>2, <2>3
<1>13. passed' = 0 => \A i \in DOMAIN phis' : ~Done(i)' => env'[phis'[i].dst] = phis'[i].dst
  BY <1>0, <1>4, <1>5, <1>6 DEF IInv, EnvOK
<1>14. passed' = 0 /\ (\A i, j \in DOMAIN phis' : Reads(i, j)' => InTime(i, j)') =>
         \A i \in DOMAIN phis' : Done(i)' => env'[phis'[i].dst] = phis'[i].src
  <2> SUFFICES ASSUME passed = 0, \A i, j \in DOMAIN phis : Reads(i, j) => InTime(i, j),
                      NEW i \in DOMAIN phis, Done(i)'
               PROVE  env'[phis[i].dst] = phis[i].src
    BY <1>0, <1>7
  <2>1. CASE i # l
    BY <1>4, <1>6, <2>1 DEF IInv, EnvOK
  <2>2. CASE i = l /\ Constant(phis[l].src)
    BY <1>8, <2>2 DEF IInv, EnvOK
  <2>3. CASE i = l /\ ~Constant(phis[l].src)
    <3>1. PICK j \in DOMAIN phis : phis[j].dst = phis[l].src
      BY <2>3, Apart DEF Constant, IInv
    <3>2. Reads(l, j)
      BY <2>3, <3>1 DEF Constant, Reads
    <3>3. Bound(j) /\ l < j
      BY <3>2 DEF InTime, Bound
    <3>4. \A k \in DOMAIN code : MoveOf(k, j) => at < k
      BY <1>0, <3>3 DEF IInv, CodeOK
    <3>5. ~Done(j)
      BY <1>0, <3>4 DEF Done
    <3>6. env[phis[j].dst] = phis[j].dst
      BY <3>5 DEF IInv, EnvOK
    <3> QED BY <2>3, <3>1, <3>6
  <2> QED BY <2>1, <2>2, <2>3
<1>15. passed' > 0 =>
         \A i, j \in DOMAIN phis' :
           Done(i)' /\ i # j /\ phis'[i].src = phis'[j].dst /\ Constant(phis[j].src)' =>
             env'[phis'[i].dst] = phis'[j].src
  <2> SUFFICES ASSUME passed > 0, NEW i \in DOMAIN phis, NEW j \in DOMAIN phis, Done(i)',
                      i # j, phis[i].src = phis[j].dst, Constant(phis[j].src)
               PROVE  env'[phis[i].dst] = phis[j].src
    BY <1>0, <1>1
  <2>1. CASE i # l
    BY <1>4, <1>6, <2>1 DEF IInv, EnvOK
  <2>2. CASE i = l
    <3>1. env[phis[j].dst] = phis[j].src
      BY DEF IInv, EnvOK, Ever
    <3> QED BY <2>2, <3>1
  <2> QED BY <2>1, <2>2
<1> QED BY <1>0, <1>9, <1>10, <1>11, <1>12, <1>13, <1>14, <1>15 DEF EnvOK

LEMMA MoveInvariant ==
  ASSUME IInv, TypeOK', Move
  PROVE  IInv'
<1>1. PhisOK' /\ PendingOK' /\ CodeOK'
  BY MoveEffect, CodeUnchanged
<1>2. EnvOK'
  BY MoveEffect, SaveExecuted, CopyExecuted
<1> QED BY <1>1, <1>2 DEF IInv

\* At a jump all phis have been given something.
LEMMA JumpInvariant ==
  ASSUME IInv, TypeOK', Leave \/ FallThrough
  PROVE  IInv'
<1>0. /\ UNCHANGED <<phis, copies, jumps, fresh, code, env>> /\ pc = "run" /\ pc' # "order"
      /\ at > Len(code) /\ DOMAIN code = 1..Len(code) /\ Len(code) \in Nat /\ at \in Nat
      /\ DOMAIN copies = {}
  BY Typed DEF IInv, TypeOK, Leave, FallThrough, CodeOK
<1>1. /\ PhisOK' /\ PendingOK' /\ CodeOK'
      /\ \A k \in DOMAIN code, i \in DOMAIN phis : MoveOf(k, i)' <=> MoveOf(k, i)
      /\ \A o : Constant(o)' <=> Constant(o)
  BY <1>0, CodeUnchanged
<1>2. \A i \in DOMAIN phis : Done(i) /\ Ever(i)
  BY <1>0 DEF IInv, CodeOK, Done, Ever
<1>3. CASE Leave
  <2>1. at' = at /\ passed' = passed /\ pc' = "left"
    BY <1>3 DEF Leave
  <2>2. EnvOK'
    BY <1>0, <2>1 DEF IInv, EnvOK, Constant, Destinations, Done, Ever, MoveOf, Reads, InTime
  <2> QED BY <1>1, <2>2 DEF IInv
<1>4. CASE FallThrough
  <2>1. at' = 1 /\ passed' = passed + 1 /\ passed' > 0 /\ pc' = "run"
    BY <1>4 DEF FallThrough, IInv, TypeOK
  <2>2. \A k \in DOMAIN code' : ~(k < at') /\ at' - 1 # k
    BY <1>0, <2>1
  <2>3. \A i \in DOMAIN phis' : ~Done(i)'
    BY <2>2 DEF Done
  <2>4. /\ \A o \in Regs \cup Imms : Constant(o)' => env'[o] = o
        /\ \A i \in DOMAIN phis' : Constant(phis[i].src)' => env'[phis'[i].dst] = phis'[i].src
    BY <1>0, <1>1, <1>2 DEF IInv, EnvOK
  <2>5. EnvOK'
    BY <2>1, <2>2, <2>3, <2>4 DEF EnvOK
  <2> QED BY <1>1, <2>5 DEF IInv
<1> QED BY <1>3, <1>4

LEMMA StepInvariant == IInv /\ [Next]_vars => IInv'
<1> SUFFICES ASSUME IInv, [Next]_vars PROVE IInv'
  OBVIOUS
<1>1. TypeOK'
  BY TypeStep DEF IInv
<1>2. CASE UNCHANGED vars
  <2>1. PhisOK' /\ PendingOK' /\ CodeOK'
    BY <1>2 DEF vars, IInv, PhisOK, PendingOK, CodeOK, CopyOf, MoveOf, Saved, Save, Placed,
                Bound, Destinations
  <2>2. EnvOK'
    BY <1>2 DEF vars, IInv, EnvOK, Constant, Destinations, Done, Ever, MoveOf, Reads, InTime
  <2> QED BY <1>1, <2>1, <2>2 DEF IInv
<1> QED BY <1>1, <1>2, EmitInvariant, SaveInvariant, OrderedInvariant, MoveInvariant,
           JumpInvariant DEF Next

-----------------------------------------------------------------------------
(* What is true when the program leaves. *)

\* Reads in time: every phi has its value.
LEMMA InTimeIsRight ==
  ASSUME IInv, pc = "left", \A i, j \in DOMAIN phis : Reads(i, j) => InTime(i, j),
         NEW i \in DOMAIN phis, Done(i)
  PROVE  env[phis[i].dst] = phis[i].src
<1>1. CASE passed = 0
  BY <1>1 DEF IInv, EnvOK
<1>2. CASE passed # 0
  <2>1. Constant(phis[i].src)
    <3>1. \A j \in DOMAIN phis : ~Reads(i, j)
      BY <1>2 DEF InTime
    <3> QED BY <3>1, Apart DEF Constant, Reads, IInv
  <2> QED BY <2>1 DEF IInv, EnvOK, Ever
<1> QED BY <1>1, <1>2

\* A late read: not every phi has.  If the move of j is in front of that of i,
\* both hold the same.  If all such reads come in time but the moves were
\* executed again, the last phi that reads another one's register finds what
\* that one was given the first time.
LEMMA LateIsWrong ==
  ASSUME IInv, pc = "left", \A i \in DOMAIN phis : Done(i),
         \A i \in DOMAIN phis : env[phis[i].dst] = phis[i].src
  PROVE  \A i, j \in DOMAIN phis : Reads(i, j) => InTime(i, j)
<1>0. /\ TypeOK /\ DOMAIN phis = 1..Len(phis) /\ Len(phis) \in Nat
      /\ DOMAIN code = 1..Len(code) /\ Len(code) \in Nat /\ at > Len(code) /\ at \in Nat
  BY Apart, Typed DEF IInv, TypeOK, EnvOK
<1>1. ASSUME NEW i \in DOMAIN phis, NEW j \in DOMAIN phis, Reads(i, j)
      PROVE  Bound(j) /\ i < j
  <2>1. PICK k \in DOMAIN code : MoveOf(k, i)
    BY DEF Done
  <2>2. PICK m \in DOMAIN code : MoveOf(m, j)
    BY DEF Done
  <2>3. SUFFICES ASSUME ~(Bound(j) /\ i < j) PROVE FALSE
    OBVIOUS
  <2>4. Bound(i) /\ (~Bound(j) \/ j < i)
    BY <1>0, <1>1, <2>3, Apart DEF Bound, Reads
  <2>5. m < k
    BY <2>1, <2>2, <2>4 DEF IInv, CodeOK
  <2>6. env[phis[i].dst] = env[phis[j].dst]
    BY <1>0, <1>1, <2>1, <2>2, <2>5 DEF IInv, EnvOK, Reads
  <2> QED BY <1>1, <2>6 DEF Reads
<1>2. ASSUME passed > 0, NEW i0 \in DOMAIN phis, NEW j0 \in DOMAIN phis, Reads(i0, j0)
      PROVE  FALSE
  <2> DEFINE Readers == {i \in DOMAIN phis : \E j \in DOMAIN phis : Reads(i, j)}
  <2>1. PICK i \in Readers : \A l \in Readers : l <= i
    <3>1. Readers \in SUBSET Nat /\ Readers # {} /\ \A l \in Readers : l <= Len(phis)
      BY <1>0, <1>2
    <3> HIDE DEF Readers
    <3> QED BY <1>0, <3>1, LargestElement
  <2>2. PICK j \in DOMAIN phis : Reads(i, j)
    OBVIOUS
  <2>3. Bound(j) /\ i < j /\ i \in DOMAIN phis
    BY <1>1, <2>2
  <2>4. \A f \in DOMAIN phis : ~Reads(j, f)
    BY <1>0, <2>1, <2>3
  <2>5. Constant(phis[j].src)
    BY <1>0, <2>4, Apart DEF Constant, Reads
  <2>6. env[phis[i].dst] = phis[j].src
    BY <1>2, <2>2, <2>3, <2>5 DEF IInv, EnvOK, Reads
  <2> QED BY <2>2, <2>3, <2>6 DEF Reads
<1>3. passed \in Nat
  BY <1>0 DEF TypeOK
<1> QED BY <1>1, <1>2, <1>3 DEF InTime, Bound

\* For every list of copies, whatever registers they share, and however often
\* the moves that parallelCopy puts in front of the jumps are executed: the
\* phis have the values of a parallel copy exactly if each one that takes the
\* register of another one reads it in time, and nothing else has changed.
THEOREM Copies == Spec => []Parallel
<1>1. Init => IInv
  BY InitInvariant
<1>2. IInv => Parallel
  <2> SUFFICES ASSUME IInv, pc = "left"
               PROVE  /\ (\A i \in DOMAIN phis : env[phis[i].dst] = phis[i].src)
                           <=> (\A i, j \in DOMAIN phis : Reads(i, j) => InTime(i, j))
                      /\ \A r \in Regs \ Destinations : env[r] = r
    BY DEF Parallel
  <2>1. \A i \in DOMAIN phis : Done(i)
    <3>1. /\ DOMAIN code = 1..Len(code) /\ Len(code) \in Nat /\ at > Len(code) /\ at \in Nat
          /\ DOMAIN copies = {}
      BY Typed DEF IInv, TypeOK, EnvOK, CodeOK
    <3> QED BY <3>1 DEF IInv, CodeOK, Done
  <2>2. (\A i, j \in DOMAIN phis : Reads(i, j) => InTime(i, j)) =>
          \A i \in DOMAIN phis : env[phis[i].dst] = phis[i].src
    BY <2>1, InTimeIsRight
  <2>3. (\A i \in DOMAIN phis : env[phis[i].dst] = phis[i].src) =>
          \A i, j \in DOMAIN phis : Reads(i, j) => InTime(i, j)
    BY <2>1, LateIsWrong
  <2>4. \A r \in Regs \ Destinations : env[r] = r
    BY DEF IInv, EnvOK, Constant
  <2> QED BY <2>2, <2>3, <2>4
<1> QED BY <1>1, <1>2, StepInvariant, PTL DEF Spec
=============================================================================
