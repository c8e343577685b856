---------------------------- MODULE ParallelCopy ----------------------------
(***************************************************************************)
(* How the phis of a block leave the machine code                          *)
(* (src/src/target/target_lowering.cpp): lowerPhis collects, for one       *)
(* predecessor, the copies its edge asks for, parallelCopy orders them and *)
(* puts them in front of every jump of the predecessor, and the program    *)
(* then runs through that code and leaves by one of the jumps.             *)
(***************************************************************************)
EXTENDS Naturals, SequencesExt

CONSTANTS
  Regs,      \* virtual registers of the function, those of the phis included
  Imms,      \* other operands a phi can have: immediates, symbols
  PhiLists,  \* the copies of an edge: sequences of records dst, src
  MaxTemps,  \* registers parallelCopy can create, a bound of the model
  MaxJumps   \* jumps at the end of the predecessor, a bound of the model

\* getNextVirtualRegister hands out new registers in order.
Temps == 1..MaxTemps

Operands == Regs \cup Imms \cup Temps

\* Copies lead from an operand to a register, and each phi has a register of
\* its own.
ASSUME CopiesAssumption ==
  /\ Regs \cap Imms = {} /\ Regs \cap Temps = {} /\ Imms \cap Temps = {}
  /\ MaxTemps \in Nat /\ MaxJumps \in Nat \ {0}
  /\ PhiLists \subseteq Seq([dst : Regs, src : Regs \cup Imms])
  /\ \A list \in PhiLists : \A i, j \in DOMAIN list : list[i].dst = list[j].dst => i = j

VARIABLES
  pc,      \* "order", then "run", then "left"
  phis,    \* the copies asked for; a history variable
  copies,  \* those not emitted yet
  jumps,   \* number of jumps of the predecessor
  fresh,   \* number of virtual registers created
  code,    \* the moves in front of each jump
  env,     \* what the registers hold, in terms of their values on the way in
  at,      \* next move to execute
  passed   \* jumps that were not taken

vars == <<pc, phis, copies, jumps, fresh, code, env, at, passed>>

Init ==
  /\ pc = "order"
  /\ phis \in PhiLists
  /\ copies = phis
  /\ jumps \in 1..MaxJumps
  /\ fresh = 0
  /\ code = <<>>
  /\ env = [r \in Operands |-> r]
  /\ at = 1
  /\ passed = 0

-----------------------------------------------------------------------------
(* The compiler. *)

\* destinations is filled once and never shrinks.
Destinations == {phis[i].dst : i \in DOMAIN phis}

Acyclic(i) == copies[i].src \notin Destinations

\* copies.erase(copies.begin() + i).
WithoutCopy(i) == RemoveAt(copies, i)

\* Mutant: the move goes in front of the earlier ones.
EmitInFront(i) ==
  /\ pc = "order"
  /\ i \in DOMAIN copies
  /\ Acyclic(i)
  /\ \A j \in 1..(i - 1) : ~Acyclic(j)
  /\ code' = <<copies[i]>> \o code
  /\ copies' = WithoutCopy(i)
  /\ UNCHANGED <<pc, phis, jumps, fresh, env, at, passed>>

\* The first copy whose source is no destination is emitted as it stands.
EmitMove(i) ==
  /\ pc = "order"
  /\ i \in DOMAIN copies
  /\ Acyclic(i)
  /\ \A j \in 1..(i - 1) : ~Acyclic(j)
  /\ code' = Append(code, copies[i])
  /\ copies' = WithoutCopy(i)
  /\ UNCHANGED <<pc, phis, jumps, fresh, env, at, passed>>

\* Mutant: the loop leaves the first copy out, which keeps its source.
SaveForOthers ==
  /\ pc = "order"
  /\ copies # <<>>
  /\ \A i \in DOMAIN copies : ~Acyclic(i)
  /\ fresh < MaxTemps
  /\ fresh' = fresh + 1
  /\ code' = Append(code, [dst |-> fresh', src |-> copies[1].src])
  /\ copies' = [i \in DOMAIN copies |->
                  IF i > 1 /\ copies[i].src = copies[1].src
                  THEN [copies[i] EXCEPT !.src = fresh'] ELSE copies[i]]
  /\ UNCHANGED <<pc, phis, jumps, env, at, passed>>

\* All sources are destinations: the first copy's is saved in a new register,
\* which becomes its source.  copy refers to the first element itself, so the
\* loop compares all later copies with the new register, and they keep theirs.
SaveSource ==
  /\ pc = "order"
  /\ copies # <<>>
  /\ \A i \in DOMAIN copies : ~Acyclic(i)
  /\ fresh < MaxTemps
  /\ fresh' = fresh + 1
  /\ code' = Append(code, [dst |-> fresh', src |-> copies[1].src])
  /\ copies' = [copies EXCEPT ![1].src = fresh']
  /\ UNCHANGED <<pc, phis, jumps, env, at, passed>>

Ordered ==
  /\ pc = "order"
  /\ copies = <<>>
  /\ pc' = "run"
  /\ UNCHANGED <<phis, copies, jumps, fresh, code, env, at, passed>>

-----------------------------------------------------------------------------
(* The compiled predecessor. *)

Move ==
  /\ pc = "run"
  /\ at <= Len(code)
  /\ env' = [env EXCEPT ![code[at].dst] = env[code[at].src]]
  /\ at' = at + 1
  /\ UNCHANGED <<pc, phis, copies, jumps, fresh, code, passed>>

\* A jump is taken; the last one always is.
Leave ==
  /\ pc = "run"
  /\ at > Len(code)
  /\ pc' = "left"
  /\ UNCHANGED <<phis, copies, jumps, fresh, code, env, at, passed>>

\* Mutant: the last jump need not be taken either.
FallOff ==
  /\ pc = "run"
  /\ at > Len(code)
  /\ passed' = passed + 1
  /\ at' = 1
  /\ UNCHANGED <<pc, phis, copies, jumps, fresh, code, env>>

\* Or it is not, and the moves in front of the next one follow.
FallThrough ==
  /\ pc = "run"
  /\ at > Len(code)
  /\ passed + 1 < jumps
  /\ passed' = passed + 1
  /\ at' = 1
  /\ UNCHANGED <<pc, phis, copies, jumps, fresh, code, env>>

Next ==
  \/ \E i \in DOMAIN copies : EmitMove(i)
  \/ SaveSource
  \/ Ordered
  \/ Move \/ Leave \/ FallThrough

\* Neither the loop of parallelCopy nor the compiled block waits for anything.
Spec == Init /\ [][Next]_vars /\ WF_vars(Next)
-----------------------------------------------------------------------------
\* The i-th phi wants what the j-th phi's register held, and that one gets
\* another value.
Reads(i, j) ==
  /\ i # j
  /\ phis[i].src = phis[j].dst
  /\ phis[j].src # phis[j].dst

\* The read comes before the write: the writing copy also has to be saved, is
\* behind the reading one, and the moves are executed only once.
InTime(i, j) ==
  /\ phis[j].src \in Destinations
  /\ i < j
  /\ passed = 0

\* Every variable keeps its type.
TypeOK ==
  /\ pc \in {"order", "run", "left"}
  /\ phis \in Seq([dst : Regs, src : Regs \cup Imms])
  /\ copies \in Seq([dst : Regs, src : Operands])
  /\ jumps \in 1..MaxJumps
  /\ fresh \in 0..MaxTemps
  /\ code \in Seq([dst : Regs \cup Temps, src : Operands])
  /\ env \in [Operands -> Operands]
  /\ at \in 1..(Len(code) + 1)
  /\ passed \in 0..(jumps - 1)

\* When the copies of an edge happen at once, for phis that read each other's
\* registers as well: however the program leaves the block, every phi's register
\* holds what its operand held before if each read comes in time, and one of
\* them does not if a read comes late.  No other register ever changes.
Parallel ==
  pc = "left" =>
    /\ (\A i \in DOMAIN phis : env[phis[i].dst] = phis[i].src)
         <=> (\A i, j \in DOMAIN phis : Reads(i, j) => InTime(i, j))
    /\ \A r \in Regs \ Destinations : env[r] = r

\* Every copy is emitted in the end, with no more new registers than copies,
\* however many of them read one register: the copy that SaveSource retargets
\* can be emitted in the next turn.
Ends == <>(pc = "left" /\ fresh <= Len(phis))
=============================================================================
