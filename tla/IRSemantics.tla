----------------------------- MODULE IRSemantics -----------------------------
(***************************************************************************)
(* What an IR function computes, as far as control flow and phis decide    *)
(* it: the sequence of values its calls are given.  The language has no    *)
(* interpreter in the repository; the meaning of each instruction is the   *)
(* one its lowering gives it (src/src/codegen/isel_pass.cpp and            *)
(* TargetLowering::lowerPhis).  The phis of a block take their values      *)
(* together, from what the registers held on entry; a phi that has no      *)
(* entry for the edge taken, for which lowerPhis emits no copy, yields an  *)
(* undefined value.                                                        *)
(***************************************************************************)
EXTENDS IRGraph

Undefined == <<"undef", 0>>

\* The value of an operand, where input gives each argument an integer.
ValueOf(input, env, v) ==
  CASE v[1] = "arg" -> <<"const", input[v[2]]>>
    [] v[1] = "ins" -> IF v \in DOMAIN env THEN env[v] ELSE Undefined
    [] OTHER -> v

PhiValue(ir, input, env, i, from) ==
  LET entries == {k \in DOMAIN ir.args[i] : k % 2 = 0 /\ ir.args[i][k] = from}
  IN  IF entries = {} THEN Undefined
      ELSE ValueOf(input, env, ir.args[i][Min(entries) - 1])

\* The block a terminator leads to, or the terminator itself on a return.
Goes(ir, input, env, i) ==
  LET a == ir.args[i]
      cases == {k \in 3..Len(a) : k % 2 = 1 /\ a[k] = ValueOf(input, env, a[1])}
  IN  CASE ir.op[i] = "jump" /\ Len(a) = 1 -> a[1]
        [] ir.op[i] = "jump" /\ Len(a) > 1 ->
             IF ValueOf(input, env, a[3]) = <<"const", 0>> THEN a[2] ELSE a[1]
        [] ir.op[i] = "switch" -> IF cases = {} THEN a[2] ELSE a[Min(cases) + 1]
        [] OTHER -> i

\* One instruction of the current block; s.held is what the registers held on
\* entry, and s.at moves on at the terminator.
Execute(ir, input, s, i) ==
  CASE ir.op[i] = "phi" ->
         [s EXCEPT !.env = (i :> PhiValue(ir, input, s.held, i, s.from)) @@ @]
    [] ir.op[i] = "call" ->
         LET v == ValueOf(input, s.env, ir.args[i][1])
         IN  [s EXCEPT !.out = Append(@, v), !.env = (i :> <<"result", v>>) @@ @]
    [] OTHER -> [s EXCEPT !.from = s.at, !.at = Goes(ir, input, s.env, i)]

\* At most fuel blocks of a run.
Run(ir, input, fuel) ==
  LET visit(s, n) == IF ~IsBlock(s.at) THEN s
                     ELSE FoldLeft(LAMBDA t, i : Execute(ir, input, t, i),
                                   [s EXCEPT !.held = s.env], ir.code[s.at])
      start == [at |-> Entry(ir), from |-> Entry(ir),
                env |-> <<>>, held |-> <<>>, out |-> <<>>]
      end   == FoldLeft(visit, start, [n \in 1..fuel |-> n])
  IN  [out |-> end.out, ended |-> ~IsBlock(end.at)]

\* Two runs agree as far as both went.
Agree(r, s) ==
  /\ r.ended /\ s.ended => Len(r.out) = Len(s.out)
  /\ \A k \in DOMAIN r.out \cap DOMAIN s.out : r.out[k] = s.out[k]
=============================================================================
