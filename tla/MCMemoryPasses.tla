--------------------------- MODULE MCMemoryPasses ---------------------------
(***************************************************************************)
(* Small programs of two variables, written with loads and stores as a     *)
(* front end does: a shape gives each block a few statements and its       *)
(* terminator.                                                             *)
(***************************************************************************)
EXTENDS MemoryPasses

CONSTANT Shapes

Blk(n) == <<"blk", n>>
Const(n) == <<"const", n>>
X == <<"ins", 101>>
Y == <<"ins", 102>>
P == <<"ptr", 1>>

Empty(n) ==
  LET names == {Blk(b) : b \in 1..n}
  IN  [blocks |-> [b \in 1..n |-> Blk(b)],
       code |-> [b \in names |-> <<>>], op |-> <<>>, args |-> <<>>,
       uses |-> [b \in names |-> <<>>],
       succ |-> [b \in names |-> EmptyBag], pred |-> [b \in names |-> EmptyBag],
       next |-> 101, fault |-> ""]

\* A statement: op is what it does, to the variables it names.
Loaded(f, b, v) == AppendTo(f, b, "load", <<v>>)
LastOf(f) == <<"ins", f.next - 1>>
Statement(f, b, s) ==
  CASE s = "none" -> f
    [] s = "x:=c" -> AppendTo(f, b, "store", <<X, Const(10 + b[2])>>)
    [] s = "y:=x" -> LET g == Loaded(f, b, X) IN AppendTo(g, b, "store", <<Y, LastOf(g)>>)
    [] s = "x:=y" -> LET g == Loaded(f, b, Y) IN AppendTo(g, b, "store", <<X, LastOf(g)>>)
    [] s = "f(x)" -> LET g == Loaded(f, b, X) IN AppendTo(g, b, "call", <<LastOf(g)>>)
    [] s = "f(y)" -> LET g == Loaded(f, b, Y) IN AppendTo(g, b, "call", <<LastOf(g)>>)
    [] s = "x"    -> Loaded(f, b, X)
    [] s = "g(x)" -> LET g == Loaded(f, b, X) IN AppendTo(g, b, "inline", <<LastOf(g)>>)
    [] s = "*p:=x" -> LET g == Loaded(f, b, X) IN AppendTo(g, b, "store", <<P, LastOf(g)>>)
    [] s = "f(*p)" -> LET g == Loaded(f, b, P) IN AppendTo(g, b, "call", <<LastOf(g)>>)
    [] s = "*p:=&x" -> AppendTo(f, b, "store", <<P, X>>)
    [] s = "f(**p)" -> LET g == Loaded(f, b, P)
                           h == Loaded(g, b, LastOf(g)) IN AppendTo(h, b, "call", <<LastOf(h)>>)

Terminator(f, b, t) ==
  CASE t[1] = "ret"  -> AppendTo(f, b, "ret", <<>>)
    [] t[1] = "jump" -> AppendTo(f, b, "jump", <<Blk(t[2])>>)
    [] t[1] = "if"   -> AppendTo(f, b, "jump", <<Blk(t[2]), Blk(t[3]), <<"arg", 1>> >>)
    [] t[1] = "while" -> LET g == Loaded(f, b, X)
                         IN  AppendTo(g, b, "jump", <<Blk(t[2]), Blk(t[3]), LastOf(g)>>)

Compile(shape) ==
  LET slots == AppendTo(AppendTo(Empty(Len(shape)), Blk(1), "alloca", <<>>), Blk(1), "alloca", <<>>)
      block(f, n) == LET g == FoldLeft(LAMBDA h, s : Statement(h, Blk(n), s), f, shape[n].body)
                     IN  Terminator(g, Blk(n), shape[n].term)
  IN  FoldLeftDomain(block, slots, shape)

MCPrograms == {Compile(shape) : shape \in Shapes}

Bodies == {"none", "x:=c", "y:=x", "f(x)", "f(y)"}
Joined(a, b, c, d) == << [body |-> <<"x:=c", a>>, term |-> <<"if", 2, 3>>],
                         [body |-> <<b>>, term |-> <<"jump", 4>>],
                         [body |-> <<c>>, term |-> <<"jump", 4>>],
                         [body |-> <<d, "f(x)">>, term |-> <<"ret">>] >>
Looped(a, b, c, d) == << [body |-> <<a>>, term |-> <<"jump", 2>>],
                         [body |-> <<b>>, term |-> <<"while", 3, 4>>],
                         [body |-> <<c>>, term |-> <<"if", 2, 4>>],
                         [body |-> <<d>>, term |-> <<"ret">>] >>

Nested(a, b, c, d) == << [body |-> <<"x:=c", a>>, term |-> <<"jump", 2>>],
                         [body |-> <<b>>, term |-> <<"if", 3, 5>>],
                         [body |-> <<c>>, term |-> <<"while", 4, 2>>],
                         [body |-> <<d, "x:=y">>, term |-> <<"jump", 3>>],
                         [body |-> <<"f(y)">>, term |-> <<"ret">>] >>

\* A store whose join leads to another join.
Stepwise(a, b, c) == << [body |-> <<"x:=c", a>>, term |-> <<"if", 2, 5>>],
                        [body |-> <<b>>, term |-> <<"while", 3, 4>>],
                        [body |-> <<"x:=c">>, term |-> <<"jump", 4>>],
                        [body |-> <<c>>, term |-> <<"jump", 5>>],
                        [body |-> <<"f(x)">>, term |-> <<"ret">>] >>

\* The phis of two joins, of which the last is not used.
Chained(a) == << [body |-> <<"x:=c", a>>, term |-> <<"if", 2, 3>>],
                 [body |-> <<"x:=c">>, term |-> <<"jump", 3>>],
                 [body |-> <<"none">>, term |-> <<"if", 4, 5>>],
                 [body |-> <<"x:=c">>, term |-> <<"jump", 5>>],
                 [body |-> <<"y:=x">>, term |-> <<"if", 6, 7>>],
                 [body |-> <<"x:=c">>, term |-> <<"jump", 7>>],
                 [body |-> <<"y:=x">>, term |-> <<"ret">>] >>

\* Code behind a return, and a jump out of it into the function.
Unreached == { << [body |-> <<"x:=c">>, term |-> <<"jump", 3>>],
                  [body |-> <<"none">>, term |-> <<"jump", 3>>],
                  [body |-> <<"f(x)">>, term |-> <<"ret">>] >>,
               << [body |-> <<"x:=c">>, term |-> <<"if", 3, 4>>],
                  [body |-> <<"f(x)">>, term |-> <<"jump", 3>>],
                  [body |-> <<"x:=c">>, term |-> <<"jump", 4>>],
                  [body |-> <<"f(x)">>, term |-> <<"ret">>] >> }

\* A callee with a slot of its own in each part of a loop, and a pointer.
Inlined == { << [body |-> <<"x:=c", a>>, term |-> <<"jump", 2>>],
                [body |-> <<b, "x">>, term |-> <<"if", 3, 4>>],
                [body |-> <<c, "x:=c">>, term |-> <<"if", 2, 4>>],
                [body |-> <<"f(*p)">>, term |-> <<"ret">>] >> :
             a \in {"none", "g(x)"}, b \in {"none", "g(x)", "*p:=x"}, c \in {"g(x)", "*p:=x"} }
Escaping == { << [body |-> <<"x:=c", "*p:=&x">>, term |-> <<"if", 2, 3>>],
                 [body |-> <<a, "x:=c">>, term |-> <<"jump", 3>>],
                 [body |-> <<"f(x)", b>>, term |-> <<"ret">>] >> :
              a \in Bodies, b \in {"f(*p)", "f(**p)"} }

MCShapes ==
  {Joined(a, b, c, d) : a, b, c, d \in Bodies} \cup
  {Looped(a, b, c, d) : a, b, c, d \in Bodies} \cup
  {Nested(a, b, c, d) : a, b, c, d \in {"none", "x:=c", "y:=x"}} \cup
  {Chained(a) : a \in Bodies} \cup
  {Stepwise(a, b, c) : a, b, c \in {"none", "y:=x", "x:=y", "f(x)"}} \cup
  Unreached \cup Inlined \cup Escaping

\* return; while(x) x = c;
DeadLoop == { << [body |-> <<"x:=c", "f(x)">>, term |-> <<"ret">>],
                 [body |-> <<"none">>, term |-> <<"while", 3, 4>>],
                 [body |-> <<"x:=c">>, term |-> <<"jump", 2>>],
                 [body |-> <<"none">>, term |-> <<"ret">>] >> }

\* *p = x;
Output == { << [body |-> <<"x:=c", "*p:=x">>, term |-> <<"ret">>] >> }

\* x = c; *p = &x; f(**p);
LostEscape == { << [body |-> <<"x:=c", "*p:=&x", "f(**p)">>, term |-> <<"ret">>] >> }

\* x is set differently on two paths; a callee with a slot is inlined later.
LateInlining == { << [body |-> <<"none">>, term |-> <<"if", 2, 3>>],
                     [body |-> <<"x:=c">>, term |-> <<"jump", 4>>],
                     [body |-> <<"x:=c", "g(x)">>, term |-> <<"jump", 4>>],
                     [body |-> <<"g(x)", "f(x)">>, term |-> <<"ret">>] >> }

MCInputs == [1..1 -> {0, 1}]
=============================================================================
