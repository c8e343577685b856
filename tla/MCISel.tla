-------------------------------- MODULE MCISel --------------------------------
(* Functions for TLC: a diamond, a loop, a switch, and the instructions that *)
(* have a graph of their own (slots, structs, calls, globals).               *)
EXTENDS ISel

I(id, op, ty, args) == [id |-> id, op |-> op, ty |-> ty, args |-> args]
V(id) == <<"ins", id>>
A(n) == <<"arg", n>>
Int1 == <<"int", 1>>
To(b) == <<"block", b>>
Void(id, op, args) == I(id, op, "void", args)
Fn(blocks) ==
    [args |-> <<[ty |-> "int", byval |-> FALSE], [ty |-> "int", byval |-> FALSE], [ty |-> "ptr", byval |-> FALSE],
                [ty |-> "flt", byval |-> FALSE], [ty |-> "ptr", byval |-> TRUE]>>,
     blocks |-> blocks]

First(id) ==
    {I(id, "Add", "int", <<A(1), A(2)>>), I(id, "Add", "int", <<A(1), Int1>>), I(id, "ICmp", "int", <<A(1), A(2)>>),
     I(id, "ICmp", "int", <<Int1, A(2)>>), I(id, "ICmp", "int", <<A(3), A(3)>>), I(id, "ICmp", "int", <<Int1, <<"undef">> >>),
     I(id, "FCmp", "int", <<A(4), A(4)>>), I(id, "GenericCast", "int", <<A(3)>>), I(id, "Load", "int", <<A(3)>>)}
\* An instruction that uses another
Uses(id, v) ==
    {I(id, "Add", "int", <<v, v>>), I(id, "Add", "int", <<v, Int1>>), I(id, "ICmp", "int", <<v, A(1)>>), I(id, "ICmp", "int", <<v, Int1>>),
     I(id, "Zext", "int", <<v>>), I(id, "GenericCast", "int", <<v>>), Void(id, "Store", <<A(3), v>>)}

\* A comparison that a jump covers is erased, and only those who are selected
\* later ask for it again: the functions here have no other user of it that an
\* instruction above the jump leads to, itself or through its operands
All(f) == UNION {Range(f.blocks[b]) : b \in DOMAIN f.blocks}
Place(f, i) == CHOOSE p \in (DOMAIN f.blocks) \X (1..4) : p[2] \in DOMAIN f.blocks[p[1]] /\ f.blocks[p[1]][p[2]] = i
Sooner(p, q) == p[1] < q[1] \/ (p[1] = q[1] /\ p[2] < q[2])
Asked(f, is) == {V(n) : n \in 1..9} \intersect UNION {Range(i.args) : i \in is}
With(all, is, asked) == is \union {d \in all : V(d.id) \in asked}
LeadsTo(f, s) == FoldLeft(LAMBDA is, n : With(All(f), is, Asked(f, is)), s, <<1, 2, 3, 4>>)
Above(f, j) == {w \in All(f) : Sooner(Place(f, w), Place(f, j))}
Other(f, c, is) == {u \in is : V(c.id) \in Range(u.args) /\ u.op # "Jump"}
KeepsComparisons(f) ==
    \A c \in {i \in All(f) : i.op \in {"ICmp", "FCmp"}}, j \in {i \in All(f) : i.op = "Jump"} :
        V(c.id) \in Range(j.args) => Other(f, c, LeadsTo(f, Above(f, j))) = {}
\* A store gives nothing to use
Sensible(f) == \A i \in All(f), d \in All(f) : V(d.id) \in Range(i.args) => d.ty # "void"

Diamond(e1, e2, c, f, p) ==
    Fn(<< <<e1, e2, Void(3, "Jump", <<To(2), To(3), V(c)>>)>>,
          <<f, Void(5, "Jump", <<To(4)>>)>>,
          <<Void(6, "Jump", <<To(4)>>)>>,
          <<I(7, "Phi", "int", <<p, To(2), Int1, To(3)>>), I(8, "Zext", "int", <<V(7)>>), Void(9, "Ret", <<V(8)>>)>> >>)
Diamonds ==
    {Diamond(e1, e2, c, f, p) : e1 \in First(1), e2 \in Uses(2, V(1)), c \in {1, 2},
                                f \in {I(4, "Zext", "int", <<V(1)>>), I(4, "Add", "int", <<V(1), A(2)>>)}, p \in {V(1), V(4)}}

\* The comparison may be in the header, in the entry, or below the jump on it
Loop(e1, e2, c, f) ==
    Fn(<< <<e1, Void(2, "Jump", <<To(2)>>)>>,
          <<I(3, "Phi", "int", <<V(1), To(1), V(6), To(3)>>), e2, Void(5, "Jump", <<To(3), To(4), V(c)>>)>>,
          <<f, Void(7, "Jump", <<To(2)>>)>>,
          <<I(8, "Add", "int", <<V(3), A(1)>>), Void(9, "Ret", <<V(8)>>)>> >>)
Loops ==
    {Loop(e1, e2, c, f) : e1 \in First(1), e2 \in Uses(4, V(3)), c \in {1, 3, 4}, f \in Uses(6, V(4)) \union Uses(6, V(1))}

\* The same condition decides twice, in two blocks
Twice(e1, f) ==
    Fn(<< <<e1, Void(2, "Jump", <<To(2), To(4), V(1)>>)>>,
          <<f, Void(4, "Jump", <<To(3), To(4), V(1)>>)>>,
          <<I(5, "Zext", "int", <<V(1)>>), Void(6, "Ret", <<V(5)>>)>>,
          <<I(7, "Add", "int", <<A(1), A(2)>>), Void(8, "Ret", <<V(7)>>)>> >>)
Jumps == {Twice(e1, f) : e1 \in First(1), f \in {I(3, "Add", "int", <<A(1), Int1>>), Void(3, "Store", <<A(3), A(1)>>)}}

Slots ==
    {Fn(<< <<I(1, "Allocate", "ptr", <<>>), Void(2, "Store", <<V(1), x>>), I(3, "Load", ty, <<y>>), Void(4, "Ret", <<V(3)>>)>> >>) :
        x \in {A(1), Int1, A(5), <<"flt", 1>>}, ty \in {"int", "struct"}, y \in {V(1), A(5), A(3), <<"global", 1>>}}
Frames ==
    {Fn(<< <<I(1, "Allocate", "ptr", <<>>), I(2, "Allocate", "ptr", <<>>), I(3, "GEP", "ptr", <<p, Int1>>), Void(4, "Store", <<V(3), q>>),
            Void(5, "Ret", <<>>)>> >>) : p \in {V(1), V(2), A(5), A(3)}, q \in {V(1), V(2), A(5)}}
Dynamic == {Fn(<< <<I(1, "Add", "int", <<A(1), Int1>>), I(2, "DynamicAllocation", "ptr", <<V(1)>>), I(3, "GEP", "ptr", <<V(2), V(1)>>),
                    Void(4, "Ret", <<V(3)>>)>> >>)}
Calls ==
    {Fn(<< <<I(1, "Add", "int", <<A(1), A(2)>>), I(2, "Call", ty, <<callee, V(1), x>>), i, Void(4, "Ret", <<r>>)>> >>) :
        ty \in {"int", "struct"}, callee \in {<<"fn", "f">>, <<"fn", "memcpy">>, A(3), <<"global", 1>>},
        x \in {Int1, A(5), <<"flt", 1>>}, i \in {I(3, "Add", "int", <<V(1), V(1)>>), I(3, "ICmp", "int", <<V(1), A(1)>>)}, r \in {V(1), V(2)}}
Switches ==
    {Fn(<< <<e, Void(2, "Switch", <<V(1), To(2), Int1, To(3), <<"int", 2>>, To(3)>>)>>,
           <<I(3, "Zext", "int", <<V(1)>>), Void(4, "Ret", <<V(3)>>)>>, <<Void(5, "Ret", <<<<"undef">>>>)>> >>) :
        e \in First(1)}

MCPrograms ==
    {f \in Diamonds \union Loops \union Jumps : Sensible(f) /\ KeepsComparisons(f)}
    \union Slots \union Frames \union Dynamic \union Calls \union Switches
================================================================================
