----------------------------- MODULE Dominators -----------------------------
(***************************************************************************)
(* DominatorTree (src/src/IR/dominator_tree.cpp), the algorithm of         *)
(* Lengauer and Tarjan, and LoopAnalysis (src/src/IR/loop_analysis.cpp),   *)
(* which is computed from the tree.  Mem2Reg trusts the frontiers for      *)
(* where a variable needs a phi, FunctionInlining the depth of the loops.  *)
(*                                                                         *)
(* An action is one pass of a loop or one recursive call; the order of a   *)
(* hash map of successors or predecessors and of a bucket is arbitrary.    *)
(***************************************************************************)
EXTENDS Integers, SequencesExt, Dominance

CONSTANT Graphs   \* functions from a block 1..n to the set of its successors

None == 0         \* nullptr
Entry == 1

\* The blocks are numbered from the entry.  No front end jumps to the entry
\* block, and no pass makes such a jump.
ASSUME GraphsAssumption ==
  \A g \in Graphs :
    /\ IsFiniteSet(DOMAIN g) /\ DOMAIN g = 1..Cardinality(DOMAIN g) /\ Entry \in DOMAIN g
    /\ \A b \in DOMAIN g : g[b] \subseteq DOMAIN g \ {Entry}

VARIABLES
  succ,    \* the control-flow graph
  pc,      \* the phase
  path,    \* calls of DFS or of compress that have not returned; then the runner
  dt,      \* DTContext; a key that is missing from a map reads as None or 0
  i,       \* the loops' counter: a number of the walk, later a block of the function
  front,   \* m_dominanceFrontiers
  loops,   \* m_loops: header, latch, the blocks, m_children, whether it has a parent, m_depth
  work,    \* what the loop over predecessors, bucket, edges or worklist has not taken
  calls    \* back edges, as pairs of header and latch; then propagateDepth: calls to
           \* come, as pairs of a loop and a depth

vars == <<succ, pc, path, dt, i, front, loops, work, calls>>

Blocks == DOMAIN succ
Preds(b) == {a \in Blocks : b \in succ[a]}

Init ==
  /\ succ \in Graphs
  /\ pc = "walk"
  /\ path = <<Entry>>
  /\ dt = LET nowhere == [b \in Blocks \cup {None} |-> None] IN
          [semi |-> nowhere, vertex |-> <<Entry>>, parent |-> nowhere,
           ancestor |-> nowhere, label |-> [nowhere EXCEPT ![Entry] = Entry], idom |-> nowhere,
           bucket |-> [b \in Blocks |-> {}]]
  /\ i = 1
  /\ front = [b \in Blocks |-> {}]
  /\ loops = <<>> /\ work = {} /\ calls = <<>>

-----------------------------------------------------------------------------
(* The tree. *)

\* dt.vertex holds vertex 0 at its place 1.
Vertex(d, n) == d.vertex[n + 1]
Reached == ToSet(dt.vertex)

\* DFS: number a successor that has none, or return.
Walk ==
  /\ pc = "walk" /\ path # <<>>
  /\ LET top == Last(path) IN
     \/ \E b \in succ[top] \ Reached :
          /\ dt' = [dt EXCEPT !.semi[b] = Len(dt.vertex), !.vertex = Append(@, b),
                              !.label[b] = b, !.parent[b] = top]
          /\ path' = Append(path, b)
     \/ succ[top] \subseteq Reached /\ path' = Front(path) /\ UNCHANGED dt
  /\ UNCHANGED <<succ, pc, i, front, loops, work, calls>>

Walked ==
  /\ pc = "walk" /\ path = <<>>
  /\ pc' = "semi" /\ i' = Len(dt.vertex) - 1
  /\ UNCHANGED <<succ, path, dt, front, loops, work, calls>>

\* for (int i = ctx.N - 1; i >= 1; --i)
StartVertex ==
  /\ pc = "semi" /\ i >= 1
  /\ work' = Preds(Vertex(dt, i))
  /\ pc' = "preds"
  /\ UNCHANGED <<succ, path, dt, i, front, loops, calls>>

\* eval of a predecessor of vertex i, or of a block in the bucket of its parent.
Eval ==
  /\ pc \in {"preds", "bucket"} /\ path = <<>>
  /\ \E b \in work : path' = <<b>>
  /\ UNCHANGED <<succ, pc, dt, i, front, loops, work, calls>>

\* compress calls itself for the ancestor, unless that is below a root.
Compress ==
  /\ pc \in {"preds", "bucket"} /\ path # <<>>
  /\ LET a == dt.ancestor[Last(path)] IN
     /\ dt.ancestor[a] # None /\ dt.ancestor[dt.ancestor[a]] # None
     /\ path' = Append(path, a)
  /\ UNCHANGED <<succ, pc, dt, i, front, loops, work, calls>>

\* Mutant: the block's label is not compared with its ancestor's.
ShortenOnly ==
  /\ pc \in {"preds", "bucket"} /\ path # <<>>
  /\ LET b == Last(path)
         a == dt.ancestor[b]
     IN  /\ dt.ancestor[a] # None /\ dt.ancestor[dt.ancestor[a]] = None
         /\ dt' = [dt EXCEPT !.ancestor[b] = dt.ancestor[a]]
  /\ path' = IF Len(path) = 1 THEN path ELSE Front(path)
  /\ UNCHANGED <<succ, pc, i, front, loops, work, calls>>

\* When the ancestor is below a root, the block takes the better of the two
\* labels and the root for its ancestor, and compress returns.
Shorten ==
  /\ pc \in {"preds", "bucket"} /\ path # <<>>
  /\ LET b == Last(path)
         a == dt.ancestor[b]
         best == IF dt.semi[dt.label[a]] < dt.semi[dt.label[b]] THEN a ELSE b
     IN  /\ dt.ancestor[a] # None /\ dt.ancestor[dt.ancestor[a]] = None
         /\ dt' = [dt EXCEPT !.label[b] = dt.label[best], !.ancestor[b] = dt.ancestor[a]]
  /\ path' = IF Len(path) = 1 THEN path ELSE Front(path)
  /\ UNCHANGED <<succ, pc, i, front, loops, work, calls>>

\* eval returns the label of b: the block with the least semidominator between
\* b and the root of its tree.  A block the walk did not reach has no label,
\* and None has semi 0.
Evaluated(b) == path = <<b>> /\ dt.ancestor[dt.ancestor[b]] = None

Semi ==
  /\ pc = "preds"
  /\ \E u \in work :
       /\ Evaluated(u)
       /\ LET s == dt.semi[dt.label[u]]
          IN  dt' = [dt EXCEPT !.semi[Vertex(dt, i)] = IF s < @ THEN s ELSE @]
       /\ work' = work \ {u}
  /\ path' = <<>>
  /\ UNCHANGED <<succ, pc, i, front, loops, calls>>

\* All predecessors were asked: vertex i goes into a bucket and into the forest.
Link ==
  /\ pc = "preds" /\ work = {}
  /\ LET w == Vertex(dt, i) IN
     dt' = [dt EXCEPT !.bucket[Vertex(dt, dt.semi[w])] = @ \cup {w},
                      !.ancestor[w] = dt.parent[w]]
  /\ work' = dt'.bucket[dt.parent[Vertex(dt, i)]]
  /\ pc' = "bucket"
  /\ UNCHANGED <<succ, path, i, front, loops, calls>>

\* A block in the bucket gets its dominator, or one to be corrected.
Idom ==
  /\ pc = "bucket"
  /\ \E v \in work :
       /\ Evaluated(v)
       /\ LET u == dt.label[v]
          IN  dt' = [dt EXCEPT !.idom[v] = IF dt.semi[u] < dt.semi[v] THEN u
                                          ELSE dt.parent[Vertex(dt, i)]]
       /\ work' = work \ {v}
  /\ path' = <<>>
  /\ UNCHANGED <<succ, pc, i, front, loops, calls>>

ClearBucket ==
  /\ pc = "bucket" /\ work = {}
  /\ dt' = [dt EXCEPT !.bucket[dt.parent[Vertex(dt, i)]] = {}]
  /\ i' = i - 1
  /\ pc' = "semi"
  /\ UNCHANGED <<succ, path, front, loops, work, calls>>

\* for (int i = 1; i < ctx.N; ++i)
StartCorrect ==
  /\ pc = "semi" /\ i = 0
  /\ i' = 1
  /\ pc' = "correct"
  /\ UNCHANGED <<succ, path, dt, front, loops, work, calls>>

Correct ==
  /\ pc = "correct" /\ i < Len(dt.vertex)
  /\ LET w == Vertex(dt, i) IN
     dt' = [dt EXCEPT !.idom[w] = IF @ = Vertex(dt, dt.semi[w]) THEN @ ELSE dt.idom[@]]
  /\ i' = i + 1
  /\ UNCHANGED <<succ, pc, path, front, loops, work, calls>>

\* The tree is done; block 0 comes before the first.
Corrected ==
  /\ pc = "correct" /\ i = Len(dt.vertex)
  /\ dt' = [dt EXCEPT !.idom[Entry] = None]
  /\ i' = 0
  /\ pc' = "front"
  /\ UNCHANGED <<succ, path, front, loops, work, calls>>

-----------------------------------------------------------------------------
(* The frontiers. *)

\* Mutant: a block needs three predecessors to be in a frontier.
RunnersOfThree(b) ==
  IF Cardinality(Preds(b)) >= 3 /\ dt.idom[b] # None THEN Preds(b) ELSE {}

\* Where runners to block b start.
Runners(b) ==
  IF Cardinality(Preds(b)) >= 2 /\ dt.idom[b] # None THEN Preds(b) ELSE {}

NextBlock ==
  /\ pc = "front" /\ path = <<>> /\ work = {} /\ i < Cardinality(Blocks)
  /\ i' = i + 1
  /\ work' = Runners(i + 1)
  /\ UNCHANGED <<succ, pc, path, dt, front, loops, calls>>

StartRunner ==
  /\ pc = "front" /\ path = <<>>
  /\ \E p \in work : path' = <<p>> /\ work' = work \ {p}
  /\ UNCHANGED <<succ, pc, dt, i, front, loops, calls>>

\* while (runner && runner != idom)
Run ==
  /\ pc = "front" /\ path # <<>>
  /\ LET runner == path[1] IN
     IF runner \in {None, dt.idom[i]}
       THEN path' = <<>> /\ UNCHANGED front
       ELSE /\ front' = [front EXCEPT ![runner] = @ \cup {i}]
            /\ path' = <<dt.idom[runner]>>
  /\ UNCHANGED <<succ, pc, dt, i, loops, work, calls>>

Frontiers ==
  /\ pc = "front" /\ path = <<>> /\ work = {} /\ i = Cardinality(Blocks)
  /\ pc' = "edges" /\ i' = 0
  /\ UNCHANGED <<succ, path, dt, front, loops, work, calls>>

-----------------------------------------------------------------------------
(* Loops. *)

\* Mutant: an edge to a block the walk met earlier is taken for a back edge.
MetEarlier(a, b) ==
  \E m, n \in DOMAIN dt.vertex : m < n /\ dt.vertex[m] = a /\ dt.vertex[n] = b

\* dominates: only the parent in the tree dominates a block.
Dominates(a, b) == a # None /\ dt.idom[b] = a

\* Mutant: only the latch is put into the new loop.
NewLoopOfLatch(header, latch) ==
  [header |-> header, latch |-> latch, blocks |-> {latch},
   children |-> <<>>, nested |-> FALSE, depth |-> 0]

NewLoop(header, latch) ==
  [header |-> header, latch |-> latch, blocks |-> {header, latch},
   children |-> <<>>, nested |-> FALSE, depth |-> 0]

NextEdges ==
  /\ pc = "edges" /\ work = {} /\ i < Cardinality(Blocks)
  /\ i' = i + 1
  /\ work' = succ[i + 1]
  /\ UNCHANGED <<succ, pc, path, dt, front, loops, calls>>

\* A block that is its own successor is a loop at once; an edge to a dominator
\* waits among the back edges.
FindEdge ==
  /\ pc = "edges"
  /\ \E b \in work :
       /\ work' = work \ {b}
       /\ loops' = IF b = i THEN Append(loops, NewLoop(i, i)) ELSE loops
       /\ calls' = IF b # i /\ Dominates(b, i) THEN Append(calls, <<b, i>>) ELSE calls
  /\ UNCHANGED <<succ, pc, path, dt, i, front>>

EdgesFound ==
  /\ pc = "edges" /\ work = {} /\ i = Cardinality(Blocks)
  /\ pc' = "body"
  /\ UNCHANGED <<succ, path, dt, i, front, loops, work, calls>>

\* The next back edge makes a loop, whose blocks a worklist collects.
StartBody ==
  /\ pc = "body" /\ work = {} /\ calls # <<>>
  /\ loops' = Append(loops, NewLoop(Head(calls)[1], Head(calls)[2]))
  /\ work' = {Head(calls)[2]}
  /\ calls' = Tail(calls)
  /\ UNCHANGED <<succ, pc, path, dt, i, front>>

\* Take a block and add the predecessors that are new.
GrowBody ==
  /\ pc = "body"
  /\ \E b \in work :
       LET k   == Len(loops)
           new == Preds(b) \ loops[k].blocks
       IN  /\ loops' = [loops EXCEPT ![k].blocks = @ \cup new]
           /\ work' = (work \ {b}) \cup (new \ {loops[k].header})
  /\ UNCHANGED <<succ, pc, path, dt, i, front, calls>>

\* Loop n is a child of loop m.
Nested(m, n) == m # n /\ loops[n].header \in loops[m].blocks

\* The numbers of a set, ascending: the order of m_loops.
InOrder(S) == [k \in 1..Cardinality(S) |-> CHOOSE n \in S : Cardinality({m \in S : m < n}) = k - 1]

Children(m) == InOrder({n \in DOMAIN loops : Nested(m, n)})
Outermost == InOrder({n \in DOMAIN loops : \A m \in DOMAIN loops : ~Nested(m, n)})

Nest ==
  /\ pc = "body" /\ work = {} /\ calls = <<>>
  /\ loops' = [m \in DOMAIN loops |->
                 [loops[m] EXCEPT !.children = Children(m),
                                  !.nested = \E n \in DOMAIN loops : Nested(n, m)]]
  /\ calls' = [k \in DOMAIN Outermost |-> <<Outermost[k], 0>>]
  /\ pc' = "depth"
  /\ UNCHANGED <<succ, path, dt, i, front, work>>

Calls(loop, depth) ==
  [k \in DOMAIN loops[loop].children |-> <<loops[loop].children[k], depth + 1>>]

\* propagateDepth calls itself for each child.
PropagateDepth ==
  /\ pc = "depth" /\ calls # <<>>
  /\ loops' = [loops EXCEPT ![Head(calls)[1]].depth = Head(calls)[2]]
  /\ calls' = Calls(Head(calls)[1], Head(calls)[2]) \o Tail(calls)
  /\ UNCHANGED <<succ, pc, path, dt, i, front, work>>

Done ==
  /\ pc = "depth" /\ calls = <<>>
  /\ pc' = "done"
  /\ UNCHANGED <<succ, path, dt, i, front, loops, work, calls>>

Next == \/ Walk \/ Walked
        \/ StartVertex \/ Eval \/ Compress \/ Shorten \/ Semi \/ Link \/ Idom \/ ClearBucket
        \/ StartCorrect \/ Correct \/ Corrected
        \/ NextBlock \/ StartRunner \/ Run \/ Frontiers
        \/ NextEdges \/ FindEdge \/ EdgesFound \/ StartBody \/ GrowBody
        \/ Nest \/ PropagateDepth \/ Done
        \/ pc = "done" /\ UNCHANGED vars

Spec == Init /\ [][Next]_vars

-----------------------------------------------------------------------------
Edges == {e \in Blocks \X Blocks : e[2] \in succ[e[1]]}
Live == Closure(Edges, {Entry}, {})

\* A block nothing reaches does not execute; the algorithm takes an edge from
\* it as an edge from the entry.
SeenEdges ==
  {e \in Edges : e[1] \in Live}
    \cup {<<Entry, e[2]>> : e \in {e \in Edges : e[1] \notin Live /\ e[2] \in Live}}

\* An edge that LoopAnalysis takes for a back edge, and what belongs to its loop.
IsBackEdge(latch, header) ==
  /\ header \in succ[latch]
  /\ latch = header \/ (latch \in Live \ {Entry} /\ IsParent(SeenEdges, Entry, header, latch))

NaturalLoop(header, latch) ==
  {header} \cup {b \in Blocks : latch # header
                               /\ latch \in Closure(Edges, {b} \ {header}, {header})}

\* No header of two back edges lies in another header's loop: where one does,
\* its two loops are children of each other, and propagateDepth does not return.
LatchesApart ==
  LET backs == {e \in Edges : IsBackEdge(e[1], e[2])} IN
  \A e, f, o \in backs :
    e[2] = f[2] /\ e[1] # f[1] /\ o[2] # e[2] => e[2] \notin NaturalLoop(o[2], o[1])

\* The recursion over nested loops is no deeper than there are loops.
RecursionEnds == pc = "depth" => \A k \in DOMAIN calls : calls[k][2] < Len(loops)

\* Tree, frontiers and loops are made of the graph's blocks, and nesting ends.
TypeOK ==
  /\ RecursionEnds
  /\ pc \in {"walk", "semi", "preds", "bucket", "correct", "front", "edges", "body", "depth", "done"}
  /\ dt.vertex \in Seq(Blocks) /\ IsInjective(dt.vertex)
  /\ dt.idom \in [Blocks \cup {None} -> Blocks \cup {None}]
  /\ front \in [Blocks -> SUBSET Blocks]
  /\ \A l \in ToSet(loops) : l.blocks \subseteq Blocks /\ l.header \in l.blocks

\* The tree is the dominator tree: each block's parent dominates it, and every
\* other block that does dominates the parent.  This is what the numbering,
\* the compressed paths, the buckets and the last correction add up to.
IdomExact ==
  pc = "front" /\ i = 0 =>
    \A b \in Reached \ {Entry} : IsParent(SeenEdges, Entry, dt.idom[b], b)

\* Where paths from two assignments of a variable meet, Mem2Reg puts a phi:
\* the frontiers miss no such block, also when blocks nothing reaches still
\* jump into the function.
FrontiersCoverJoins ==
  pc = "edges" /\ i = 0 =>
    \A a \in Live :
      LET iterated == Closure({e \in Blocks \X Blocks : e[2] \in front[e[1]]}, front[a], {})
      IN  FrontierOf({e \in Edges : e[1] \in Live}, Entry, a) \subseteq iterated

\* A loop is the natural loop of its back edge: what can reach the latch
\* without the header, and nothing that runs enters it but by the header.
NaturalLoops ==
  \A k \in DOMAIN loops :
    pc \in {"depth", "done"} \/ (pc = "body" /\ (k < Len(loops) \/ work = {})) =>
      LET l == loops[k] IN
      /\ l.blocks = NaturalLoop(l.header, l.latch)
      /\ l.latch # l.header => l.blocks \cap Live \subseteq DominatedBy(Edges, Entry, l.header)

\* Heuristics::getInnermostLoop gives one of the deepest loops around a block.
Innermost(b) ==
  LET around == {n \in DOMAIN loops : b \in loops[n].blocks}
  IN  {n \in around : \A m \in around : loops[m].depth <= loops[n].depth}

\* The loop that is taken for the innermost one around a block has no loop
\* around the block inside it, whatever order sorting leaves equal depths in.
InnermostIsInner ==
  pc = "done" => \A b \in Blocks : \A n \in Innermost(b), m \in DOMAIN loops :
    b \in loops[m].blocks =>
      ~(loops[m].blocks \subseteq loops[n].blocks /\ loops[m].blocks # loops[n].blocks)
=============================================================================
