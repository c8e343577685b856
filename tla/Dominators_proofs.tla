------------------------- MODULE Dominators_proofs -------------------------
(***************************************************************************)
(* The algorithm of Lengauer and Tarjan gives the dominator tree, its      *)
(* frontiers cover the joins, and the loops are natural, for every graph.  *)
(* Dominance_proofs has the theory; here it is the inductive invariant of  *)
(* each phase and the proof that each step keeps it.                       *)
(***************************************************************************)
EXTENDS Dominators, Dominance_proofs, SequenceTheorems

\* The search tree, with some set of edges.
TreeOf(vertex, parent, edges) ==
  [nodes |-> ToSet(vertex), root |-> Entry, edges |-> edges, parent |-> parent,
   num |-> [b \in ToSet(vertex) |-> (CHOOSE n \in DOMAIN vertex : vertex[n] = b) - 1]]

\* The edges that the algorithm sees, and those on which the function runs.
Seen == TreeOf(dt.vertex, dt.parent, SeenEdges)
LiveEdges == {e \in Edges : e[1] \in Reached}
Runs == TreeOf(dt.vertex, dt.parent, LiveEdges)

\* The number of a block in the walk.
Num(b) == Seen.num[b]

\* What was numbered since a is below it.
SinceBelow(t, a) == \A x \in t.nodes : t.num[a] <= t.num[x] => Above(t, a, x)

\* The numbers of a subtree are an interval.
Intervals(t) ==
  \A a, x, b \in t.nodes :
    Above(t, a, b) /\ t.num[a] <= t.num[x] /\ t.num[x] <= t.num[b] => Above(t, a, x)

-----------------------------------------------------------------------------
(* The invariant. *)

Labels == Blocks \cup {None}

Contexts ==
  [semi: [Labels -> Nat], vertex: Seq(Blocks), parent: [Labels -> Labels],
   ancestor: [Labels -> Labels], label: [Labels -> Labels], idom: [Labels -> Labels],
   bucket: [Blocks -> SUBSET Blocks]]

\* Every map has its type.
Types ==
  /\ succ \in Graphs
  /\ pc \in {"walk", "semi", "preds", "bucket", "correct", "front", "edges", "body", "depth", "done"}
  /\ i \in Nat
  /\ path \in Seq(Labels)
  /\ work \in SUBSET Blocks
  /\ front \in [Blocks -> SUBSET Blocks]
  /\ dt \in Contexts
  /\ pc \in {"edges", "body"} => calls \in Seq(Blocks \X Blocks)

\* The counter of each loop, the stack of compress, and the runner.
Counting ==
  /\ pc = "walk" => path \in Seq(Blocks) /\ work = {}
  /\ Len(dt.vertex) >= 1 /\ \A n \in DOMAIN dt.vertex : n > 1 => dt.parent[dt.vertex[n]] \in Blocks
  /\ pc = "semi" => i < Len(dt.vertex) /\ work = {} /\ path = <<>>
  /\ pc \in {"preds", "bucket"} =>
       i >= 1 /\ i < Len(dt.vertex) /\ (path # <<>> => path[1] \in work)
  /\ pc = "bucket" => work \subseteq dt.bucket[dt.parent[Vertex(dt, i)]]
  /\ pc = "correct" => i >= 1 /\ i <= Len(dt.vertex) /\ work = {} /\ path = <<>>
  /\ pc = "front" => /\ i <= Cardinality(Blocks) /\ Len(path) <= 1
                      /\ (path # <<>> \/ work # {} => i # 0)
  /\ pc = "edges" => i <= Cardinality(Blocks) /\ (work # {} => i # 0)
  /\ pc \in {"walk", "semi", "preds", "bucket", "correct", "front"} => calls = <<>>

\* The numbers of a walk: distinct, from the entry, down along tree edges, and
\* an interval for each subtree.
Numbered ==
  /\ Len(dt.vertex) >= 1 /\ dt.vertex[1] = Entry
  /\ \A m, n \in DOMAIN dt.vertex : dt.vertex[m] = dt.vertex[n] => m = n
  /\ \A b \in Reached \ {Entry} :
       dt.parent[b] \in Reached /\ b \in succ[dt.parent[b]] /\ Num(dt.parent[b]) < Num(b)
  /\ Intervals(Seen)

\* Blocks whose call has not returned.
Open == IF pc = "walk" THEN ToSet(path) ELSE {}

\* The stack goes up in numbers, and what was numbered since a block on it is
\* below that block; a block that is done has only successors with numbers,
\* below it when they are larger.
Walking ==
  /\ pc = "walk" =>
       \A k \in DOMAIN path :
         /\ path[k] \in Reached
         /\ \A j \in DOMAIN path : j <= k => Num(path[j]) <= Num(path[k])
         /\ SinceBelow(Seen, path[k])
  /\ \A a \in Reached \ Open :
       succ[a] \subseteq Reached /\ \A b \in succ[a] : Num(a) < Num(b) => Above(Seen, a, b)

\* Before the walk is over nothing is linked or known.
Fresh ==
  pc = "walk" =>
    /\ \A b \in Blocks : dt.bucket[b] = {}
    /\ \A b \in Labels : dt.ancestor[b] = None /\ dt.idom[b] = None
    /\ \A b \in Reached : dt.label[b] = b /\ dt.semi[b] = Num(b)

\* What is not reached has no label, no place in the forest and no dominator,
\* and is in no bucket; nor is the entry.
Unreached ==
  /\ \A b \in Labels \ Reached : dt.label[b] = None /\ dt.ancestor[b] = None /\ dt.idom[b] = None
  /\ dt.semi[None] = 0
  /\ dt.idom[Entry] = None
  /\ \A s \in Blocks : dt.bucket[s] \subseteq Reached \ {Entry}

Walks == Numbered /\ Walking /\ Fresh /\ Unreached

\* Vertices with a number above this one have their semidominator.
Bound == CASE pc \in {"semi", "preds"} -> i
           [] pc = "bucket" -> i - 1
           [] OTHER -> 0

SemiOf(b) == Vertex(dt, dt.semi[b])

\* They are linked: the label is the best block up to the ancestor.
Linked(b) ==
  /\ dt.semi[b] < Len(dt.vertex) /\ IsSemi(Seen, b, SemiOf(b))
  /\ dt.ancestor[b] \in Reached /\ dt.ancestor[b] # b /\ Above(Seen, dt.ancestor[b], b)
  /\ dt.label[b] \in Between(Seen, dt.ancestor[b], b)
  /\ \A x \in Between(Seen, dt.ancestor[b], b) :
       Num(x) > Bound /\ dt.semi[dt.label[b]] <= dt.semi[x]

Unlinked(b) ==
  /\ dt.ancestor[b] = None /\ dt.label[b] = b
  /\ (pc = "preds" /\ Num(b) = i) \/ dt.semi[b] = Num(b)

Forest ==
  pc \in {"semi", "preds", "bucket", "correct"} =>
    \A b \in Reached : IF Num(b) > Bound THEN Linked(b) ELSE Unlinked(b)

\* A block a predecessor of vertex i evaluates to, and what it says.
Source(u) == IF u \in Reached THEN u ELSE Entry
Offers(s, u) ==
  \/ s = Num(u)
  \/ \E x \in Reached : Above(Seen, x, u) /\ Num(x) > i /\ s = dt.semi[x]
Least(s, u) ==
  /\ Num(u) <= i => s <= Num(u)
  /\ \A x \in Reached : Above(Seen, x, u) /\ Num(x) > i => s <= dt.semi[x]

\* The loop over the predecessors: the minimum of those that were asked.
Asking ==
  pc = "preds" =>
    LET w == Vertex(dt, i) IN
    /\ work \subseteq Preds(w)
    /\ dt.semi[w] <= i
    /\ \A u \in Preds(w) \ work : Least(dt.semi[w], Source(u))
    /\ dt.semi[w] = i \/ \E u \in Preds(w) : Offers(dt.semi[w], Source(u))

\* A block in a bucket waits for the link of the child towards it.
Buckets ==
  pc \in {"semi", "preds", "bucket"} =>
    \A s \in Blocks : \A v \in dt.bucket[s] :
      /\ v \in Reached \ {Entry} /\ Num(v) > Bound /\ SemiOf(v) = s
      /\ \A c \in Reached \ {Entry} : dt.parent[c] = s /\ Above(Seen, c, v) => Num(c) <= i

Waits(v) ==
  /\ pc # "correct" /\ v \in dt.bucket[SemiOf(v)]
  /\ pc = "bucket" /\ SemiOf(v) = dt.parent[Vertex(dt, i)] => v \in work

\* Its dominator is the semidominator, or the same as that of the block noted.
Pending(v) ==
  LET s == SemiOf(v) IN
  /\ \A x \in Between(Seen, s, v) : Num(x) > Bound
  /\ \/ dt.idom[v] = s /\ \A x \in Between(Seen, s, v) : dt.semi[v] <= dt.semi[x]
     \/ /\ dt.idom[v] \in Between(Seen, s, v) /\ dt.semi[dt.idom[v]] < dt.semi[v]
        /\ \A x \in Between(Seen, s, v) : dt.semi[dt.idom[v]] <= dt.semi[x]

Exact(v) == IsIdom(Seen, dt.idom[v], v)

Idoms ==
  \A v \in Reached \ {Entry} :
    CASE pc = "walk" -> TRUE
      [] pc \in {"semi", "preds", "bucket"} -> Num(v) > Bound => Waits(v) \/ Pending(v)
      [] pc = "correct" -> IF Num(v) < i THEN Exact(v) ELSE Pending(v)
      [] OTHER -> Exact(v)

\* The phases up to the tree of dominators.
Solving == Forest /\ Asking /\ Buckets /\ Idoms

\* The frontier of what dominates p and not b has b, or will have it once the
\* runner has passed.
Joined(b, p) ==
  \A c \in Reached : Dom(Seen, c, p) /\ ~(c # b /\ Dom(Seen, c, b)) =>
    \/ b \in front[c]
    \/ pc = "front" /\ b = i /\ path # <<>> /\ path[1] \in Reached /\ Dom(Seen, c, path[1])

Joining ==
  /\ pc = "front" =>
       /\ work \subseteq (IF i = 0 THEN {} ELSE Runners(i))
       /\ path # <<>> => dt.idom[i] # None
  /\ pc \in {"front", "edges"} =>
       \A b \in Blocks : \A p \in Runners(b) \cap Reached :
         pc = "edges" \/ b < i \/ (b = i /\ p \notin work) => Joined(b, p)

\* The back edges, and the loops as far as they are collected.
Unfinished(k) == IF pc = "body" /\ k = Len(loops) THEN work ELSE {}

BackEdge(h, l) == h \in Blocks /\ l \in Blocks /\ h # l /\ dt.idom[l] = h

Collected(k) ==
  LET l == loops[k] IN
  /\ l.header \in l.blocks /\ l.latch \in l.blocks /\ l.blocks \subseteq Blocks
  /\ IF l.latch = l.header THEN l.blocks = {l.header} ELSE BackEdge(l.header, l.latch)
  /\ \A b \in l.blocks \ {l.header} :
       /\ l.latch \in Closure(Edges, {b}, {l.header})
       /\ b \in Unfinished(k) \/ Preds(b) \subseteq l.blocks

NewLoops == [header: Blocks, latch: Blocks, blocks: SUBSET Blocks,
             children: {<<>>}, nested: {FALSE}, depth: {0}]

Collecting ==
  /\ pc \in {"walk", "semi", "preds", "bucket", "correct", "front"} => loops = <<>>
  /\ pc \in {"edges", "body"} =>
       /\ loops \in Seq(NewLoops)
       /\ \A k \in DOMAIN calls : BackEdge(calls[k][1], calls[k][2])
  /\ pc = "body" /\ work # {} =>
       /\ loops # <<>>
       /\ LET l == loops[Len(loops)] IN l.latch # l.header /\ work \subseteq l.blocks \ {l.header}
  /\ \A k \in DOMAIN loops :
       DOMAIN loops[k] = {"header", "latch", "blocks", "children", "nested", "depth"} /\ Collected(k)

\* Each back edge is listed once: latches come in the order of the blocks.
Listed ==
  /\ \A k \in DOMAIN loops : loops[k].header \in succ[loops[k].latch]
  /\ \A j, k \in DOMAIN loops :
       loops[j].header = loops[k].header /\ loops[j].latch = loops[k].latch => j = k
  /\ pc \in {"edges", "body"} =>
       /\ \A k \in DOMAIN calls : calls[k][1] \in succ[calls[k][2]]
       /\ \A j, k \in DOMAIN calls : calls[j] = calls[k] => j = k
       /\ \A j \in DOMAIN loops, k \in DOMAIN calls : calls[k] # <<loops[j].header, loops[j].latch>>
  /\ pc = "edges" =>
       /\ i # 0 => work \subseteq succ[i]
       /\ \A k \in DOMAIN loops :
            /\ loops[k].latch = loops[k].header /\ loops[k].latch <= i
            /\ loops[k].latch = i => i \notin work
       /\ \A k \in DOMAIN calls :
            calls[k][2] <= i /\ (calls[k][2] = i => calls[k][1] \notin work)

\* The loops around one that are headed by a strict dominator of its header.  A
\* header nothing reaches is taken to be inside every other.
Encloses(g, h) == g \in Reached /\ g # h /\ (h \in Reached => Dom(Runs, g, h))
Outer(n) == {m \in DOMAIN loops : Encloses(loops[m].header, loops[n].header)}
Alone(n) == \A m \in DOMAIN loops : loops[m].header = loops[n].header => m = n

FinishedLoops == [header: Blocks, latch: Blocks, blocks: SUBSET Blocks,
                  children: Seq(Nat), nested: BOOLEAN, depth: Nat]

\* Calls of propagateDepth are for loops that share their header with no other,
\* and as deep as their depth says.
Nesting ==
  pc = "depth" =>
    /\ loops \in Seq(FinishedLoops)
    /\ \A n \in DOMAIN loops : loops[n].children = Children(n)
    /\ calls \in Seq((DOMAIN loops) \X Nat)
    /\ \A k \in DOMAIN calls :
         Alone(calls[k][1]) /\ calls[k][2] <= Cardinality(Outer(calls[k][1]))

-----------------------------------------------------------------------------
(* Types. *)

LEMMA GraphFacts ==
  ASSUME succ \in Graphs
  PROVE  /\ IsFiniteSet(Blocks) /\ Cardinality(Blocks) \in Nat /\ Cardinality(Blocks) >= 1
         /\ Blocks = 1..Cardinality(Blocks) /\ Entry \in Blocks /\ None \notin Blocks
         /\ \A b \in Blocks : succ[b] \subseteq Blocks \ {Entry}
<1>1. /\ IsFiniteSet(Blocks) /\ Blocks = 1..Cardinality(Blocks) /\ Entry \in Blocks
      /\ \A b \in Blocks : succ[b] \subseteq Blocks \ {Entry}
  BY GraphsAssumption DEF Blocks
<1>2. Cardinality(Blocks) \in Nat
  BY <1>1, FS_CardinalityType
<1> HIDE DEF Blocks
<1>. QED  BY <1>1, <1>2 DEF Entry, None

LEMMA TypesInit == Init => Types /\ Counting
<1> SUFFICES ASSUME Init PROVE Types /\ Counting
  OBVIOUS
<1>1. Entry \in Blocks
  BY GraphFacts DEF Init
<1>2. dt \in Contexts
  BY <1>1 DEF Init, Contexts, Labels, None, Entry
<1>3. dt.vertex = <<Entry>> /\ path = <<Entry>> /\ Entry \in Labels
  BY <1>1 DEF Labels, Init
<1>4. /\ path \in Seq(Labels) /\ path \in Seq(Blocks)
      /\ Len(dt.vertex) = 1 /\ DOMAIN dt.vertex = 1..1
  BY <1>1, <1>3
<1>5. /\ pc = "walk" /\ work = {} /\ i = 1 /\ calls = <<>> /\ succ \in Graphs
      /\ front \in [Blocks -> SUBSET Blocks]
  BY DEF Init
<1>6. Types
  BY <1>2, <1>4, <1>5 DEF Types
<1>. QED  BY <1>4, <1>5, <1>6 DEF Counting

\* The graph is fixed, and with it what is defined from it.
LEMMA GraphFixed ==
  ASSUME succ' = succ
  PROVE  /\ Blocks' = Blocks /\ Labels' = Labels /\ Contexts' = Contexts
         /\ Edges' = Edges /\ Live' = Live /\ SeenEdges' = SeenEdges
         /\ \A b : Preds(b)' = Preds(b)
<1>1. Blocks' = Blocks
  BY DEF Blocks
<1>2. Labels' = Labels
  BY <1>1 DEF Labels
<1>3. Contexts' = Contexts
  BY <1>1, <1>2 DEF Contexts
<1>4. Edges' = Edges
  BY <1>1 DEF Edges
<1>5. Live' = Live
  BY <1>4 DEF Live
<1>6. SeenEdges' = SeenEdges
  BY <1>4, <1>5 DEF SeenEdges
<1>7. \A b : Preds(b)' = Preds(b)
  BY <1>1 DEF Preds
<1>. QED  BY <1>1, <1>2, <1>3, <1>4, <1>5, <1>6, <1>7

LEMMA StackFacts ==
  ASSUME NEW S, NEW s \in Seq(S), s # <<>>
  PROVE  /\ Last(s) \in S /\ Last(s) = s[Len(s)] /\ Len(s) \in Nat /\ Len(s) >= 1
         /\ Front(s) \in Seq(S) /\ Len(Front(s)) = Len(s) - 1
         /\ \A k \in 1..Len(s) - 1 : Front(s)[k] = s[k]
<1>1. Len(s) \in Nat /\ Len(s) >= 1
  OBVIOUS
<1>2. Last(s) = s[Len(s)] /\ s[Len(s)] \in S
  BY <1>1 DEF Last
<1>3. \A k \in 1..Len(s) - 1 : s[k] \in S
  BY <1>1
<1> DEFINE n == Len(s) - 1
<1>4. n \in Int /\ n - 1 + 1 = n /\ (1 <= n \/ n = 0)
  <2>1. \A m \in Nat : m >= 1 => m - 1 \in Int /\ m - 1 - 1 + 1 = m - 1 /\ (1 <= m - 1 \/ m - 1 = 0)
    OBVIOUS
  <2>. QED  BY <1>1, <2>1, Zenon
<1> HIDE DEF n
<1>5. /\ SubSeq(s, 1, n) \in Seq(S) /\ Len(SubSeq(s, 1, n)) = n
      /\ \A k \in 1..n : SubSeq(s, 1, n)[k] = s[1 + k - 1]
  BY <1>3, <1>4, SubSeqProperties DEF n
<1>6. \A k \in 1..n : 1 + k - 1 = k
  BY <1>4
<1>. QED  BY <1>1, <1>2, <1>5, <1>6 DEF Front, n

LEMMA WalkContext ==
  ASSUME NEW d \in Contexts, NEW b \in Labels, NEW t \in Labels, NEW v \in Seq(Blocks)
  PROVE  [d EXCEPT !.semi[b] = Len(d.vertex), !.vertex = v, !.label[b] = b, !.parent[b] = t]
           \in Contexts
<1>1. Len(d.vertex) \in Nat
  BY DEF Contexts
<1>. QED  BY <1>1 DEF Contexts

LEMMA TypesNext == Types /\ Counting /\ [Next]_vars => Types' /\ Counting'
<1> SUFFICES ASSUME Types, Counting, [Next]_vars PROVE Types' /\ Counting'
  OBVIOUS
<1>0. succ' = succ
  BY DEF Next, vars, Walk, Walked, StartVertex, Eval, Compress, Shorten, Semi, Link, Idom,
         ClearBucket, StartCorrect, Correct, Corrected, NextBlock, StartRunner, Run, Frontiers,
         NextEdges, FindEdge, EdgesFound, StartBody, GrowBody, Nest, PropagateDepth, Done
<1>g. /\ Blocks' = Blocks /\ Labels' = Labels /\ Contexts' = Contexts
      /\ \A b : Preds(b)' = Preds(b)
  BY <1>0, GraphFixed
<1>b. /\ Cardinality(Blocks) \in Nat /\ Cardinality(Blocks) >= 1 /\ Blocks = 1..Cardinality(Blocks)
      /\ Entry \in Blocks /\ None \notin Blocks /\ \A b \in Blocks : succ[b] \subseteq Blocks
  BY GraphFacts DEF Types
<1>l. Blocks \subseteq Labels /\ None \in Labels /\ \A b \in Labels : b # None => b \in Blocks
  BY DEF Labels
<1>p. \A b : Preds(b) \subseteq Blocks
  BY DEF Preds
<1>d. /\ succ \in Graphs /\ i \in Nat /\ path \in Seq(Labels) /\ work \in SUBSET Blocks
      /\ front \in [Blocks -> SUBSET Blocks] /\ dt \in Contexts
  BY DEF Types
<1>v. \A n \in Nat : n < Len(dt.vertex) => Vertex(dt, n) \in Blocks
  BY <1>d DEF Vertex, Contexts
<1> HIDE DEF Blocks, Labels
<1>1. CASE Walk
  <2>1. /\ pc = "walk" /\ path # <<>> /\ path \in Seq(Blocks) /\ work = {} /\ calls = <<>>
        /\ Len(dt.vertex) >= 1
        /\ \A n \in DOMAIN dt.vertex : n > 1 => dt.parent[dt.vertex[n]] \in Blocks
        /\ UNCHANGED <<pc, i, front, loops, work, calls>>
    BY <1>1 DEF Walk, Counting
  <2>2. Last(path) \in Blocks /\ Front(path) \in Seq(Blocks)
    BY <2>1, StackFacts
  <2>3. CASE UNCHANGED dt /\ path' = Front(path)
    <3>1. path' \in Seq(Blocks) /\ path' \in Seq(Labels)
      BY <1>l, <2>2, <2>3
    <3>. QED  BY <1>0, <1>d, <1>g, <2>1, <2>3, <3>1 DEF Types, Counting
  <2>4. ASSUME NEW b \in succ[Last(path)] \ Reached,
               dt' = [dt EXCEPT !.semi[b] = Len(dt.vertex), !.vertex = Append(@, b),
                              !.label[b] = b, !.parent[b] = Last(path)],
               path' = Append(path, b)
        PROVE  Types' /\ Counting'
    <3>1. b \in Blocks
      BY <1>b, <2>2
    <3>2. Append(dt.vertex, b) \in Seq(Blocks) /\ Len(Append(dt.vertex, b)) = Len(dt.vertex) + 1
      BY <1>d, <3>1 DEF Contexts
    <3>3. /\ dt'.vertex = Append(dt.vertex, b)
          /\ dt'.parent = [dt.parent EXCEPT ![b] = Last(path)]
      BY <1>d, <2>4 DEF Contexts
    <3>4. dt' \in Contexts
      BY <1>d, <1>l, <1>g, <2>2, <2>4, <3>1, <3>2, WalkContext
    <3>5. path' \in Seq(Blocks) /\ path' \in Seq(Labels)
      BY <1>l, <2>1, <2>4, <3>1
    <3>6. \A n \in DOMAIN dt'.vertex : n > 1 => dt'.parent[dt'.vertex[n]] \in Blocks
      <4>1. DOMAIN dt.parent = Labels /\ dt.vertex \in Seq(Blocks)
        BY <1>d DEF Contexts
      <4>2. \A n \in DOMAIN dt'.vertex : dt'.vertex[n] = b \/
              (n \in DOMAIN dt.vertex /\ dt'.vertex[n] = dt.vertex[n])
        BY <3>1, <3>3, <4>1
      <4>. QED  BY <2>1, <2>2, <3>1, <3>3, <4>1, <4>2, <1>l
    <3>. QED  BY <1>0, <1>d, <1>g, <2>1, <3>2, <3>3, <3>4, <3>5, <3>6 DEF Types, Counting
  <2>. QED  BY <1>1, <2>3, <2>4 DEF Walk
<1>2. CASE Walked
  <2>1. Len(dt.vertex) \in Nat
    BY <1>d DEF Contexts
  <2>. QED  BY <1>2, <1>d, <1>g, <2>1 DEF Walked, Types, Counting
<1>3. CASE StartVertex
  BY <1>3, <1>d, <1>g, <1>p DEF StartVertex, Types, Counting
<1>4. CASE Eval
  <2>1. PICK b \in work : path' = <<b>>
    BY <1>4 DEF Eval
  <2>2. b \in Labels
    BY <1>d, <1>l
  <2>3. path' \in Seq(Labels) /\ path' # <<>> /\ path'[1] \in work
    BY <2>1, <2>2
  <2>. QED  BY <1>4, <1>d, <1>g, <2>3 DEF Eval, Types, Counting
<1>5. CASE Compress
  <2>1. /\ path # <<>> /\ path' = Append(path, dt.ancestor[Last(path)])
        /\ pc \in {"preds", "bucket"}
    BY <1>5 DEF Compress
  <2>2. Last(path) \in Labels
    BY <1>d, <2>1 DEF Last
  <2>3. dt.ancestor[Last(path)] \in Labels
    BY <1>d, <2>2 DEF Contexts
  <2>4. path' \in Seq(Labels) /\ path' # <<>> /\ path'[1] = path[1]
    BY <1>d, <2>1, <2>3
  <2>. QED  BY <1>5, <1>d, <1>g, <2>1, <2>4 DEF Compress, Types, Counting
<1>6. CASE Shorten
  <2>1. path # <<>> /\ pc \in {"preds", "bucket"}
    BY <1>6 DEF Shorten
  <2>2. Last(path) \in Labels
    BY <1>d, <2>1 DEF Last
  <2>3. PICK l, a : dt' = [dt EXCEPT !.label[Last(path)] = dt.label[l], !.ancestor[Last(path)] = a]
                    /\ l \in Labels /\ a \in Labels
    <3>1. dt.ancestor[Last(path)] \in Labels /\ dt.ancestor[dt.ancestor[Last(path)]] \in Labels
      BY <1>d, <2>2 DEF Contexts
    <3>. QED  BY <1>6, <2>2, <3>1 DEF Shorten
  <2>4. /\ dt' \in Contexts /\ dt'.vertex = dt.vertex /\ dt'.bucket = dt.bucket
        /\ dt'.parent = dt.parent
    BY <1>d, <2>2, <2>3 DEF Contexts
  <2>5. path' \in Seq(Labels) /\ path' # <<>> /\ path'[1] = path[1]
    <3>1. /\ Len(path) \in Nat /\ Len(path) >= 1 /\ Front(path) \in Seq(Labels)
          /\ Len(Front(path)) = Len(path) - 1
          /\ \A k \in 1..Len(path) - 1 : Front(path)[k] = path[k]
      BY <1>d, <2>1, StackFacts
    <3>2. Len(path) # 1 => Front(path) # <<>> /\ Front(path)[1] = path[1]
      BY <3>1
    <3>. QED  BY <1>6, <1>d, <2>1, <3>1, <3>2 DEF Shorten
  <2>. QED  BY <1>6, <1>d, <1>g, <2>1, <2>4, <2>5 DEF Shorten, Types, Counting, Vertex
<1>7. CASE Semi
  <2>1. PICK u \in work :
          /\ dt' = [dt EXCEPT !.semi[Vertex(dt, i)] =
                      IF dt.semi[dt.label[u]] < @ THEN dt.semi[dt.label[u]] ELSE @]
          /\ work' = work \ {u}
    BY <1>7 DEF Semi
  <2>2. dt.label[u] \in Labels /\ dt.semi[dt.label[u]] \in Nat
    BY <1>d, <1>l DEF Contexts
  <2>3. dt' \in Contexts /\ dt'.vertex = dt.vertex
    BY <1>d, <2>1, <2>2 DEF Contexts
  <2>. QED  BY <1>7, <1>d, <1>g, <2>1, <2>3 DEF Semi, Types, Counting
<1>8. CASE Link
  <2>1. /\ pc = "preds" /\ pc' = "bucket" /\ Vertex(dt, i) \in Blocks /\ path' = path
        /\ i >= 1 /\ i < Len(dt.vertex) /\ path = <<>> /\ calls = <<>>
        /\ UNCHANGED <<i, front, calls>> /\ dt.parent[Vertex(dt, i)] \in Blocks
        /\ \A n \in DOMAIN dt.vertex : n > 1 => dt.parent[dt.vertex[n]] \in Blocks
    <3>1. pc = "preds" /\ work = {} /\ i >= 1 /\ i < Len(dt.vertex)
      BY <1>8 DEF Link, Counting
    <3>2. path = <<>>
      BY <3>1 DEF Counting
    <3>3. i + 1 \in DOMAIN dt.vertex /\ i + 1 > 1
      BY <1>d, <3>1 DEF Contexts
    <3>. QED  BY <1>8, <1>d, <1>v, <3>1, <3>2, <3>3 DEF Link, Counting, Vertex
  <2>2. /\ dt' \in Contexts /\ dt'.vertex = dt.vertex /\ dt'.parent = dt.parent
        /\ work' = dt'.bucket[dt.parent[Vertex(dt, i)]]
    BY <1>8, <1>d, <1>l, <2>1 DEF Link, Contexts
  <2>3. work' \in SUBSET Blocks
    BY <1>g, <2>1, <2>2 DEF Contexts
  <2>4. Vertex(dt, i)' = Vertex(dt, i)
    BY <2>1, <2>2 DEF Vertex
  <2>. QED  BY <1>0, <1>d, <1>g, <2>1, <2>2, <2>3, <2>4 DEF Types, Counting
<1>9. CASE Idom
  <2>0. PICK v \in work : \E u \in {dt.label[v], dt.parent[Vertex(dt, i)]} :
          /\ dt' = [dt EXCEPT !.idom[v] = u]
          /\ work' = work \ {v}
    BY <1>9 DEF Idom
  <2>1. PICK u \in {dt.label[v], dt.parent[Vertex(dt, i)]} :
          /\ dt' = [dt EXCEPT !.idom[v] = u]
          /\ work' = work \ {v}
    BY <2>0
  <2>2. pc = "bucket" /\ UNCHANGED <<pc, i, front, calls>> /\ path' = <<>>
    BY <1>9 DEF Idom
  <2>3. Vertex(dt, i) \in Blocks
    BY <1>d, <1>v, <2>2 DEF Counting
  <2>4. u \in Labels
    BY <1>d, <1>l, <2>1, <2>3 DEF Contexts
  <2>5. /\ dt' \in Contexts /\ dt'.vertex = dt.vertex /\ dt'.parent = dt.parent
        /\ dt'.bucket = dt.bucket /\ Vertex(dt, i)' = Vertex(dt, i)
    BY <1>d, <2>1, <2>2, <2>4 DEF Contexts, Vertex
  <2>6. path' \in Seq(Labels)
    BY <2>2
  <2>. QED  BY <1>0, <1>d, <1>g, <2>0, <2>1, <2>2, <2>5, <2>6 DEF Types, Counting
<1>10. CASE ClearBucket
  <2>1. /\ pc = "bucket" /\ pc' = "semi" /\ work = {} /\ i' = i - 1
        /\ UNCHANGED <<path, front, calls, work>>
    BY <1>10 DEF ClearBucket
  <2>2. path = <<>>
    BY <2>1 DEF Counting
  <2>3. dt' \in Contexts /\ dt'.vertex = dt.vertex /\ dt'.parent = dt.parent
    BY <1>10, <1>d DEF ClearBucket, Contexts
  <2>4. Len(dt.vertex) \in Nat
    BY <1>d DEF Contexts
  <2>. QED  BY <1>0, <1>d, <1>g, <2>1, <2>2, <2>3, <2>4 DEF Types, Counting
<1>11. CASE StartCorrect
  <2>1. Len(dt.vertex) \in Nat
    BY <1>d DEF Contexts
  <2>. QED  BY <1>11, <1>d, <1>g, <2>1 DEF StartCorrect, Types, Counting
<1>12. CASE Correct
  <2>1. pc = "correct" /\ i < Len(dt.vertex) /\ i' = i + 1 /\ UNCHANGED <<pc, path, front, calls, work>>
    BY <1>12 DEF Correct
  <2>2. PICK u \in {dt.idom[Vertex(dt, i)], dt.idom[dt.idom[Vertex(dt, i)]]} :
          dt' = [dt EXCEPT !.idom[Vertex(dt, i)] = u]
    BY <1>12 DEF Correct
  <2>3. u \in Labels
    BY <1>d, <1>l, <1>v, <2>1, <2>2 DEF Contexts
  <2>4. dt' \in Contexts /\ dt'.vertex = dt.vertex /\ dt'.parent = dt.parent
    BY <1>d, <2>2, <2>3 DEF Contexts
  <2>5. Len(dt.vertex) \in Nat
    BY <1>d DEF Contexts
  <2>. QED  BY <1>0, <1>d, <1>g, <2>1, <2>4, <2>5 DEF Types, Counting
<1>13. CASE Corrected
  <2>1. /\ pc = "correct" /\ pc' = "front" /\ i' = 0 /\ UNCHANGED <<path, front, calls, work>>
    BY <1>13 DEF Corrected
  <2>2. dt' \in Contexts /\ dt'.vertex = dt.vertex /\ dt'.parent = dt.parent
    BY <1>13, <1>d, <1>l DEF Corrected, Contexts
  <2>. QED  BY <1>0, <1>b, <1>d, <1>g, <2>1, <2>2 DEF Types, Counting
<1>14. CASE NextBlock
  <2>1. Runners(i + 1) \in SUBSET Blocks
    BY <1>p DEF Runners
  <2>. QED  BY <1>14, <1>b, <1>d, <1>g, <2>1 DEF NextBlock, Types, Counting
<1>15. CASE StartRunner
  <2>1. PICK p \in work : path' = <<p>> /\ work' = work \ {p}
    BY <1>15 DEF StartRunner
  <2>2. path' \in Seq(Labels) /\ Len(path') = 1
    BY <1>d, <1>l, <2>1
  <2>. QED  BY <1>15, <1>d, <1>g, <2>1, <2>2 DEF StartRunner, Types, Counting
<1>16. CASE Run
  <2>1. pc = "front" /\ path # <<>> /\ UNCHANGED <<pc, dt, i, work, calls>> /\ i # 0
    BY <1>16 DEF Run, Counting
  <2>2. path[1] \in Labels /\ i \in Blocks
    BY <1>b, <1>d, <2>1 DEF Counting
  <2>3. CASE path' = <<>> /\ front' = front
    <3>1. path' \in Seq(Labels) /\ Len(path') = 0
      BY <2>3
    <3>. QED  BY <1>0, <1>d, <1>g, <2>1, <2>3, <3>1 DEF Types, Counting
  <2>4. CASE path' = <<dt.idom[path[1]]>> /\ front' = [front EXCEPT ![path[1]] = @ \cup {i}]
    <3>1. dt.idom[path[1]] \in Labels
      BY <1>d, <2>2 DEF Contexts
    <3>2. path' \in Seq(Labels) /\ Len(path') = 1
      BY <2>4, <3>1
    <3>3. front' \in [Blocks -> SUBSET Blocks]
      BY <1>d, <2>2, <2>4
    <3>. QED  BY <1>0, <1>d, <1>g, <2>1, <3>2, <3>3 DEF Types, Counting
  <2>. QED  BY <1>16, <2>3, <2>4 DEF Run
<1>17. CASE Frontiers
  BY <1>17, <1>b, <1>d, <1>g DEF Frontiers, Types, Counting
<1>18. CASE NextEdges
  <2>1. pc = "edges" /\ i + 1 \in Blocks /\ i' = i + 1 /\ UNCHANGED <<pc, path, dt, front, calls>>
    BY <1>18, <1>b, <1>d DEF NextEdges
  <2>2. work' \in SUBSET Blocks
    BY <1>18, <1>b, <2>1 DEF NextEdges
  <2>. QED  BY <1>0, <1>18, <1>b, <1>d, <1>g, <2>1, <2>2 DEF NextEdges, Types, Counting
<1>19. CASE FindEdge
  <2>1. PICK b \in work :
          /\ work' = work \ {b}
          /\ calls' = IF b # i /\ Dominates(b, i) THEN Append(calls, <<b, i>>) ELSE calls
    BY <1>19 DEF FindEdge
  <2>2. pc = "edges" /\ UNCHANGED <<pc, path, dt, i, front>>
    BY <1>19 DEF FindEdge
  <2>3. i \in Blocks
    BY <1>b, <1>d, <2>1, <2>2 DEF Counting
  <2>4. calls \in Seq(Blocks \X Blocks)
    BY <2>2 DEF Types
  <2>5. <<b, i>> \in Blocks \X Blocks
    BY <1>d, <2>1, <2>3
  <2>6. calls' \in Seq(Blocks \X Blocks)
    BY <2>1, <2>4, <2>5
  <2>. QED  BY <1>0, <1>d, <1>g, <2>1, <2>2, <2>6 DEF Types, Counting
<1>20. CASE EdgesFound
  BY <1>20, <1>d, <1>g DEF EdgesFound, Types, Counting
<1>21. CASE StartBody
  <2>1. /\ pc = "body" /\ calls # <<>> /\ work' = {Head(calls)[2]} /\ calls' = Tail(calls)
        /\ UNCHANGED <<pc, path, dt, i, front>>
    BY <1>21 DEF StartBody
  <2>2. calls \in Seq(Blocks \X Blocks)
    BY <2>1 DEF Types
  <2>3. Head(calls) \in Blocks \X Blocks /\ Tail(calls) \in Seq(Blocks \X Blocks)
    BY <2>1, <2>2
  <2>4. Head(calls)[2] \in Blocks
    BY <2>3
  <2>. QED  BY <1>0, <1>d, <1>g, <2>1, <2>3, <2>4 DEF Types, Counting
<1>22. CASE GrowBody
  <2>1. pc = "body" /\ UNCHANGED <<pc, path, dt, i, front, calls>>
    BY <1>22 DEF GrowBody
  <2>2. work' \in SUBSET Blocks
    BY <1>22, <1>d, <1>p DEF GrowBody
  <2>. QED  BY <1>0, <1>d, <1>g, <2>1, <2>2 DEF Types, Counting
<1>23. CASE Nest
  BY <1>23, <1>d, <1>g DEF Nest, Types, Counting
<1>24. CASE PropagateDepth
  BY <1>24, <1>d, <1>g DEF PropagateDepth, Types, Counting
<1>25. CASE Done
  BY <1>25, <1>d, <1>g DEF Done, Types, Counting
<1>26. CASE UNCHANGED vars
  BY <1>26, <1>d, <1>g DEF vars, Types, Counting, Vertex
<1>. QED  BY <1>1, <1>2, <1>3, <1>4, <1>5, <1>6, <1>7, <1>8, <1>9, <1>10, <1>11, <1>12, <1>13, <1>14,
             <1>15, <1>16, <1>17, <1>18, <1>19, <1>20, <1>21, <1>22, <1>23, <1>24, <1>25, <1>26
          DEF Next

THEOREM Typed == Spec => [](Types /\ Counting)
<1>1. Init => Types /\ Counting
  BY TypesInit
<1>2. Types /\ Counting /\ [Next]_vars => (Types /\ Counting)'
  BY TypesNext
<1>. QED  BY <1>1, <1>2, PTL DEF Spec

-----------------------------------------------------------------------------
(* The walk. *)

\* The numbers of the blocks are their places in the sequence, from 0.
Numbering(t, v) ==
  /\ DOMAIN v = 1..Len(v) /\ Len(v) \in Nat
  /\ t.nodes = ToSet(v) /\ t.root = Entry
  /\ t.num \in [t.nodes -> Nat]
  /\ \A n \in DOMAIN v : v[n] \in t.nodes /\ t.num[v[n]] = n - 1
  /\ \A b \in t.nodes : t.num[b] \in Nat /\ t.num[b] < Len(v) /\ v[t.num[b] + 1] = b
  /\ \A a, b \in t.nodes : t.num[a] = t.num[b] => a = b

LEMMA NumberOf ==
  ASSUME NEW v \in Seq(Blocks), NEW p, NEW e, \A m, n \in DOMAIN v : v[m] = v[n] => m = n
  PROVE  Numbering(TreeOf(v, p, e), v)
<1> DEFINE t == TreeOf(v, p, e)
           place == [b \in ToSet(v) |-> CHOOSE n \in DOMAIN v : v[n] = b]
<1>1. \A b \in ToSet(v) : place[b] \in DOMAIN v /\ v[place[b]] = b
  BY DEF ToSet
<1>2. /\ t.nodes = ToSet(v) /\ t.root = Entry
      /\ t.num = [b \in ToSet(v) |-> place[b] - 1]
  BY DEF TreeOf
<1>3. \A n \in DOMAIN v : v[n] \in ToSet(v) /\ place[v[n]] = n
  BY <1>1 DEF ToSet
<1>4. DOMAIN v = 1..Len(v) /\ Len(v) \in Nat
  OBVIOUS
<1> HIDE DEF place, t
<1>5. \A b \in ToSet(v) : place[b] \in Nat /\ place[b] >= 1 /\ place[b] <= Len(v)
  BY <1>1, <1>4
<1>6. \A b \in ToSet(v) : t.num[b] = place[b] - 1 /\ t.num[b] \in Nat /\ t.num[b] + 1 = place[b]
                          /\ t.num[b] < Len(v)
  BY <1>2, <1>4, <1>5
<1>7. Numbering(t, v)
  BY <1>1, <1>2, <1>3, <1>4, <1>6 DEF Numbering
<1>. QED  BY <1>7 DEF t

\* u is t with a new leaf, which has the next number.
Grown(t, u, b) ==
  /\ b \notin t.nodes /\ u.nodes = t.nodes \cup {b}
  /\ u.root = t.root /\ t.root \in t.nodes /\ u.parent[b] \in t.nodes
  /\ \A x \in t.nodes \ {t.root} : u.parent[x] = t.parent[x] /\ t.parent[x] \in t.nodes
  /\ \A x \in t.nodes : u.num[x] = t.num[x] /\ t.num[x] \in Nat /\ t.num[x] < u.num[b]

LEMMA GrownAbove ==
  ASSUME NEW t, NEW u, NEW b, Grown(t, u, b)
  PROVE  /\ \A a, c : Above(t, a, c) => Above(u, a, c)
         /\ \A a, c : Above(u, a, c) /\ c # b => Above(t, a, c)
         /\ Above(u, u.parent[b], b)
         /\ \A a : Above(u, a, b) /\ a # b => Above(t, a, u.parent[b])
<1>0. /\ b \notin t.nodes /\ u.nodes = t.nodes \cup {b}
      /\ u.root = t.root /\ t.root \in t.nodes /\ u.parent[b] \in t.nodes
      /\ \A x \in t.nodes \ {t.root} : u.parent[x] = t.parent[x] /\ t.parent[x] \in t.nodes
  BY DEF Grown
<1> USE <1>0
<1>1. ASSUME NEW a, NEW c, Above(t, a, c) PROVE Above(u, a, c)
  <2>1. c \in u.nodes
    BY <1>1 DEF Above
  <2>2. ASSUME NEW S \in SUBSET u.nodes, c \in S, \A x \in S \ {u.root} : u.parent[x] \in S
        PROVE  a \in S
    <3>1. S \cap t.nodes \in SUBSET t.nodes /\ c \in S \cap t.nodes
      BY <1>1, <2>2 DEF Above
    <3>2. \A x \in (S \cap t.nodes) \ {t.root} : t.parent[x] \in S \cap t.nodes
      BY <2>2
    <3>3. a \in S \cap t.nodes
      BY <1>1, <3>1, <3>2 DEF Above
    <3>. QED  BY <3>3
  <2>. QED  BY <2>1, <2>2 DEF Above
<1>2. ASSUME NEW a, NEW c, Above(u, a, c), c # b PROVE Above(t, a, c)
  <2>1. c \in t.nodes
    BY <1>2 DEF Above
  <2>2. ASSUME NEW S \in SUBSET t.nodes, c \in S, \A x \in S \ {t.root} : t.parent[x] \in S
        PROVE  a \in S
    <3>1. S \in SUBSET u.nodes /\ \A x \in S \ {u.root} : u.parent[x] \in S
      BY <2>2
    <3>. QED  BY <1>2, <2>2, <3>1 DEF Above
  <2>. QED  BY <2>1, <2>2 DEF Above
<1>3. Above(u, u.parent[b], b)
  BY DEF Above
<1>4. ASSUME NEW a, Above(u, a, b), a # b PROVE Above(t, a, u.parent[b])
  <2>1. ASSUME NEW S \in SUBSET t.nodes, u.parent[b] \in S,
               \A x \in S \ {t.root} : t.parent[x] \in S
        PROVE  a \in S
    <3>1. S \cup {b} \in SUBSET u.nodes
      OBVIOUS
    <3>2. \A x \in (S \cup {b}) \ {u.root} : u.parent[x] \in S \cup {b}
      BY <2>1
    <3>3. a \in S \cup {b}
      BY <1>4, <3>1, <3>2 DEF Above
    <3>. QED  BY <1>4, <3>3
  <2>. QED  BY <2>1 DEF Above
<1>. QED  BY <1>1, <1>2, <1>3, <1>4

\* w is v with one more block at the end.
Extended(v, w, b) ==
  /\ w \in Seq(Blocks) /\ \A m, n \in DOMAIN w : w[m] = w[n] => m = n
  /\ ToSet(w) = ToSet(v) \cup {b}
  /\ DOMAIN w = 1..Len(v) + 1 /\ Len(w) = Len(v) + 1
  /\ w[Len(v) + 1] = b /\ \A n \in DOMAIN v : w[n] = v[n]

LEMMA NumberGrows ==
  ASSUME NEW v, NEW w, NEW b, NEW t, NEW u,
         Numbering(t, v), Numbering(u, w), Extended(v, w, b)
  PROVE  /\ u.num[b] = Len(v)
         /\ \A x \in t.nodes : u.num[x] = t.num[x] /\ t.num[x] \in Nat /\ t.num[x] < u.num[b]
<1> DEFINE N == Len(v)
<1>1. /\ N \in Nat /\ DOMAIN v = 1..N
      /\ \A x \in t.nodes : t.num[x] \in Nat /\ t.num[x] < N /\ v[t.num[x] + 1] = x
  BY DEF Numbering
<1>2. DOMAIN w = 1..N + 1 /\ w[N + 1] = b /\ \A n \in DOMAIN v : w[n] = v[n]
  BY DEF Extended
<1>3. \A n \in DOMAIN w : u.num[w[n]] = n - 1
  BY DEF Numbering
<1> HIDE DEF N
<1>4. u.num[b] = N
  BY <1>1, <1>2, <1>3
<1>5. ASSUME NEW x \in t.nodes PROVE u.num[x] = t.num[x] /\ t.num[x] \in Nat /\ t.num[x] < N
  <2> DEFINE n == t.num[x] + 1
  <2>1. t.num[x] \in Nat /\ t.num[x] < N /\ n \in 1..N /\ n \in 1..N + 1 /\ v[n] = x
    BY <1>1
  <2>2. w[n] = x /\ u.num[w[n]] = n - 1
    BY <1>1, <1>2, <1>3, <2>1
  <2>. QED  BY <2>1, <2>2
<1>. QED  BY <1>4, <1>5 DEF N

LEMMA AppendFacts ==
  ASSUME NEW v \in Seq(Blocks), \A m, n \in DOMAIN v : v[m] = v[n] => m = n,
         NEW b \in Blocks \ ToSet(v)
  PROVE  Extended(v, Append(v, b), b)
<1> DEFINE w == Append(v, b)
<1>1. /\ w \in Seq(Blocks) /\ w[Len(v) + 1] = b /\ Len(v) + 1 \in DOMAIN w
      /\ \A n \in DOMAIN v : n \in DOMAIN w /\ w[n] = v[n]
      /\ \A n \in DOMAIN w : n \in DOMAIN v \/ n = Len(v) + 1
      /\ DOMAIN w = 1..Len(v) + 1 /\ Len(w) = Len(v) + 1
  OBVIOUS
<1>2. \A m, n \in DOMAIN w : w[m] = w[n] => m = n
  <2>1. \A n \in DOMAIN v : w[n] # b
    BY DEF ToSet
  <2>. QED  BY <1>1, <2>1
<1>3. ToSet(w) = ToSet(v) \cup {b}
  BY <1>1 DEF ToSet
<1>. QED  BY <1>1, <1>2, <1>3 DEF Extended

\* The numbers stay an interval of each subtree, when the leaf is below the
\* node that all since are below.
LEMMA GrownSinceBelow ==
  ASSUME NEW t, NEW u, NEW b, Grown(t, u, b), NEW a \in t.nodes,
         SinceBelow(t, a), t.num[a] <= t.num[u.parent[b]]
  PROVE  SinceBelow(u, a)
<1>1. /\ u.nodes = t.nodes \cup {b} /\ u.parent[b] \in t.nodes
      /\ \A x \in t.nodes : u.num[x] = t.num[x]
  BY DEF Grown
<1>2. Above(u, a, b)
  <2>1. Above(t, a, u.parent[b])
    BY <1>1 DEF SinceBelow
  <2>2. Above(u, a, u.parent[b]) /\ Above(u, u.parent[b], b)
    BY <2>1, GrownAbove
  <2>. QED  BY <2>2, AboveTransitive
<1>3. ASSUME NEW x \in t.nodes, u.num[a] <= u.num[x] PROVE Above(u, a, x)
  <2>1. Above(t, a, x)
    BY <1>1, <1>3 DEF SinceBelow
  <2>. QED  BY <2>1, GrownAbove
<1>. QED  BY <1>1, <1>2, <1>3 DEF SinceBelow

LEMMA GrownLeaf ==
  ASSUME NEW t, NEW u, NEW b, Grown(t, u, b), u.num[b] \in Nat
  PROVE  SinceBelow(u, b)
<1>1. \A x \in u.nodes : u.num[b] <= u.num[x] => x = b
  BY DEF Grown
<1>2. b \in u.nodes
  BY DEF Grown
<1>. QED  BY <1>1, <1>2, AboveSelf DEF SinceBelow

LEMMA GrownIntervals ==
  ASSUME NEW t, NEW u, NEW b, Grown(t, u, b), u.num[b] \in Nat,
         Intervals(t), SinceBelow(t, u.parent[b])
  PROVE  Intervals(u)
<1> DEFINE top == u.parent[b]
<1>1. /\ u.nodes = t.nodes \cup {b} /\ b \notin t.nodes /\ top \in t.nodes
      /\ \A x \in t.nodes : u.num[x] = t.num[x] /\ t.num[x] \in Nat /\ t.num[x] < u.num[b]
  BY DEF Grown
<1>2. /\ \A a, c : Above(t, a, c) => Above(u, a, c)
      /\ \A a, c : Above(u, a, c) /\ c # b => Above(t, a, c)
      /\ \A a : Above(u, a, b) /\ a # b => Above(t, a, top)
  BY GrownAbove
<1> HIDE DEF top
<1>3. SUFFICES ASSUME NEW a \in u.nodes, NEW x \in u.nodes, NEW c \in u.nodes,
                      Above(u, a, c), u.num[a] <= u.num[x], u.num[x] <= u.num[c]
               PROVE  Above(u, a, x)
  BY DEF Intervals
<1>4. CASE c # b
  <2>1. c \in t.nodes /\ x \in t.nodes /\ a \in t.nodes
    BY <1>1, <1>3, <1>4
  <2>2. Above(t, a, c)
    BY <1>2, <1>3, <1>4
  <2>3. Above(t, a, x)
    BY <1>1, <1>3, <2>1, <2>2 DEF Intervals
  <2>. QED  BY <1>2, <2>3
<1>5. CASE c = b /\ x = b
  BY <1>3, <1>5
<1>6. CASE c = b /\ x # b
  <2>1. x \in t.nodes /\ a \in t.nodes /\ a # b
    BY <1>1, <1>3, <1>6
  <2>2. Above(t, a, top) /\ t.num[a] <= t.num[x] /\ t.num[x] \in Nat /\ t.num[top] \in Nat
    BY <1>1, <1>2, <1>3, <1>6, <2>1
  <2>3. CASE t.num[x] <= t.num[top]
    <3>1. Above(t, a, x)
      BY <1>1, <2>1, <2>2, <2>3 DEF Intervals
    <3>. QED  BY <1>2, <3>1
  <2>4. CASE t.num[top] <= t.num[x]
    <3>1. Above(t, top, x)
      BY <2>1, <2>4 DEF SinceBelow, top
    <3>2. Above(t, a, x)
      BY <2>2, <3>1, AboveTransitive
    <3>. QED  BY <1>2, <3>2
  <2>. QED  BY <2>2, <2>3, <2>4
<1>. QED  BY <1>4, <1>5, <1>6

LEMMA SeenFacts ==
  ASSUME Types, Numbered
  PROVE  /\ Numbering(Seen, dt.vertex) /\ Numbering(Runs, dt.vertex)
         /\ Seen.nodes = Reached /\ Seen.root = Entry /\ Seen.parent = dt.parent
         /\ Seen.edges = SeenEdges
         /\ Runs.nodes = Reached /\ Runs.root = Entry /\ Runs.parent = dt.parent
         /\ Runs.edges = LiveEdges /\ Runs.num = Seen.num
         /\ Entry \in Reached /\ Reached \subseteq Blocks
<1>1. dt.vertex \in Seq(Blocks)
  BY DEF Types, Contexts
<1>2. Numbering(Seen, dt.vertex) /\ Numbering(Runs, dt.vertex)
  BY <1>1, NumberOf DEF Seen, Runs, Numbered
<1>3. Entry \in Reached /\ Reached \subseteq Blocks
  BY <1>1 DEF Numbered, Reached, ToSet
<1>. QED  BY <1>2, <1>3 DEF Seen, Runs, TreeOf, Reached

\* What a vertex and its number are.
LEMMA VertexFacts ==
  ASSUME Types, Numbered
  PROVE  /\ \A b \in Reached : /\ Num(b) \in Nat /\ Num(b) < Len(dt.vertex)
                               /\ Vertex(dt, Num(b)) = b
         /\ \A n \in Nat : n < Len(dt.vertex) => Vertex(dt, n) \in Reached /\ Num(Vertex(dt, n)) = n
         /\ \A a, b \in Reached : Num(a) = Num(b) => a = b
         /\ Num(Entry) = 0 /\ Entry \in Reached /\ Len(dt.vertex) \in Nat
<1>1. Numbering(Seen, dt.vertex) /\ Seen.nodes = Reached /\ Entry \in Reached
  BY SeenFacts
<1>2. /\ \A b \in Reached : Seen.num[b] \in Nat /\ Seen.num[b] < Len(dt.vertex)
                            /\ dt.vertex[Seen.num[b] + 1] = b
      /\ \A n \in DOMAIN dt.vertex : dt.vertex[n] \in Reached /\ Seen.num[dt.vertex[n]] = n - 1
      /\ DOMAIN dt.vertex = 1..Len(dt.vertex) /\ Len(dt.vertex) \in Nat
      /\ \A a, b \in Reached : Seen.num[a] = Seen.num[b] => a = b
  BY <1>1 DEF Numbering
<1>3. ASSUME NEW n \in Nat, n < Len(dt.vertex)
      PROVE  Vertex(dt, n) \in Reached /\ Num(Vertex(dt, n)) = n
  <2>1. n + 1 \in DOMAIN dt.vertex /\ n + 1 - 1 = n
    BY <1>2, <1>3
  <2>2. dt.vertex[n + 1] \in Reached /\ Seen.num[dt.vertex[n + 1]] = (n + 1) - 1
    BY <1>2, <2>1
  <2>. QED  BY <2>2 DEF Vertex, Num
<1>4. Num(Entry) = 0
  BY <1>3, Len(dt.vertex) \in Nat DEF Numbered, Vertex
<1>. QED  BY <1>1, <1>2, <1>3, <1>4 DEF Vertex, Num

\* A new block at the end of the sequence is a new leaf.
LEMMA SeenGrows ==
  ASSUME Types, Numbered, succ' = succ, NEW b \in Blocks \ Reached,
         Extended(dt.vertex, dt'.vertex, b), dt'.parent[b] \in Reached,
         \A x \in Reached : dt'.parent[x] = dt.parent[x]
  PROVE  Grown(Seen, Seen', b) /\ Seen'.num[b] = Len(dt.vertex)
<1>1. Numbering(Seen, dt.vertex)
  BY SeenFacts
<1>2. Seen' = TreeOf(dt'.vertex, dt'.parent, SeenEdges) /\ Blocks' = Blocks
  BY GraphFixed DEF Seen
<1>3. Numbering(Seen', dt'.vertex)
  BY <1>2, NumberOf DEF Extended
<1>4. Seen.nodes = Reached /\ Seen.root = Entry /\ Seen.parent = dt.parent /\ Entry \in Reached
  BY SeenFacts
<1>5. /\ Seen'.nodes = Reached \cup {b} /\ Seen'.root = Entry /\ Seen'.parent = dt'.parent
  BY <1>2 DEF TreeOf, Extended, Reached
<1>6. /\ Seen'.num[b] = Len(dt.vertex)
      /\ \A x \in Seen.nodes : Seen'.num[x] = Seen.num[x] /\ Seen.num[x] \in Nat
                              /\ Seen.num[x] < Seen'.num[b]
  BY <1>1, <1>3, NumberGrows
<1>7. \A x \in Reached \ {Entry} : dt.parent[x] \in Reached
  BY DEF Numbered
<1>. QED  BY <1>4, <1>5, <1>6, <1>7 DEF Grown

\* After the walk the tree is fixed.
LEMMA SeenFixed ==
  ASSUME succ' = succ, dt'.vertex = dt.vertex, dt'.parent = dt.parent
  PROVE  /\ Reached' = Reached /\ Seen' = Seen /\ Runs' = Runs /\ LiveEdges' = LiveEdges
         /\ \A b : Num(b)' = Num(b)
         /\ \A n : Vertex(dt, n)' = Vertex(dt, n)
<1>1. Reached' = Reached
  BY DEF Reached
<1>2. LiveEdges' = LiveEdges
  BY <1>1, GraphFixed DEF LiveEdges
<1>3. Seen' = Seen /\ Runs' = Runs
  BY <1>2, GraphFixed DEF Seen, Runs
<1>. QED  BY <1>1, <1>2, <1>3 DEF Num, Vertex

\* Which action changes which map.
LEMMA FieldsKept ==
  ASSUME Types, [Next]_vars
  PROVE  /\ succ' = succ
         /\ Walk \/ (dt'.vertex = dt.vertex /\ dt'.parent = dt.parent)
         /\ Walk \/ Shorten \/ dt'.label = dt.label
         /\ Walk \/ Semi \/ dt'.semi = dt.semi
         /\ Shorten \/ Link \/ dt'.ancestor = dt.ancestor
         /\ Link \/ ClearBucket \/ dt'.bucket = dt.bucket
         /\ Idom \/ Correct \/ Corrected \/ dt'.idom = dt.idom
         /\ pc' = "walk" => Walk \/ UNCHANGED vars
<1> USE DEF Types, Contexts
<1>1. CASE Walk
  BY <1>1 DEF Walk
<1>2. CASE Walked
  BY <1>2 DEF Walked
<1>3. CASE StartVertex \/ Eval \/ Compress \/ StartCorrect
  BY <1>3 DEF StartVertex, Eval, Compress, StartCorrect
<1>4. CASE Shorten
  BY <1>4 DEF Shorten
<1>5. CASE Semi
  BY <1>5 DEF Semi
<1>6. CASE Link
  BY <1>6 DEF Link
<1>7. CASE Idom
  BY <1>7 DEF Idom
<1>8. CASE ClearBucket
  BY <1>8 DEF ClearBucket
<1>9. CASE Correct
  BY <1>9 DEF Correct
<1>10. CASE Corrected
  BY <1>10 DEF Corrected
<1>11. CASE NextBlock \/ StartRunner \/ Run \/ Frontiers
  BY <1>11 DEF NextBlock, StartRunner, Run, Frontiers
<1>12. CASE NextEdges \/ FindEdge \/ EdgesFound \/ StartBody \/ GrowBody
  BY <1>12 DEF NextEdges, FindEdge, EdgesFound, StartBody, GrowBody
<1>13. CASE Nest \/ PropagateDepth \/ Done \/ UNCHANGED vars
  BY <1>13 DEF Nest, PropagateDepth, Done, vars
<1>. QED  BY <1>1, <1>2, <1>3, <1>4, <1>5, <1>6, <1>7, <1>8, <1>9, <1>10, <1>11, <1>12, <1>13
          DEF Next

LEMMA WalksInit == Init /\ Types => Walks
<1> SUFFICES ASSUME Init, Types PROVE Walks
  OBVIOUS
<1>1. Entry \in Blocks /\ None \notin Blocks
  BY GraphFacts DEF Types
<1>2. /\ dt.vertex = <<Entry>> /\ path = <<Entry>> /\ pc = "walk" /\ Len(dt.vertex) = 1
      /\ DOMAIN dt.vertex = {1} /\ DOMAIN path = {1} /\ dt.vertex[1] = Entry /\ path[1] = Entry
  BY DEF Init
<1>3. /\ \A b \in Blocks : dt.bucket[b] = {}
      /\ \A b \in Labels : dt.ancestor[b] = None /\ dt.idom[b] = None /\ dt.semi[b] = 0
      /\ dt.label[Entry] = Entry /\ \A b \in Labels \ {Entry} : dt.label[b] = None
  BY <1>1 DEF Init, Labels, None
<1>4. Reached = {Entry} /\ ToSet(path) = {Entry}
  BY <1>2 DEF Reached, ToSet
<1>5. Above(Seen, Entry, Entry) /\ Seen.nodes = {Entry}
  BY <1>4, AboveSelf DEF Seen, TreeOf, Reached
<1>6. Numbered
  BY <1>2, <1>4, <1>5 DEF Numbered, Intervals
<1>7. Num(Entry) = 0
  BY <1>6, VertexFacts
<1>8. Walking
  BY <1>2, <1>4, <1>5, <1>7 DEF Walking, Open, SinceBelow
<1>9. Fresh
  BY <1>1, <1>3, <1>4, <1>7 DEF Fresh, Labels
<1>10. Unreached
  BY <1>1, <1>3, <1>4 DEF Unreached, Labels
<1>. QED  BY <1>6, <1>8, <1>9, <1>10 DEF Walks

\* The walk enters block b.
LEMMA WalksPush ==
  ASSUME Types, Counting, Walks, pc = "walk", path # <<>>, NEW top, top = Last(path),
         NEW b \in succ[top] \ Reached, succ' = succ, pc' = pc,
         dt' = [dt EXCEPT !.semi[b] = Len(dt.vertex), !.vertex = Append(@, b),
                          !.label[b] = b, !.parent[b] = top],
         path' = Append(path, b)
  PROVE  Walks'
<1>0. /\ dt \in Contexts /\ path \in Seq(Blocks) /\ Numbered /\ Walking /\ Fresh /\ Unreached
      /\ \A x \in Blocks : succ[x] \subseteq Blocks
      /\ Entry \in Blocks /\ None \notin Blocks /\ Labels' = Labels /\ Blocks' = Blocks
  BY GraphFacts, GraphFixed DEF Types, Counting, Walks
<1>1. /\ top = path[Len(path)] /\ Len(path) \in DOMAIN path /\ Len(path) \in Nat /\ top \in Blocks
      /\ DOMAIN path = 1..Len(path) /\ b \in Blocks
  BY <1>0, StackFacts
<1>2. /\ top \in Reached /\ Entry \in Reached /\ Reached \subseteq Blocks
      /\ SinceBelow(Seen, top)
      /\ Seen.nodes = Reached /\ Seen.parent = dt.parent
      /\ \A x \in Reached : Num(x) \in Nat
  BY <1>0, <1>1, SeenFacts, VertexFacts DEF Walking
<1>3. /\ dt'.vertex = Append(dt.vertex, b) /\ dt'.parent = [dt.parent EXCEPT ![b] = top]
      /\ dt'.semi = [dt.semi EXCEPT ![b] = Len(dt.vertex)]
      /\ dt'.label = [dt.label EXCEPT ![b] = b]
      /\ dt'.ancestor = dt.ancestor /\ dt'.idom = dt.idom /\ dt'.bucket = dt.bucket
      /\ DOMAIN dt.parent = Labels /\ DOMAIN dt.semi = Labels /\ DOMAIN dt.label = Labels
      /\ dt.vertex \in Seq(Blocks) /\ b \in Labels /\ Len(dt.vertex) \in Nat
  BY <1>0, <1>1 DEF Contexts, Labels
<1>4. Extended(dt.vertex, dt'.vertex, b)
  BY <1>0, <1>1, <1>3, AppendFacts DEF Numbered, Reached
<1>5. Reached' = Reached \cup {b} /\ b \notin Reached
  BY <1>4 DEF Extended, Reached
<1>7. dt'.parent[b] = top /\ \A x \in Reached : dt'.parent[x] = dt.parent[x]
  BY <1>3, <1>5
<1>8. /\ Grown(Seen, Seen', b) /\ Seen'.num[b] = Len(dt.vertex)
      /\ Seen'.parent = dt'.parent /\ Seen'.nodes = Reached'
  BY <1>0, <1>1, <1>2, <1>4, <1>7, SeenGrows, GraphFixed DEF Seen, TreeOf, Reached
<1>9. \A x \in Reached : Seen'.num[x] = Num(x) /\ Num(x) \in Nat /\ Num(x) < Seen'.num[b]
  BY <1>2, <1>8 DEF Grown, Num
<1>10. \A a, c : Above(Seen, a, c) => Above(Seen', a, c)
  BY <1>8, GrownAbove
<1>s. /\ \A a \in Reached : SinceBelow(Seen, a) /\ Num(a) <= Num(top) => SinceBelow(Seen', a)
      /\ SinceBelow(Seen', b)
  <2>1. Seen'.parent[b] = top
    BY <1>7, <1>8
  <2>2. ASSUME NEW a \in Reached, SinceBelow(Seen, a), Num(a) <= Num(top)
        PROVE  SinceBelow(Seen', a)
    BY <1>2, <1>8, <2>1, <2>2, GrownSinceBelow DEF Num
  <2>. QED  BY <1>3, <1>8, <2>2, GrownLeaf
<1>11. Numbered'
  <2>1. Len(dt'.vertex) >= 1 /\ dt'.vertex[1] = Entry
    BY <1>0, <1>3, <1>4 DEF Extended, Numbered
  <2>2. \A m, n \in DOMAIN dt'.vertex : dt'.vertex[m] = dt'.vertex[n] => m = n
    BY <1>4 DEF Extended
  <2>3. ASSUME NEW x \in Reached' \ {Entry}
        PROVE  dt'.parent[x] \in Reached' /\ x \in succ'[dt'.parent[x]]
               /\ Seen'.num[dt'.parent[x]] < Seen'.num[x]
    <3>1. CASE x = b
      BY <1>2, <1>5, <1>7, <1>9, <3>1
    <3>2. CASE x # b
      <4>1. x \in Reached \ {Entry}
        BY <1>5, <3>2
      <4>2. dt.parent[x] \in Reached /\ x \in succ[dt.parent[x]] /\ Num(dt.parent[x]) < Num(x)
        BY <1>0, <4>1 DEF Numbered
      <4>. QED  BY <1>5, <1>7, <1>9, <4>1, <4>2
    <3>. QED  BY <3>1, <3>2
  <2>4. Intervals(Seen')
    BY <1>0, <1>2, <1>3, <1>7, <1>8, GrownIntervals DEF Numbered
  <2>5. Intervals(Seen)'
    BY <2>4 DEF Intervals
  <2>. QED  BY <2>1, <2>2, <2>3, <2>5 DEF Numbered, Num
<1>12. Walking'
  <2>1. /\ DOMAIN path' = 1..Len(path) + 1 /\ path'[Len(path) + 1] = b
        /\ \A k \in DOMAIN path : path'[k] = path[k]
    BY <1>0, <1>1
  <2>2. \A k \in DOMAIN path' : k \in DOMAIN path \/ (k = Len(path) + 1 /\ path'[k] = b)
    BY <1>1, <2>1
  <2>3. \A k \in DOMAIN path : /\ path[k] \in Reached
                               /\ \A j \in DOMAIN path : j <= k => Num(path[j]) <= Num(path[k])
                               /\ SinceBelow(Seen, path[k])
    BY <1>0 DEF Walking
  <2>4. \A k \in DOMAIN path' : path'[k] \in Reached'
    BY <1>5, <2>1, <2>2, <2>3
  <2>5. ASSUME NEW k \in DOMAIN path' PROVE SinceBelow(Seen', path'[k])
    <3>1. CASE k \in DOMAIN path
      <4>1. Num(path[k]) <= Num(top)
        BY <1>1, <2>3, <3>1
      <4>. QED  BY <1>s, <2>1, <2>3, <3>1, <4>1
    <3>. QED  BY <1>s, <2>2, <3>1
  <2>6. ASSUME NEW k \in DOMAIN path', NEW j \in DOMAIN path', j <= k
        PROVE  Seen'.num[path'[j]] <= Seen'.num[path'[k]]
    <3>1. CASE k \in DOMAIN path
      <4>1. j \in DOMAIN path
        BY <1>1, <2>1, <2>6, <3>1
      <4>2. Num(path[j]) <= Num(path[k]) /\ path[j] \in Reached /\ path[k] \in Reached
        BY <2>3, <2>6, <3>1, <4>1
      <4>3. Seen'.num[path[j]] = Num(path[j]) /\ Seen'.num[path[k]] = Num(path[k])
        BY <1>9, <4>2
      <4>4. path'[j] = path[j] /\ path'[k] = path[k]
        BY <2>1, <3>1, <4>1
      <4>. QED  BY <4>2, <4>3, <4>4
    <3>2. CASE path'[k] = b
      <4>1. path'[j] \in Reached \/ path'[j] = b
        BY <2>1, <2>2, <2>3
      <4>. QED  BY <1>3, <1>8, <1>9, <3>2, <4>1
    <3>. QED  BY <2>2, <3>1, <3>2
  <2>7. ToSet(path) \subseteq ToSet(path') /\ b \in ToSet(path')
    <3>1. Len(path) + 1 \in DOMAIN path' /\ \A k \in DOMAIN path : k \in DOMAIN path'
      BY <1>1, <2>1
    <3>. QED  BY <2>1, <3>1 DEF ToSet
  <2>8. ASSUME NEW a \in Reached' \ ToSet(path')
        PROVE  /\ succ'[a] \subseteq Reached'
               /\ \A c \in succ'[a] : Seen'.num[a] < Seen'.num[c] => Above(Seen', a, c)
    <3>1. a \in Reached \ Open
      BY <1>5, <2>7, <2>8 DEF Open
    <3>2. succ[a] \subseteq Reached /\ \A c \in succ[a] : Num(a) < Num(c) => Above(Seen, a, c)
      BY <1>0, <3>1 DEF Walking
    <3>3. ASSUME NEW c \in succ[a], Seen'.num[a] < Seen'.num[c] PROVE Above(Seen', a, c)
      <4>1. Num(a) < Num(c)
        BY <1>9, <3>1, <3>2, <3>3
      <4>. QED  BY <1>10, <3>2, <4>1
    <3>. QED  BY <1>5, <3>2, <3>3
  <2>9. Open' = ToSet(path')
    BY DEF Open
  <2>10. \A k \in DOMAIN path' : SinceBelow(Seen, path[k])'
    BY <2>5 DEF SinceBelow
  <2>. QED  BY <2>4, <2>6, <2>8, <2>9, <2>10 DEF Walking, Num
<1>13. Fresh'
  <2>1. /\ \A x \in Blocks : dt.bucket[x] = {}
        /\ \A x \in Labels : dt.ancestor[x] = None /\ dt.idom[x] = None
        /\ \A x \in Reached : dt.label[x] = x /\ dt.semi[x] = Num(x)
    BY <1>0 DEF Fresh
  <2>2. ASSUME NEW x \in Reached' PROVE dt'.label[x] = x /\ dt'.semi[x] = Seen'.num[x]
    <3>1. CASE x = b
      BY <1>3, <1>8, <3>1
    <3>2. CASE x # b
      <4>1. x \in Reached /\ dt'.label[x] = dt.label[x] /\ dt'.semi[x] = dt.semi[x]
        BY <1>3, <1>5, <3>2
      <4>. QED  BY <1>9, <2>1, <4>1
    <3>. QED  BY <3>1, <3>2
  <2>. QED  BY <1>0, <1>3, <2>1, <2>2 DEF Fresh, Num
<1>14. Unreached'
  <2>1. ASSUME NEW x \in Labels \ Reached'
        PROVE  dt'.label[x] = None /\ dt'.ancestor[x] = None /\ dt'.idom[x] = None
    BY <1>0, <1>3, <1>5 DEF Unreached
  <2>2. dt'.semi[None] = 0 /\ dt'.idom[Entry] = None
    BY <1>0, <1>1, <1>3 DEF Unreached
  <2>3. \A s \in Blocks : dt'.bucket[s] \subseteq Reached' \ {Entry}
    BY <1>0, <1>3, <1>5 DEF Unreached
  <2>. QED  BY <1>0, <2>1, <2>2, <2>3 DEF Unreached
<1>. QED  BY <1>11, <1>12, <1>13, <1>14 DEF Walks

\* A call of the walk returns.
LEMMA WalksPop ==
  ASSUME Types, Counting, Walks, pc = "walk", path # <<>>, succ[Last(path)] \subseteq Reached,
         UNCHANGED <<succ, pc, dt>>, path' = Front(path)
  PROVE  Walks'
<1> DEFINE top == Last(path)
<1>0. path \in Seq(Blocks) /\ Numbered /\ Walking /\ Fresh /\ Unreached
  BY DEF Counting, Walks
<1>1. /\ top = path[Len(path)] /\ Len(path) \in DOMAIN path /\ Len(path) \in Nat
      /\ DOMAIN path = 1..Len(path) /\ path' \in Seq(Blocks) /\ Len(path') = Len(path) - 1
      /\ \A k \in 1..Len(path) - 1 : path'[k] = path[k]
  BY <1>0, StackFacts
<1>2. Reached' = Reached /\ Seen' = Seen /\ \A b : Num(b)' = Num(b)
  BY SeenFixed
<1>3. Blocks' = Blocks /\ Labels' = Labels
  BY GraphFixed
<1>4. \A k \in DOMAIN path : /\ path[k] \in Reached
                             /\ \A j \in DOMAIN path : j <= k => Num(path[j]) <= Num(path[k])
                             /\ SinceBelow(Seen, path[k])
  BY <1>0 DEF Walking
<1>5. DOMAIN path' = 1..Len(path) - 1 /\ \A k \in DOMAIN path' : k \in DOMAIN path /\ path'[k] = path[k]
  BY <1>1
<1>6. ToSet(path) \subseteq ToSet(path') \cup {top}
  <2>1. \A k \in DOMAIN path : k \in DOMAIN path' \/ k = Len(path)
    BY <1>1, <1>5
  <2>. QED  BY <1>1, <1>5, <2>1 DEF ToSet
<1>7. ASSUME NEW a \in Reached \ ToSet(path')
      PROVE  succ[a] \subseteq Reached /\ \A b \in succ[a] : Num(a) < Num(b) => Above(Seen, a, b)
  <2>1. CASE a = top
    <3>1. SinceBelow(Seen, top) /\ top \in Reached /\ Seen.nodes = Reached
      BY <1>0, <1>1, <1>4, SeenFacts
    <3>2. ASSUME NEW b \in succ[top], Num(top) < Num(b) PROVE Above(Seen, top, b)
      <4>1. b \in Reached /\ Num(top) \in Nat /\ Num(b) \in Nat
        BY <1>0, <3>1, <3>2, VertexFacts
      <4>. QED  BY <3>1, <3>2, <4>1 DEF SinceBelow, Num
    <3>. QED  BY <2>1, <3>2
  <2>2. CASE a # top
    <3>1. a \in Reached \ Open
      BY <1>6, <1>7, <2>2 DEF Open
    <3>. QED  BY <1>0, <3>1 DEF Walking
  <2>. QED  BY <2>1, <2>2
<1>8. Numbered'
  BY <1>0, <1>2 DEF Numbered, Intervals, Num
<1>9. Walking'
  <2>1. Open' = ToSet(path')
    BY DEF Open
  <2>2. /\ \A k \in DOMAIN path' :
             /\ path'[k] \in Reached /\ SinceBelow(Seen, path'[k])
             /\ \A j \in DOMAIN path' : j <= k => Num(path'[j]) <= Num(path'[k])
    BY <1>4, <1>5
  <2>. QED  BY <1>2, <1>7, <2>1, <2>2 DEF Walking, SinceBelow, Num
<1>10. Fresh' /\ Unreached'
  BY <1>0, <1>2, <1>3 DEF Fresh, Unreached
<1>. QED  BY <1>8, <1>9, <1>10 DEF Walks

\* Nothing else touches the tree, and only reached blocks get into the maps.
LEMMA UnreachedKept ==
  ASSUME Types, Counting, Walks, [Next]_vars, ~Walk
  PROVE  Unreached'
<1>0. /\ dt \in Contexts /\ Numbered /\ Unreached /\ Entry \in Blocks /\ None \notin Blocks
      /\ None \in Labels /\ Blocks \subseteq Labels /\ succ' = succ
  BY GraphFacts, FieldsKept DEF Types, Walks, Labels
<1>1. /\ \A b \in Labels \ Reached : dt.label[b] = None /\ dt.ancestor[b] = None /\ dt.idom[b] = None
      /\ dt.semi[None] = 0 /\ dt.idom[Entry] = None
      /\ \A s \in Blocks : dt.bucket[s] \subseteq Reached \ {Entry}
  BY <1>0 DEF Unreached
<1>2. Reached' = Reached /\ Labels' = Labels /\ Blocks' = Blocks
  BY <1>0, FieldsKept, GraphFixed, SeenFixed
<1>3. Entry \in Reached /\ Reached \subseteq Blocks /\ None \notin Reached
  BY <1>0, SeenFacts
<1>4. \A n \in Nat : n < Len(dt.vertex) /\ n >= 1 =>
        Vertex(dt, n) \in Reached \ {Entry} /\ Vertex(dt, n) # None
  <2>1. \A n \in Nat : n < Len(dt.vertex) => Vertex(dt, n) \in Reached /\ Num(Vertex(dt, n)) = n
    BY <1>0, VertexFacts
  <2>2. Num(Entry) = 0
    BY <1>0, VertexFacts
  <2>. QED  BY <1>3, <2>1, <2>2
<1>5. i \in Nat
  BY DEF Types
<1> DEFINE Fine ==
      /\ \A b \in Labels \ Reached : dt'.label[b] = None /\ dt'.ancestor[b] = None /\ dt'.idom[b] = None
      /\ dt'.semi[None] = 0 /\ dt'.idom[Entry] = None
      /\ \A s \in Blocks : dt'.bucket[s] \subseteq Reached \ {Entry}
<1>6. SUFFICES Fine
  BY <1>2 DEF Unreached
<1>7. CASE Shorten
  <2>1. Last(path) \in Labels
    <3>1. path \in Seq(Labels) /\ path # <<>>
      BY <1>7 DEF Shorten, Types
    <3>. QED  BY <3>1, StackFacts
  <2>2. Last(path) \in Reached
    BY <1>0, <1>1, <1>3, <1>7, <2>1 DEF Shorten
  <2>3. PICK l, a : dt' = [dt EXCEPT !.label[Last(path)] = l, !.ancestor[Last(path)] = a]
    BY <1>7 DEF Shorten
  <2>4. /\ dt'.semi = dt.semi /\ dt'.idom = dt.idom /\ dt'.bucket = dt.bucket
        /\ dt'.label = [dt.label EXCEPT ![Last(path)] = l]
        /\ dt'.ancestor = [dt.ancestor EXCEPT ![Last(path)] = a]
    BY <1>0, <2>3 DEF Contexts
  <2>5. DOMAIN dt.label = Labels /\ DOMAIN dt.ancestor = Labels
    BY <1>0 DEF Contexts
  <2>. QED  BY <1>1, <2>2, <2>4, <2>5
<1>8. CASE Semi
  <2>1. i >= 1 /\ i < Len(dt.vertex)
    BY <1>8 DEF Semi, Counting
  <2>2. PICK s : dt' = [dt EXCEPT !.semi[Vertex(dt, i)] = s]
    BY <1>8 DEF Semi
  <2>3. /\ dt'.label = dt.label /\ dt'.ancestor = dt.ancestor /\ dt'.idom = dt.idom
        /\ dt'.bucket = dt.bucket /\ dt'.semi = [dt.semi EXCEPT ![Vertex(dt, i)] = s]
        /\ DOMAIN dt.semi = Labels
    BY <1>0, <2>2 DEF Contexts
  <2>. QED  BY <1>0, <1>1, <1>4, <1>5, <2>1, <2>3
<1>9. CASE Link
  <2>1. i >= 1 /\ i < Len(dt.vertex)
    BY <1>9 DEF Link, Counting
  <2> DEFINE w == Vertex(dt, i)
  <2>2. w \in Reached \ {Entry}
    BY <1>4, <1>5, <2>1
  <2>3. PICK s, a : dt' = [dt EXCEPT !.bucket[s] = @ \cup {w}, !.ancestor[w] = a]
    BY <1>9 DEF Link
  <2> HIDE DEF w
  <2>4. /\ dt'.label = dt.label /\ dt'.semi = dt.semi /\ dt'.idom = dt.idom
        /\ dt'.bucket = [dt.bucket EXCEPT ![s] = @ \cup {w}]
        /\ dt'.ancestor = [dt.ancestor EXCEPT ![w] = a]
        /\ DOMAIN dt.bucket = Blocks /\ DOMAIN dt.ancestor = Labels
    BY <1>0, <2>3 DEF Contexts
  <2>. QED  BY <1>1, <2>2, <2>4
<1>10. CASE Idom
  <2>1. i >= 1 /\ i < Len(dt.vertex) /\ work \subseteq dt.bucket[dt.parent[Vertex(dt, i)]]
    BY <1>10 DEF Idom, Counting
  <2>2. Vertex(dt, i) \in Reached \ {Entry}
    BY <1>4, <1>5, <2>1
  <2>3. dt.parent[Vertex(dt, i)] \in Blocks
    BY <1>0, <1>3, <2>2 DEF Numbered
  <2>4. PICK v \in work : \E u : dt' = [dt EXCEPT !.idom[v] = u]
    BY <1>10 DEF Idom
  <2>5. PICK u : dt' = [dt EXCEPT !.idom[v] = u]
    BY <2>4
  <2>6. v \in Reached \ {Entry}
    BY <1>1, <2>1, <2>3
  <2>7. /\ dt'.label = dt.label /\ dt'.semi = dt.semi /\ dt'.bucket = dt.bucket
        /\ dt'.idom = [dt.idom EXCEPT ![v] = u]
        /\ dt'.ancestor = dt.ancestor /\ DOMAIN dt.idom = Labels
    BY <1>0, <2>5 DEF Contexts
  <2>. QED  BY <1>1, <2>6, <2>7
<1>11. CASE ClearBucket
  <2>1. PICK s : dt' = [dt EXCEPT !.bucket[s] = {}]
    BY <1>11 DEF ClearBucket
  <2>2. /\ dt'.label = dt.label /\ dt'.semi = dt.semi /\ dt'.idom = dt.idom
        /\ dt'.bucket = [dt.bucket EXCEPT ![s] = {}]
        /\ dt'.ancestor = dt.ancestor /\ DOMAIN dt.bucket = Blocks
    BY <1>0, <2>1 DEF Contexts
  <2>. QED  BY <1>1, <2>2
<1>12. CASE Correct \/ Corrected
  <2>1. CASE Correct
    <3>1. PICK u : dt' = [dt EXCEPT !.idom[Vertex(dt, i)] = u]
      BY <2>1 DEF Correct
    <3>2. i >= 1 /\ i < Len(dt.vertex)
      BY <2>1 DEF Correct, Counting
    <3>3. Vertex(dt, i) \in Reached \ {Entry}
      BY <1>4, <1>5, <3>2
    <3>4. /\ dt'.label = dt.label /\ dt'.semi = dt.semi /\ dt'.bucket = dt.bucket
          /\ dt'.idom = [dt.idom EXCEPT ![Vertex(dt, i)] = u]
          /\ dt'.ancestor = dt.ancestor /\ DOMAIN dt.idom = Labels
      BY <1>0, <3>1 DEF Contexts
    <3>. QED  BY <1>1, <3>3, <3>4
  <2>2. CASE Corrected
    <3>1. dt' = [dt EXCEPT !.idom[Entry] = None]
      BY <2>2 DEF Corrected
    <3>2. /\ dt'.label = dt.label /\ dt'.semi = dt.semi /\ dt'.bucket = dt.bucket
          /\ dt'.idom = [dt.idom EXCEPT ![Entry] = None]
          /\ dt'.ancestor = dt.ancestor /\ DOMAIN dt.idom = Labels
      BY <1>0, <3>1 DEF Contexts
    <3>. QED  BY <1>0, <1>1, <3>2
  <2>. QED  BY <1>12, <2>1, <2>2
<1>13. CASE dt' = dt
  BY <1>1, <1>13
<1>14. dt' = dt \/ Shorten \/ Semi \/ Link \/ Idom \/ ClearBucket \/ Correct \/ Corrected
  BY DEF Next, vars, Walk, Walked, StartVertex, Eval, Compress, StartCorrect, NextBlock,
         StartRunner, Run, Frontiers, NextEdges, FindEdge, EdgesFound, StartBody, GrowBody,
         Nest, PropagateDepth, Done
<1> HIDE DEF Fine
<1>. QED  BY <1>7, <1>8, <1>9, <1>10, <1>11, <1>12, <1>13, <1>14

LEMMA WalksNext ==
  ASSUME Types, Counting, Walks, [Next]_vars
  PROVE  Walks'
<1>0. succ' = succ /\ Numbered /\ Walking /\ Fresh /\ Unreached
  BY FieldsKept DEF Walks
<1>1. CASE Walk
  <2>1. /\ pc = "walk" /\ path # <<>> /\ pc' = pc
        /\ \/ \E b \in succ[Last(path)] \ Reached :
                /\ dt' = [dt EXCEPT !.semi[b] = Len(dt.vertex), !.vertex = Append(@, b),
                                    !.label[b] = b, !.parent[b] = Last(path)]
                /\ path' = Append(path, b)
           \/ succ[Last(path)] \subseteq Reached /\ path' = Front(path) /\ UNCHANGED dt
    BY <1>1 DEF Walk
  <2>2. ASSUME NEW b \in succ[Last(path)] \ Reached,
               dt' = [dt EXCEPT !.semi[b] = Len(dt.vertex), !.vertex = Append(@, b),
                                !.label[b] = b, !.parent[b] = Last(path)],
               path' = Append(path, b)
        PROVE  Walks'
    BY <1>0, <2>1, <2>2, WalksPush
  <2>3. CASE succ[Last(path)] \subseteq Reached /\ path' = Front(path) /\ UNCHANGED dt
    BY <1>0, <2>1, <2>3, WalksPop
  <2>. QED  BY <2>1, <2>2, <2>3
<1>2. CASE ~Walk
  <2>1. Unreached'
    BY <1>2, UnreachedKept
  <2>2. /\ Reached' = Reached /\ Seen' = Seen /\ \A b : Num(b)' = Num(b)
        /\ dt'.vertex = dt.vertex /\ dt'.parent = dt.parent /\ Blocks' = Blocks /\ Labels' = Labels
    BY <1>2, FieldsKept, SeenFixed, GraphFixed
  <2>3. Numbered'
    BY <1>0, <2>2 DEF Numbered, Intervals, Num
  <2>4. CASE pc' = "walk"
    <3>1. UNCHANGED vars
      BY <1>2, <2>4, FieldsKept
    <3>. QED  BY <1>0, <2>1, <2>2, <2>3, <3>1 DEF vars, Walks, Walking, Open, SinceBelow, Fresh, Num
  <2>5. CASE pc' # "walk"
    <3>1. pc # "walk" \/ Walked
      BY <1>2, <2>5
      DEF Next, vars, Walked, StartVertex, Eval, Compress, Shorten, Semi, Link, Idom,
         ClearBucket, StartCorrect, Correct, Corrected, NextBlock, StartRunner, Run, Frontiers,
         NextEdges, FindEdge, EdgesFound, StartBody, GrowBody, Nest, PropagateDepth, Done
    <3>2. Open = {} /\ Open' = {}
      <4>1. Walked => path = <<>>
        BY DEF Walked
      <4>. QED  BY <2>5, <3>1, <4>1 DEF Open, ToSet
    <3>3. \A a \in Reached : succ[a] \subseteq Reached /\ \A b \in succ[a] : Num(a) < Num(b) => Above(Seen, a, b)
      BY <1>0, <3>2 DEF Walking
    <3>4. Walking'
      BY <1>0, <2>2, <2>5, <3>2, <3>3 DEF Walking, Num
    <3>. QED  BY <2>1, <2>3, <2>5, <3>4 DEF Walks, Fresh
  <2>. QED  BY <2>4, <2>5
<1>. QED  BY <1>1, <1>2

LEMMA EdgeFacts ==
  ASSUME Types
  PROVE  /\ Edges \subseteq Blocks \X Blocks /\ IsFiniteSet(Edges)
         /\ \A a, b : <<a, b>> \in Edges <=> a \in Blocks /\ b \in succ[a]
         /\ \A b \in Blocks : Preds(b) = {a \in Blocks : <<a, b>> \in Edges}
<1>1. IsFiniteSet(Blocks) /\ \A b \in Blocks : succ[b] \subseteq Blocks
  BY GraphFacts DEF Types
<1>2. IsFiniteSet(Blocks \X Blocks)
  BY <1>1, FS_Product
<1>3. Edges \subseteq Blocks \X Blocks
  BY DEF Edges
<1>4. IsFiniteSet(Edges)
  BY <1>2, <1>3, FS_Subset
<1>5. \A a, b : <<a, b>> \in Edges <=> a \in Blocks /\ b \in succ[a]
  BY <1>1 DEF Edges
<1>6. \A b \in Blocks : Preds(b) = {a \in Blocks : <<a, b>> \in Edges}
  BY <1>5 DEF Preds
<1>. QED  BY <1>3, <1>4, <1>5, <1>6

\* After the walk: it has reached what can be reached, and made a search tree.
LEMMA AfterWalk ==
  ASSUME Types, Walks, pc # "walk"
  PROVE  /\ Live = Reached /\ SearchTree(Seen) /\ IsTree(Runs)
         /\ IsFiniteSet(SeenEdges) /\ IsFiniteSet(LiveEdges) /\ LiveEdges \subseteq SeenEdges
         /\ \A a \in Reached : succ[a] \subseteq Reached
<1>0. Numbered /\ Walking
  BY DEF Walks
<1>1. \A a \in Reached : succ[a] \subseteq Reached /\ \A b \in succ[a] : Num(a) < Num(b) => Above(Seen, a, b)
  BY <1>0 DEF Walking, Open
<1>2. /\ Numbering(Seen, dt.vertex) /\ Seen.nodes = Reached /\ Seen.root = Entry
      /\ Seen.parent = dt.parent /\ Seen.edges = SeenEdges
      /\ Runs.nodes = Reached /\ Runs.root = Entry /\ Runs.parent = dt.parent
      /\ Runs.edges = LiveEdges /\ Runs.num = Seen.num
      /\ Entry \in Reached /\ Reached \subseteq Blocks
  BY <1>0, SeenFacts
<1>3. /\ Seen.num \in [Reached -> Nat]
      /\ \A a, b \in Reached : Seen.num[a] = Seen.num[b] => a = b
  BY <1>2 DEF Numbering
<1>4. /\ Edges \subseteq Blocks \X Blocks /\ IsFiniteSet(Edges)
      /\ \A a, b : <<a, b>> \in Edges <=> a \in Blocks /\ b \in succ[a]
  BY EdgeFacts
<1>5. \A a, b : <<a, b>> \in LiveEdges <=> a \in Reached /\ b \in succ[a]
  BY <1>2, <1>4 DEF LiveEdges
<1>6. LiveEdges \subseteq Reached \X Reached
  <2>1. LiveEdges \subseteq Blocks \X Blocks
    BY <1>4 DEF LiveEdges
  <2>. QED  BY <1>1, <1>5, <2>1
<1>7. IsFiniteSet(LiveEdges)
  BY <1>4, FS_Subset DEF LiveEdges
<1>8. \A b \in Reached \ {Entry} :
        dt.parent[b] \in Reached /\ <<dt.parent[b], b>> \in LiveEdges /\ Seen.num[dt.parent[b]] < Seen.num[b]
  BY <1>0, <1>5 DEF Numbered, Num
<1>9. IsTree(Runs)
  BY <1>2, <1>3, <1>6, <1>8 DEF IsTree
<1>10. Live = Reached
  <2>1. Closure(LiveEdges, {Entry}, {}) = Reached
    BY <1>2, <1>7, <1>9, TreeReaches
  <2>2. IsClosed(Edges, {}, Reached)
    <3>. SUFFICES ASSUME NEW e \in Edges, e[1] \in Reached PROVE e[2] \in Reached
      BY DEF IsClosed
    <3>1. e[2] \in succ[e[1]]
      BY DEF Edges
    <3>. QED  BY <1>1, <3>1
  <2>3. Closure(Edges, {Entry}, {}) = Closure(LiveEdges, {Entry}, {})
    <3>1. EdgesFrom(Blocks, Edges, Reached, LiveEdges)
      BY <1>4, <2>2 DEF EdgesFrom, LiveEdges
    <3>2. {Entry} \subseteq Blocks /\ {Entry} \subseteq Reached
      BY <1>2
    <3>. QED  BY <3>1, <3>2, ClosureOfReached
  <2>. QED  BY <2>1, <2>3 DEF Live
<1>11. LiveEdges \subseteq SeenEdges
  BY <1>10 DEF LiveEdges, SeenEdges
<1>12. SeenEdges \subseteq Reached \X Reached /\ SeenEdges \subseteq LiveEdges \cup ({Entry} \X Reached)
  BY <1>2, <1>6, <1>10 DEF LiveEdges, SeenEdges
<1>13. IsFiniteSet(SeenEdges)
  <2>1. IsFiniteSet(Blocks \X Blocks)
    BY GraphFacts, FS_Product DEF Types
  <2>2. SeenEdges \subseteq Blocks \X Blocks
    BY <1>2, <1>12
  <2>. QED  BY <2>1, <2>2, FS_Subset
<1>14. IsTree(Seen)
  BY <1>2, <1>3, <1>8, <1>11, <1>12 DEF IsTree
<1>15. ASSUME NEW a \in Reached, NEW b \in Reached, <<a, b>> \in SeenEdges, Seen.num[a] < Seen.num[b]
       PROVE  Above(Seen, a, b)
  <2>1. CASE <<a, b>> \in LiveEdges
    BY <1>1, <1>5, <1>15, <2>1 DEF Num
  <2>2. CASE a = Entry
    BY <1>2, <1>14, <2>2, AboveRoot
  <2>. QED  BY <1>12, <1>15, <2>1, <2>2
<1>16. SearchTree(Seen)
  BY <1>0, <1>2, <1>14, <1>15 DEF SearchTree, Numbered, Intervals
<1>. QED  BY <1>1, <1>7, <1>9, <1>10, <1>11, <1>13, <1>16

THEOREM WalkIsSound == Spec => [](Types /\ Counting /\ Walks)
<1>1. Init => Types /\ Counting /\ Walks
  BY TypesInit, WalksInit
<1>2. Types /\ Counting /\ Walks /\ [Next]_vars => (Types /\ Counting /\ Walks)'
  BY TypesNext, WalksNext
<1>. QED  BY <1>1, <1>2, PTL DEF Spec

-----------------------------------------------------------------------------
(* The semidominators. *)

\* What the later proofs use of the tree.
LEMMA TreeFacts ==
  ASSUME Types, Walks, pc # "walk"
  PROVE  /\ SearchTree(Seen) /\ IsTree(Seen) /\ Seen.nodes = Reached /\ Seen.root = Entry
         /\ Seen.parent = dt.parent /\ Seen.edges = SeenEdges
         /\ Entry \in Reached /\ Reached \subseteq Blocks /\ Reached \subseteq Labels /\ None \notin Reached
         /\ Num(Entry) = 0 /\ \A b \in Reached : Num(b) \in Nat /\ Num(b) < Len(dt.vertex)
         /\ \A b \in Reached : Vertex(dt, Num(b)) = b
         /\ \A n \in Nat : n < Len(dt.vertex) => Vertex(dt, n) \in Reached /\ Num(Vertex(dt, n)) = n
         /\ \A a, b \in Reached : Num(a) = Num(b) => a = b
<1>1. Numbered
  BY DEF Walks
<1>2. SearchTree(Seen) /\ IsTree(Seen)
  BY AfterWalk DEF SearchTree
<1>3. Reached \subseteq Labels /\ (Reached \subseteq Blocks => None \notin Reached)
  <2>1. Reached \subseteq Blocks /\ None \notin Blocks
    BY <1>1, SeenFacts, GraphFacts DEF Types
  <2>. QED  BY <2>1 DEF Labels
<1>. QED  BY <1>1, <1>2, <1>3, SeenFacts, VertexFacts

LEMMA MapFacts ==
  ASSUME Types
  PROVE  /\ dt.semi \in [Labels -> Nat] /\ dt.label \in [Labels -> Labels]
         /\ dt.ancestor \in [Labels -> Labels] /\ dt.idom \in [Labels -> Labels]
         /\ dt.bucket \in [Blocks -> SUBSET Blocks] /\ dt.parent \in [Labels -> Labels]
         /\ Blocks \subseteq Labels /\ None \in Labels /\ Len(dt.vertex) \in Nat /\ i \in Nat
BY DEF Types, Contexts, Labels

\* In the tree: what is above b and comes after a is below a, when a is above b.
LEMMA AboveAfter ==
  ASSUME Types, Walks, pc # "walk", NEW a, NEW b, NEW x, Above(Seen, a, b), Above(Seen, x, b),
         Num(a) < Num(x)
  PROVE  x \in Between(Seen, a, b)
<1>1. SearchTree(Seen) /\ IsTree(Seen)
  BY TreeFacts
<1>2. a \in Seen.nodes /\ x \in Seen.nodes /\ Num(a) \in Nat /\ Num(x) \in Nat
  BY <1>1, AboveOrder, TreeFacts
<1>3. Above(Seen, a, x)
  BY <1>1, <1>2, AboveComparable DEF Num
<1>. QED  BY <1>2, <1>3 DEF Between

LEMMA BetweenFacts ==
  ASSUME Types, Walks, pc # "walk", NEW a, NEW b, NEW x \in Between(Seen, a, b)
  PROVE  /\ x \in Reached /\ a \in Reached /\ b \in Reached /\ x # Entry
         /\ Above(Seen, a, x) /\ Above(Seen, x, b) /\ Above(Seen, a, b)
         /\ Num(a) < Num(x) /\ Num(x) <= Num(b)
<1>1. IsTree(Seen) /\ Seen.nodes = Reached
  BY TreeFacts
<1>2. Above(Seen, a, x) /\ x # a /\ Above(Seen, x, b) /\ x \in Reached
  BY <1>1 DEF Between
<1>3. a \in Reached /\ b \in Reached /\ Num(a) <= Num(x) /\ Num(x) <= Num(b)
  BY <1>1, <1>2, AboveOrder DEF Num
<1>4. Num(a) \in Nat /\ Num(x) \in Nat /\ Num(a) # Num(x) /\ Num(Entry) = 0
  BY <1>2, <1>3, TreeFacts
<1>. QED  BY <1>2, <1>3, <1>4, AboveTransitive

\* The nodes above b as far as the ancestor's ancestor.
LEMMA BetweenSplit ==
  ASSUME Types, Walks, pc # "walk", NEW c, NEW a, NEW b, Above(Seen, c, a), Above(Seen, a, b), c # a
  PROVE  /\ Between(Seen, c, b) \subseteq Between(Seen, c, a) \cup Between(Seen, a, b)
         /\ Between(Seen, c, a) \subseteq Between(Seen, c, b)
         /\ Between(Seen, a, b) \subseteq Between(Seen, c, b)
<1>1. IsTree(Seen) /\ SearchTree(Seen) /\ Seen.nodes = Reached
  BY TreeFacts
<1>2. c \in Reached /\ a \in Reached /\ b \in Reached /\ Num(c) <= Num(a)
  BY <1>1, AboveOrder DEF Num
<1>3. Num(c) < Num(a) /\ Num(a) \in Nat /\ Num(c) \in Nat
  BY <1>2, TreeFacts
<1>4. ASSUME NEW x \in Between(Seen, c, b)
      PROVE  x \in Between(Seen, c, a) \cup Between(Seen, a, b)
  <2>1. x \in Reached /\ Above(Seen, c, x) /\ x # c /\ Above(Seen, x, b) /\ Num(x) \in Nat
    BY BetweenFacts, TreeFacts DEF Between
  <2>2. CASE Num(x) <= Num(a)
    <3>1. Above(Seen, x, a)
      BY <1>1, <2>1, <2>2, AboveComparable DEF Num
    <3>. QED  BY <1>1, <2>1, <3>1 DEF Between
  <2>3. CASE Num(a) < Num(x)
    BY <2>1, <2>3, AboveAfter
  <2>. QED  BY <1>3, <2>1, <2>2, <2>3
<1>5. ASSUME NEW x \in Between(Seen, c, a) PROVE x \in Between(Seen, c, b)
  <2>1. Above(Seen, x, b)
    BY <1>5, AboveTransitive DEF Between
  <2>. QED  BY <2>1 DEF Between
<1>6. ASSUME NEW x \in Between(Seen, a, b) PROVE x \in Between(Seen, c, b)
  <2>1. Above(Seen, c, x) /\ Num(a) < Num(x)
    BY <1>6, BetweenFacts, AboveTransitive DEF Between
  <2>. QED  BY <1>2, <1>3, <2>1 DEF Between
<1>. QED  BY <1>4, <1>5, <1>6

LEMMA BoundFacts ==
  ASSUME Types, Counting
  PROVE  /\ Bound \in Nat
         /\ pc \in {"semi", "preds"} => Bound = i
         /\ pc = "bucket" => Bound = i - 1
         /\ pc = "correct" => Bound = 0
         /\ pc \in {"preds", "bucket"} => i >= 1 /\ i < Len(dt.vertex)
BY MapFacts DEF Types, Counting, Bound

\* What Linked says of a block stays when its own label and ancestor stay and
\* the semidominators after the bound.
LEMMA LinkedKept ==
  ASSUME Types, Counting, Walks, pc # "walk", succ' = succ,
         dt'.vertex = dt.vertex, dt'.parent = dt.parent,
         NEW b \in Reached, Num(b) > Bound, Linked(b),
         Bound' \in Nat, Bound' <= Bound,
         dt'.label[b] = dt.label[b], dt'.ancestor[b] = dt.ancestor[b],
         \A x \in Reached : Num(x) > Bound => dt'.semi[x] = dt.semi[x]
  PROVE  Linked(b)'
<1>1. /\ Seen' = Seen /\ Reached' = Reached /\ \A x : Num(x)' = Num(x)
      /\ \A n : Vertex(dt, n)' = Vertex(dt, n)
  BY SeenFixed
<1>2. Bound \in Nat
  BY BoundFacts
<1>3. dt'.semi[b] = dt.semi[b]
  OBVIOUS
<1>4. /\ dt.semi[b] < Len(dt.vertex) /\ IsSemi(Seen, b, SemiOf(b))
      /\ dt.ancestor[b] \in Reached /\ dt.ancestor[b] # b /\ Above(Seen, dt.ancestor[b], b)
      /\ dt.label[b] \in Between(Seen, dt.ancestor[b], b)
      /\ \A x \in Between(Seen, dt.ancestor[b], b) : Num(x) > Bound /\ dt.semi[dt.label[b]] <= dt.semi[x]
  BY DEF Linked
<1>5. SemiOf(b)' = SemiOf(b)
  BY <1>1, <1>3 DEF SemiOf, Vertex
<1>6. \A x \in Between(Seen, dt.ancestor[b], b) :
        x \in Reached /\ Num(x) \in Nat /\ dt'.semi[x] = dt.semi[x]
  BY <1>4, BetweenFacts, TreeFacts
<1>7. \A x \in Between(Seen, dt.ancestor[b], b) :
        Num(x) > Bound' /\ dt'.semi[dt.label[b]] <= dt'.semi[x]
  BY <1>2, <1>4, <1>6
<1>8. dt'.semi[b] < Len(dt'.vertex) /\ IsSemi(Seen', b, SemiOf(b)')
  BY <1>1, <1>3, <1>4, <1>5
<1>. QED  BY <1>1, <1>4, <1>7, <1>8 DEF Linked, Num

\* What eval of a linked block returns: the least semidominator above it.
LEMMA Answer ==
  ASSUME Types, Counting, Walks, pc \in {"preds", "bucket"}, Forest,
         NEW u \in Reached, Num(u) > Bound, dt.ancestor[dt.ancestor[u]] = None
  PROVE  /\ dt.label[u] \in Reached /\ Above(Seen, dt.label[u], u) /\ Num(dt.label[u]) > Bound
         /\ \A x \in Reached : Above(Seen, x, u) /\ Num(x) > Bound =>
              dt.semi[dt.label[u]] <= dt.semi[x]
<1> DEFINE a == dt.ancestor[u]
<1>1. Linked(u)
  BY DEF Forest
<1>2. a \in Reached /\ Above(Seen, a, u) /\ dt.label[u] \in Between(Seen, a, u)
  BY <1>1 DEF Linked
<1>3. \A x \in Between(Seen, a, u) : Num(x) > Bound /\ dt.semi[dt.label[u]] <= dt.semi[x]
  BY <1>1 DEF Linked
<1>4. Num(a) <= Bound /\ Num(a) \in Nat /\ Bound \in Nat
  <2>1. ASSUME Num(a) > Bound PROVE FALSE
    <3>1. Linked(a)
      BY <1>2, <2>1 DEF Forest
    <3>. QED  BY <3>1, TreeFacts DEF Linked
  <2>. QED  BY <1>2, <2>1, TreeFacts, BoundFacts
<1>5. ASSUME NEW x \in Reached, Above(Seen, x, u), Num(x) > Bound
      PROVE  dt.semi[dt.label[u]] <= dt.semi[x]
  <2>1. Num(x) \in Nat
    BY TreeFacts
  <2>2. Num(a) < Num(x)
    BY <1>4, <1>5, <2>1
  <2>3. x \in Between(Seen, a, u)
    BY <1>2, <1>5, <2>2, AboveAfter
  <2>. QED  BY <1>3, <2>3
<1>. QED  BY <1>2, <1>3, <1>5, BetweenFacts

\* Shorten: the block takes the better label, and the ancestor's ancestor.
LEMMA ForestShorten ==
  ASSUME Types, Counting, Walks, Forest, Shorten, succ' = succ
  PROVE  Forest'
<1>b. PICK b : b = Last(path)
  OBVIOUS
<1>a. PICK a : a = dt.ancestor[b]
  OBVIOUS
<1>c. PICK c : c = dt.ancestor[a]
  OBVIOUS
<1>m. PICK best : best = IF dt.semi[dt.label[a]] < dt.semi[dt.label[b]] THEN a ELSE b
  OBVIOUS
<1>0. /\ pc \in {"preds", "bucket"} /\ pc' = pc /\ i' = i /\ c # None
      /\ dt' = [dt EXCEPT !.label[b] = dt.label[best], !.ancestor[b] = c]
  BY <1>b, <1>a, <1>c, <1>m DEF Shorten
<1>1. b \in Labels
  <2>1. path \in Seq(Labels) /\ path # <<>>
    BY DEF Shorten, Types
  <2>. QED  BY <1>b, <2>1, StackFacts
<1>2. /\ dt'.vertex = dt.vertex /\ dt'.parent = dt.parent /\ dt'.semi = dt.semi
      /\ dt'.label = [dt.label EXCEPT ![b] = dt.label[best]]
      /\ dt'.ancestor = [dt.ancestor EXCEPT ![b] = c]
      /\ DOMAIN dt.label = Labels /\ DOMAIN dt.ancestor = Labels
  BY <1>0 DEF Types, Contexts
<1>3. \A x \in Labels \ Reached : dt.ancestor[x] = None
  BY DEF Walks, Unreached
<1>4. None \in Labels \ Reached /\ Reached \subseteq Labels
  BY <1>0, TreeFacts, MapFacts
<1>5. a \in Labels
  BY <1>1, <1>a, MapFacts
<1>6. a \in Reached /\ b \in Reached
  BY <1>0, <1>1, <1>3, <1>4, <1>5, <1>a, <1>c
<1>7. Num(a) > Bound /\ Linked(a) /\ Num(b) > Bound /\ Linked(b)
  <2>1. a # None
    BY <1>4, <1>6
  <2>2. \A x \in Reached : IF Num(x) > Bound THEN Linked(x) ELSE dt.ancestor[x] = None
    BY <1>0 DEF Forest, Unlinked
  <2>. QED  BY <1>0, <1>6, <2>1, <2>2, <1>a, <1>c
<1>8. /\ Above(Seen, a, b) /\ a # b /\ Above(Seen, c, a) /\ c # a /\ c \in Reached
      /\ dt.label[a] \in Between(Seen, c, a) /\ dt.label[b] \in Between(Seen, a, b)
      /\ \A x \in Between(Seen, c, a) : Num(x) > Bound /\ dt.semi[dt.label[a]] <= dt.semi[x]
      /\ \A x \in Between(Seen, a, b) : Num(x) > Bound /\ dt.semi[dt.label[b]] <= dt.semi[x]
      /\ dt.semi[b] < Len(dt.vertex) /\ IsSemi(Seen, b, SemiOf(b))
  BY <1>7, <1>a, <1>c DEF Linked
<1>9. /\ Between(Seen, c, b) \subseteq Between(Seen, c, a) \cup Between(Seen, a, b)
      /\ Between(Seen, c, a) \subseteq Between(Seen, c, b)
      /\ Between(Seen, a, b) \subseteq Between(Seen, c, b)
  BY <1>0, <1>8, BetweenSplit
<1>10. /\ \A x \in Between(Seen, c, b) : dt.semi[x] \in Nat
       /\ dt.semi[dt.label[a]] \in Nat /\ dt.semi[dt.label[b]] \in Nat
  <2>1. \A x \in Between(Seen, c, b) : x \in Reached
    BY <1>0, BetweenFacts
  <2>. QED  BY <1>4, <1>8, <1>9, <2>1, MapFacts
<1>11. /\ dt.label[best] \in Between(Seen, c, b)
       /\ \A x \in Between(Seen, c, b) : Num(x) > Bound /\ dt.semi[dt.label[best]] <= dt.semi[x]
  <2>1. \A x \in Between(Seen, c, b) : Num(x) > Bound
    BY <1>8, <1>9
  <2>2. CASE dt.semi[dt.label[a]] < dt.semi[dt.label[b]]
    BY <1>8, <1>9, <1>10, <2>1, <2>2, <1>m
  <2>3. CASE ~(dt.semi[dt.label[a]] < dt.semi[dt.label[b]])
    BY <1>8, <1>9, <1>10, <2>1, <2>3, <1>m
  <2>. QED  BY <2>2, <2>3
<1>12. Above(Seen, c, b) /\ c # b
  <2>1. Above(Seen, c, b)
    BY <1>8, AboveTransitive
  <2>2. Num(c) < Num(dt.label[a]) /\ Num(dt.label[a]) <= Num(a) /\ Num(a) <= Num(b)
        /\ Num(c) \in Nat /\ Num(a) \in Nat /\ Num(b) \in Nat /\ Num(dt.label[a]) \in Nat
    <3>1. Num(c) < Num(dt.label[a]) /\ Num(dt.label[a]) <= Num(a) /\ dt.label[a] \in Reached
      BY <1>0, <1>8, BetweenFacts
    <3>2. Num(a) <= Num(b)
      BY <1>0, <1>8, AboveOrder, TreeFacts DEF Num
    <3>. QED  BY <1>0, <1>6, <1>8, <3>1, <3>2, TreeFacts
  <2>. QED  BY <2>1, <2>2
<1>13. /\ Seen' = Seen /\ Reached' = Reached /\ \A x : Num(x)' = Num(x)
       /\ \A n : Vertex(dt, n)' = Vertex(dt, n) /\ Bound' = Bound
  BY <1>0, <1>2, SeenFixed DEF Bound
<1>14. Linked(b)'
  <2>1. dt'.label[b] = dt.label[best] /\ dt'.ancestor[b] = c
    BY <1>1, <1>2
  <2>2. SemiOf(b)' = SemiOf(b)
    BY <1>2, <1>13 DEF SemiOf, Vertex
  <2>3. dt'.semi[b] < Len(dt'.vertex) /\ IsSemi(Seen', b, SemiOf(b)')
    BY <1>2, <1>8, <1>13, <2>2
  <2>. QED  BY <1>2, <1>8, <1>11, <1>12, <1>13, <2>1, <2>3 DEF Linked, Num
<1>15. ASSUME NEW x \in Reached, x # b
       PROVE  IF Num(x) > Bound THEN Linked(x)' ELSE Unlinked(x)'
  <2>1. dt'.label[x] = dt.label[x] /\ dt'.ancestor[x] = dt.ancestor[x]
    BY <1>2, <1>4, <1>15
  <2>2. CASE Num(x) > Bound
    <3>1. Linked(x)
      BY <1>0, <1>15, <2>2 DEF Forest
    <3>2. Bound \in Nat /\ Bound' <= Bound
      BY <1>13, BoundFacts
    <3>. QED  BY <1>0, <1>2, <1>13, <1>15, <2>1, <2>2, <3>1, <3>2, LinkedKept
  <2>3. CASE ~(Num(x) > Bound)
    <3>1. Unlinked(x)
      BY <1>0, <1>15, <2>3 DEF Forest
    <3>. QED  BY <1>0, <1>2, <1>13, <2>1, <2>3, <3>1 DEF Unlinked, Num
  <2>. QED  BY <2>2, <2>3
<1>. QED  BY <1>7, <1>13, <1>14, <1>15 DEF Forest, Num

\* Vertex i in the loops over the vertices.
LEMMA CurrentVertex ==
  ASSUME Types, Counting, Walks, pc \in {"preds", "bucket"}, NEW w, w = Vertex(dt, i)
  PROVE  /\ w \in Reached \ {Entry} /\ Num(w) = i /\ i \in Nat /\ i >= 1
         /\ dt.parent[w] \in Reached /\ Above(Seen, dt.parent[w], w) /\ dt.parent[w] # w
         /\ Num(dt.parent[w]) < i
<1>1. w \in Reached /\ Num(w) = i /\ i \in Nat /\ i >= 1 /\ w # Entry
  BY BoundFacts, MapFacts, TreeFacts
<1>2. IsTree(Seen) /\ w \in Seen.nodes \ {Seen.root} /\ Seen.parent = dt.parent /\ Seen.nodes = Reached
  BY <1>1, TreeFacts
<1>3. dt.parent[w] \in Reached /\ dt.parent[w] # w /\ Seen.num[dt.parent[w]] < Seen.num[w]
  BY <1>2, ParentFacts
<1>4. Above(Seen, dt.parent[w], w)
  BY <1>2, AboveParent
<1>. QED  BY <1>1, <1>3, <1>4 DEF Num

\* A predecessor is an edge that the algorithm sees, and the other way round.
LEMMA SourceFacts ==
  ASSUME Types, Walks, pc # "walk", NEW w \in Reached
  PROVE  /\ \A v \in Preds(w) : Source(v) \in Reached /\ <<Source(v), w>> \in SeenEdges
         /\ \A u : <<u, w>> \in SeenEdges => \E v \in Preds(w) : Source(v) = u
<1>1. Live = Reached /\ Entry \in Reached /\ Reached \subseteq Blocks
  BY AfterWalk, TreeFacts
<1>2. Edges \subseteq Blocks \X Blocks /\ Preds(w) = {a \in Blocks : <<a, w>> \in Edges}
  BY <1>1, EdgeFacts
<1>3. ASSUME NEW v \in Preds(w) PROVE Source(v) \in Reached /\ <<Source(v), w>> \in SeenEdges
  <2>1. <<v, w>> \in Edges
    BY <1>2
  <2> DEFINE e == <<v, w>>
  <2>2. e \in Edges /\ e[1] = v /\ e[2] = w
    BY <2>1
  <2> HIDE DEF e
  <2>3. CASE v \in Reached
    BY <1>1, <2>1, <2>3 DEF Source, SeenEdges
  <2>4. CASE v \notin Reached
    <3>1. <<Entry, e[2]>> \in SeenEdges
      BY <1>1, <2>2, <2>4 DEF SeenEdges
    <3>. QED  BY <1>1, <2>2, <2>4, <3>1 DEF Source
  <2>. QED  BY <2>3, <2>4
<1>4. ASSUME NEW u, <<u, w>> \in SeenEdges PROVE \E v \in Preds(w) : Source(v) = u
  <2>1. CASE <<u, w>> \in Edges /\ u \in Live
    BY <1>1, <1>2, <2>1 DEF Source
  <2>2. CASE \E e \in Edges : e[1] \notin Live /\ <<u, w>> = <<Entry, e[2]>>
    <3>1. PICK e \in Edges : e[1] \notin Live /\ u = Entry /\ w = e[2]
      BY <2>2
    <3>2. e = <<e[1], w>> /\ e[1] \in Blocks
      BY <1>2, <3>1
    <3>3. e[1] \in Preds(w) /\ Source(e[1]) = Entry
      BY <1>1, <1>2, <3>1, <3>2 DEF Source
    <3>. QED  BY <3>1, <3>3
  <2>. QED  BY <1>4, <2>1, <2>2 DEF SeenEdges
<1>. QED  BY <1>3, <1>4

\* When all predecessors were asked, the minimum is the semidominator.
LEMMA LinkSemi ==
  ASSUME Types, Counting, Walks, Forest, Asking, pc = "preds", work = {},
         NEW w, w = Vertex(dt, i)
  PROVE  dt.semi[w] < Len(dt.vertex) /\ IsSemi(Seen, w, SemiOf(w))
<1>1. /\ w \in Reached \ {Entry} /\ Num(w) = i /\ i \in Nat /\ i >= 1
      /\ dt.parent[w] \in Reached /\ Num(dt.parent[w]) < i
      /\ Bound = i /\ i < Len(dt.vertex) /\ Len(dt.vertex) \in Nat
  BY CurrentVertex, BoundFacts, MapFacts
<1>2. /\ dt.semi[w] <= i
      /\ \A v \in Preds(w) : Least(dt.semi[w], Source(v))
      /\ dt.semi[w] = i \/ \E v \in Preds(w) : Offers(dt.semi[w], Source(v))
  BY DEF Asking
<1>3. dt.semi[w] \in Nat /\ dt.semi[w] < Len(dt.vertex)
  <2>1. dt.semi[w] \in Nat
    BY <1>1, MapFacts, TreeFacts
  <2>. QED  BY <1>1, <1>2, <2>1
<1>4. /\ SearchTree(Seen) /\ IsTree(Seen) /\ Seen.nodes = Reached /\ Seen.root = Entry
      /\ Seen.parent = dt.parent /\ Seen.edges = SeenEdges
      /\ \A b \in Reached : Num(b) \in Nat /\ Vertex(dt, Num(b)) = b
      /\ \A n \in Nat : n < Len(dt.vertex) => Vertex(dt, n) \in Reached /\ Num(Vertex(dt, n)) = n
  BY TreeFacts
<1> DEFINE sem == [x \in Reached |-> SemiOf(x)]
           s == SemiOf(w)
<1>5. ASSUME NEW x \in Reached, Num(w) < Num(x)
      PROVE  IsSemi(Seen, x, sem[x]) /\ Num(sem[x]) = dt.semi[x]
  <2>1. Linked(x)
    BY <1>1, <1>4, <1>5 DEF Forest
  <2>2. dt.semi[x] \in Nat
    BY MapFacts, TreeFacts
  <2>. QED  BY <1>4, <2>1, <2>2 DEF Linked, SemiOf
<1>6. s \in Reached /\ Num(s) = dt.semi[w]
  BY <1>3, <1>4 DEF SemiOf
<1>7. ASSUME NEW u \in Reached, <<u, w>> \in SeenEdges
      PROVE  /\ Num(u) <= Num(w) => Num(s) <= Num(u)
             /\ \A x \in Reached : Above(Seen, x, u) /\ Num(w) < Num(x) => Num(s) <= Num(sem[x])
  <2>1. PICK v \in Preds(w) : Source(v) = u
    BY <1>1, <1>7, SourceFacts
  <2>2. Least(dt.semi[w], u)
    BY <1>2, <2>1
  <2>. QED  BY <1>1, <1>4, <1>5, <1>6, <2>2 DEF Least
<1>8. \E u \in Reached : <<u, w>> \in SeenEdges /\
        \/ s = u
        \/ \E x \in Reached : Above(Seen, x, u) /\ Num(w) < Num(x) /\ s = sem[x]
  <2>1. dt.semi[w] # i
    <3>1. <<dt.parent[w], w>> \in SeenEdges
      BY <1>1, <1>4, ParentFacts
    <3>2. Num(s) <= Num(dt.parent[w])
      BY <1>1, <1>4, <1>7, <3>1
    <3>. QED  BY <1>1, <1>4, <1>6, <3>2
  <2>2. PICK v \in Preds(w) : Offers(dt.semi[w], Source(v))
    BY <1>2, <2>1
  <2>3. Source(v) \in Reached /\ <<Source(v), w>> \in SeenEdges
    BY <1>1, SourceFacts
  <2>4. CASE dt.semi[w] = Num(Source(v))
    <3>1. s = Source(v)
      BY <1>4, <2>3, <2>4 DEF SemiOf
    <3>. QED  BY <2>3, <3>1
  <2>5. CASE \E x \in Reached : Above(Seen, x, Source(v)) /\ Num(x) > i /\ dt.semi[w] = dt.semi[x]
    <3>1. PICK x \in Reached : Above(Seen, x, Source(v)) /\ Num(x) > i /\ dt.semi[w] = dt.semi[x]
      BY <2>5
    <3>2. s = sem[x] /\ Num(w) < Num(x)
      BY <1>1, <1>4, <3>1 DEF SemiOf
    <3>. QED  BY <2>3, <3>1, <3>2
  <2>. QED  BY <2>2, <2>4, <2>5 DEF Offers
<1> HIDE DEF sem, s
<1>9. /\ w \in Seen.nodes \ {Seen.root} /\ s \in Seen.nodes
      /\ \A x \in Seen.nodes : Seen.num[w] < Seen.num[x] => IsSemi(Seen, x, sem[x])
  BY <1>1, <1>4, <1>5, <1>6 DEF Num
<1>10. \A u \in Seen.nodes : <<u, w>> \in Seen.edges =>
         /\ Seen.num[u] <= Seen.num[w] => Seen.num[s] <= Seen.num[u]
         /\ \A x \in Seen.nodes : Above(Seen, x, u) /\ Seen.num[w] < Seen.num[x]
                                  => Seen.num[s] <= Seen.num[sem[x]]
  BY <1>4, <1>7 DEF Num
<1>11. \E u \in Seen.nodes : <<u, w>> \in Seen.edges /\
         \/ s = u
         \/ \E x \in Seen.nodes : Above(Seen, x, u) /\ Seen.num[w] < Seen.num[x] /\ s = sem[x]
  BY <1>4, <1>8 DEF Num
<1>12. IsSemi(Seen, w, s)
  BY <1>4, <1>9, <1>10, <1>11, SemiFromPredecessors
<1>. QED  BY <1>3, <1>12 DEF s

\* Steps that only move the stack of compress.
LEMMA SolvingSame ==
  ASSUME Types, Solving, UNCHANGED <<succ, pc, dt, i, work>>
  PROVE  Solving'
<1>1. /\ Seen' = Seen /\ Reached' = Reached /\ \A x : Num(x)' = Num(x)
      /\ \A n : Vertex(dt, n)' = Vertex(dt, n) /\ Bound' = Bound
      /\ Blocks' = Blocks /\ \A b : Preds(b)' = Preds(b)
  BY SeenFixed, GraphFixed DEF Bound
<1>2. \A b : SemiOf(b)' = SemiOf(b) /\ Source(b)' = Source(b)
  BY <1>1 DEF SemiOf, Source, Vertex
<1>3. /\ \A b : Linked(b)' <=> Linked(b)
      /\ \A b : Unlinked(b)' <=> Unlinked(b)
      /\ \A b : Waits(b)' <=> Waits(b)
      /\ \A b : Pending(b)' <=> Pending(b)
      /\ \A b : Exact(b)' <=> Exact(b)
  <2>1. \A b : Linked(b)' <=> Linked(b)
    BY <1>1, <1>2 DEF Linked, Num
  <2>2. \A b : Unlinked(b)' <=> Unlinked(b)
    BY <1>1 DEF Unlinked, Num
  <2>3. \A b : Waits(b)' <=> Waits(b)
    BY <1>1, <1>2 DEF Waits, Vertex
  <2>4. \A b : Pending(b)' <=> Pending(b)
    BY <1>1, <1>2 DEF Pending, Num
  <2>5. \A b : Exact(b)' <=> Exact(b)
    BY <1>1 DEF Exact
  <2>. QED  BY <2>1, <2>2, <2>3, <2>4, <2>5
<1>4. Forest'
  BY <1>1, <1>3 DEF Solving, Forest, Num
<1>5. Asking'
  BY <1>1, <1>2 DEF Solving, Asking, Least, Offers, Num, Vertex
<1>6. Buckets'
  BY <1>1, <1>2 DEF Solving, Buckets, Num
<1>7. Idoms'
  BY <1>1, <1>3 DEF Solving, Idoms, Num
<1>. QED  BY <1>4, <1>5, <1>6, <1>7 DEF Solving

\* The walk is over: nothing is linked, in a bucket or known.
LEMMA SolvingWalked ==
  ASSUME Types, Counting, Walks, Types', Counting', Walks', Walked
  PROVE  Solving'
<1>1. pc = "walk" /\ pc' = "semi" /\ i' = Len(dt.vertex) - 1 /\ UNCHANGED <<succ, dt>>
  BY DEF Walked
<1>2. /\ \A b \in Blocks : dt.bucket[b] = {}
      /\ \A b \in Labels : dt.ancestor[b] = None /\ dt.idom[b] = None
      /\ \A b \in Reached : dt.label[b] = b /\ dt.semi[b] = Num(b)
  BY <1>1 DEF Walks, Fresh
<1>3. Seen' = Seen /\ Reached' = Reached /\ Blocks' = Blocks /\ \A x : Num(x)' = Num(x)
  BY <1>1, SeenFixed, GraphFixed
<1>4. \A b \in Reached : Num(b) \in Nat /\ Num(b) < Len(dt.vertex) /\ b \in Labels
  BY VertexFacts, SeenFacts, MapFacts DEF Walks
<1>5. Bound' = Len(dt.vertex) - 1 /\ Len(dt.vertex) \in Nat
  BY <1>1, MapFacts DEF Bound
<1>6. \A b \in Reached : ~(Num(b) > Bound')
  BY <1>4, <1>5
<1>7. Forest'
  BY <1>1, <1>2, <1>3, <1>4, <1>6 DEF Forest, Unlinked, Num
<1>8. Asking'
  BY <1>1 DEF Asking
<1>9. Buckets'
  BY <1>1, <1>2, <1>3 DEF Buckets
<1>10. Idoms'
  BY <1>1, <1>3, <1>6 DEF Idoms, Num
<1>. QED  BY <1>7, <1>8, <1>9, <1>10 DEF Solving

LEMMA SolvingStartVertex ==
  ASSUME Types, Counting, Walks, Solving, StartVertex
  PROVE  Solving'
<1>1. pc = "semi" /\ pc' = "preds" /\ work' = Preds(Vertex(dt, i)) /\ UNCHANGED <<succ, dt, i>>
      /\ i >= 1
  BY DEF StartVertex
<1>2. /\ Seen' = Seen /\ Reached' = Reached /\ \A x : Num(x)' = Num(x)
      /\ \A n : Vertex(dt, n)' = Vertex(dt, n) /\ Bound' = Bound
      /\ Blocks' = Blocks /\ \A b : Preds(b)' = Preds(b)
  BY <1>1, SeenFixed, GraphFixed DEF Bound
<1>3. \A b : SemiOf(b)' = SemiOf(b)
  BY <1>1, <1>2 DEF SemiOf, Vertex
<1>4. /\ \A b : Linked(b)' <=> Linked(b)
      /\ \A b : Unlinked(b) => Unlinked(b)' /\ dt.semi[b] = Num(b)
      /\ \A b : Waits(b)' <=> Waits(b)
      /\ \A b : Pending(b)' <=> Pending(b)
  <2>1. \A b : Linked(b)' <=> Linked(b)
    BY <1>1, <1>2, <1>3 DEF Linked, Num
  <2>2. \A b : Unlinked(b) => Unlinked(b)' /\ dt.semi[b] = Num(b)
    BY <1>1, <1>2 DEF Unlinked, Num
  <2>3. \A b : Waits(b)' <=> Waits(b)
    BY <1>1, <1>2, <1>3 DEF Waits, Vertex
  <2>4. \A b : Pending(b)' <=> Pending(b)
    BY <1>1, <1>2, <1>3 DEF Pending, Num
  <2>. QED  BY <2>1, <2>2, <2>3, <2>4
<1>5. \A b \in Reached : IF Num(b) > Bound THEN Linked(b) ELSE Unlinked(b)
  BY <1>1 DEF Solving, Forest
<1>6. Forest'
  BY <1>1, <1>2, <1>4, <1>5 DEF Forest, Num
<1>7. Asking'
  <2> DEFINE w == Vertex(dt, i)
  <2>1. w \in Reached /\ Num(w) = i /\ i \in Nat
    <3>1. i \in Nat /\ i < Len(dt.vertex)
      BY <1>1, MapFacts DEF Counting
    <3>. QED  BY <1>1, <3>1, TreeFacts
  <2>2. dt.semi[w] = i
    <3>1. ~(Num(w) > Bound)
      BY <1>1, <2>1, BoundFacts
    <3>. QED  BY <1>4, <1>5, <2>1, <3>1
  <2>. QED  BY <1>1, <1>2, <2>1, <2>2 DEF Asking, Vertex
<1>8. Buckets'
  BY <1>1, <1>2, <1>3 DEF Solving, Buckets, Num
<1>9. Idoms'
  BY <1>1, <1>2, <1>4 DEF Solving, Idoms, Num
<1>. QED  BY <1>6, <1>7, <1>8, <1>9 DEF Solving

LEMMA SolvingShorten ==
  ASSUME Types, Counting, Walks, Solving, Shorten, succ' = succ
  PROVE  Solving'
<1>1. /\ pc \in {"preds", "bucket"} /\ UNCHANGED <<pc, i, work>>
      /\ dt'.vertex = dt.vertex /\ dt'.parent = dt.parent /\ dt'.semi = dt.semi
      /\ dt'.idom = dt.idom /\ dt'.bucket = dt.bucket
  BY DEF Shorten, Types, Contexts
<1>2. /\ Seen' = Seen /\ Reached' = Reached /\ \A x : Num(x)' = Num(x)
      /\ \A n : Vertex(dt, n)' = Vertex(dt, n) /\ Bound' = Bound
      /\ Blocks' = Blocks /\ \A b : Preds(b)' = Preds(b)
  BY <1>1, SeenFixed, GraphFixed DEF Bound
<1>3. \A b : SemiOf(b)' = SemiOf(b) /\ Source(b)' = Source(b)
  BY <1>1, <1>2 DEF SemiOf, Source, Vertex
<1>4. Forest'
  BY ForestShorten DEF Solving
<1>5. Asking'
  BY <1>1, <1>2, <1>3 DEF Solving, Asking, Least, Offers, Num, Vertex
<1>6. Buckets'
  BY <1>1, <1>2, <1>3 DEF Solving, Buckets, Num
<1>7. /\ \A b : Waits(b)' <=> Waits(b)
      /\ \A b : Pending(b)' <=> Pending(b)
  <2>1. \A b : Waits(b)' <=> Waits(b)
    BY <1>1, <1>2, <1>3 DEF Waits, Vertex
  <2>2. \A b : Pending(b)' <=> Pending(b)
    BY <1>1, <1>2, <1>3 DEF Pending, Num
  <2>. QED  BY <2>1, <2>2
<1>8. Idoms'
  BY <1>1, <1>2, <1>7 DEF Solving, Idoms, Num
<1>. QED  BY <1>4, <1>5, <1>6, <1>8 DEF Solving

LEMMA PendingKept ==
  ASSUME Types, Counting, Walks, pc # "walk", succ' = succ,
         dt'.vertex = dt.vertex, dt'.parent = dt.parent,
         NEW v \in Reached, Num(v) > Bound, Pending(v), Bound' \in Nat, Bound' <= Bound,
         dt'.idom[v] = dt.idom[v],
         \A x \in Reached : Num(x) > Bound => dt'.semi[x] = dt.semi[x]
  PROVE  Pending(v)'
<1>1. /\ Seen' = Seen /\ Reached' = Reached /\ \A x : Num(x)' = Num(x)
      /\ \A n : Vertex(dt, n)' = Vertex(dt, n)
  BY SeenFixed
<1>2. dt'.semi[v] = dt.semi[v] /\ Bound \in Nat
  BY BoundFacts
<1>3. SemiOf(v)' = SemiOf(v)
  BY <1>1, <1>2 DEF SemiOf, Vertex
<1>4. PICK s : s = SemiOf(v)
  OBVIOUS
<1>5. \A x \in Between(Seen, s, v) : Num(x) > Bound
  BY <1>4 DEF Pending
<1>6. \A x \in Between(Seen, s, v) : x \in Reached /\ Num(x) \in Nat
  BY BetweenFacts, TreeFacts
<1>7. \A x \in Between(Seen, s, v) : dt'.semi[x] = dt.semi[x] /\ Num(x) > Bound'
  BY <1>2, <1>5, <1>6
<1>8. \/ dt.idom[v] = s /\ \A x \in Between(Seen, s, v) : dt.semi[v] <= dt.semi[x]
      \/ /\ dt.idom[v] \in Between(Seen, s, v) /\ dt.semi[dt.idom[v]] < dt.semi[v]
         /\ \A x \in Between(Seen, s, v) : dt.semi[dt.idom[v]] <= dt.semi[x]
  BY <1>4 DEF Pending
<1>9. \/ dt'.idom[v] = s /\ \A x \in Between(Seen, s, v) : dt'.semi[v] <= dt'.semi[x]
      \/ /\ dt'.idom[v] \in Between(Seen, s, v) /\ dt'.semi[dt'.idom[v]] < dt'.semi[v]
         /\ \A x \in Between(Seen, s, v) : dt'.semi[dt'.idom[v]] <= dt'.semi[x]
  BY <1>2, <1>7, <1>8
<1>. QED  BY <1>1, <1>3, <1>4, <1>7, <1>9 DEF Pending, Num

\* A predecessor's answer, and what it is worth.
LEMMA AskOne ==
  ASSUME Types, Counting, Walks, Forest, Asking, pc = "preds", NEW w, w = Vertex(dt, i),
         NEW u \in Preds(w), dt.ancestor[dt.ancestor[u]] = None, NEW s, s = dt.semi[dt.label[u]]
  PROVE  /\ s \in Nat
         /\ \A m \in Nat : m <= s /\ m <= dt.semi[w] => Least(m, Source(u))
         /\ s < dt.semi[w] => Offers(s, Source(u))
<1>1. /\ w \in Reached \ {Entry} /\ Num(w) = i /\ i \in Nat /\ i >= 1 /\ Bound = i
      /\ dt.semi[w] <= i /\ dt.semi[w] \in Nat /\ u \in Blocks /\ u \in Labels
      /\ dt.label[u] \in Labels /\ s \in Nat
  <2>1. u \in Blocks
    BY DEF Preds
  <2>. QED  BY <2>1, CurrentVertex, BoundFacts, MapFacts, TreeFacts DEF Asking
<1>2. /\ IsTree(Seen) /\ Seen.nodes = Reached /\ Entry \in Reached /\ Num(Entry) = 0
      /\ \A b \in Reached : Num(b) \in Nat
      /\ \A a, b \in Reached : Num(a) = Num(b) => a = b
  BY TreeFacts
<1>3. \A x, b : Above(Seen, x, b) => x \in Reached /\ b \in Reached /\ Num(x) <= Num(b)
  BY <1>2, AboveOrder DEF Num
<1>4. CASE u \notin Reached
  <2>1. s = 0
    <3>1. dt.label[u] = None /\ dt.semi[None] = 0
      BY <1>1, <1>4 DEF Walks, Unreached
    <3>. QED  BY <3>1
  <2>2. Source(u) = Entry
    BY <1>4 DEF Source
  <2>3. \A m \in Nat : m <= s => m = 0
    BY <2>1
  <2>4. ~\E x \in Reached : Above(Seen, x, Entry) /\ Num(x) > i
    BY <1>1, <1>2, <1>3
  <2>. QED  BY <1>1, <1>2, <2>1, <2>2, <2>3, <2>4 DEF Least, Offers
<1>5. CASE u \in Reached /\ Num(u) <= i
  <2>1. Source(u) = u /\ Num(u) \in Nat
    BY <1>2, <1>5 DEF Source
  <2>2. Unlinked(u)
    <3>1. ~(Num(u) > Bound)
      BY <1>1, <1>5, <2>1
    <3>. QED  BY <1>5, <3>1 DEF Forest
  <2>3. ~\E x \in Reached : Above(Seen, x, u) /\ Num(x) > i
    BY <1>1, <1>2, <1>3, <1>5, <2>1
  <2>4. CASE u = w
    <3>1. s = dt.semi[w]
      BY <2>2, <2>4 DEF Unlinked
    <3>. QED  BY <1>1, <2>1, <2>3, <2>4, <3>1 DEF Least
  <2>5. CASE u # w
    <3>1. s = Num(u)
      BY <1>1, <1>2, <1>5, <2>2, <2>5 DEF Unlinked
    <3>. QED  BY <1>1, <2>1, <2>3, <3>1 DEF Least, Offers
  <2>. QED  BY <2>4, <2>5
<1>6. CASE u \in Reached /\ Num(u) > i
  <2>1. Source(u) = u /\ Num(u) \in Nat
    BY <1>2, <1>6 DEF Source
  <2>2. /\ dt.label[u] \in Reached /\ Above(Seen, dt.label[u], u) /\ Num(dt.label[u]) > i
        /\ \A x \in Reached : Above(Seen, x, u) /\ Num(x) > i => s <= dt.semi[x]
    BY <1>1, <1>6, Answer
  <2>3. \A x \in Reached : dt.semi[x] \in Nat
    BY <1>1, MapFacts, TreeFacts
  <2>. QED  BY <1>1, <1>6, <2>1, <2>2, <2>3 DEF Least, Offers
<1>. QED  BY <1>1, <1>2, <1>4, <1>5, <1>6

LEMMA SolvingSemi ==
  ASSUME Types, Counting, Walks, Solving, Semi
  PROVE  Solving'
<1>0. pc = "preds" /\ UNCHANGED <<succ, pc, i>>
  BY DEF Semi
<1>w. PICK w : w = Vertex(dt, i)
  OBVIOUS
<1>1. PICK u \in work :
        /\ dt.ancestor[dt.ancestor[u]] = None
        /\ dt' = [dt EXCEPT !.semi[w] = IF dt.semi[dt.label[u]] < @ THEN dt.semi[dt.label[u]] ELSE @]
        /\ work' = work \ {u}
  BY <1>w DEF Semi, Evaluated
<1>2. PICK s : s = dt.semi[dt.label[u]]
  OBVIOUS
<1>3. PICK m : m = IF s < dt.semi[w] THEN s ELSE dt.semi[w]
  OBVIOUS
<1>4. /\ w \in Reached \ {Entry} /\ Num(w) = i /\ i \in Nat /\ i >= 1 /\ Bound = i /\ w \in Labels
      /\ \A x \in Reached : Num(x) \in Nat
  BY <1>0, <1>w, CurrentVertex, BoundFacts, TreeFacts
<1>5. /\ dt'.vertex = dt.vertex /\ dt'.parent = dt.parent /\ dt'.label = dt.label
      /\ dt'.ancestor = dt.ancestor /\ dt'.idom = dt.idom /\ dt'.bucket = dt.bucket
      /\ dt'.semi[w] = m /\ \A x \in Labels : x # w => dt'.semi[x] = dt.semi[x]
  BY <1>1, <1>2, <1>3, <1>4 DEF Types, Contexts
<1>6. /\ Seen' = Seen /\ Reached' = Reached /\ \A x : Num(x)' = Num(x)
      /\ \A n : Vertex(dt, n)' = Vertex(dt, n) /\ Bound' = Bound /\ Bound' \in Nat
      /\ Blocks' = Blocks /\ \A b : Preds(b)' = Preds(b)
  BY <1>0, <1>5, SeenFixed, GraphFixed, BoundFacts DEF Bound
<1>7. \A x \in Reached : Num(x) > Bound => x # w /\ dt'.semi[x] = dt.semi[x]
  BY <1>4, <1>5, MapFacts, TreeFacts, <1>0
<1>8. /\ Forest /\ Asking /\ Buckets /\ Idoms
  BY DEF Solving
<1>9. u \in Preds(w) /\ work \subseteq Preds(w) /\ dt.semi[w] <= i /\ dt.semi[w] \in Nat
  BY <1>0, <1>1, <1>4, <1>8, <1>w, MapFacts DEF Asking
<1>10. /\ s \in Nat
       /\ \A n \in Nat : n <= s /\ n <= dt.semi[w] => Least(n, Source(u))
       /\ s < dt.semi[w] => Offers(s, Source(u))
  BY <1>0, <1>1, <1>2, <1>8, <1>9, <1>w, AskOne
<1>11. m \in Nat /\ m <= s /\ m <= dt.semi[w]
  BY <1>3, <1>9, <1>10
<1>12. Forest'
  <2>1. ASSUME NEW b \in Reached PROVE IF Num(b) > Bound THEN Linked(b)' ELSE Unlinked(b)'
    <3>1. IF Num(b) > Bound THEN Linked(b) ELSE Unlinked(b)
      BY <1>0, <1>8 DEF Forest
    <3>2. CASE Num(b) > Bound
      BY <1>0, <1>5, <1>6, <1>7, <3>1, <3>2, LinkedKept
    <3>3. CASE ~(Num(b) > Bound)
      <4>1. Unlinked(b) /\ b \in Labels
        BY <1>0, <3>1, <3>3, TreeFacts
      <4>2. b = w \/ dt'.semi[b] = dt.semi[b]
        BY <1>5, <4>1
      <4>3. Unlinked(b)'
        <5>1. dt'.ancestor[b] = None /\ dt'.label[b] = b
          BY <1>5, <4>1 DEF Unlinked
        <5>2. (pc' = "preds" /\ Num(b)' = i') \/ dt'.semi[b] = Num(b)'
          BY <1>0, <1>4, <1>6, <4>1, <4>2 DEF Unlinked
        <5>. QED  BY <5>1, <5>2 DEF Unlinked
      <4>. QED  BY <3>3, <4>3
    <3>. QED  BY <3>2, <3>3
  <2>. QED  BY <1>6, <2>1 DEF Forest, Num
<1>13. Asking'
  <2>1. \A b : Source(b)' = Source(b)
    BY <1>6 DEF Source
  <2>2. Vertex(dt, i)' = w
    BY <1>0, <1>5, <1>w DEF Vertex
  <2>3. ASSUME NEW n, NEW x PROVE Least(n, x)' <=> Least(n, x)
    BY <1>0, <1>4, <1>6, <1>7 DEF Least, Num
  <2>4. ASSUME NEW n, NEW x PROVE Offers(n, x)' <=> Offers(n, x)
    BY <1>0, <1>4, <1>6, <1>7 DEF Offers, Num
  <2>5. \A v \in Preds(w) \ work : Least(dt.semi[w], Source(v))
    BY <1>0, <1>8, <1>w DEF Asking
  <2>6. ASSUME NEW v \in Preds(w) \ work' PROVE Least(m, Source(v))
    <3>1. CASE v = u
      BY <1>10, <1>11, <3>1
    <3>2. CASE v # u
      <4>1. Least(dt.semi[w], Source(v))
        BY <1>1, <2>5, <3>2
      <4>2. Source(v) \in Reached
        BY <1>0, <1>4, SourceFacts
      <4>3. \A x \in Reached : dt.semi[x] \in Nat
        BY <1>0, MapFacts, TreeFacts
      <4>. QED  BY <1>4, <1>9, <1>11, <4>1, <4>2, <4>3 DEF Least
    <3>. QED  BY <3>1, <3>2
  <2>7. m <= i
    BY <1>4, <1>9, <1>11
  <2>8. m = i \/ \E v \in Preds(w) : Offers(m, Source(v))
    <3>1. dt.semi[w] = i \/ \E v \in Preds(w) : Offers(dt.semi[w], Source(v))
      BY <1>0, <1>8, <1>w DEF Asking
    <3>2. CASE s < dt.semi[w]
      BY <1>3, <1>9, <1>10, <3>2
    <3>3. CASE ~(s < dt.semi[w])
      BY <1>3, <3>1, <3>3
    <3>. QED  BY <3>2, <3>3
  <2>9. work' \subseteq Preds(w)
    BY <1>1, <1>9
  <2>. QED  BY <1>0, <1>5, <1>6, <2>1, <2>2, <2>3, <2>4, <2>6, <2>7, <2>8, <2>9 DEF Asking
<1>14. \A b \in Reached : Num(b) > Bound => SemiOf(b)' = SemiOf(b)
  BY <1>5, <1>7 DEF SemiOf, Vertex
<1>15. Buckets'
  <2>1. \A t \in Blocks : \A v \in dt.bucket[t] :
          /\ v \in Reached \ {Entry} /\ Num(v) > Bound /\ SemiOf(v) = t
          /\ \A c \in Reached \ {Entry} : dt.parent[c] = t /\ Above(Seen, c, v) => Num(c) <= i
    BY <1>0, <1>8 DEF Buckets
  <2>. QED  BY <1>0, <1>5, <1>6, <1>14, <2>1 DEF Buckets, Num
<1>16. Idoms'
  <2>1. ASSUME NEW v \in Reached \ {Entry}, Num(v) > Bound PROVE Waits(v)' \/ Pending(v)'
    <3>1. Waits(v) \/ Pending(v)
      BY <1>0, <1>8, <2>1 DEF Idoms
    <3>2. Waits(v) => Waits(v)'
      BY <1>0, <1>5, <1>14, <2>1 DEF Waits
    <3>3. Pending(v) => Pending(v)'
      BY <1>0, <1>5, <1>6, <1>7, <2>1, PendingKept
    <3>. QED  BY <3>1, <3>2, <3>3
  <2>. QED  BY <1>0, <1>6, <2>1 DEF Idoms, Num
<1>. QED  BY <1>12, <1>13, <1>15, <1>16 DEF Solving

\* What is known of a linked block but the entry.
LEMMA LinkedFacts ==
  ASSUME Types, Counting, Walks, pc # "walk", NEW b \in Reached \ {Entry}, Linked(b)
  PROVE  /\ SemiOf(b) \in Reached /\ SemiOf(b) \in Blocks /\ Num(SemiOf(b)) = dt.semi[b]
         /\ IsSemi(Seen, b, SemiOf(b))
         /\ Above(Seen, SemiOf(b), b) /\ SemiOf(b) # b /\ dt.semi[b] < Num(b)
<1>1. dt.semi[b] < Len(dt.vertex) /\ IsSemi(Seen, b, SemiOf(b))
  BY DEF Linked
<1>2. /\ SearchTree(Seen) /\ Seen.nodes = Reached /\ Seen.root = Entry /\ Num(b) \in Nat
      /\ Reached \subseteq Blocks /\ dt.semi[b] \in Nat
      /\ \A n \in Nat : n < Len(dt.vertex) => Vertex(dt, n) \in Reached /\ Num(Vertex(dt, n)) = n
  BY TreeFacts, MapFacts
<1>3. SemiOf(b) \in Reached /\ Num(SemiOf(b)) = dt.semi[b]
  BY <1>1, <1>2 DEF SemiOf
<1>4. Seen.num[SemiOf(b)] < Seen.num[b] /\ Above(Seen, SemiOf(b), b)
  BY <1>1, <1>2, SemiAbove
<1>5. dt.semi[b] < Num(b)
  BY <1>3, <1>4 DEF Num
<1>. QED  BY <1>1, <1>2, <1>3, <1>4, <1>5

\* Only the node itself is between its parent and it.
LEMMA BetweenParent ==
  ASSUME Types, Walks, pc # "walk", NEW w \in Reached \ {Entry}
  PROVE  /\ w \in Between(Seen, dt.parent[w], w)
         /\ \A x \in Between(Seen, dt.parent[w], w) : x = w
<1>1. /\ IsTree(Seen) /\ Seen.nodes = Reached /\ Seen.root = Entry /\ Seen.parent = dt.parent
      /\ \A b \in Reached : Num(b) \in Nat
  BY TreeFacts
<1>2. dt.parent[w] # w /\ Above(Seen, dt.parent[w], w) /\ Above(Seen, w, w)
  BY <1>1, ParentFacts, AboveParent, AboveSelf
<1>3. w \in Between(Seen, dt.parent[w], w)
  BY <1>1, <1>2 DEF Between
<1>4. ASSUME NEW x \in Between(Seen, dt.parent[w], w), x # w PROVE FALSE
  <2>1. Above(Seen, x, w) /\ x \in Reached /\ dt.parent[w] \in Reached /\ Num(dt.parent[w]) < Num(x)
    BY BetweenFacts
  <2>2. Above(Seen, x, dt.parent[w])
    BY <1>1, <1>4, <2>1, AboveStep
  <2>3. Num(x) <= Num(dt.parent[w])
    BY <1>1, <2>2, AboveOrder DEF Num
  <2>. QED  BY <1>1, <2>1, <2>3
<1>. QED  BY <1>3, <1>4

LEMMA SolvingLink ==
  ASSUME Types, Counting, Walks, Solving, Link
  PROVE  Solving'
<1>0. pc = "preds" /\ work = {} /\ pc' = "bucket" /\ UNCHANGED <<succ, i>>
  BY DEF Link
<1>w. PICK w : w = Vertex(dt, i)
  OBVIOUS
<1>p. PICK p : p = dt.parent[w]
  OBVIOUS
<1>s. PICK s : s = SemiOf(w)
  OBVIOUS
<1>1. /\ dt' = [dt EXCEPT !.bucket[s] = @ \cup {w}, !.ancestor[w] = p]
      /\ work' = dt'.bucket[p]
  BY <1>w, <1>p, <1>s DEF Link, SemiOf
<1>2. Forest /\ Asking /\ Buckets /\ Idoms
  BY DEF Solving
<1>3. /\ w \in Reached \ {Entry} /\ Num(w) = i /\ i \in Nat /\ i >= 1 /\ Bound = i
      /\ p \in Reached /\ Above(Seen, p, w) /\ p # w /\ w \in Labels
      /\ \A x \in Reached : Num(x) \in Nat /\ x \in Labels
      /\ \A x \in Reached : Num(x) = i => x = w
  BY <1>0, <1>w, <1>p, CurrentVertex, BoundFacts, TreeFacts
<1>4. dt.semi[w] < Len(dt.vertex) /\ IsSemi(Seen, w, s)
  BY <1>0, <1>2, <1>w, <1>s, LinkSemi
<1>5. s \in Blocks
  <2>1. dt.semi[w] \in Nat
    BY <1>3, MapFacts
  <2>. QED  BY <1>0, <1>4, <1>s, <2>1, TreeFacts DEF SemiOf
<1>6. /\ dt'.vertex = dt.vertex /\ dt'.parent = dt.parent /\ dt'.label = dt.label
      /\ dt'.semi = dt.semi /\ dt'.idom = dt.idom
      /\ dt'.ancestor[w] = p /\ \A x \in Labels : x # w => dt'.ancestor[x] = dt.ancestor[x]
      /\ dt'.bucket[s] = dt.bucket[s] \cup {w}
      /\ \A t \in Blocks : t # s => dt'.bucket[t] = dt.bucket[t]
  BY <1>1, <1>3, <1>5 DEF Types, Contexts
<1>7. /\ Seen' = Seen /\ Reached' = Reached /\ \A x : Num(x)' = Num(x)
      /\ \A n : Vertex(dt, n)' = Vertex(dt, n)
      /\ Blocks' = Blocks /\ \A b : Preds(b)' = Preds(b)
  BY <1>0, <1>6, SeenFixed, GraphFixed
<1>8. Bound' = i - 1 /\ Bound' \in Nat /\ Bound' <= Bound
  BY <1>0, <1>3 DEF Bound
<1>9. \A b : SemiOf(b)' = SemiOf(b)
  BY <1>6 DEF SemiOf, Vertex
<1>10. \A b \in Reached : Num(b) > Bound' => b = w \/ Num(b) > Bound
  BY <1>3, <1>8
<1>11. Forest'
  <2>1. Linked(w)'
    <3>1. dt.label[w] = w
      <4>1. ~(Num(w) > Bound)
        BY <1>3
      <4>. QED  BY <1>0, <1>2, <1>3, <4>1 DEF Forest, Unlinked
    <3>2. w \in Between(Seen, p, w) /\ \A x \in Between(Seen, p, w) : x = w
      BY <1>0, <1>3, <1>p, BetweenParent
    <3>3. Num(w) > Bound' /\ dt.semi[w] <= dt.semi[w]
      BY <1>3, <1>8, MapFacts
    <3>4. dt'.semi[w] < Len(dt'.vertex) /\ IsSemi(Seen', w, SemiOf(w)')
      BY <1>4, <1>6, <1>7, <1>9, <1>s
    <3>. QED  BY <1>3, <1>6, <1>7, <3>1, <3>2, <3>3, <3>4 DEF Linked, Num
  <2>2. ASSUME NEW b \in Reached, Num(b) > Bound PROVE Linked(b)'
    <3>1. Linked(b) /\ b # w
      BY <1>0, <1>2, <1>3, <2>2 DEF Forest
    <3>. QED  BY <1>0, <1>3, <1>6, <1>8, <2>2, <3>1, LinkedKept
  <2>3. ASSUME NEW b \in Reached, ~(Num(b) > Bound') PROVE Unlinked(b)'
    <3>1. ~(Num(b) > Bound) /\ Num(b) # i /\ b # w
      BY <1>3, <1>8, <2>3
    <3>2. dt.ancestor[b] = None /\ dt.label[b] = b /\ dt.semi[b] = Num(b)
      BY <1>0, <1>2, <3>1 DEF Forest, Unlinked
    <3>. QED  BY <1>3, <1>6, <1>7, <3>1, <3>2 DEF Unlinked, Num
  <2>. QED  BY <1>7, <1>10, <2>1, <2>2, <2>3 DEF Forest, Num
<1>12. Asking'
  BY <1>0 DEF Asking
<1>13. Buckets'
  <2>1. ASSUME NEW t \in Blocks, NEW v \in dt'.bucket[t]
        PROVE  /\ v \in Reached \ {Entry} /\ Num(v) > Bound' /\ SemiOf(v) = t
               /\ \A c \in Reached \ {Entry} : dt.parent[c] = t /\ Above(Seen, c, v) => Num(c) <= i
    <3>1. CASE v \in dt.bucket[t]
      <4>1. /\ v \in Reached \ {Entry} /\ Num(v) > Bound /\ SemiOf(v) = t
            /\ \A c \in Reached \ {Entry} : dt.parent[c] = t /\ Above(Seen, c, v) => Num(c) <= i
        BY <1>0, <1>2, <3>1 DEF Buckets
      <4>. QED  BY <1>3, <1>8, <4>1
    <3>2. CASE v \notin dt.bucket[t]
      <4>1. v = w /\ t = s
        BY <1>6, <2>1, <3>2
      <4>2. \A c : Above(Seen, c, w) => Num(c) <= Num(w)
        BY <1>0, TreeFacts, AboveOrder DEF Num
      <4>. QED  BY <1>3, <1>8, <1>s, <4>1, <4>2
    <3>. QED  BY <3>1, <3>2
  <2>. QED  BY <1>0, <1>6, <1>7, <1>9, <2>1 DEF Buckets, Num
<1>14. Idoms'
  <2>1. ASSUME NEW v \in Reached \ {Entry}, Num(v) > Bound' PROVE Waits(v)' \/ Pending(v)'
    <3>1. CASE v = w
      BY <1>0, <1>1, <1>6, <1>9, <1>s, <1>p, <1>w, <1>7, <3>1 DEF Waits, Vertex
    <3>2. ASSUME Num(v) > Bound, Waits(v) PROVE Waits(v)'
      <4>1. SemiOf(v) \in Blocks
        <5>1. Linked(v)
          BY <1>0, <1>2, <3>2 DEF Forest
        <5>. QED  BY <1>0, <5>1, LinkedFacts
      <4>2. v \in dt'.bucket[SemiOf(v)]
        BY <1>6, <3>2, <4>1 DEF Waits
      <4>. QED  BY <1>0, <1>1, <1>6, <1>9, <1>p, <1>w, <4>2 DEF Waits, Vertex
    <3>3. ASSUME Num(v) > Bound, Pending(v) PROVE Pending(v)'
      BY <1>0, <1>6, <1>8, <3>3, PendingKept
    <3>. QED  BY <1>0, <1>2, <1>10, <2>1, <3>1, <3>2, <3>3 DEF Idoms
  <2>. QED  BY <1>0, <1>7, <2>1 DEF Idoms, Num
<1>. QED  BY <1>11, <1>12, <1>13, <1>14 DEF Solving

\* A block that waits in the bucket of the parent of vertex i is below vertex
\* i, and what is between is what is solved.
LEMMA BucketFacts ==
  ASSUME Types, Counting, Walks, Forest, Buckets, pc = "bucket",
         NEW w, w = Vertex(dt, i), NEW v \in dt.bucket[dt.parent[w]]
  PROVE  /\ v \in Reached \ {Entry} /\ Num(v) > Bound /\ SemiOf(v) = dt.parent[w]
         /\ \A x : x \in Between(Seen, dt.parent[w], v) <=>
                     x \in Reached /\ Above(Seen, x, v) /\ Num(x) > Bound
<1>p. PICK p : p = dt.parent[w]
  OBVIOUS
<1>1. /\ w \in Reached \ {Entry} /\ Num(w) = i /\ i \in Nat /\ i >= 1 /\ Bound = i - 1
      /\ p \in Reached /\ Above(Seen, p, w) /\ p # w /\ Num(p) < i /\ p \in Blocks
  BY <1>p, CurrentVertex, BoundFacts, TreeFacts
<1>2. /\ SearchTree(Seen) /\ IsTree(Seen) /\ Seen.nodes = Reached /\ Seen.root = Entry
      /\ Seen.parent = dt.parent /\ \A b \in Reached : Num(b) \in Nat
      /\ Intervals(Seen)
  BY TreeFacts DEF Walks, Numbered
<1>3. /\ v \in Reached \ {Entry} /\ Num(v) > Bound /\ SemiOf(v) = p
      /\ \A c \in Reached \ {Entry} : dt.parent[c] = p /\ Above(Seen, c, v) => Num(c) <= i
  BY <1>1, <1>p DEF Buckets
<1>4. Above(Seen, p, v) /\ p # v
  <2>1. Linked(v)
    BY <1>3 DEF Forest
  <2>. QED  BY <1>3, <2>1, LinkedFacts
<1>5. \A x, b : Above(Seen, x, b) => x \in Reached /\ b \in Reached /\ Num(x) <= Num(b)
  BY <1>2, AboveOrder DEF Num
<1>6. \A x : Above(Seen, x, w) /\ x # w => Num(x) <= Num(p)
  <2>1. ASSUME NEW x, Above(Seen, x, w), x # w PROVE Num(x) <= Num(p)
    <3>1. Above(Seen, x, p)
      BY <1>2, <2>1, <1>p, AboveStep
    <3>. QED  BY <1>5, <3>1
  <2>. QED  BY <2>1
<1>7. Above(Seen, w, v)
  <2>1. PICK c \in Reached \ {Entry} : dt.parent[c] = p /\ Above(Seen, c, v)
    BY <1>2, <1>4, AboveChild
  <2>2. Num(c) <= Num(w) /\ Num(w) <= Num(v)
    BY <1>1, <1>2, <1>3, <2>1
  <2>3. Above(Seen, c, w)
    BY <1>1, <1>2, <1>3, <2>1, <2>2 DEF Intervals, Num
  <2>4. Num(p) < Num(c) /\ Num(c) \in Nat /\ Num(p) \in Nat
    BY <1>1, <1>2, <2>1, ParentFacts DEF Num
  <2>5. c = w
    BY <1>6, <2>3, <2>4
  <2>. QED  BY <2>1, <2>5
<1>8. ASSUME NEW x \in Between(Seen, p, v) PROVE x \in Reached /\ Above(Seen, x, v) /\ Num(x) > Bound
  <2>1. x \in Reached /\ Above(Seen, x, v) /\ Num(p) < Num(x) /\ Num(x) \in Nat /\ Num(p) \in Nat
    BY <1>1, <1>2, BetweenFacts
  <2>2. ASSUME Num(x) < i PROVE FALSE
    <3>1. Above(Seen, x, w)
      BY <1>1, <1>2, <1>7, <2>1, <2>2, AboveComparable DEF Num
    <3>2. x # w
      BY <1>1, <2>2
    <3>. QED  BY <1>6, <2>1, <3>1, <3>2
  <2>. QED  BY <1>1, <2>1, <2>2
<1>9. ASSUME NEW x \in Reached, Above(Seen, x, v), Num(x) > Bound PROVE x \in Between(Seen, p, v)
  <2>1. Num(p) < Num(x)
    BY <1>1, <1>2, <1>9
  <2>. QED  BY <1>4, <1>9, <2>1, AboveAfter
<1>. QED  BY <1>3, <1>8, <1>9, <1>p

LEMMA SolvingIdom ==
  ASSUME Types, Counting, Walks, Solving, Idom
  PROVE  Solving'
<1>0. pc = "bucket" /\ UNCHANGED <<succ, pc, i>>
  BY DEF Idom
<1>w. PICK w : w = Vertex(dt, i)
  OBVIOUS
<1>p. PICK p : p = dt.parent[w]
  OBVIOUS
<1>1. PICK v \in work :
        /\ dt.ancestor[dt.ancestor[v]] = None
        /\ dt' = [dt EXCEPT !.idom[v] = IF dt.semi[dt.label[v]] < dt.semi[v] THEN dt.label[v] ELSE p]
        /\ work' = work \ {v}
  BY <1>w, <1>p DEF Idom, Evaluated
<1>u. PICK u : u = dt.label[v]
  OBVIOUS
<1>2. Forest /\ Asking /\ Buckets /\ Idoms
  BY DEF Solving
<1>3. v \in dt.bucket[p]
  BY <1>0, <1>1, <1>w, <1>p DEF Counting
<1>4. /\ v \in Reached \ {Entry} /\ Num(v) > Bound /\ SemiOf(v) = p
      /\ \A x : x \in Between(Seen, p, v) <=>
                  x \in Reached /\ Above(Seen, x, v) /\ Num(x) > Bound
  BY <1>0, <1>2, <1>3, <1>w, <1>p, BucketFacts
<1>5. /\ u \in Reached /\ Above(Seen, u, v) /\ Num(u) > Bound
      /\ \A x \in Reached : Above(Seen, x, v) /\ Num(x) > Bound => dt.semi[u] <= dt.semi[x]
  BY <1>0, <1>1, <1>2, <1>4, <1>u, Answer
<1>6. Reached \subseteq Labels
  BY <1>0, TreeFacts
<1>7. /\ dt'.vertex = dt.vertex /\ dt'.parent = dt.parent /\ dt'.label = dt.label
      /\ dt'.ancestor = dt.ancestor /\ dt'.semi = dt.semi /\ dt'.bucket = dt.bucket
      /\ dt'.idom[v] = IF dt.semi[u] < dt.semi[v] THEN u ELSE p
      /\ \A x \in Labels : x # v => dt'.idom[x] = dt.idom[x]
  BY <1>1, <1>4, <1>6, <1>u DEF Types, Contexts
<1>8. /\ Seen' = Seen /\ Reached' = Reached /\ \A x : Num(x)' = Num(x)
      /\ \A n : Vertex(dt, n)' = Vertex(dt, n) /\ Bound' = Bound /\ Bound \in Nat
      /\ Blocks' = Blocks /\ \A b : Preds(b)' = Preds(b)
  BY <1>0, <1>7, SeenFixed, GraphFixed, BoundFacts DEF Bound
<1>9. \A b : SemiOf(b)' = SemiOf(b)
  BY <1>7 DEF SemiOf, Vertex
<1>10. Forest'
  <2>1. ASSUME NEW b, Linked(b) PROVE Linked(b)'
    BY <1>7, <1>8, <1>9, <2>1 DEF Linked, Num
  <2>2. ASSUME NEW b, Unlinked(b) PROVE Unlinked(b)'
    BY <1>0, <1>7, <1>8, <2>2 DEF Unlinked, Num
  <2>. QED  BY <1>0, <1>2, <1>8, <2>1, <2>2 DEF Forest, Num
<1>11. Asking'
  BY <1>0 DEF Asking
<1>12. Buckets'
  BY <1>0, <1>2, <1>7, <1>8, <1>9 DEF Buckets, Num
<1>13. Pending(v)'
  <2>1. \A x \in Between(Seen, p, v) : Num(x) > Bound /\ dt.semi[u] <= dt.semi[x]
    BY <1>4, <1>5
  <2>2. CASE dt.semi[u] < dt.semi[v]
    <3>1. u \in Between(Seen, p, v) /\ dt'.idom[v] = u
      BY <1>4, <1>5, <1>7, <2>2
    <3>. QED  BY <1>4, <1>7, <1>8, <1>9, <2>1, <2>2, <3>1 DEF Pending, Num
  <2>3. CASE ~(dt.semi[u] < dt.semi[v])
    <3>1. dt.semi[u] \in Nat /\ dt.semi[v] \in Nat /\ \A x \in Reached : dt.semi[x] \in Nat
      BY <1>4, <1>5, <1>6, MapFacts
    <3>2. \A x \in Between(Seen, p, v) : dt.semi[v] <= dt.semi[x]
      BY <1>4, <2>1, <2>3, <3>1
    <3>. QED  BY <1>4, <1>7, <1>8, <1>9, <2>1, <2>3, <3>2 DEF Pending, Num
  <2>. QED  BY <2>2, <2>3
<1>14. Idoms'
  <2>1. ASSUME NEW x \in Reached \ {Entry}, Num(x) > Bound, x # v PROVE Waits(x)' \/ Pending(x)'
    <3>1. Waits(x) => Waits(x)'
      BY <1>0, <1>1, <1>7, <1>8, <1>9, <2>1 DEF Waits, Vertex
    <3>2. Pending(x) => Pending(x)'
      <4>1. dt'.idom[x] = dt.idom[x]
        BY <1>6, <1>7, <2>1
      <4>. QED  BY <1>0, <1>7, <1>8, <2>1, <4>1, PendingKept
    <3>. QED  BY <1>0, <1>2, <2>1, <3>1, <3>2 DEF Idoms
  <2>. QED  BY <1>0, <1>8, <1>13, <2>1 DEF Idoms, Num
<1>. QED  BY <1>10, <1>11, <1>12, <1>14 DEF Solving

LEMMA SolvingClearBucket ==
  ASSUME Types, Counting, Walks, Solving, ClearBucket
  PROVE  Solving'
<1>0. pc = "bucket" /\ work = {} /\ pc' = "semi" /\ i' = i - 1 /\ UNCHANGED <<succ, work>>
  BY DEF ClearBucket
<1>w. PICK w : w = Vertex(dt, i)
  OBVIOUS
<1>p. PICK p : p = dt.parent[w]
  OBVIOUS
<1>1. dt' = [dt EXCEPT !.bucket[p] = {}]
  BY <1>w, <1>p DEF ClearBucket
<1>2. Forest /\ Asking /\ Buckets /\ Idoms
  BY DEF Solving
<1>3. /\ w \in Reached \ {Entry} /\ Num(w) = i /\ i \in Nat /\ i >= 1 /\ Bound = i - 1
      /\ p \in Blocks
      /\ \A x \in Reached : Num(x) \in Nat
      /\ \A x \in Reached : Num(x) = i => x = w
  BY <1>0, <1>w, <1>p, CurrentVertex, BoundFacts, TreeFacts
<1>4. /\ dt'.vertex = dt.vertex /\ dt'.parent = dt.parent /\ dt'.label = dt.label
      /\ dt'.ancestor = dt.ancestor /\ dt'.semi = dt.semi /\ dt'.idom = dt.idom
      /\ dt'.bucket[p] = {} /\ \A t \in Blocks : t # p => dt'.bucket[t] = dt.bucket[t]
  BY <1>1, <1>3 DEF Types, Contexts
<1>5. /\ Seen' = Seen /\ Reached' = Reached /\ \A x : Num(x)' = Num(x)
      /\ \A n : Vertex(dt, n)' = Vertex(dt, n)
      /\ Blocks' = Blocks /\ \A b : Preds(b)' = Preds(b)
  BY <1>0, <1>4, SeenFixed, GraphFixed
<1>6. Bound' = Bound /\ Bound \in Nat /\ Bound' <= Bound
  BY <1>0, <1>3 DEF Bound
<1>7. \A b : SemiOf(b)' = SemiOf(b)
  BY <1>4 DEF SemiOf, Vertex
<1>8. Forest'
  <2>1. ASSUME NEW b, Linked(b) PROVE Linked(b)'
    BY <1>4, <1>5, <1>6, <1>7, <2>1 DEF Linked, Num
  <2>2. ASSUME NEW b, Unlinked(b) PROVE Unlinked(b)'
    BY <1>0, <1>4, <1>5, <2>2 DEF Unlinked, Num
  <2>. QED  BY <1>0, <1>2, <1>5, <1>6, <2>1, <2>2 DEF Forest, Num
<1>9. Asking'
  BY <1>0 DEF Asking
<1>10. Buckets'
  <2>1. ASSUME NEW t \in Blocks, NEW v \in dt'.bucket[t]
        PROVE  /\ v \in Reached \ {Entry} /\ Num(v) > Bound /\ SemiOf(v) = t
               /\ \A c \in Reached \ {Entry} : dt.parent[c] = t /\ Above(Seen, c, v) => Num(c) <= i - 1
    <3>1. t # p /\ v \in dt.bucket[t]
      BY <1>4, <2>1
    <3>2. /\ v \in Reached \ {Entry} /\ Num(v) > Bound /\ SemiOf(v) = t
          /\ \A c \in Reached \ {Entry} : dt.parent[c] = t /\ Above(Seen, c, v) => Num(c) <= i
      BY <1>0, <1>2, <3>1 DEF Buckets
    <3>3. ASSUME NEW c \in Reached \ {Entry}, dt.parent[c] = t, Above(Seen, c, v) PROVE Num(c) <= i - 1
      <4>1. c # w
        BY <1>p, <3>1, <3>3
      <4>2. Num(c) # i /\ Num(c) <= i /\ Num(c) \in Nat
        BY <1>3, <3>2, <3>3, <4>1
      <4>. QED  BY <1>3, <4>2
    <3>. QED  BY <3>2, <3>3
  <2>. QED  BY <1>0, <1>4, <1>5, <1>6, <1>7, <2>1 DEF Buckets, Num
<1>11. Idoms'
  <2>1. ASSUME NEW x \in Reached \ {Entry}, Num(x) > Bound PROVE Waits(x)' \/ Pending(x)'
    <3>1. ASSUME Waits(x) PROVE Waits(x)'
      <4>1. SemiOf(x) # p /\ x \in dt.bucket[SemiOf(x)]
        BY <1>0, <1>w, <1>p, <3>1 DEF Waits
      <4>2. SemiOf(x) \in Blocks
        <5>1. Linked(x)
          BY <1>0, <1>2, <2>1 DEF Forest
        <5>. QED  BY <1>0, <5>1, LinkedFacts
      <4>. QED  BY <1>0, <1>4, <1>7, <4>1, <4>2 DEF Waits
    <3>2. Pending(x) => Pending(x)'
      BY <1>0, <1>4, <1>6, <2>1, PendingKept
    <3>. QED  BY <1>0, <1>2, <2>1, <3>1, <3>2 DEF Idoms
  <2>. QED  BY <1>0, <1>5, <1>6, <2>1 DEF Idoms, Num
<1>. QED  BY <1>8, <1>9, <1>10, <1>11 DEF Solving

\* When vertex 0 is left, no block waits: a child of what it waits for would
\* have to be the entry.
LEMMA SolvingStartCorrect ==
  ASSUME Types, Counting, Walks, Solving, StartCorrect
  PROVE  Solving'
<1>0. pc = "semi" /\ i = 0 /\ i' = 1 /\ pc' = "correct" /\ UNCHANGED <<succ, dt, work>>
  BY DEF StartCorrect
<1>1. Forest /\ Buckets /\ Idoms
  BY DEF Solving
<1>2. /\ Seen' = Seen /\ Reached' = Reached /\ \A x : Num(x)' = Num(x)
      /\ \A n : Vertex(dt, n)' = Vertex(dt, n)
  BY <1>0, SeenFixed
<1>3. Bound = 0 /\ Bound' = 0
  BY <1>0 DEF Bound
<1>4. \A b : SemiOf(b)' = SemiOf(b)
  BY <1>0 DEF SemiOf, Vertex
<1>5. /\ IsTree(Seen) /\ Seen.nodes = Reached /\ Seen.root = Entry /\ Seen.parent = dt.parent
      /\ Entry \in Reached /\ Num(Entry) = 0
      /\ \A b \in Reached : Num(b) \in Nat
      /\ \A a, b \in Reached : Num(a) = Num(b) => a = b
  BY <1>0, TreeFacts
<1>6. \A b \in Reached \ {Entry} : Num(b) > 0
  BY <1>5
<1>7. Forest'
  <2>1. ASSUME NEW b, Linked(b) PROVE Linked(b)'
    BY <1>0, <1>2, <1>3, <1>4, <2>1 DEF Linked, Num
  <2>2. ASSUME NEW b, Unlinked(b) PROVE Unlinked(b)'
    BY <1>0, <1>2, <2>2 DEF Unlinked, Num
  <2>. QED  BY <1>0, <1>1, <1>2, <1>3, <2>1, <2>2 DEF Forest, Num
<1>8. ASSUME NEW v \in Reached \ {Entry} PROVE Pending(v)'
  <2>1. Waits(v) \/ Pending(v)
    BY <1>0, <1>1, <1>3, <1>6 DEF Idoms
  <2>2. ASSUME Waits(v) PROVE FALSE
    <3>1. SemiOf(v) \in Blocks /\ Above(Seen, SemiOf(v), v) /\ SemiOf(v) # v
      <4>1. Linked(v)
        BY <1>0, <1>1, <1>3, <1>6 DEF Forest
      <4>. QED  BY <1>0, <4>1, LinkedFacts
    <3>2. PICK c \in Reached \ {Entry} : dt.parent[c] = SemiOf(v) /\ Above(Seen, c, v)
      BY <1>5, <3>1, AboveChild
    <3>3. Num(c) <= 0
      BY <1>0, <1>1, <2>2, <3>1, <3>2 DEF Buckets, Waits
    <3>. QED  BY <1>5, <1>6, <3>2, <3>3
  <2>3. Pending(v) => Pending(v)'
    BY <1>0, <1>3, <1>6, PendingKept
  <2>. QED  BY <2>1, <2>2, <2>3
<1>9. Idoms'
  <2>1. ASSUME NEW v \in Reached \ {Entry} PROVE ~(Num(v) < 1)
    BY <1>5, <1>6
  <2>. QED  BY <1>0, <1>2, <1>8, <2>1 DEF Idoms, Num
<1>. QED  BY <1>0, <1>7, <1>9 DEF Solving, Asking, Buckets

\* The last correction: the dominator of vertex i is its semidominator, or
\* that of the block noted, which has a smaller number.
LEMMA CorrectExact ==
  ASSUME Types, Counting, Walks, Solving, pc = "correct", i < Len(dt.vertex),
         NEW w, w = Vertex(dt, i)
  PROVE  IsIdom(Seen, IF dt.idom[w] = SemiOf(w) THEN dt.idom[w] ELSE dt.idom[dt.idom[w]], w)
<1>1. /\ SearchTree(Seen) /\ Seen.nodes = Reached /\ Seen.root = Entry
      /\ \A b \in Reached : Num(b) \in Nat
      /\ \A a, b \in Reached : Num(a) = Num(b) => a = b
      /\ Num(Entry) = 0 /\ Entry \in Reached
  BY TreeFacts
<1>2. w \in Reached /\ Num(w) = i /\ i \in Nat /\ i >= 1 /\ w # Entry
  BY <1>1, MapFacts, TreeFacts DEF Counting
<1>3. \A x \in Reached \ {Entry} : Linked(x)
  <2>1. \A x \in Reached \ {Entry} : Num(x) > 0
    BY <1>1
  <2>. QED  BY <2>1, BoundFacts DEF Solving, Forest
<1>4. PICK sem : sem = [x \in Reached |-> SemiOf(x)]
  OBVIOUS
<1>5. \A x \in Reached \ {Entry} :
        /\ IsSemi(Seen, x, sem[x]) /\ sem[x] \in Reached /\ Seen.num[sem[x]] = dt.semi[x]
        /\ sem[x] = SemiOf(x)
  <2>1. ASSUME NEW x \in Reached \ {Entry}
        PROVE  IsSemi(Seen, x, SemiOf(x)) /\ SemiOf(x) \in Reached /\ Num(SemiOf(x)) = dt.semi[x]
    BY <1>3, LinkedFacts
  <2>. QED  BY <1>4, <2>1 DEF Num
<1>6. PICK s : s = SemiOf(w)
  OBVIOUS
<1>7. /\ IsSemi(Seen, w, s) /\ Seen.num[s] = dt.semi[w]
  BY <1>2, <1>5, <1>6
<1>8. \A x \in Between(Seen, s, w) : x \in Reached \ {Entry} /\ Num(x) <= i
  BY <1>2, BetweenFacts
<1>9. \/ dt.idom[w] = s /\ \A x \in Between(Seen, s, w) : dt.semi[w] <= dt.semi[x]
      \/ /\ dt.idom[w] \in Between(Seen, s, w) /\ dt.semi[dt.idom[w]] < dt.semi[w]
         /\ \A x \in Between(Seen, s, w) : dt.semi[dt.idom[w]] <= dt.semi[x]
  <2>1. Pending(w)
    BY <1>2 DEF Solving, Idoms
  <2>. QED  BY <1>6, <2>1 DEF Pending
<1>10. CASE dt.idom[w] = s /\ \A x \in Between(Seen, s, w) : dt.semi[w] <= dt.semi[x]
  <2>1. \A x \in Between(Seen, s, w) : IsSemi(Seen, x, sem[x]) /\ Seen.num[s] <= Seen.num[sem[x]]
    BY <1>5, <1>7, <1>8, <1>10
  <2>2. IsIdom(Seen, s, w)
    BY <1>1, <1>2, <1>7, <2>1, IdomIsSemi
  <2>. QED  BY <1>6, <1>10, <2>2
<1>11. CASE /\ dt.idom[w] \in Between(Seen, s, w) /\ dt.semi[dt.idom[w]] < dt.semi[w]
            /\ \A x \in Between(Seen, s, w) : dt.semi[dt.idom[w]] <= dt.semi[x]
  <2>1. PICK u : u = dt.idom[w]
    OBVIOUS
  <2>2. u \in Between(Seen, s, w) /\ u \in Reached \ {Entry} /\ u # s /\ u # w /\ Num(u) < i
    <3>1. u \in Between(Seen, s, w) /\ u \in Reached \ {Entry} /\ Num(u) <= i /\ u # s
      BY <1>8, <1>11, <2>1 DEF Between
    <3>2. u # w
      <4>1. dt.semi[w] \in Nat
        BY <1>2, MapFacts, TreeFacts
      <4>. QED  BY <1>11, <2>1, <4>1
    <3>3. Num(u) # i
      BY <1>1, <1>2, <3>1, <3>2
    <3>. QED  BY <1>1, <1>2, <3>1, <3>2, <3>3
  <2>3. IsIdom(Seen, dt.idom[u], u)
    BY <2>2 DEF Solving, Idoms, Exact
  <2>4. Seen.num[sem[u]] < Seen.num[s]
    BY <1>5, <1>7, <1>11, <2>1, <2>2
  <2>5. \A x \in Between(Seen, s, w) : IsSemi(Seen, x, sem[x]) /\ Seen.num[sem[u]] <= Seen.num[sem[x]]
    BY <1>5, <1>8, <1>11, <2>1, <2>2
  <2>6. IsIdom(Seen, dt.idom[u], w)
    BY <1>1, <1>2, <1>7, <2>2, <2>3, <2>4, <2>5, IdomFromBetween
  <2>. QED  BY <1>6, <2>1, <2>2, <2>6
<1>. QED  BY <1>9, <1>10, <1>11

LEMMA SolvingCorrect ==
  ASSUME Types, Counting, Walks, Solving, Correct
  PROVE  Solving'
<1>0. pc = "correct" /\ i < Len(dt.vertex) /\ i' = i + 1 /\ UNCHANGED <<succ, pc>>
  BY DEF Correct
<1>w. PICK w : w = Vertex(dt, i)
  OBVIOUS
<1>1. dt' = [dt EXCEPT !.idom[w] = IF @ = SemiOf(w) THEN @ ELSE dt.idom[@]]
  BY <1>w DEF Correct, SemiOf
<1>2. /\ \A b \in Reached : Num(b) \in Nat /\ b \in Labels
      /\ \A b \in Reached : Num(b) = i => b = w
      /\ w \in Reached /\ Num(w) = i /\ i \in Nat /\ i >= 1
  <2>1. i \in Nat /\ i >= 1
    BY <1>0, MapFacts DEF Counting
  <2>. QED  BY <1>0, <1>w, <2>1, TreeFacts
<1>3. /\ dt'.vertex = dt.vertex /\ dt'.parent = dt.parent /\ dt'.label = dt.label
      /\ dt'.ancestor = dt.ancestor /\ dt'.semi = dt.semi /\ dt'.bucket = dt.bucket
      /\ dt'.idom[w] = IF dt.idom[w] = SemiOf(w) THEN dt.idom[w] ELSE dt.idom[dt.idom[w]]
      /\ \A x \in Labels : x # w => dt'.idom[x] = dt.idom[x]
  <2>1. w \in Labels /\ DOMAIN dt.idom = Labels /\ dt = [dt EXCEPT !.idom = @]
    BY <1>2 DEF Types, Contexts
  <2>2. DOMAIN dt = {"semi", "vertex", "parent", "ancestor", "label", "idom", "bucket"}
    BY DEF Types, Contexts
  <2>. QED  BY <1>1, <2>1, <2>2
<1>4. /\ Seen' = Seen /\ Reached' = Reached /\ \A x : Num(x)' = Num(x)
      /\ \A n : Vertex(dt, n)' = Vertex(dt, n)
  BY <1>0, <1>3, SeenFixed
<1>5. Bound = 0 /\ Bound' = 0
  BY <1>0 DEF Bound
<1>6. \A b : SemiOf(b)' = SemiOf(b)
  BY <1>3 DEF SemiOf, Vertex
<1>7. Forest'
  <2>1. ASSUME NEW b, Linked(b) PROVE Linked(b)'
    BY <1>3, <1>4, <1>5, <1>6, <2>1 DEF Linked, Num
  <2>2. ASSUME NEW b, Unlinked(b) PROVE Unlinked(b)'
    BY <1>0, <1>3, <1>4, <2>2 DEF Unlinked, Num
  <2>. QED  BY <1>0, <1>4, <1>5, <2>1, <2>2 DEF Solving, Forest, Num
<1>8. Exact(w)'
  <2>1. IsIdom(Seen, dt'.idom[w], w)
    BY <1>0, <1>3, <1>w, CorrectExact
  <2>. QED  BY <1>4, <2>1 DEF Exact
<1>9. Idoms'
  <2>1. ASSUME NEW v \in Reached \ {Entry} PROVE IF Num(v) < i' THEN Exact(v)' ELSE Pending(v)'
    <3>1. CASE v = w
      BY <1>0, <1>2, <1>8, <3>1
    <3>2. CASE v # w
      <4>1. dt'.idom[v] = dt.idom[v]
        BY <1>2, <1>3, <3>2
      <4>2. IF Num(v) < i THEN Exact(v) ELSE Pending(v)
        BY <1>0 DEF Solving, Idoms
      <4>3. Exact(v) => Exact(v)'
        BY <1>4, <4>1 DEF Exact
      <4>4. (Num(v) < i' <=> Num(v) < i) /\ (~(Num(v) < i) => Num(v) > Bound)
        <5>1. Num(v) \in Nat /\ Num(v) # i
          BY <1>2, <3>2
        <5>. QED  BY <1>0, <1>2, <1>5, <5>1
      <4>5. ~(Num(v) < i) => Pending(v)'
        BY <1>0, <1>3, <1>5, <4>1, <4>2, <4>4, PendingKept
      <4>. QED  BY <4>2, <4>3, <4>4, <4>5
    <3>. QED  BY <3>1, <3>2
  <2>. QED  BY <1>0, <1>4, <2>1 DEF Idoms, Num
<1>. QED  BY <1>0, <1>7, <1>9 DEF Solving, Asking, Buckets

LEMMA SolvingCorrected ==
  ASSUME Types, Counting, Walks, Solving, Corrected
  PROVE  Solving'
<1>0. pc = "correct" /\ i = Len(dt.vertex) /\ i' = 0 /\ pc' = "front" /\ UNCHANGED succ
      /\ dt' = [dt EXCEPT !.idom[Entry] = None]
  BY DEF Corrected
<1>1. /\ dt'.vertex = dt.vertex /\ dt'.parent = dt.parent
      /\ \A x \in Labels : x # Entry => dt'.idom[x] = dt.idom[x]
  BY <1>0 DEF Types, Contexts
<1>2. Seen' = Seen /\ Reached' = Reached
  BY <1>0, <1>1, SeenFixed
<1>3. ASSUME NEW v \in Reached \ {Entry} PROVE Exact(v)'
  <2>1. Num(v) < i /\ v \in Labels
    BY <1>0, TreeFacts
  <2>2. Exact(v) /\ dt'.idom[v] = dt.idom[v]
    BY <1>0, <1>1, <2>1 DEF Solving, Idoms
  <2>. QED  BY <1>2, <2>2 DEF Exact
<1>. QED  BY <1>0, <1>2, <1>3 DEF Solving, Forest, Asking, Buckets, Idoms

\* The tree is done; nothing changes it.
LEMMA SolvingDone ==
  ASSUME Solving, pc \in {"front", "edges", "body", "depth", "done"},
         pc' \in {"front", "edges", "body", "depth", "done"}, UNCHANGED <<succ, dt>>
  PROVE  Solving'
<1>1. Seen' = Seen /\ Reached' = Reached
  BY SeenFixed
<1>2. ASSUME NEW v \in Reached \ {Entry} PROVE Exact(v)'
  BY <1>1 DEF Solving, Idoms, Exact
<1>. QED  BY <1>1, <1>2 DEF Solving, Forest, Asking, Buckets, Idoms

LEMMA SolvingNext ==
  ASSUME Types, Counting, Walks, Solving, [Next]_vars, Types', Counting', Walks'
  PROVE  Solving'
<1>1. CASE Walk
  BY <1>1 DEF Walk, Solving, Forest, Asking, Buckets, Idoms
<1>2. CASE Walked
  BY <1>2, SolvingWalked
<1>3. CASE StartVertex
  BY <1>3, SolvingStartVertex
<1>4. CASE Eval \/ Compress \/ UNCHANGED vars
  BY <1>4, SolvingSame DEF Eval, Compress, vars
<1>5. CASE Shorten
  BY <1>5, SolvingShorten DEF Shorten
<1>6. CASE Semi
  BY <1>6, SolvingSemi
<1>7. CASE Link
  BY <1>7, SolvingLink
<1>8. CASE Idom
  BY <1>8, SolvingIdom
<1>9. CASE ClearBucket
  BY <1>9, SolvingClearBucket
<1>10. CASE StartCorrect
  BY <1>10, SolvingStartCorrect
<1>11. CASE Correct
  BY <1>11, SolvingCorrect
<1>12. CASE Corrected
  BY <1>12, SolvingCorrected
<1>13. CASE NextBlock \/ StartRunner \/ Run \/ Frontiers
  BY <1>13, SolvingDone DEF NextBlock, StartRunner, Run, Frontiers
<1>14. CASE NextEdges \/ FindEdge \/ EdgesFound \/ StartBody \/ GrowBody
  BY <1>14, SolvingDone DEF NextEdges, FindEdge, EdgesFound, StartBody, GrowBody
<1>15. CASE Nest \/ PropagateDepth \/ Done
  BY <1>15, SolvingDone DEF Nest, PropagateDepth, Done
<1>. QED  BY <1>1, <1>2, <1>3, <1>4, <1>5, <1>6, <1>7, <1>8, <1>9, <1>10, <1>11, <1>12,
             <1>13, <1>14, <1>15 DEF Next

Known == Types /\ Counting /\ Walks /\ Solving

LEMMA KnownInvariant == Spec => []Known
<1>1. Init => Known
  <2>1. Init => Types /\ Counting /\ Walks
    BY TypesInit, WalksInit
  <2>2. Init => Solving
    BY DEF Init, Solving, Forest, Asking, Buckets, Idoms
  <2>. QED  BY <2>1, <2>2 DEF Known
<1>2. Known /\ [Next]_vars => Known'
  <2>1. Types /\ Counting /\ Walks /\ [Next]_vars => (Types /\ Counting /\ Walks)'
    BY TypesNext, WalksNext
  <2>. QED  BY <2>1, SolvingNext DEF Known
<1>. QED  BY <1>1, <1>2, PTL DEF Spec

\* IdomExact: the algorithm gives the dominator tree, of every graph and in
\* whatever order the walk takes the successors.
THEOREM TreeIsExact == Spec => []IdomExact
<1>1. Known => IdomExact
  <2> SUFFICES ASSUME Known, pc = "front", NEW b \in Reached \ {Entry}
               PROVE  IsParent(SeenEdges, Entry, dt.idom[b], b)
    BY DEF IdomExact
  <2>1. IsIdom(Seen, dt.idom[b], b)
    BY DEF Known, Solving, Idoms, Exact
  <2>2. IsTree(Seen) /\ Seen.nodes = Reached /\ Seen.root = Entry /\ Seen.edges = SeenEdges
    BY TreeFacts DEF Known
  <2>3. IsFiniteSet(SeenEdges)
    BY AfterWalk DEF Known
  <2>. QED  BY <2>1, <2>2, <2>3, IdomIsParent
<1>. QED  BY <1>1, KnownInvariant, PTL

-----------------------------------------------------------------------------
(* The frontiers. *)

\* The tree, once it is done.
LEMMA TreeDone ==
  ASSUME Known, pc \in {"front", "edges", "body", "depth", "done"}
  PROVE  /\ IsTree(Seen) /\ Seen.nodes = Reached /\ Seen.root = Entry /\ Entry \in Reached
         /\ Reached \subseteq Blocks /\ None \notin Reached
         /\ \A b \in Reached \ {Entry} : IsIdom(Seen, dt.idom[b], b) /\ dt.idom[b] \in Reached
         /\ \A b \in Labels : b \notin Reached \/ b = Entry => dt.idom[b] = None
<1>1. /\ IsTree(Seen) /\ Seen.nodes = Reached /\ Seen.root = Entry /\ Entry \in Reached
      /\ Reached \subseteq Blocks /\ None \notin Reached
  BY TreeFacts DEF Known
<1>2. \A b \in Reached \ {Entry} : IsIdom(Seen, dt.idom[b], b)
  BY DEF Known, Solving, Idoms, Exact
<1>3. \A b \in Labels : b \notin Reached \/ b = Entry => dt.idom[b] = None
  BY DEF Known, Walks, Unreached
<1>. QED  BY <1>1, <1>2, <1>3 DEF IsIdom

\* A runner stops where nothing is left to be done, and goes on to what still
\* dominates where it was.
LEMMA RunnerStops ==
  ASSUME Known, pc = "front", dt.idom[i] # None, i \in Blocks,
         NEW c \in Reached, Dom(Seen, c, dt.idom[i]), ~(c # i /\ Dom(Seen, c, i))
  PROVE  FALSE
<1>1. i \in Reached \ {Entry}
  BY TreeDone DEF Labels
<1>2. /\ dt.idom[i] \in Reached /\ dt.idom[i] # i /\ Dom(Seen, dt.idom[i], i)
      /\ IsTree(Seen) /\ Seen.nodes = Reached
  BY <1>1, TreeDone DEF IsIdom
<1>3. Dom(Seen, c, i)
  BY <1>1, <1>2, DomTransitive
<1>4. c = i
  BY <1>3
<1>. QED  BY <1>1, <1>2, <1>4, DomAntisymmetric

LEMMA RunnerGoesOn ==
  ASSUME Known, pc = "front", NEW r \in Reached, NEW c \in Reached, Dom(Seen, c, r), c # r
  PROVE  dt.idom[r] \in Reached /\ Dom(Seen, c, dt.idom[r])
<1>1. /\ IsTree(Seen) /\ Seen.nodes = Reached /\ Seen.root = Entry
      /\ \A b \in Reached \ {Entry} : IsIdom(Seen, dt.idom[b], b) /\ dt.idom[b] \in Reached
  BY TreeDone
<1>2. r # Entry
  <2>1. Above(Seen, c, r)
    BY <1>1, DomAbove
  <2>. QED  BY <1>1, <2>1, AboveStep
<1>. QED  BY <1>1, <1>2 DEF IsIdom

LEMMA JoiningNext ==
  ASSUME Known, Known', Joining, [Next]_vars
  PROVE  Joining'
<1>0. Types /\ Counting /\ Types' /\ Counting'
  BY DEF Known
<1>s. ASSUME UNCHANGED <<succ, dt>>
      PROVE  /\ Seen' = Seen /\ Reached' = Reached /\ Blocks' = Blocks
             /\ \A b : Runners(b)' = Runners(b)
  BY <1>s, SeenFixed, GraphFixed DEF Runners
<1>n. /\ Blocks = 1..Cardinality(Blocks) /\ Cardinality(Blocks) \in Nat /\ None \notin Blocks
      /\ i \in Nat
  BY <1>0, GraphFacts, MapFacts DEF Types
<1>j. pc = "front" =>
        /\ work \subseteq (IF i = 0 THEN {} ELSE Runners(i))
        /\ path # <<>> => dt.idom[i] # None
        /\ \A b \in Blocks : \A p \in Runners(b) \cap Reached :
             b < i \/ (b = i /\ p \notin work) => Joined(b, p)
  BY DEF Joining
<1>e. pc = "edges" => \A b \in Blocks : \A p \in Runners(b) \cap Reached : Joined(b, p)
  BY DEF Joining
<1>1. CASE Corrected
  <2>1. pc = "correct" /\ pc' = "front" /\ i' = 0 /\ UNCHANGED <<succ, path, work>>
    BY <1>1 DEF Corrected
  <2>2. path = <<>> /\ work = {}
    BY <1>0, <2>1 DEF Counting
  <2>3. \A b \in Blocks' : ~(b < i') /\ b # i'
    BY <1>n, <2>1 DEF Blocks
  <2>. QED  BY <2>1, <2>2, <2>3 DEF Joining
<1>2. CASE NextBlock
  <2>1. /\ pc = "front" /\ pc' = "front" /\ path = <<>> /\ work = {} /\ i' = i + 1
        /\ work' = Runners(i + 1) /\ UNCHANGED <<succ, path, dt, front>>
    BY <1>2 DEF NextBlock
  <2>2. /\ Seen' = Seen /\ Reached' = Reached /\ Blocks' = Blocks
        /\ \A b : Runners(b)' = Runners(b)
    BY <1>s, <2>1
  <2>3. ASSUME NEW b \in Blocks, NEW p \in Runners(b) \cap Reached,
               b < i' \/ (b = i' /\ p \notin work')
        PROVE  Joined(b, p)'
    <3>1. b < i \/ b = i
      BY <1>n, <2>1, <2>3
    <3>2. Joined(b, p)
      BY <1>j, <2>1, <2>3, <3>1
    <3>. QED  BY <2>1, <2>2, <3>2 DEF Joined
  <2>4. i' # 0 /\ work' \subseteq Runners(i')
    BY <1>n, <2>1
  <2>. QED  BY <2>1, <2>2, <2>3, <2>4 DEF Joining
<1>3. CASE StartRunner
  <2>1. pc = "front" /\ pc' = "front" /\ path = <<>> /\ UNCHANGED <<succ, dt, i, front>>
    BY <1>3 DEF StartRunner
  <2>2. PICK q \in work : path' = <<q>> /\ work' = work \ {q}
    BY <1>3 DEF StartRunner
  <2>3. /\ Seen' = Seen /\ Reached' = Reached /\ Blocks' = Blocks
        /\ \A b : Runners(b)' = Runners(b)
    BY <1>s, <2>1
  <2>4. i # 0 /\ q \in Runners(i) /\ work \subseteq Runners(i) /\ dt.idom[i] # None
    BY <1>j, <2>1, <2>2 DEF Runners
  <2>5. path' # <<>> /\ path'[1] = q
    BY <2>2
  <2>6. ASSUME NEW b \in Blocks, NEW p \in Runners(b) \cap Reached,
               b < i \/ (b = i /\ p \notin work')
        PROVE  Joined(b, p)'
    <3>1. CASE b = i /\ p = q
      BY <2>1, <2>3, <2>5, <3>1 DEF Joined
    <3>2. CASE ~(b = i /\ p = q)
      <4>1. Joined(b, p)
        BY <1>j, <2>1, <2>2, <2>6, <3>2
      <4>. QED  BY <2>1, <2>3, <4>1 DEF Joined
    <3>. QED  BY <3>1, <3>2
  <2>7. work' \subseteq Runners(i)
    BY <2>2, <2>4
  <2>. QED  BY <2>1, <2>3, <2>4, <2>6, <2>7 DEF Joining
<1>4. CASE Run
  <2>1. pc = "front" /\ pc' = "front" /\ path # <<>> /\ UNCHANGED <<succ, dt, i, work>>
    BY <1>4 DEF Run
  <2>2. PICK r : r = path[1]
    OBVIOUS
  <2>3. IF r \in {None, dt.idom[i]}
          THEN path' = <<>> /\ UNCHANGED front
          ELSE front' = [front EXCEPT ![r] = @ \cup {i}] /\ path' = <<dt.idom[r]>>
    BY <1>4, <2>2 DEF Run
  <2>4. /\ Seen' = Seen /\ Reached' = Reached /\ Blocks' = Blocks
        /\ \A b : Runners(b)' = Runners(b)
    BY <1>s, <2>1
  <2>5. r \in Labels /\ dt.idom[i] # None /\ i \in Blocks
    <3>1. path \in Seq(Labels) /\ i # 0 /\ i <= Cardinality(Blocks)
      BY <1>0, <2>1 DEF Types, Counting
    <3>2. i \in Blocks
      BY <1>n, <3>1
    <3>3. dt.idom[i] # None
      BY <1>j, <2>1
    <3>. QED  BY <2>1, <2>2, <3>1, <3>2, <3>3
  <2>6. \A c \in Blocks : front[c] \subseteq front'[c]
    <3>1. front \in [Blocks -> SUBSET Blocks]
      BY <1>0 DEF Types
    <3>. QED  BY <2>3, <3>1
  <2>7. ASSUME NEW b \in Blocks, NEW p \in Runners(b) \cap Reached,
               b < i \/ (b = i /\ p \notin work)
        PROVE  Joined(b, p)'
    <3> SUFFICES ASSUME NEW c \in Reached, Dom(Seen, c, p), ~(c # b /\ Dom(Seen, c, b)), b \notin front'[c]
                 PROVE  b = i /\ path' # <<>> /\ path'[1] \in Reached /\ Dom(Seen, c, path'[1])
      BY <2>1, <2>4 DEF Joined
    <3>1. c \in Blocks /\ b \notin front[c]
      BY <2>1, <2>6, TreeDone
    <3>2. b = i /\ r \in Reached /\ Dom(Seen, c, r)
      BY <1>j, <2>1, <2>2, <2>7, <3>1 DEF Joined
    <3>3. r # None
      BY <2>1, <3>2, TreeDone
    <3>4. r # dt.idom[i]
      BY <2>1, <2>5, <3>2, RunnerStops
    <3>5. front' = [front EXCEPT ![r] = @ \cup {i}] /\ path' = <<dt.idom[r]>>
      BY <2>3, <3>3, <3>4
    <3>6. c # r
      <4>1. front \in [Blocks -> SUBSET Blocks]
        BY <1>0 DEF Types
      <4>. QED  BY <3>1, <3>2, <3>5, <4>1
    <3>7. dt.idom[r] \in Reached /\ Dom(Seen, c, dt.idom[r])
      BY <2>1, <3>2, <3>6, RunnerGoesOn
    <3>. QED  BY <3>2, <3>5, <3>7
  <2>8. work \subseteq (IF i = 0 THEN {} ELSE Runners(i))
    BY <1>j, <2>1
  <2>. QED  BY <2>1, <2>4, <2>5, <2>7, <2>8 DEF Joining
<1>5. CASE Frontiers
  <2>1. /\ pc = "front" /\ pc' = "edges" /\ path = <<>> /\ work = {} /\ i = Cardinality(Blocks)
        /\ UNCHANGED <<succ, dt, front>>
    BY <1>5 DEF Frontiers
  <2>2. /\ Seen' = Seen /\ Reached' = Reached /\ Blocks' = Blocks
        /\ \A b : Runners(b)' = Runners(b)
    BY <1>s, <2>1
  <2>3. ASSUME NEW b \in Blocks, NEW p \in Runners(b) \cap Reached PROVE Joined(b, p)'
    <3>1. b < i \/ b = i
      BY <1>n, <2>1
    <3>2. Joined(b, p)
      BY <1>j, <2>1, <3>1
    <3>. QED  BY <2>1, <2>2, <3>2 DEF Joined
  <2>. QED  BY <2>1, <2>2, <2>3 DEF Joining
<1>6. CASE NextEdges \/ FindEdge \/ (UNCHANGED vars)
  <2>1. pc' = pc /\ (pc = "front" => UNCHANGED vars) /\ UNCHANGED <<succ, dt, front>>
    BY <1>6 DEF NextEdges, FindEdge, vars
  <2>2. /\ Seen' = Seen /\ Reached' = Reached /\ Blocks' = Blocks
        /\ \A b : Runners(b)' = Runners(b)
    BY <1>s, <2>1
  <2>3. CASE pc = "front"
    <3>1. \A b, p : Joined(b, p)' <=> Joined(b, p)
      BY <2>1, <2>2, <2>3 DEF Joined, vars
    <3>. QED  BY <1>j, <2>1, <2>2, <2>3, <3>1 DEF Joining, vars
  <2>4. CASE pc = "edges"
    <3>1. \A b, p : Joined(b, p) => Joined(b, p)'
      BY <2>1, <2>2, <2>4 DEF Joined
    <3>. QED  BY <1>e, <2>1, <2>2, <2>4, <3>1 DEF Joining
  <2>. QED  BY <2>1, <2>3, <2>4 DEF Joining
<1>7. CASE \/ Walk \/ Walked \/ StartVertex \/ Eval \/ Compress \/ Shorten \/ Semi \/ Link \/ Idom
           \/ ClearBucket \/ StartCorrect \/ Correct
  <2>1. pc' \notin {"front", "edges"}
    BY <1>7 DEF Walk, Walked, StartVertex, Eval, Compress, Shorten, Semi, Link, Idom, ClearBucket,
                StartCorrect, Correct
  <2>. QED  BY <2>1 DEF Joining
<1>8. CASE EdgesFound \/ StartBody \/ GrowBody \/ Nest \/ PropagateDepth \/ Done
  <2>1. pc' \notin {"front", "edges"}
    BY <1>8 DEF EdgesFound, StartBody, GrowBody, Nest, PropagateDepth, Done
  <2>. QED  BY <2>1 DEF Joining
<1>. QED  BY <1>1, <1>2, <1>3, <1>4, <1>5, <1>6, <1>7, <1>8 DEF Next

\* A block with fewer than two predecessors needs no runner: its predecessor
\* dominates it.
LEMMA OnlyPredecessor ==
  ASSUME Known, pc = "edges", NEW b \in Reached, NEW p \in Preds(b) \cap Reached, ~(Cardinality(Preds(b)) >= 2)
  PROVE  Dom(Seen, p, b) /\ p # b
<1>0. Types /\ Walks
  BY DEF Known
<1>1. /\ IsTree(Seen) /\ Seen.nodes = Reached /\ Seen.root = Entry /\ Entry \in Reached
      /\ Seen.edges = SeenEdges /\ Seen.parent = dt.parent /\ Reached \subseteq Blocks
  BY <1>0, TreeFacts
<1>2. ASSUME NEW q \in Preds(b) PROVE q = p
  <2>1. IsFiniteSet(Preds(b))
    BY <1>0, GraphFacts, FS_Subset DEF Preds, Types
  <2>2. ASSUME q # p PROVE Cardinality({p, q}) = 2 /\ {p, q} \subseteq Preds(b)
    <3>1. IsFiniteSet({p}) /\ Cardinality({p}) = 1
      BY FS_Singleton
    <3>2. Cardinality({p} \cup {q}) = Cardinality({p}) + 1
      BY <2>2, <3>1, FS_AddElement
    <3>3. {p} \cup {q} = {p, q}
      OBVIOUS
    <3>. QED  BY <3>1, <3>2, <3>3
  <2>3. {p, q} \subseteq Preds(b) => Cardinality({p, q}) <= Cardinality(Preds(b))
    BY <2>1, FS_Subset
  <2>4. Cardinality(Preds(b)) \in Nat
    BY <2>1, FS_CardinalityType
  <2>. QED  BY <2>2, <2>3, <2>4
<1>3. /\ \A v \in Preds(b) : <<Source(v), b>> \in SeenEdges
      /\ \A u : <<u, b>> \in SeenEdges => \E v \in Preds(b) : Source(v) = u
  BY <1>0, SourceFacts
<1>4. b # Entry
  <2>1. b \in succ[p]
    BY DEF Preds
  <2>. QED  BY <1>0, <1>1, <2>1, GraphFacts DEF Preds, Types
<1>5. \A u : <<u, b>> \in SeenEdges => u = p
  BY <1>2, <1>3 DEF Source
<1>6. p # b
  <2>1. <<dt.parent[b], b>> \in SeenEdges /\ dt.parent[b] # b
    BY <1>1, <1>4, ParentFacts
  <2>. QED  BY <1>5, <2>1
<1>7. Dom(Seen, p, b)
  <2>1. CASE p = Entry
    BY <1>1, <2>1 DEF Dom
  <2>2. CASE p # Entry
    <3>1. PICK S : S = Reached \ {b, p}
      OBVIOUS
    <3>2. Around(Seen, p, S)
      BY <1>1, <1>4, <1>5, <2>2, <3>1 DEF Around
    <3>. QED  BY <1>1, <3>1, <3>2 DEF Dom
  <2>. QED  BY <2>1, <2>2
<1>. QED  BY <1>6, <1>7

\* FrontiersCoverJoins: the frontiers, iterated, have each block where what a
\* block dominates ends, for every graph.
THEOREM JoinsAreCovered == Spec => []FrontiersCoverJoins
<1>1. ASSUME Known, Joining, pc = "edges" PROVE CoversEdges(Seen, LiveEdges, front)
  <2>1. /\ IsTree(Seen) /\ Seen.nodes = Reached /\ Reached \subseteq Blocks /\ None \notin Reached
        /\ \A b \in Reached \ {Entry} : dt.idom[b] \in Reached
    BY <1>1, TreeDone
  <2>2. \A b \in Blocks : \A p \in Runners(b) \cap Reached : Joined(b, p)
    BY <1>1 DEF Joining
  <2> SUFFICES ASSUME NEW c \in Reached, NEW p \in Reached, NEW b \in Reached, <<p, b>> \in LiveEdges,
                      Dom(Seen, c, p), ~(c # b /\ Dom(Seen, c, b))
               PROVE  b \in front[c]
    BY <2>1 DEF CoversEdges
  <2>3. b \in succ[p] /\ p \in Preds(b) /\ b # Entry
    <3>1. b \in succ[p]
      BY DEF LiveEdges, Edges
    <3>. QED  BY <1>1, <2>1, <3>1, GraphFacts DEF Preds, Known, Types
  <2>4. CASE Cardinality(Preds(b)) >= 2
    <3>1. p \in Runners(b)
      BY <2>1, <2>3, <2>4 DEF Runners
    <3>2. Joined(b, p)
      BY <2>1, <2>2, <3>1
    <3>. QED  BY <1>1, <3>2 DEF Joined
  <2>5. CASE ~(Cardinality(Preds(b)) >= 2)
    <3>1. Dom(Seen, p, b) /\ p # b
      BY <1>1, <2>3, <2>5, OnlyPredecessor
    <3>2. Dom(Seen, c, b)
      BY <2>1, <3>1, DomTransitive
    <3>. QED  BY <2>1, <3>1, <3>2, DomAntisymmetric
  <2>. QED  BY <2>4, <2>5
<1>2. Known /\ Joining => FrontiersCoverJoins
  <2> SUFFICES ASSUME Known, Joining, pc = "edges", NEW a \in Live,
                      NEW y \in FrontierOf({e \in Edges : e[1] \in Live}, Entry, a)
               PROVE  y \in Closure({e \in Blocks \X Blocks : e[2] \in front[e[1]]}, front[a], {})
    BY DEF FrontiersCoverJoins
  <2>1. Types /\ Walks
    BY DEF Known
  <2>2. /\ Live = Reached /\ IsTree(Runs) /\ IsFiniteSet(LiveEdges) /\ LiveEdges \subseteq SeenEdges
    BY <2>1, AfterWalk
  <2>3. /\ IsTree(Seen) /\ Seen.nodes = Reached /\ Seen.root = Entry /\ Seen.edges = SeenEdges
        /\ Runs.nodes = Reached /\ Runs.root = Entry /\ Runs.edges = LiveEdges
        /\ Reached \subseteq Blocks
    BY <2>1, TreeFacts DEF Runs, TreeOf, Reached
  <2>4. {e \in Edges : e[1] \in Live} = LiveEdges
    BY <2>2 DEF LiveEdges
  <2>5. \A v : v \in DominatedBy(LiveEdges, Entry, a) <=> v \in Reached /\ Dom(Runs, a, v)
    BY <2>2, <2>3, DominatedIsDom
  <2>6. PICK e \in LiveEdges : e[1] \in DominatedBy(LiveEdges, Entry, a) /\ e[2] = y
                               /\ (y \notin DominatedBy(LiveEdges, Entry, a) \/ y = a)
    BY <2>4 DEF FrontierOf
  <2>7. PICK x : x = e[1]
    OBVIOUS
  <2>8. <<x, y>> \in LiveEdges /\ y \in Reached
    <3>1. LiveEdges \subseteq Reached \X Reached
      BY <2>2, <2>3 DEF IsTree
    <3>. QED  BY <2>6, <2>7, <3>1
  <2>9. Dom(Runs, a, x) /\ (~Dom(Runs, a, y) \/ y = a)
    BY <2>5, <2>6, <2>7, <2>8
  <2>10. PICK F : F = {d \in Blocks \X Blocks : d[2] \in front[d[1]]}
    OBVIOUS
  <2>11. PICK D : D = Closure(F, front[a], {})
    OBVIOUS
  <2>12. /\ front \in [Blocks -> SUBSET Blocks] /\ IsFiniteSet(Blocks) /\ a \in Blocks
    BY <2>1, <2>2, <2>3, GraphFacts DEF Types
  <2>13. front[a] \subseteq D /\ D \subseteq Blocks /\ IsClosed(F, {}, D)
    <3>1. F \subseteq Blocks \X Blocks /\ front[a] \in SUBSET Blocks
      BY <2>10, <2>12
    <3>2. IsFiniteSet(F)
      BY <2>12, <3>1, FS_Product, FS_Subset
    <3>. QED  BY <2>11, <3>1, <3>2, ClosureIsClosed
  <2>14. ASSUME NEW v \in D, NEW z \in front[v] PROVE z \in D
    <3>1. <<v, z>> \in F
      BY <2>10, <2>12, <2>13
    <3>. QED  BY <2>13, <3>1 DEF IsClosed
  <2>15. CoversEdges(Seen, LiveEdges, front)
    BY <1>1
  <2>16. \A v \in D \cap Runs.nodes : front[v] \subseteq D
    BY <2>14
  <2>17. y \in D
    BY <2>2, <2>3, <2>8, <2>9, <2>13, <2>15, <2>16, JoinsCovered
  <2>. QED  BY <2>10, <2>11, <2>17
<1>3. Init => Joining
  BY DEF Init, Joining
<1>4. Known /\ Known' /\ Joining /\ [Next]_vars => Joining'
  BY JoiningNext
<1>. QED  BY <1>2, <1>3, <1>4, KnownInvariant, PTL DEF Spec

-----------------------------------------------------------------------------
(* The loops. *)

\* A loop stays collected when its blocks and what is unfinished stay.
LEMMA CollectedKept ==
  ASSUME UNCHANGED <<succ, dt>>, NEW k, Collected(k), Unfinished(k)' = Unfinished(k),
         loops'[k].header = loops[k].header, loops'[k].latch = loops[k].latch,
         loops'[k].blocks = loops[k].blocks
  PROVE  Collected(k)'
<1>1. Blocks' = Blocks /\ Edges' = Edges /\ \A b : Preds(b)' = Preds(b)
  BY GraphFixed
<1>. QED  BY <1>1 DEF Collected, BackEdge

\* A block that can reach the latch makes its predecessor one that can.
LEMMA ReachesLatch ==
  ASSUME Types, NEW h, NEW l, NEW x, NEW b \in Blocks, x \in Preds(b), b # h,
         l \in Closure(Edges, {b}, {h})
  PROVE  l \in Closure(Edges, {x}, {h})
<1>1. Edges \subseteq Blocks \X Blocks /\ IsFiniteSet(Edges) /\ <<x, b>> \in Edges
      /\ {x} \in SUBSET Blocks /\ {b} \in SUBSET Blocks
  BY EdgeFacts
<1>2. PICK C : C = Closure(Edges, {x}, {h})
  OBVIOUS
<1>3. {x} \subseteq C /\ IsClosed(Edges, {h}, C)
  BY <1>1, <1>2, ClosureIsClosed
<1>4. {b} \subseteq C
  BY <1>1, <1>3 DEF IsClosed
<1>5. Closure(Edges, {b}, {h}) \subseteq C
  BY <1>1, <1>3, <1>4, ClosureLeast
<1>. QED  BY <1>2, <1>5

LEMMA CollectingFindEdge ==
  ASSUME Types, Counting, Collecting, FindEdge
  PROVE  Collecting'
<1>1. pc = "edges" /\ pc' = "edges" /\ UNCHANGED <<succ, dt, i>>
  BY DEF FindEdge
<1>2. PICK b \in work :
        /\ loops' = IF b = i THEN Append(loops, NewLoop(i, i)) ELSE loops
        /\ calls' = IF b # i /\ Dominates(b, i) THEN Append(calls, <<b, i>>) ELSE calls
  BY DEF FindEdge
<1>3. b \in Blocks /\ i \in Blocks
  BY <1>1, <1>2, GraphFacts, MapFacts DEF Types, Counting
<1>4. /\ Blocks' = Blocks /\ \A h, l : BackEdge(h, l)' <=> BackEdge(h, l)
      /\ NewLoops' = NewLoops
  BY <1>1, GraphFixed DEF BackEdge, NewLoops
<1>5. /\ calls \in Seq(Blocks \X Blocks) /\ loops \in Seq(NewLoops)
      /\ \A k \in DOMAIN calls : BackEdge(calls[k][1], calls[k][2])
      /\ \A k \in DOMAIN loops :
           DOMAIN loops[k] = {"header", "latch", "blocks", "children", "nested", "depth"} /\ Collected(k)
  BY <1>1 DEF Types, Collecting
<1>6. \A k \in DOMAIN calls' : BackEdge(calls'[k][1], calls'[k][2])
  <2>1. CASE b # i /\ Dominates(b, i)
    <3>1. PICK e : e = <<b, i>>
      OBVIOUS
    <3>2. e \in Blocks \X Blocks /\ e[1] = b /\ e[2] = i /\ BackEdge(b, i)
      BY <1>3, <2>1, <3>1 DEF BackEdge, Dominates
    <3>3. calls' = Append(calls, e)
      BY <1>2, <2>1, <3>1
    <3>4. \A k \in DOMAIN calls' : (k \in DOMAIN calls /\ calls'[k] = calls[k]) \/ calls'[k] = e
      BY <1>5, <3>2, <3>3
    <3>. QED  BY <1>5, <3>2, <3>4
  <2>2. CASE ~(b # i /\ Dominates(b, i))
    BY <1>2, <1>5, <2>2
  <2>. QED  BY <2>1, <2>2
<1>7. /\ loops' \in Seq(NewLoops)
      /\ \A k \in DOMAIN loops' :
           DOMAIN loops'[k] = {"header", "latch", "blocks", "children", "nested", "depth"} /\ Collected(k)'
  <2>1. ASSUME NEW k \in DOMAIN loops, loops'[k] = loops[k]
        PROVE  DOMAIN loops'[k] = {"header", "latch", "blocks", "children", "nested", "depth"} /\ Collected(k)'
    <3>1. Unfinished(k)' = Unfinished(k)
      BY <1>1 DEF Unfinished
    <3>. QED  BY <1>1, <1>5, <2>1, <3>1, CollectedKept
  <2>2. CASE b = i
    <3>1. PICK l : l = NewLoop(i, i)
      OBVIOUS
    <3>2. /\ l \in NewLoops /\ l.header = i /\ l.latch = i /\ l.blocks = {i}
          /\ DOMAIN l = {"header", "latch", "blocks", "children", "nested", "depth"}
      BY <1>3, <3>1 DEF NewLoop, NewLoops
    <3>3. loops' = Append(loops, l)
      BY <1>2, <2>2, <3>1
    <3>4. /\ loops' \in Seq(NewLoops)
          /\ \A k \in DOMAIN loops' : (k \in DOMAIN loops /\ loops'[k] = loops[k]) \/ loops'[k] = l
      BY <1>5, <3>2, <3>3
    <3>5. ASSUME NEW k \in DOMAIN loops', loops'[k] = l PROVE Collected(k)'
      BY <1>3, <1>4, <3>2, <3>5 DEF Collected
    <3>. QED  BY <2>1, <3>2, <3>4, <3>5
  <2>3. CASE b # i
    BY <1>2, <1>5, <2>1, <2>3
  <2>. QED  BY <2>2, <2>3
<1>. QED  BY <1>1, <1>4, <1>6, <1>7 DEF Collecting

LEMMA CollectingStartBody ==
  ASSUME Types, Collecting, StartBody
  PROVE  Collecting'
<1>1. /\ pc = "body" /\ pc' = "body" /\ work = {} /\ calls # <<>> /\ calls' = Tail(calls)
      /\ UNCHANGED <<succ, dt>>
  BY DEF StartBody
<1>h. PICK h : h = Head(calls)[1]
  OBVIOUS
<1>t. PICK t : t = Head(calls)[2]
  OBVIOUS
<1>l. PICK l : l = NewLoop(h, t)
  OBVIOUS
<1>2. loops' = Append(loops, l) /\ work' = {t}
  BY <1>h, <1>t, <1>l DEF StartBody
<1>3. /\ calls \in Seq(Blocks \X Blocks) /\ loops \in Seq(NewLoops)
      /\ \A k \in DOMAIN calls : BackEdge(calls[k][1], calls[k][2])
      /\ \A k \in DOMAIN loops :
           DOMAIN loops[k] = {"header", "latch", "blocks", "children", "nested", "depth"} /\ Collected(k)
  BY <1>1 DEF Types, Collecting
<1>4. /\ Blocks' = Blocks /\ Edges' = Edges /\ NewLoops' = NewLoops
      /\ \A x, y : BackEdge(x, y)' <=> BackEdge(x, y)
  BY <1>1, GraphFixed DEF BackEdge, NewLoops
<1>5. BackEdge(h, t) /\ h \in Blocks /\ t \in Blocks /\ h # t
  <2>1. 1 \in DOMAIN calls /\ Head(calls) = calls[1]
    BY <1>1, <1>3
  <2>. QED  BY <1>3, <1>h, <1>t, <2>1 DEF BackEdge
<1>6. \A k \in DOMAIN calls' : BackEdge(calls'[k][1], calls'[k][2])
  <2>1. \A k \in DOMAIN calls' : k + 1 \in DOMAIN calls /\ calls'[k] = calls[k + 1]
    BY <1>1, <1>3
  <2>. QED  BY <1>3, <2>1
<1>7. /\ l \in NewLoops /\ l.header = h /\ l.latch = t /\ l.blocks = {h, t}
      /\ DOMAIN l = {"header", "latch", "blocks", "children", "nested", "depth"}
  BY <1>5, <1>l DEF NewLoop, NewLoops
<1>8. /\ loops' \in Seq(NewLoops) /\ loops' # <<>> /\ loops'[Len(loops')] = l
      /\ \A k \in DOMAIN loops' : \/ k \in DOMAIN loops /\ loops'[k] = loops[k] /\ k # Len(loops')
                                  \/ k = Len(loops') /\ loops'[k] = l
  BY <1>2, <1>3, <1>7
<1>9. ASSUME NEW k \in DOMAIN loops, loops'[k] = loops[k], k # Len(loops')
      PROVE  Collected(k)'
  <2>1. Unfinished(k)' = Unfinished(k)
    BY <1>1, <1>9 DEF Unfinished
  <2>. QED  BY <1>1, <1>3, <1>9, <2>1, CollectedKept
<1>10. ASSUME NEW k, k = Len(loops'), loops'[k] = l PROVE Collected(k)'
  <2>1. t \in Closure(Edges, {t}, {h})
    <3>1. {t} \in SUBSET Blocks
      BY <1>5
    <3>2. {t} \subseteq Closure(Edges, {t}, {h})
      BY <3>1, EdgeFacts, ClosureIsClosed
    <3>. QED  BY <3>2
  <2>2. Unfinished(k)' = {t}
    BY <1>1, <1>2, <1>10 DEF Unfinished
  <2>. QED  BY <1>4, <1>5, <1>7, <1>10, <2>1, <2>2 DEF Collected
<1>11. \A k \in DOMAIN loops' :
         DOMAIN loops'[k] = {"header", "latch", "blocks", "children", "nested", "depth"} /\ Collected(k)'
  BY <1>3, <1>7, <1>8, <1>9, <1>10
<1>12. l.latch # l.header /\ work' \subseteq l.blocks \ {l.header}
  BY <1>2, <1>5, <1>7
<1>. QED  BY <1>1, <1>4, <1>6, <1>8, <1>11, <1>12 DEF Collecting

LEMMA CollectingGrowBody ==
  ASSUME Types, Collecting, GrowBody
  PROVE  Collecting'
<1>1. pc = "body" /\ pc' = "body" /\ UNCHANGED <<succ, dt, calls>>
  BY DEF GrowBody
<1>n. PICK n : n = Len(loops)
  OBVIOUS
<1>2. PICK b \in work :
        /\ loops' = [loops EXCEPT ![n].blocks = @ \cup (Preds(b) \ loops[n].blocks)]
        /\ work' = (work \ {b}) \cup ((Preds(b) \ loops[n].blocks) \ {loops[n].header})
  BY <1>n DEF GrowBody
<1>3. /\ loops \in Seq(NewLoops) /\ loops # <<>>
      /\ loops[n].latch # loops[n].header /\ work \subseteq loops[n].blocks \ {loops[n].header}
      /\ \A k \in DOMAIN calls : BackEdge(calls[k][1], calls[k][2])
      /\ \A k \in DOMAIN loops :
           DOMAIN loops[k] = {"header", "latch", "blocks", "children", "nested", "depth"} /\ Collected(k)
  BY <1>1, <1>2, <1>n DEF Collecting
<1>4. /\ Blocks' = Blocks /\ Edges' = Edges /\ NewLoops' = NewLoops /\ \A x : Preds(x)' = Preds(x)
      /\ \A x, y : BackEdge(x, y)' <=> BackEdge(x, y)
  BY <1>1, GraphFixed DEF BackEdge, NewLoops
<1>5. n \in DOMAIN loops /\ loops[n] \in NewLoops /\ Len(loops) \in Nat
  BY <1>3, <1>n
<1>l. PICK l : l = loops[n]
  OBVIOUS
<1>m. PICK m : m = [l EXCEPT !.blocks = @ \cup (Preds(b) \ l.blocks)]
  OBVIOUS
<1>6. /\ m \in NewLoops /\ m.header = l.header /\ m.latch = l.latch /\ m.blocks = l.blocks \cup Preds(b)
      /\ DOMAIN m = {"header", "latch", "blocks", "children", "nested", "depth"}
  <2>1. Preds(b) \subseteq Blocks
    BY DEF Preds
  <2>. QED  BY <1>5, <1>l, <1>m, <2>1 DEF NewLoops
<1>7. loops' = [loops EXCEPT ![n] = m]
  BY <1>2, <1>l, <1>m
<1>8. /\ loops' \in Seq(NewLoops) /\ Len(loops') = n /\ DOMAIN loops' = DOMAIN loops /\ loops' # <<>>
      /\ loops'[n] = m /\ \A k \in DOMAIN loops : k # n => loops'[k] = loops[k]
  BY <1>3, <1>5, <1>6, <1>7, <1>n
<1>9. ASSUME NEW k \in DOMAIN loops, k # n PROVE Collected(k)'
  <2>1. Unfinished(k)' = Unfinished(k)
    BY <1>8, <1>9, <1>n DEF Unfinished
  <2>. QED  BY <1>1, <1>3, <1>8, <1>9, <2>1, CollectedKept
<1>10. work' \subseteq m.blocks \ {m.header}
  BY <1>2, <1>3, <1>6, <1>l
<1>11. Collected(n)'
  <2>1. /\ l.header \in l.blocks /\ l.latch \in l.blocks /\ l.blocks \subseteq Blocks
        /\ BackEdge(l.header, l.latch)
        /\ \A x \in l.blocks \ {l.header} :
             /\ l.latch \in Closure(Edges, {x}, {l.header})
             /\ x \in work \/ Preds(x) \subseteq l.blocks
    BY <1>1, <1>3, <1>5, <1>l, <1>n DEF Collected, Unfinished
  <2>2. Preds(b) \subseteq Blocks /\ b \in l.blocks \ {l.header}
    BY <1>2, <1>3, <1>l DEF Preds
  <2>3. ASSUME NEW x \in m.blocks \ {m.header}
        PROVE  l.latch \in Closure(Edges, {x}, {l.header}) /\ (x \in work' \/ Preds(x) \subseteq m.blocks)
    <3>1. CASE x \in l.blocks
      BY <1>2, <1>6, <2>1, <2>3, <3>1
    <3>2. CASE x \notin l.blocks
      <4>1. x \in Preds(b) /\ x \in work'
        BY <1>2, <1>6, <1>l, <2>3, <3>2
      <4>2. l.latch \in Closure(Edges, {x}, {l.header})
        BY <2>1, <2>2, <4>1, ReachesLatch
      <4>. QED  BY <4>1, <4>2
    <3>. QED  BY <3>1, <3>2
  <2>4. Unfinished(n)' = work'
    BY <1>1, <1>8 DEF Unfinished
  <2>5. m.header \in m.blocks /\ m.latch \in m.blocks /\ m.blocks \subseteq Blocks /\ m.latch # m.header
    BY <1>3, <1>6, <1>l, <2>1, <2>2
  <2>. QED  BY <1>4, <1>6, <1>8, <2>1, <2>3, <2>4, <2>5 DEF Collected
<1>12. \A k \in DOMAIN loops' :
         DOMAIN loops'[k] = {"header", "latch", "blocks", "children", "nested", "depth"} /\ Collected(k)'
  BY <1>3, <1>6, <1>8, <1>9, <1>11
<1>13. m.latch # m.header
  BY <1>3, <1>6, <1>l
<1>. QED  BY <1>1, <1>3, <1>4, <1>8, <1>10, <1>12, <1>13 DEF Collecting

\* Steps after which each loop has the header, latch and blocks it had.
LEMMA CollectingSame ==
  ASSUME Collecting, UNCHANGED <<succ, dt>>, pc' \in {"depth", "done"}, pc = "body" => work = {},
         DOMAIN loops' = DOMAIN loops,
         \A k \in DOMAIN loops :
           /\ DOMAIN loops'[k] = DOMAIN loops[k] /\ loops'[k].header = loops[k].header
           /\ loops'[k].latch = loops[k].latch /\ loops'[k].blocks = loops[k].blocks
  PROVE  Collecting'
<1>1. ASSUME NEW k \in DOMAIN loops
      PROVE  /\ DOMAIN loops'[k] = {"header", "latch", "blocks", "children", "nested", "depth"}
             /\ Collected(k)'
  <2>1. /\ DOMAIN loops[k] = {"header", "latch", "blocks", "children", "nested", "depth"}
        /\ Collected(k)
    BY DEF Collecting
  <2>2. Unfinished(k)' = Unfinished(k)
    BY DEF Unfinished
  <2>. QED  BY <2>1, <2>2, CollectedKept
<1>. QED  BY <1>1 DEF Collecting

LEMMA CollectingNext ==
  ASSUME Types, Counting, Collecting, [Next]_vars
  PROVE  Collecting'
<1>1. CASE \/ Walk \/ Walked \/ StartVertex \/ Eval \/ Compress \/ Shorten \/ Semi \/ Link \/ Idom
           \/ ClearBucket \/ StartCorrect \/ Correct \/ Corrected \/ NextBlock \/ StartRunner \/ Run
  <2>1. /\ pc \in {"walk", "semi", "preds", "bucket", "correct", "front"} /\ UNCHANGED loops
        /\ pc' \in {"walk", "semi", "preds", "bucket", "correct", "front"}
    BY <1>1 DEF Walk, Walked, StartVertex, Eval, Compress, Shorten, Semi, Link, Idom, ClearBucket,
                StartCorrect, Correct, Corrected, NextBlock, StartRunner, Run
  <2>2. loops' = <<>>
    BY <2>1 DEF Collecting
  <2>. QED  BY <2>1, <2>2 DEF Collecting
<1>2. CASE Frontiers
  <2>1. pc = "front" /\ pc' = "edges" /\ UNCHANGED <<loops, calls>>
    BY <1>2 DEF Frontiers
  <2>2. loops' = <<>> /\ calls' = <<>>
    BY <2>1 DEF Collecting, Counting
  <2>. QED  BY <2>1, <2>2 DEF Collecting
<1>3. CASE NextEdges \/ EdgesFound \/ UNCHANGED vars
  <2>1. /\ UNCHANGED <<succ, dt, loops, calls>>
        /\ \/ pc = "edges" /\ pc' = "edges"
           \/ pc = "edges" /\ pc' = "body" /\ work' = {}
           \/ UNCHANGED <<pc, work>>
    BY <1>3 DEF NextEdges, EdgesFound, vars
  <2>2. Blocks' = Blocks /\ NewLoops' = NewLoops /\ \A h, l : BackEdge(h, l)' <=> BackEdge(h, l)
    BY <2>1, GraphFixed DEF NewLoops, BackEdge
  <2>3. ASSUME NEW k \in DOMAIN loops PROVE Collected(k)'
    <3>1. Unfinished(k)' = Unfinished(k)
      BY <2>1 DEF Unfinished
    <3>2. Collected(k)
      BY DEF Collecting
    <3>. QED  BY <2>1, <3>1, <3>2, CollectedKept
  <2>. QED  BY <2>1, <2>2, <2>3 DEF Collecting
<1>4. CASE FindEdge
  BY <1>4, CollectingFindEdge
<1>5. CASE StartBody
  BY <1>5, CollectingStartBody
<1>6. CASE GrowBody
  BY <1>6, CollectingGrowBody
<1>7. CASE Nest
  <2>1. /\ pc = "body" /\ work = {} /\ pc' = "depth" /\ UNCHANGED <<succ, dt>>
        /\ loops' = [m \in DOMAIN loops |->
                       [loops[m] EXCEPT !.children = Children(m),
                                        !.nested = \E n \in DOMAIN loops : Nested(n, m)]]
    BY <1>7 DEF Nest
  <2>2. \A k \in DOMAIN loops : DOMAIN loops[k] = {"header", "latch", "blocks", "children", "nested", "depth"}
    BY DEF Collecting
  <2>. QED  BY <2>1, <2>2, CollectingSame
<1>8. CASE PropagateDepth
  <2>1. /\ pc = "depth" /\ pc' = "depth" /\ UNCHANGED <<succ, dt>>
        /\ loops' = [loops EXCEPT ![Head(calls)[1]].depth = Head(calls)[2]]
    BY <1>8 DEF PropagateDepth
  <2>2. PICK m : m = Head(calls)[1]
    OBVIOUS
  <2>3. PICK r : r = [loops[m] EXCEPT !.depth = Head(calls)[2]]
    OBVIOUS
  <2>4. loops' = [loops EXCEPT ![m] = r]
    BY <2>1, <2>2, <2>3
  <2>5. m \in DOMAIN loops => /\ DOMAIN r = DOMAIN loops[m] /\ r.header = loops[m].header
                              /\ r.latch = loops[m].latch /\ r.blocks = loops[m].blocks
    <3>1. m \in DOMAIN loops =>
            DOMAIN loops[m] = {"header", "latch", "blocks", "children", "nested", "depth"}
      BY DEF Collecting
    <3>. QED  BY <2>3, <3>1
  <2>6. \A k \in DOMAIN loops : loops'[k] = loops[k] \/ (k = m /\ loops'[k] = r)
    BY <2>4
  <2>7. DOMAIN loops' = DOMAIN loops
    BY <2>4
  <2>. QED  BY <2>1, <2>5, <2>6, <2>7, CollectingSame
<1>9. CASE Done
  BY <1>9, CollectingSame DEF Done
<1>. QED  BY <1>1, <1>2, <1>3, <1>4, <1>5, <1>6, <1>7, <1>8, <1>9 DEF Next

\* What runs is dominated with all edges when it is with those on which the
\* function runs.
LEMMA DominatedLive ==
  ASSUME Known, pc \notin {"walk"}, NEW d, NEW b \in Reached, Dom(Runs, d, b)
  PROVE  b \in DominatedBy(Edges, Entry, d)
<1>0. Types /\ Walks
  BY DEF Known
<1>1. /\ Live = Reached /\ IsTree(Runs) /\ IsFiniteSet(LiveEdges)
      /\ \A a \in Reached : succ[a] \subseteq Reached
      /\ Runs.nodes = Reached /\ Runs.root = Entry /\ Runs.edges = LiveEdges
      /\ Entry \in Reached /\ Reached \subseteq Blocks
  BY <1>0, AfterWalk, TreeFacts DEF Runs, TreeOf, Reached
<1>2. Edges \subseteq Blocks \X Blocks /\ IsFiniteSet(Edges) /\ LiveEdges \subseteq Edges
      /\ \A e \in Edges : e[1] \in Reached <=> e \in LiveEdges
  BY <1>0, EdgeFacts DEF LiveEdges
<1>3. IsClosed(Edges, {}, Reached)
  <2>1. \A e \in Edges : e[2] \in succ[e[1]]
    BY DEF Edges
  <2>. QED  BY <1>1, <2>1 DEF IsClosed
<1>4. \A avoid : Closure(Edges, {Entry}, avoid) = Closure(LiveEdges, {Entry}, avoid)
  <2>1. EdgesFrom(Blocks, Edges, Reached, LiveEdges)
    BY <1>2, <1>3 DEF EdgesFrom
  <2>2. {Entry} \subseteq Blocks /\ {Entry} \subseteq Reached
    BY <1>1
  <2>. QED  BY <2>1, <2>2, ClosureOfReached
<1>5. b \in DominatedBy(LiveEdges, Entry, d)
  BY <1>1, DominatedIsDom
<1>. QED  BY <1>4, <1>5 DEF DominatedBy

\* What can reach the latch without the header is dominated by the header when
\* it runs.
LEMMA BodyUnder ==
  ASSUME Known, pc \in {"body", "depth", "done"}, NEW h, NEW l, BackEdge(h, l),
         NEW b \in Reached, b = h \/ l \in Closure(Edges, {b}, {h})
  PROVE  h \in Reached /\ Dom(Runs, h, b)
<1>0. Types /\ Walks
  BY DEF Known
<1>1. /\ IsTree(Runs) /\ LiveEdges \subseteq SeenEdges
      /\ Runs.nodes = Reached /\ Runs.root = Entry /\ Runs.edges = LiveEdges
      /\ Seen.nodes = Reached /\ Seen.root = Entry /\ Seen.edges = SeenEdges
      /\ Entry \in Reached /\ Reached \subseteq Blocks
  BY <1>0, AfterWalk, TreeFacts DEF Runs, TreeOf, Reached
<1>2. h \in Blocks /\ l \in Blocks /\ h # None /\ dt.idom[l] = h
  BY <1>0, GraphFacts DEF BackEdge, Types
<1>3. l \in Reached \ {Entry}
  BY <1>2, TreeDone DEF Labels
<1>4. h \in Reached /\ Dom(Seen, h, l)
  BY <1>2, <1>3, TreeDone DEF IsIdom
<1>5. CASE h = Entry
  BY <1>1, <1>4, <1>5 DEF Dom
<1>6. CASE b = h
  BY <1>1, <1>4, <1>6, DomSelf
<1>7. CASE h # Entry /\ l \in Closure(Edges, {b}, {h})
  <2>1. PICK S \in SUBSET Reached : Around(Seen, h, S) /\ l \notin S
    BY <1>1, <1>4, <1>7 DEF Dom
  <2>2. ASSUME b \in S PROVE FALSE
    <3>1. IsClosed(Edges, {h}, S)
      <4>. SUFFICES ASSUME NEW e \in Edges, e[1] \in S, e[2] \notin {h} PROVE e[2] \in S
        BY DEF IsClosed
      <4>1. e = <<e[1], e[2]>> /\ e[2] \in succ[e[1]] /\ e \in LiveEdges
        BY <2>1, EdgeFacts, <1>0 DEF LiveEdges, Edges
      <4>2. e[2] \in Reached
        BY <1>0, <2>1, <4>1, AfterWalk
      <4>. QED  BY <1>1, <2>1, <4>1, <4>2 DEF Around
    <3>2. {b} \in SUBSET Blocks /\ {b} \subseteq S
      BY <1>1, <2>2
    <3>3. Closure(Edges, {b}, {h}) \subseteq S
      BY <1>0, <3>1, <3>2, EdgeFacts, ClosureLeast
    <3>. QED  BY <1>7, <2>1, <3>3
  <2>3. Around(Runs, h, S)
    BY <1>1, <2>1 DEF Around
  <2>. QED  BY <1>1, <1>4, <2>1, <2>2, <2>3 DEF Dom
<1>. QED  BY <1>5, <1>6, <1>7

LEMMA BodyDominated ==
  ASSUME Known, pc \in {"body", "depth", "done"}, NEW h, NEW l, BackEdge(h, l),
         NEW b \in Reached, b = h \/ l \in Closure(Edges, {b}, {h})
  PROVE  b \in DominatedBy(Edges, Entry, h)
BY BodyUnder, DominatedLive

LEMMA CollectedNatural == Known /\ Collecting => NaturalLoops
<1> SUFFICES ASSUME Known, Collecting, NEW k \in DOMAIN loops,
                    pc \in {"depth", "done"} \/ (pc = "body" /\ (k < Len(loops) \/ work = {})),
                    NEW l, l = loops[k]
             PROVE  /\ l.blocks = NaturalLoop(l.header, l.latch)
                    /\ l.latch # l.header => l.blocks \cap Live \subseteq DominatedBy(Edges, Entry, l.header)
  BY DEF NaturalLoops
<1>0. Types /\ Walks
  BY DEF Known
<1>1. Unfinished(k) = {}
  <2>1. k < Len(loops) => k # Len(loops)
    <3>1. pc = "body" => Len(loops) \in Nat
      BY DEF Collecting
    <3>. QED  BY <3>1 DEF Unfinished
  <2>. QED  BY <2>1 DEF Unfinished
<1>2. /\ l.header \in l.blocks /\ l.latch \in l.blocks /\ l.blocks \subseteq Blocks
      /\ IF l.latch = l.header THEN l.blocks = {l.header} ELSE BackEdge(l.header, l.latch)
      /\ \A b \in l.blocks \ {l.header} :
           l.latch \in Closure(Edges, {b}, {l.header}) /\ Preds(b) \subseteq l.blocks
  BY <1>1 DEF Collecting, Collected
<1>3. ASSUME NEW b \in Blocks, l.latch # l.header, l.latch \in Closure(Edges, {b} \ {l.header}, {l.header})
      PROVE  b \in l.blocks
  <2>1. PICK C : C = Blocks \ l.blocks
    OBVIOUS
  <2>2. IsClosed(Edges, {l.header}, C)
    <3>. SUFFICES ASSUME NEW e \in Edges, e[1] \in C, e[2] \notin {l.header}, e[2] \notin C PROVE FALSE
      BY DEF IsClosed
    <3>1. e[1] \in Blocks /\ e[2] \in Blocks /\ e[1] \in Preds(e[2])
      BY DEF Edges, Preds
    <3>. QED  BY <1>2, <2>1, <3>1
  <2>3. ASSUME b \notin l.blocks PROVE FALSE
    <3>1. PICK from : from = {b} \ {l.header}
      OBVIOUS
    <3>2. from \in SUBSET Blocks /\ from \subseteq C
      BY <2>1, <2>3, <3>1
    <3>3. Closure(Edges, from, {l.header}) \subseteq C
      BY <1>0, <2>2, <3>2, EdgeFacts, ClosureLeast
    <3>. QED  BY <1>2, <1>3, <2>1, <3>1, <3>3
  <2>. QED  BY <2>3
<1>4. ASSUME NEW b \in l.blocks, b # l.header
      PROVE  b \in Blocks /\ l.latch # l.header
             /\ l.latch \in Closure(Edges, {b} \ {l.header}, {l.header})
  <2>1. {b} \ {l.header} = {b} /\ l.latch # l.header
    BY <1>2, <1>4
  <2>. QED  BY <1>2, <1>4, <2>1
<1>5. ASSUME l.latch # l.header, NEW b \in l.blocks \cap Live
      PROVE  b \in DominatedBy(Edges, Entry, l.header)
  <2>1. b \in Reached
    BY <1>0, <1>5, AfterWalk
  <2>. QED  BY <1>2, <1>5, <2>1, BodyDominated
<1>6. l.blocks = NaturalLoop(l.header, l.latch)
  BY <1>2, <1>3, <1>4 DEF NaturalLoop
<1>. QED  BY <1>5, <1>6

LEMMA CollectingInvariant == Spec => []Collecting
<1>1. Init => Collecting
  BY DEF Init, Collecting
<1>2. Known /\ Collecting /\ [Next]_vars => Collecting'
  BY CollectingNext DEF Known
<1>. QED  BY <1>1, <1>2, KnownInvariant, PTL DEF Spec

\* NaturalLoops: each loop has exactly what can reach its latch without its
\* header, and its header dominates what of it runs, for every graph.
THEOREM LoopsAreNatural == Spec => []NaturalLoops
BY CollectedNatural, CollectingInvariant, KnownInvariant, PTL

-----------------------------------------------------------------------------
(* The nesting of loops. *)

LEMMA InOrderFacts ==
  ASSUME NEW S \in SUBSET Nat, IsFiniteSet(S)
  PROVE  InOrder(S) \in Seq(S)
<1> DEFINE Below(n) == {m \in S : m < n}
           f == [n \in S |-> Cardinality(Below(n))]
           c == Cardinality(S)
           T == 0..c - 1
<1>1. c \in Nat
  BY FS_CardinalityType
<1>2. \A n \in S : IsFiniteSet(Below(n)) /\ Cardinality(Below(n)) \in Nat
  <2>. TAKE n \in S
  <2>1. Below(n) \subseteq S
    OBVIOUS
  <2>. QED  BY <2>1, FS_Subset, FS_CardinalityType
<1>3. \A n \in S : Cardinality(Below(n)) + 1 <= c
  <2>. TAKE n \in S
  <2>1. n \notin Below(n) /\ Below(n) \cup {n} \subseteq S
    OBVIOUS
  <2>2. Cardinality(Below(n) \cup {n}) = Cardinality(Below(n)) + 1
    BY <1>2, <2>1, FS_AddElement
  <2>. QED  BY <2>1, <2>2, FS_Subset
<1>4. \A n, m \in S : n < m => Cardinality(Below(n)) + 1 <= Cardinality(Below(m))
  <2>. SUFFICES ASSUME NEW n \in S, NEW m \in S, n < m
                PROVE  Cardinality(Below(n)) + 1 <= Cardinality(Below(m))
    OBVIOUS
  <2>1. n \notin Below(n) /\ Below(n) \cup {n} \subseteq Below(m)
    <3>1. ASSUME NEW x \in Below(n) PROVE x \in Below(m)
      <4>1. x \in Nat /\ n \in Nat /\ m \in Nat /\ x < n /\ x \in S
        OBVIOUS
      <4>. QED  BY <4>1
    <3>2. n \notin Below(n) /\ n \in Below(m)
      <4>1. n \in Nat
        OBVIOUS
      <4>. QED  BY <4>1
    <3> HIDE DEF Below
    <3>. QED  BY <3>1, <3>2
  <2>2. Cardinality(Below(n) \cup {n}) = Cardinality(Below(n)) + 1
    BY <1>2, <2>1, FS_AddElement
  <2>. QED  BY <1>2, <2>1, <2>2, FS_Subset
<1> HIDE DEF Below, c
<1>5. f \in [S -> T]
  BY <1>1, <1>2, <1>3
<1>6. f \in Injection(S, T)
  <2>1. ASSUME NEW n \in S, NEW m \in S, f[n] = f[m] PROVE n = m
    <3>1. ~(n < m) /\ ~(m < n)
      BY <1>2, <1>4, <2>1
    <3>2. n \in Nat /\ m \in Nat
      OBVIOUS
    <3>. QED  BY <3>1, <3>2
  <2>. QED  BY <1>5, <2>1 DEF Injection, IsInjective
<1>7. IsFiniteSet(T) /\ Cardinality(T) = c
  BY <1>1, FS_Interval
<1>8. f \in Surjection(S, T)
  BY <1>6, <1>7, FS_Injection DEF c
<1>9. ASSUME NEW k \in 1..c PROVE \E n \in S : Cardinality(Below(n)) = k - 1
  <2>1. k - 1 \in T
    BY <1>1, <1>9
  <2>2. PICK n \in S : f[n] = k - 1
    BY <1>8, <2>1 DEF Surjection
  <2>. QED  BY <2>2
<1> DEFINE g(k) == CHOOSE n \in S : Cardinality(Below(n)) = k - 1
<1>10. \A k \in 1..c : g(k) \in S
  BY <1>9
<1>11. InOrder(S) = [k \in 1..c |-> g(k)]
  BY DEF InOrder, c, Below
<1> HIDE DEF g
<1>. QED  BY <1>1, <1>10, <1>11

\* Steps that leave header and latch of the loops.
LEMMA ListedSame ==
  ASSUME Listed, UNCHANGED succ, pc' \in {"body", "depth", "done"}, DOMAIN loops' = DOMAIN loops,
         \A k \in DOMAIN loops :
           loops'[k].header = loops[k].header /\ loops'[k].latch = loops[k].latch,
         pc' = "body" => pc \in {"edges", "body"} /\ UNCHANGED calls
  PROVE  Listed'
BY DEF Listed

LEMMA ListedFindEdge ==
  ASSUME Types, Counting, Collecting, Listed, FindEdge
  PROVE  Listed'
<1>1. pc = "edges" /\ pc' = "edges" /\ UNCHANGED <<succ, dt, i>>
  BY DEF FindEdge
<1>2. PICK b \in work :
        /\ work' = work \ {b}
        /\ loops' = IF b = i THEN Append(loops, NewLoop(i, i)) ELSE loops
        /\ calls' = IF b # i /\ Dominates(b, i) THEN Append(calls, <<b, i>>) ELSE calls
  BY DEF FindEdge
<1>3. b \in Blocks /\ i \in Blocks /\ i # 0 /\ b \in succ[i] /\ i \in Nat /\ work \subseteq succ[i]
  BY <1>1, <1>2, GraphFacts, MapFacts DEF Types, Counting, Listed
<1>4. calls \in Seq(Blocks \X Blocks) /\ loops \in Seq(NewLoops)
  BY <1>1 DEF Types, Collecting
<1>5. /\ \A k \in DOMAIN loops : loops[k].header \in succ[loops[k].latch]
      /\ \A j, k \in DOMAIN loops :
           loops[j].header = loops[k].header /\ loops[j].latch = loops[k].latch => j = k
      /\ \A k \in DOMAIN calls : calls[k][1] \in succ[calls[k][2]]
      /\ \A j, k \in DOMAIN calls : calls[j] = calls[k] => j = k
      /\ \A k \in DOMAIN loops :
           /\ loops[k].latch = loops[k].header /\ loops[k].latch <= i
           /\ loops[k].latch = i => i \notin work
      /\ \A k \in DOMAIN calls :
           calls[k][2] <= i /\ (calls[k][2] = i => calls[k][1] \notin work)
      /\ \A j \in DOMAIN loops, k \in DOMAIN calls : calls[k] # <<loops[j].header, loops[j].latch>>
  BY <1>1 DEF Listed
<1>6. CASE b = i
  <2>1. PICK l : l = NewLoop(i, i)
    OBVIOUS
  <2>2. l \in NewLoops /\ l.header = i /\ l.latch = i
    BY <1>3, <2>1 DEF NewLoop, NewLoops
  <2>3. loops' = Append(loops, l) /\ UNCHANGED calls
    BY <1>2, <1>6, <2>1
  <2>4. \A k \in DOMAIN loops' : \/ k \in DOMAIN loops /\ k # Len(loops) + 1 /\ loops'[k] = loops[k]
                                 \/ k = Len(loops) + 1 /\ loops'[k] = l
    BY <1>4, <2>2, <2>3
  <2>5. \A k \in DOMAIN loops : loops[k].latch # i
    BY <1>2, <1>5, <1>6
  <2>6. \A k \in DOMAIN loops' : /\ loops'[k].header \in succ[loops'[k].latch]
                                 /\ loops'[k].latch = loops'[k].header /\ loops'[k].latch <= i
                                 /\ loops'[k].latch = i => i \notin work'
    BY <1>2, <1>3, <1>5, <1>6, <2>2, <2>4, <2>5
  <2>7. \A j, k \in DOMAIN loops' :
          loops'[j].header = loops'[k].header /\ loops'[j].latch = loops'[k].latch => j = k
    BY <1>5, <2>2, <2>4, <2>5
  <2>8. \A j \in DOMAIN loops', k \in DOMAIN calls : calls[k] # <<loops'[j].header, loops'[j].latch>>
    <3>1. \A k \in DOMAIN calls : calls[k][1] # calls[k][2]
      BY <1>1 DEF Collecting, BackEdge
    <3>. QED  BY <2>6, <3>1
  <2>. QED  BY <1>1, <1>2, <1>3, <1>5, <2>3, <2>6, <2>7, <2>8 DEF Listed
<1>7. CASE b # i /\ Dominates(b, i)
  <2>1. PICK e : e = <<b, i>>
    OBVIOUS
  <2>2. e \in Blocks \X Blocks /\ e[1] = b /\ e[2] = i
    BY <1>3, <2>1
  <2>3. calls' = Append(calls, e) /\ UNCHANGED loops
    BY <1>2, <1>7, <2>1
  <2>4. \A k \in DOMAIN calls' : \/ k \in DOMAIN calls /\ k # Len(calls) + 1 /\ calls'[k] = calls[k]
                                 \/ k = Len(calls) + 1 /\ calls'[k] = e
    BY <1>4, <2>2, <2>3
  <2>5. \A k \in DOMAIN calls : calls[k] # e
    BY <1>2, <1>5, <2>2
  <2>6. \A k \in DOMAIN calls' : /\ calls'[k][1] \in succ[calls'[k][2]] /\ calls'[k][2] <= i
                                 /\ calls'[k][2] = i => calls'[k][1] \notin work'
    BY <1>2, <1>3, <1>5, <2>2, <2>4
  <2>7. \A j, k \in DOMAIN calls' : calls'[j] = calls'[k] => j = k
    BY <1>5, <2>4, <2>5
  <2>8. \A j \in DOMAIN loops : e # <<loops[j].header, loops[j].latch>>
    BY <1>5, <1>7, <2>1
  <2>9. \A j \in DOMAIN loops, k \in DOMAIN calls' : calls'[k] # <<loops[j].header, loops[j].latch>>
    BY <1>5, <2>4, <2>8
  <2>. QED  BY <1>1, <1>2, <1>3, <1>5, <2>3, <2>6, <2>7, <2>9 DEF Listed
<1>8. CASE b # i /\ ~Dominates(b, i)
  BY <1>1, <1>2, <1>3, <1>5, <1>8 DEF Listed
<1>. QED  BY <1>6, <1>7, <1>8

LEMMA ListedStartBody ==
  ASSUME Types, Collecting, Listed, StartBody
  PROVE  Listed'
<1>1. pc = "body" /\ pc' = "body" /\ calls # <<>> /\ calls' = Tail(calls) /\ UNCHANGED succ
  BY DEF StartBody
<1>2. /\ calls \in Seq(Blocks \X Blocks) /\ loops \in Seq(NewLoops)
      /\ \A k \in DOMAIN calls : calls[k][1] \in succ[calls[k][2]]
      /\ \A j, k \in DOMAIN calls : calls[j] = calls[k] => j = k
      /\ \A j \in DOMAIN loops, k \in DOMAIN calls : calls[k] # <<loops[j].header, loops[j].latch>>
      /\ \A k \in DOMAIN loops : loops[k].header \in succ[loops[k].latch]
      /\ \A j, k \in DOMAIN loops :
           loops[j].header = loops[k].header /\ loops[j].latch = loops[k].latch => j = k
  BY <1>1 DEF Types, Collecting, Listed
<1>3. /\ 1 \in DOMAIN calls /\ Head(calls) = calls[1] /\ calls[1] \in Blocks \X Blocks
      /\ \A k \in DOMAIN calls' : k + 1 \in DOMAIN calls /\ k + 1 # 1 /\ calls'[k] = calls[k + 1]
                                  /\ k \in Nat
  BY <1>1, <1>2
<1>h. PICK h : h = calls[1][1]
  OBVIOUS
<1>t. PICK t : t = calls[1][2]
  OBVIOUS
<1>l. PICK l : l = NewLoop(h, t)
  OBVIOUS
<1>4. h \in Blocks /\ t \in Blocks /\ calls[1] = <<h, t>> /\ h \in succ[t]
  BY <1>2, <1>3, <1>h, <1>t
<1>5. loops' = Append(loops, l) /\ l \in NewLoops /\ l.header = h /\ l.latch = t
  BY <1>3, <1>4, <1>h, <1>t, <1>l DEF StartBody, NewLoop, NewLoops
<1>6. \A k \in DOMAIN loops' : \/ k \in DOMAIN loops /\ loops'[k] = loops[k]
                               \/ k = Len(loops) + 1 /\ loops'[k] = l
  BY <1>2, <1>5
<1>7. \A j \in DOMAIN loops : ~(loops[j].header = h /\ loops[j].latch = t)
  BY <1>2, <1>3, <1>4
<1>8. \A k \in DOMAIN calls' : calls'[k] # <<h, t>>
  BY <1>2, <1>3, <1>4
<1>9. \A k \in DOMAIN loops' : loops'[k].header \in succ[loops'[k].latch]
  BY <1>2, <1>4, <1>5, <1>6
<1>10. \A j, k \in DOMAIN loops' :
         loops'[j].header = loops'[k].header /\ loops'[j].latch = loops'[k].latch => j = k
  BY <1>2, <1>5, <1>6, <1>7
<1>11. /\ \A k \in DOMAIN calls' : calls'[k][1] \in succ[calls'[k][2]]
       /\ \A j, k \in DOMAIN calls' : calls'[j] = calls'[k] => j = k
  BY <1>2, <1>3
<1>12. \A j \in DOMAIN loops', k \in DOMAIN calls' :
         calls'[k] # <<loops'[j].header, loops'[j].latch>>
  BY <1>2, <1>3, <1>5, <1>6, <1>8
<1>. QED  BY <1>1, <1>9, <1>10, <1>11, <1>12 DEF Listed

LEMMA ListedNext ==
  ASSUME Types, Counting, Collecting, Listed, [Next]_vars
  PROVE  Listed'
<1>1. CASE \/ Walk \/ Walked \/ StartVertex \/ Eval \/ Compress \/ Shorten \/ Semi \/ Link \/ Idom
           \/ ClearBucket \/ StartCorrect \/ Correct \/ Corrected \/ NextBlock \/ StartRunner \/ Run
  <2>1. /\ pc \in {"walk", "semi", "preds", "bucket", "correct", "front"} /\ UNCHANGED loops
        /\ pc' \in {"walk", "semi", "preds", "bucket", "correct", "front"}
    BY <1>1 DEF Walk, Walked, StartVertex, Eval, Compress, Shorten, Semi, Link, Idom, ClearBucket,
                StartCorrect, Correct, Corrected, NextBlock, StartRunner, Run
  <2>2. loops' = <<>>
    BY <2>1 DEF Collecting
  <2>. QED  BY <2>1, <2>2 DEF Listed
<1>2. CASE Frontiers
  <2>1. pc = "front" /\ pc' = "edges" /\ i' = 0 /\ UNCHANGED <<loops, calls>>
    BY <1>2 DEF Frontiers
  <2>2. loops' = <<>> /\ calls' = <<>>
    BY <2>1 DEF Collecting, Counting
  <2>. QED  BY <2>1, <2>2 DEF Listed
<1>3. CASE NextEdges
  <2>1. /\ pc = "edges" /\ pc' = "edges" /\ i' = i + 1 /\ work' = succ[i + 1]
        /\ UNCHANGED <<succ, loops, calls>>
    BY <1>3 DEF NextEdges
  <2>2. i \in Nat /\ loops \in Seq(NewLoops) /\ calls \in Seq(Blocks \X Blocks) /\ Blocks \subseteq Nat
    BY <2>1, GraphFacts DEF Types, Collecting
  <2>3. \A k \in DOMAIN loops : loops[k].latch \in Nat /\ loops[k].latch <= i /\ loops[k].latch = loops[k].header
    <3>1. \A k \in DOMAIN loops : loops[k] \in NewLoops
      BY <2>2
    <3>2. \A k \in DOMAIN loops : loops[k].latch \in Blocks
      BY <3>1 DEF NewLoops
    <3>. QED  BY <2>1, <2>2, <3>2 DEF Listed
  <2>4. \A k \in DOMAIN calls : calls[k][2] \in Nat /\ calls[k][2] <= i
    <3>1. \A k \in DOMAIN calls : calls[k] \in Blocks \X Blocks
      BY <2>2
    <3>2. \A k \in DOMAIN calls : calls[k][2] \in Blocks
      BY <3>1
    <3>. QED  BY <2>1, <2>2, <3>2 DEF Listed
  <2>5. \A n \in Nat : n <= i => n <= i + 1 /\ n # i + 1
    BY <2>2
  <2>. QED  BY <2>1, <2>3, <2>4, <2>5 DEF Listed
<1>4. CASE FindEdge
  BY <1>4, ListedFindEdge
<1>5. CASE StartBody
  BY <1>5, ListedStartBody
<1>6. CASE EdgesFound \/ Done
  BY <1>6, ListedSame DEF EdgesFound, Done
<1>7. CASE UNCHANGED vars
  BY <1>7 DEF vars, Listed
<1>8. CASE GrowBody
  <2>1. /\ pc = "body" /\ pc' = "body" /\ UNCHANGED <<succ, calls>>
        /\ \E b \in work : loops' = [loops EXCEPT ![Len(loops)].blocks
                                       = @ \cup (Preds(b) \ loops[Len(loops)].blocks)]
    BY <1>8 DEF GrowBody
  <2>2. loops \in Seq(NewLoops)
    BY <2>1 DEF Collecting
  <2>3. \A k \in DOMAIN loops : loops[k] \in NewLoops
    BY <2>2
  <2>4. DOMAIN loops' = DOMAIN loops /\ \A k \in DOMAIN loops :
           loops'[k].header = loops[k].header /\ loops'[k].latch = loops[k].latch
    BY <2>1, <2>3 DEF NewLoops
  <2>. QED  BY <2>1, <2>4, ListedSame
<1>9. CASE Nest
  <2>1. /\ pc' = "depth" /\ UNCHANGED succ
        /\ loops' = [m \in DOMAIN loops |->
                       [loops[m] EXCEPT !.children = Children(m),
                                        !.nested = \E n \in DOMAIN loops : Nested(n, m)]]
    BY <1>9 DEF Nest
  <2>2. \A k \in DOMAIN loops : DOMAIN loops[k] = {"header", "latch", "blocks", "children", "nested", "depth"}
    BY DEF Collecting
  <2>. QED  BY <2>1, <2>2, ListedSame
<1>10. CASE PropagateDepth
  <2>1. /\ pc' = "depth" /\ UNCHANGED succ
        /\ loops' = [loops EXCEPT ![Head(calls)[1]].depth = Head(calls)[2]]
    BY <1>10 DEF PropagateDepth
  <2>2. \A k \in DOMAIN loops : DOMAIN loops[k] = {"header", "latch", "blocks", "children", "nested", "depth"}
    BY DEF Collecting
  <2>. QED  BY <2>1, <2>2, ListedSame
<1>. QED  BY <1>1, <1>2, <1>3, <1>4, <1>5, <1>6, <1>7, <1>8, <1>9, <1>10 DEF Next

LEMMA OuterFinite ==
  ASSUME loops \in Seq(FinishedLoops), NEW n \in DOMAIN loops
  PROVE  /\ IsFiniteSet(Outer(n)) /\ Cardinality(Outer(n)) \in Nat
         /\ Cardinality(Outer(n)) < Len(loops)
<1>1. DOMAIN loops = 1..Len(loops) /\ Len(loops) \in Nat
  OBVIOUS
<1>2. IsFiniteSet(DOMAIN loops) /\ Cardinality(DOMAIN loops) = Len(loops)
  <2>1. 1 \in Int /\ Len(loops) \in Int
    BY <1>1
  <2>2. /\ IsFiniteSet(1..Len(loops))
        /\ Cardinality(1..Len(loops)) = IF 1 > Len(loops) THEN 0 ELSE Len(loops) - 1 + 1
    BY <2>1, FS_Interval
  <2>3. 1 > Len(loops) => Len(loops) = 0
    BY <1>1
  <2>4. Len(loops) - 1 + 1 = Len(loops)
    BY <1>1
  <2>. QED  BY <1>1, <2>2, <2>3, <2>4
<1>3. Outer(n) \subseteq DOMAIN loops \ {n}
  BY DEF Outer, Encloses
<1>4. IsFiniteSet(DOMAIN loops \ {n}) /\ Cardinality(DOMAIN loops \ {n}) = Len(loops) - 1
  BY <1>2, FS_RemoveElement
<1>5. IsFiniteSet(Outer(n)) /\ Cardinality(Outer(n)) <= Len(loops) - 1
  BY <1>3, <1>4, FS_Subset
<1>6. Cardinality(Outer(n)) \in Nat
  BY <1>5, FS_CardinalityType
<1>. QED  BY <1>1, <1>5, <1>6

\* The order of headers: a loop around another is outside of all it is outside of.
LEMMA EnclosesOrder ==
  ASSUME Known, pc # "walk", NEW f, NEW g, NEW h, Encloses(f, g), Encloses(g, h)
  PROVE  Encloses(f, h)
<1>1. IsTree(Runs) /\ Runs.nodes = Reached
  BY AfterWalk DEF Known, Runs, TreeOf, Reached
<1>2. /\ f \in Reached /\ f # g /\ Dom(Runs, f, g)
      /\ g \in Reached /\ g # h /\ (h \in Reached => Dom(Runs, g, h))
  BY DEF Encloses
<1>3. CASE h \in Reached
  <2>1. Dom(Runs, f, h)
    BY <1>1, <1>2, <1>3, DomTransitive
  <2>2. ASSUME f = h PROVE FALSE
    BY <1>1, <1>2, <1>3, <2>2, DomAntisymmetric
  <2>. QED  BY <1>2, <2>1, <2>2 DEF Encloses
<1>4. CASE h \notin Reached
  BY <1>2, <1>4 DEF Encloses
<1>. QED  BY <1>3, <1>4

\* A loop that contains the header of another one and has a header of its own.
LEMMA NestedEncloses ==
  ASSUME Known, Collecting, pc = "depth",
         NEW m \in DOMAIN loops, NEW n \in DOMAIN loops, Nested(m, n),
         loops[m].header # loops[n].header
  PROVE  /\ Encloses(loops[m].header, loops[n].header)
         /\ loops[m].latch # loops[m].header /\ BackEdge(loops[m].header, loops[m].latch)
<1>1. Collected(m) /\ loops[n].header \in loops[m].blocks
  BY DEF Collecting, Nested
<1>2. /\ loops[m].latch # loops[m].header /\ BackEdge(loops[m].header, loops[m].latch)
      /\ loops[m].latch \in Closure(Edges, {loops[n].header}, {loops[m].header})
  BY <1>1 DEF Collected
<1>3. loops[m].header \in Reached
  <2>1. loops[m].latch \in Reached \ {Entry} /\ dt.idom[loops[m].latch] = loops[m].header
    <3>1. loops[m].header # None /\ loops[m].latch \in Labels /\ dt.idom[loops[m].latch] = loops[m].header
      BY <1>2, GraphFacts DEF BackEdge, Labels, Known, Types
    <3>. QED  BY <3>1, TreeDone
  <2>. QED  BY <2>1, TreeDone
<1>4. loops[n].header \in Reached => Dom(Runs, loops[m].header, loops[n].header)
  BY <1>2, BodyUnder
<1>. QED  BY <1>2, <1>3, <1>4 DEF Encloses

\* What is listed is a back edge of the graph.
LEMMA ListedBackEdge ==
  ASSUME Known, Collecting, Listed, pc = "depth", NEW k \in DOMAIN loops
  PROVE  /\ loops[k].header \in Blocks /\ loops[k].latch \in Blocks
         /\ <<loops[k].latch, loops[k].header>> \in Edges
         /\ IsBackEdge(loops[k].latch, loops[k].header)
<1>1. Collected(k) /\ loops[k].header \in succ[loops[k].latch]
  BY DEF Collecting, Listed
<1>2. loops[k].header \in Blocks /\ loops[k].latch \in Blocks
  BY <1>1 DEF Collected
<1>3. <<loops[k].latch, loops[k].header>> \in Edges
  BY <1>1, <1>2, EdgeFacts DEF Known
<1>4. CASE loops[k].latch = loops[k].header
  BY <1>1, <1>2, <1>3, <1>4 DEF IsBackEdge
<1>5. CASE loops[k].latch # loops[k].header
  <2>1. BackEdge(loops[k].header, loops[k].latch)
    BY <1>1, <1>5 DEF Collected
  <2>2. loops[k].latch \in Reached \ {Entry} /\ dt.idom[loops[k].latch] = loops[k].header
    <3>1. loops[k].header # None /\ loops[k].latch \in Labels /\ dt.idom[loops[k].latch] = loops[k].header
      BY <2>1, GraphFacts DEF BackEdge, Labels, Known, Types
    <3>. QED  BY <3>1, TreeDone
  <2>3. IsParent(SeenEdges, Entry, loops[k].header, loops[k].latch)
    <3>1. IsIdom(Seen, loops[k].header, loops[k].latch)
      BY <2>2, TreeDone
    <3>2. IsTree(Seen) /\ Seen.nodes = Reached /\ Seen.root = Entry /\ Seen.edges = SeenEdges
      BY TreeFacts DEF Known
    <3>3. IsFiniteSet(SeenEdges) /\ Live = Reached
      BY AfterWalk DEF Known
    <3>. QED  BY <2>2, <3>1, <3>2, <3>3, IdomIsParent
  <2>4. Live = Reached
    BY AfterWalk DEF Known
  <2>. QED  BY <1>1, <1>2, <1>3, <2>2, <2>3, <2>4 DEF IsBackEdge
<1>. QED  BY <1>2, <1>3, <1>4, <1>5

\* A child of a loop that has its header for itself has so too, and is inside
\* one more loop.
LEMMA ChildFacts ==
  ASSUME Known, Collecting, Listed, LatchesApart, pc = "depth",
         loops \in Seq(FinishedLoops),
         NEW m \in DOMAIN loops, NEW n \in DOMAIN loops, Nested(m, n), Alone(m)
  PROVE  /\ Alone(n)
         /\ IsFiniteSet(Outer(n)) /\ Cardinality(Outer(m)) + 1 <= Cardinality(Outer(n))
<1>1. m # n /\ loops[m].header # loops[n].header
  BY DEF Nested, Alone
<1>2. Encloses(loops[m].header, loops[n].header)
  BY <1>1, NestedEncloses
<1>3. Alone(n)
  <2> SUFFICES ASSUME NEW k \in DOMAIN loops, loops[k].header = loops[n].header, k # n PROVE FALSE
    BY DEF Alone
  <2>1. loops[k].latch # loops[n].latch
    BY DEF Listed
  <2>2. loops[n].header \in NaturalLoop(loops[m].header, loops[m].latch)
    <3>1. loops[m].blocks = NaturalLoop(loops[m].header, loops[m].latch)
      BY CollectedNatural DEF NaturalLoops
    <3>. QED  BY <3>1 DEF Nested
  <2> DEFINE backs == {e \in Edges : IsBackEdge(e[1], e[2])}
             E(x) == <<loops[x].latch, loops[x].header>>
  <2>3. ASSUME NEW x \in DOMAIN loops PROVE E(x) \in backs /\ E(x)[1] = loops[x].latch /\ E(x)[2] = loops[x].header
    BY ListedBackEdge
  <2>4. \A e, f, o \in backs :
          e[2] = f[2] /\ e[1] # f[1] /\ o[2] # e[2] => e[2] \notin NaturalLoop(o[2], o[1])
    BY DEF LatchesApart
  <2> HIDE DEF backs, E
  <2>5. E(k) \in backs /\ E(n) \in backs /\ E(m) \in backs
    BY <2>3
  <2>6. E(k)[2] = E(n)[2] /\ E(k)[1] # E(n)[1] /\ E(m)[2] # E(k)[2]
    BY <1>1, <2>1, <2>3
  <2>7. E(k)[2] \notin NaturalLoop(E(m)[2], E(m)[1])
    BY <2>4, <2>5, <2>6
  <2>8. E(k)[2] = loops[n].header /\ E(m)[2] = loops[m].header /\ E(m)[1] = loops[m].latch
    BY <2>3
  <2>. QED  BY <2>2, <2>7, <2>8
<1>4. Outer(m) \subseteq Outer(n)
  <2>1. \A k \in DOMAIN loops : Encloses(loops[k].header, loops[m].header)
                                => Encloses(loops[k].header, loops[n].header)
    BY <1>2, EnclosesOrder
  <2>. QED  BY <2>1 DEF Outer
<1>5. m \in Outer(n) /\ m \notin Outer(m)
  BY <1>2 DEF Outer, Encloses
<1>6. IsFiniteSet(Outer(n)) /\ IsFiniteSet(Outer(m))
  BY OuterFinite
<1>7. Cardinality(Outer(m) \cup {m}) = Cardinality(Outer(m)) + 1
  BY <1>5, <1>6, FS_AddElement
<1>8. Outer(m) \cup {m} \subseteq Outer(n)
  BY <1>4, <1>5
<1>. QED  BY <1>3, <1>6, <1>7, <1>8, FS_Subset

LEMMA NestingNest ==
  ASSUME Known, Collecting, Nest
  PROVE  Nesting'
<1>1. /\ pc = "body" /\ work = {} /\ UNCHANGED <<succ, dt>>
      /\ loops' = [m \in DOMAIN loops |->
                     [loops[m] EXCEPT !.children = Children(m),
                                      !.nested = \E n \in DOMAIN loops : Nested(n, m)]]
      /\ calls' = [k \in DOMAIN Outermost |-> <<Outermost[k], 0>>]
  BY DEF Nest
<1>2. loops \in Seq(NewLoops) /\ DOMAIN loops = 1..Len(loops) /\ Len(loops) \in Nat
  <2>1. loops \in Seq(NewLoops)
    BY <1>1 DEF Collecting
  <2>. QED  BY <2>1
<1>3. IsFiniteSet(DOMAIN loops) /\ DOMAIN loops \subseteq Nat
  BY <1>2, FS_Interval
<1>4. ASSUME NEW S \in SUBSET DOMAIN loops PROVE InOrder(S) \in Seq(S) /\ InOrder(S) \in Seq(Nat)
  <2>1. InOrder(S) \in Seq(S)
    BY <1>3, FS_Subset, InOrderFacts
  <2>2. PICK s : s = InOrder(S)
    OBVIOUS
  <2>3. s \in Seq(S) /\ \A k \in 1..Len(s) : s[k] \in Nat
    BY <1>3, <2>1, <2>2
  <2>4. s \in Seq(Nat)
    BY <2>3
  <2>. QED  BY <2>1, <2>2, <2>4
<1>5. \A m \in DOMAIN loops : Children(m) \in Seq(Nat)
  <2>. TAKE m \in DOMAIN loops
  <2>1. PICK S : S = {n \in DOMAIN loops : Nested(m, n)}
    OBVIOUS
  <2>2. S \in SUBSET DOMAIN loops
    BY <2>1
  <2>. QED  BY <1>4, <2>1, <2>2 DEF Children
<1>6. /\ DOMAIN loops' = DOMAIN loops
      /\ \A m \in DOMAIN loops :
           /\ loops'[m] \in FinishedLoops' /\ loops'[m].children = Children(m)
           /\ loops'[m].header = loops[m].header /\ loops'[m].blocks = loops[m].blocks
  <2>1. \A m \in DOMAIN loops : loops[m] \in NewLoops
    BY <1>2
  <2>2. DOMAIN loops' = DOMAIN loops
    BY <1>1
  <2>3. Blocks' = Blocks
    BY <1>1, GraphFixed
  <2>4. ASSUME NEW m \in DOMAIN loops
        PROVE  /\ loops'[m] \in FinishedLoops' /\ loops'[m].children = Children(m)
               /\ loops'[m].header = loops[m].header /\ loops'[m].blocks = loops[m].blocks
    <3>1. PICK b : b = \E n \in DOMAIN loops : Nested(n, m)
      OBVIOUS
    <3>2. b \in BOOLEAN
      BY <3>1
    <3>3. PICK c : c = Children(m)
      OBVIOUS
    <3>4. loops'[m] = [loops[m] EXCEPT !.children = c, !.nested = b]
      BY <1>1, <3>1, <3>3
    <3>5. PICK l : l = loops[m]
      OBVIOUS
    <3>6. c \in Seq(Nat) /\ l \in NewLoops
      BY <1>5, <2>1, <3>3, <3>5
    <3>7. PICK f : f = [l EXCEPT !.children = c, !.nested = b]
      OBVIOUS
    <3>8. PICK C : C = Seq(Nat)
      OBVIOUS
    <3>9. f \in [header: Blocks, latch: Blocks, blocks: SUBSET Blocks,
                 children: C, nested: BOOLEAN, depth: Nat]
      <4>1. /\ l.header \in Blocks /\ l.latch \in Blocks /\ l.blocks \in SUBSET Blocks /\ l.depth = 0
            /\ DOMAIN l = {"header", "latch", "blocks", "children", "nested", "depth"}
        BY <3>6 DEF NewLoops
      <4>2. /\ f.header = l.header /\ f.latch = l.latch /\ f.blocks = l.blocks /\ f.depth = l.depth
            /\ f.children = c /\ f.nested = b
        BY <3>7, <4>1
      <4>3. f = [header |-> f.header, latch |-> f.latch, blocks |-> f.blocks,
                 children |-> f.children, nested |-> f.nested, depth |-> f.depth]
        BY <3>6, <3>7 DEF NewLoops
      <4>. QED  BY <3>2, <3>6, <3>8, <4>1, <4>2, <4>3
    <3>10. f.children = c /\ f.header = l.header /\ f.blocks = l.blocks
      BY <3>6, <3>7 DEF NewLoops
    <3>11. FinishedLoops' = [header: Blocks, latch: Blocks, blocks: SUBSET Blocks,
                             children: C, nested: BOOLEAN, depth: Nat]
      BY <2>3, <3>8 DEF FinishedLoops
    <3>. QED  BY <3>3, <3>4, <3>5, <3>7, <3>9, <3>10, <3>11
  <2>. QED  BY <2>2, <2>4
<1>7. loops' \in Seq(FinishedLoops')
  <2>1. PICK n \in Nat : DOMAIN loops = 1..n
    BY <1>2
  <2>2. PICK F : F = FinishedLoops'
    OBVIOUS
  <2>3. loops' \in [1..n -> F]
    BY <1>1, <1>6, <2>1, <2>2
  <2>. QED  BY <2>2, <2>3
<1>8. \A m \in DOMAIN loops : Children(m)' = Children(m)
  <2>1. \A m, n \in DOMAIN loops : Nested(m, n)' <=> Nested(m, n)
    BY <1>6 DEF Nested
  <2>2. ASSUME NEW m \in DOMAIN loops
        PROVE  {n \in DOMAIN loops' : Nested(m, n)'} = {n \in DOMAIN loops : Nested(m, n)}
    BY <1>6, <2>1
  <2>. QED  BY <2>2 DEF Children
<1>9. Outermost \in Seq({n \in DOMAIN loops : \A m \in DOMAIN loops : ~Nested(m, n)})
  BY <1>4 DEF Outermost
<1>10. ASSUME NEW k \in DOMAIN calls'
       PROVE  calls'[k][1] \in DOMAIN loops' /\ Alone(calls[k][1])' /\ calls'[k][2] = 0
              /\ calls'[k] \in (DOMAIN loops') \X Nat
              /\ calls'[k][2] <= Cardinality(Outer(calls[k][1]))'
  <2>1. k \in DOMAIN Outermost /\ calls'[k] = <<Outermost[k], 0>>
    BY <1>1, <1>10
  <2>2. PICK n : n = Outermost[k]
    OBVIOUS
  <2>3. n \in DOMAIN loops /\ \A m \in DOMAIN loops : ~Nested(m, n)
    BY <1>9, <2>1, <2>2
  <2>4. ASSUME NEW m \in DOMAIN loops, loops[m].header = loops[n].header PROVE m = n
    <3>1. loops[m].header \in loops[m].blocks
      BY DEF Collecting, Collected
    <3>. QED  BY <2>3, <2>4, <3>1 DEF Nested
  <2>5. Alone(n)'
    BY <1>6, <2>3, <2>4 DEF Alone
  <2>6. 0 <= Cardinality(Outer(n))'
    <3>1. IsFiniteSet(DOMAIN loops') /\ Outer(n)' \subseteq DOMAIN loops'
      BY <1>3, <1>6 DEF Outer
    <3>2. Cardinality(Outer(n)') \in Nat
      BY <3>1, FS_Subset, FS_CardinalityType
    <3>. QED  BY <3>2
  <2>7. calls'[k] = <<n, 0>> /\ calls'[k][1] = n /\ calls'[k][2] = 0
    BY <2>1, <2>2
  <2>8. Alone(calls[k][1])' /\ Outer(calls[k][1])' = Outer(n)'
    BY <2>5, <2>7 DEF Alone, Outer
  <2>9. n \in DOMAIN loops' /\ <<n, 0>> \in (DOMAIN loops') \X Nat
    <3>1. PICK D : D = DOMAIN loops'
      OBVIOUS
    <3>2. n \in D
      BY <1>6, <2>3, <3>1
    <3>. QED  BY <3>1, <3>2
  <2>10. Cardinality(Outer(calls[k][1]))' = Cardinality(Outer(n))'
    BY <2>8
  <2>. QED  BY <2>6, <2>7, <2>8, <2>9, <2>10
<1>11. calls' \in Seq((DOMAIN loops') \X Nat)
  <2>1. Outermost \in Seq(DOMAIN loops)
    BY <1>9
  <2>2. PICK n \in Nat : DOMAIN Outermost = 1..n
    BY <2>1
  <2>3. PICK D : D = (DOMAIN loops') \X Nat
    OBVIOUS
  <2>4. calls' \in [1..n -> D]
    BY <1>1, <1>10, <2>2, <2>3
  <2>. QED  BY <2>3, <2>4
<1>12. \A n \in DOMAIN loops' : loops'[n].children = Children(n)'
  BY <1>6, <1>8
<1>. QED  BY <1>7, <1>10, <1>11, <1>12 DEF Nesting

LEMMA NestingPropagate ==
  ASSUME Known, Collecting, Listed, Nesting, LatchesApart, PropagateDepth
  PROVE  Nesting'
<1>1. pc = "depth" /\ calls # <<>> /\ UNCHANGED <<succ, dt>>
  BY DEF PropagateDepth
<1>2. /\ loops \in Seq(FinishedLoops) /\ \A n \in DOMAIN loops : loops[n].children = Children(n)
      /\ calls \in Seq((DOMAIN loops) \X Nat)
      /\ \A k \in DOMAIN calls :
           Alone(calls[k][1]) /\ calls[k][2] <= Cardinality(Outer(calls[k][1]))
  BY <1>1 DEF Nesting
<1>m. PICK m : m = Head(calls)[1]
  OBVIOUS
<1>d. PICK d : d = Head(calls)[2]
  OBVIOUS
<1>3. m \in DOMAIN loops /\ d \in Nat /\ Alone(m) /\ d <= Cardinality(Outer(m))
  <2>1. 1 \in DOMAIN calls /\ Head(calls) = calls[1]
    BY <1>1, <1>2
  <2>2. calls[1] \in (DOMAIN loops) \X Nat
    BY <1>2, <2>1
  <2>. QED  BY <1>2, <1>m, <1>d, <2>1, <2>2
<1>4. loops' = [loops EXCEPT ![m].depth = d] /\ calls' = Calls(m, d) \o Tail(calls)
  BY <1>m, <1>d DEF PropagateDepth
<1>r. PICK r : r = [loops[m] EXCEPT !.depth = d]
  OBVIOUS
<1>5. /\ r \in FinishedLoops /\ r.header = loops[m].header /\ r.blocks = loops[m].blocks
      /\ r.children = loops[m].children
  <2>1. loops[m] \in FinishedLoops
    BY <1>2, <1>3
  <2>2. PICK l : l = loops[m]
    OBVIOUS
  <2>. QED  BY <1>3, <1>r, <2>1 DEF FinishedLoops
<1>6. /\ loops' \in Seq(FinishedLoops) /\ DOMAIN loops' = DOMAIN loops
      /\ \A n \in DOMAIN loops :
           /\ loops'[n].header = loops[n].header /\ loops'[n].blocks = loops[n].blocks
           /\ loops'[n].children = loops[n].children
  <2>1. loops' = [loops EXCEPT ![m] = r]
    BY <1>4, <1>r
  <2>2. loops' \in Seq(FinishedLoops) /\ DOMAIN loops' = DOMAIN loops
    BY <1>2, <1>3, <1>5, <2>1
  <2>3. \A n \in DOMAIN loops : loops'[n] = loops[n] \/ (n = m /\ loops'[n] = r)
    BY <2>1
  <2>. QED  BY <1>5, <2>2, <2>3
<1>7. /\ \A n \in DOMAIN loops : Children(n)' = Children(n)
      /\ \A n \in DOMAIN loops : Alone(n)' = Alone(n) /\ Outer(n)' = Outer(n)
  <2>1. ASSUME NEW n \in DOMAIN loops PROVE Children(n)' = Children(n)
    <3>1. \A k \in DOMAIN loops : Nested(n, k)' <=> Nested(n, k)
      BY <1>6 DEF Nested
    <3>2. {k \in DOMAIN loops' : Nested(n, k)'} = {k \in DOMAIN loops : Nested(n, k)}
      BY <1>6, <3>1
    <3>. QED  BY <3>2 DEF Children
  <2>2. ASSUME NEW n \in DOMAIN loops PROVE Alone(n)' = Alone(n)
    BY <1>6 DEF Alone
  <2>3. Runs' = Runs /\ Reached' = Reached
    <3>1. Edges' = Edges
      BY <1>1, GraphFixed
    <3>2. LiveEdges' = LiveEdges
      BY <1>1, <3>1 DEF LiveEdges, Reached
    <3>. QED  BY <1>1, <3>2 DEF Runs, TreeOf, Reached
  <2>4. \A g, h : Encloses(g, h)' <=> Encloses(g, h)
    BY <2>3 DEF Encloses
  <2>5. ASSUME NEW n \in DOMAIN loops PROVE Outer(n)' = Outer(n)
    BY <1>6, <2>4 DEF Outer
  <2>. QED  BY <2>1, <2>2, <2>5
<1>c. PICK c : c = Children(m)
  OBVIOUS
<1>8. c \in Seq({n \in DOMAIN loops : Nested(m, n)})
  <2>1. DOMAIN loops = 1..Len(loops) /\ Len(loops) \in Nat
    BY <1>2
  <2>2. IsFiniteSet(1..Len(loops))
    BY <2>1, FS_Interval
  <2>3. IsFiniteSet({n \in DOMAIN loops : Nested(m, n)})
    BY <2>1, <2>2, FS_Subset
  <2>4. {n \in DOMAIN loops : Nested(m, n)} \in SUBSET Nat
    BY <2>1
  <2>. QED  BY <1>c, <2>3, <2>4, InOrderFacts DEF Children
<1>9. ASSUME NEW n \in DOMAIN loops, Nested(m, n)
      PROVE  Alone(n) /\ d + 1 <= Cardinality(Outer(n))
  <2>1. /\ Alone(n)
        /\ IsFiniteSet(Outer(n)) /\ Cardinality(Outer(m)) + 1 <= Cardinality(Outer(n))
    BY <1>1, <1>2, <1>3, <1>9, ChildFacts
  <2>2. Cardinality(Outer(m)) \in Nat /\ Cardinality(Outer(n)) \in Nat
    BY <1>2, <1>3, OuterFinite
  <2>. QED  BY <1>3, <2>1, <2>2
<1> DEFINE Ok(x) == Alone(x[1]) /\ x[2] <= Cardinality(Outer(x[1]))
<1>D. PICK D : D = (DOMAIN loops) \X Nat
  OBVIOUS
<1>a. PICK a : a = Calls(m, d)
  OBVIOUS
<1>10. a \in Seq(D) /\ \A k \in DOMAIN a : Ok(a[k])
  <2>1. PICK n \in Nat : DOMAIN c = 1..n
    BY <1>8
  <2>2. a = [k \in 1..n |-> <<c[k], d + 1>>]
    BY <1>2, <1>3, <1>a, <1>c, <2>1 DEF Calls
  <2>3. ASSUME NEW k \in 1..n PROVE a[k] \in D /\ Ok(a[k])
    <3>1. PICK x : x = c[k]
      OBVIOUS
    <3>2. x \in DOMAIN loops /\ Nested(m, x)
      BY <1>8, <2>1, <3>1
    <3>3. a[k] = <<x, d + 1>>
      BY <2>2, <3>1
    <3>4. a[k] \in D
      BY <1>3, <1>D, <3>2, <3>3
    <3>5. a[k][1] = x /\ a[k][2] = d + 1
      BY <3>3
    <3>. QED  BY <1>9, <3>2, <3>4, <3>5
  <2> HIDE DEF Ok
  <2>4. DOMAIN a = 1..n /\ a \in [1..n -> D]
    BY <2>2, <2>3
  <2>. QED  BY <2>3, <2>4
<1>11. Tail(calls) \in Seq(D) /\ \A k \in DOMAIN Tail(calls) : Ok(Tail(calls)[k])
  <2>1. \A k \in DOMAIN calls : Ok(calls[k])
    BY <1>2
  <2> HIDE DEF Ok
  <2>2. /\ Tail(calls) \in Seq(D)
        /\ \A k \in DOMAIN Tail(calls) : k + 1 \in DOMAIN calls /\ Tail(calls)[k] = calls[k + 1]
    BY <1>1, <1>2, <1>D
  <2>. QED  BY <2>1, <2>2
<1>12. calls' \in Seq(D) /\ \A k \in DOMAIN calls' : Ok(calls'[k])
  <2>1. PICK b : b = Tail(calls)
    OBVIOUS
  <2>2. calls' = a \o b
    BY <1>4, <1>a, <2>1
  <2> HIDE DEF Ok
  <2>3. /\ a \o b \in Seq(D)
        /\ \A k \in DOMAIN (a \o b) :
             \/ k \in DOMAIN a /\ (a \o b)[k] = a[k]
             \/ k - Len(a) \in DOMAIN b /\ (a \o b)[k] = b[k - Len(a)]
    BY <1>10, <1>11, <2>1
  <2>. QED  BY <1>10, <1>11, <2>1, <2>2, <2>3
<1>13. ASSUME NEW k \in DOMAIN calls'
       PROVE  Alone(calls[k][1])' /\ (calls[k][2] <= Cardinality(Outer(calls[k][1])))'
  <2>1. PICK x : x = calls'[k]
    OBVIOUS
  <2>2. x \in D
    BY <1>12, <1>13, <2>1
  <2>3. PICK n : n = x[1]
    OBVIOUS
  <2>4. n \in DOMAIN loops
    BY <1>D, <2>2, <2>3
  <2>5. Alone(n) /\ x[2] <= Cardinality(Outer(n))
    BY <1>12, <1>13, <2>1, <2>3
  <2>6. Alone(n)' /\ x[2] <= Cardinality(Outer(n)')
    BY <1>7, <2>4, <2>5
  <2>7. calls'[k][1] = n /\ calls'[k][2] = x[2]
    BY <2>1, <2>3
  <2>8. Alone(calls[k][1])' /\ Outer(calls[k][1])' = Outer(n)'
    BY <2>6, <2>7 DEF Alone, Outer
  <2>. QED  BY <2>6, <2>7, <2>8
<1>14. FinishedLoops' = FinishedLoops
  BY <1>1, GraphFixed DEF FinishedLoops
<1>15. \A n \in DOMAIN loops' : loops'[n].children = Children(n)'
  BY <1>2, <1>6, <1>7
<1>16. calls' \in Seq((DOMAIN loops') \X Nat)
  BY <1>6, <1>12, <1>D
<1>. QED  BY <1>6, <1>13, <1>14, <1>15, <1>16 DEF Nesting

LEMMA LatchesApartFixed ==
  ASSUME succ' = succ
  PROVE  LatchesApart' <=> LatchesApart
<1>1. Blocks' = Blocks /\ Edges' = Edges /\ Live' = Live /\ SeenEdges' = SeenEdges
  BY GraphFixed
<1>2. \A l, h : IsBackEdge(l, h)' <=> IsBackEdge(l, h)
  BY <1>1 DEF IsBackEdge
<1>3. \A h, l : NaturalLoop(h, l)' = NaturalLoop(h, l)
  BY <1>1 DEF NaturalLoop
<1>4. {e \in Edges : IsBackEdge(e[1], e[2])}' = {e \in Edges : IsBackEdge(e[1], e[2])}
  BY <1>1, <1>2
<1>. QED  BY <1>3, <1>4 DEF LatchesApart

LEMMA NestingNext ==
  ASSUME Known, Collecting, Listed, LatchesApart => Nesting, [Next]_vars
  PROVE  (LatchesApart => Nesting)'
<1>1. succ' = succ
  BY DEF Next, vars, Walk, Walked, StartVertex, Eval, Compress, Shorten, Semi, Link, Idom,
         ClearBucket, StartCorrect, Correct, Corrected, NextBlock, StartRunner, Run, Frontiers,
         NextEdges, FindEdge, EdgesFound, StartBody, GrowBody, Nest, PropagateDepth, Done
<1> SUFFICES ASSUME LatchesApart PROVE Nesting'
  BY <1>1, LatchesApartFixed
<1>2. CASE Nest
  BY <1>2, NestingNest
<1>3. CASE PropagateDepth
  BY <1>3, NestingPropagate
<1>4. CASE pc' # "depth"
  BY <1>4 DEF Nesting
<1>5. CASE UNCHANGED vars
  <2>1. UNCHANGED <<pc, loops, calls, dt>>
    BY <1>5 DEF vars
  <2>2. Edges' = Edges /\ Blocks' = Blocks
    BY <1>1, GraphFixed
  <2>3. LiveEdges' = LiveEdges /\ Reached' = Reached
    BY <2>1, <2>2 DEF LiveEdges, Reached
  <2>4. Runs' = Runs
    BY <2>1, <2>3 DEF Runs, TreeOf
  <2>5. FinishedLoops' = FinishedLoops
    BY <2>2 DEF FinishedLoops
  <2>6. \A n : Alone(n)' = Alone(n) /\ Outer(n)' = Outer(n) /\ Children(n)' = Children(n)
    BY <2>1, <2>3, <2>4 DEF Alone, Outer, Encloses, Children, Nested
  <2>7. \A k \in DOMAIN calls : /\ Alone(calls[k][1])' = Alone(calls[k][1])
                               /\ Outer(calls[k][1])' = Outer(calls[k][1])
    BY <2>1, <2>3, <2>4 DEF Alone, Outer, Encloses
  <2>. QED  BY <2>1, <2>5, <2>6, <2>7 DEF Nesting
<1>6. pc' = "depth" => Nest \/ PropagateDepth \/ UNCHANGED vars
  <2>1. CASE \/ Walk \/ Walked \/ StartVertex \/ Eval \/ Compress \/ Shorten \/ Semi \/ Link \/ Idom
             \/ ClearBucket \/ StartCorrect \/ Correct \/ Corrected \/ NextBlock \/ StartRunner \/ Run
    BY <2>1 DEF Walk, Walked, StartVertex, Eval, Compress, Shorten, Semi, Link, Idom,
         ClearBucket, StartCorrect, Correct, Corrected, NextBlock, StartRunner, Run
  <2>2. CASE Frontiers \/ NextEdges \/ FindEdge \/ EdgesFound \/ StartBody \/ GrowBody \/ Done
    BY <2>2 DEF Frontiers, NextEdges, FindEdge, EdgesFound, StartBody, GrowBody, Done
  <2>. QED  BY <2>1, <2>2 DEF Next
<1>. QED  BY <1>2, <1>3, <1>4, <1>5, <1>6

\* RecursionEnds: no header of two back edges inside another header's loop, and
\* propagateDepth goes no deeper than there are loops.
LEMMA NestingBounds ==
  ASSUME Nesting
  PROVE  RecursionEnds
<1> SUFFICES ASSUME pc = "depth", NEW k \in DOMAIN calls PROVE calls[k][2] < Len(loops)
  BY DEF RecursionEnds
<1>1. /\ loops \in Seq(FinishedLoops) /\ calls \in Seq((DOMAIN loops) \X Nat)
      /\ calls[k][2] <= Cardinality(Outer(calls[k][1]))
  BY DEF Nesting
<1>2. calls[k] \in (DOMAIN loops) \X Nat /\ Len(loops) \in Nat
  BY <1>1
<1>3. calls[k][1] \in DOMAIN loops /\ calls[k][2] \in Nat
  BY <1>2
<1>4. Cardinality(Outer(calls[k][1])) \in Nat /\ Cardinality(Outer(calls[k][1])) < Len(loops)
  BY <1>1, <1>3, OuterFinite
<1>. QED  BY <1>1, <1>2, <1>3, <1>4

\* TypeOK: tree, frontiers and loops are made of the graph's blocks, and the
\* recursion over nested loops ends, unless a header of two back edges lies in
\* another header's loop.  Such a header's two loops are children of each other.
THEOREM TypesKept == Spec => [](LatchesApart => TypeOK)
<1>1. Known /\ Collecting /\ (LatchesApart => Nesting) => (LatchesApart => TypeOK)
  <2> SUFFICES ASSUME Known, Collecting, Nesting PROVE TypeOK
    OBVIOUS
  <2>1. /\ dt.vertex \in Seq(Blocks) /\ front \in [Blocks -> SUBSET Blocks]
        /\ dt.idom \in [Blocks \cup {None} -> Blocks \cup {None}]
        /\ pc \in {"walk", "semi", "preds", "bucket", "correct", "front", "edges", "body", "depth", "done"}
    BY DEF Known, Types, Contexts, Labels
  <2>2. IsInjective(dt.vertex)
    BY DEF Known, Walks, Numbered, IsInjective
  <2>3. \A k \in DOMAIN loops : loops[k].blocks \subseteq Blocks /\ loops[k].header \in loops[k].blocks
    BY DEF Collecting, Collected
  <2>4. \A l \in ToSet(loops) : l.blocks \subseteq Blocks /\ l.header \in l.blocks
    BY <2>3 DEF ToSet
  <2>. QED  BY <2>1, <2>2, <2>4, NestingBounds DEF TypeOK
<1>2. Init => Listed /\ Nesting
  BY DEF Init, Listed, Nesting
<1>3. Known /\ Collecting /\ Listed /\ [Next]_vars => Listed'
  BY ListedNext DEF Known
<1>4. Known /\ Collecting /\ Listed /\ (LatchesApart => Nesting) /\ [Next]_vars
        => (LatchesApart => Nesting)'
  BY NestingNext
<1>. QED  BY <1>1, <1>2, <1>3, <1>4, KnownInvariant, CollectingInvariant, PTL DEF Spec

=============================================================================
