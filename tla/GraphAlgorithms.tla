--------------------------- MODULE GraphAlgorithms ---------------------------
(***************************************************************************)
(* crates/knowledge-graph/src/algorithms.rs: the graph that the            *)
(* justifications of a store draw between its items, and what is asked of  *)
(* it.  petgraph's own algorithms are taken at their word; the searches    *)
(* written here are modelled step by step.                                 *)
(***************************************************************************)
EXTENDS Query, ComponentGraph

\* A justification names an item, or is a piece of code or a rationale.
DefaultEdges(item) == {j.item : j \in {x \in item : x.names}}

\* with_edges: a reference to an item of another store draws no edge.
GraphView(items) ==
  [nodes |-> DOMAIN items,
   out |-> [i \in DOMAIN items |-> SetToSeq(DefaultEdges(items[i]) \cap DOMAIN items)]]

RECURSIVE Search(_, _, _, _)
\* The loop of shortest_path: breadth first, a predecessor for each node met,
\* and no further than the node searched for.
Search(view, queue, pred, to) ==
  IF queue = <<>> \/ Head(queue) = to THEN pred
  ELSE LET n == Head(queue)
           fresh == SelectSeq(view.out[n], LAMBDA m : m \notin DOMAIN pred)
       IN  Search(view, Tail(queue) \o fresh, pred @@ [m \in Range(fresh) |-> n], to)

RECURSIVE Back(_, _, _)
Back(pred, from, path) ==
  IF Head(path) = from THEN path ELSE Back(pred, from, <<pred[Head(path)]>> \o path)

NotReached == <<>>
PathBetween(view, from, to) ==
  IF ~({from, to} \subseteq view.nodes) THEN NotReached
  ELSE LET pred == Search(view, <<from>>, [n \in {from} |-> from], to)
       IN  IF to \in DOMAIN pred THEN Back(pred, from, <<to>>) ELSE NotReached

RECURSIVE Bfs(_, _, _, _, _, _)
\* petgraph's Bfs has queued a node's neighbours when it returns the node.
\* A node beyond the limit is passed over before its neighbours get a depth,
\* and a node without a depth counts as the start.
Bfs(view, queue, met, depth, out, limit) ==
  IF queue = <<>> THEN out
  ELSE LET n == Head(queue)
           fresh == SelectSeq(view.out[n], LAMBDA m : m \notin met)
           here == IF n \in DOMAIN depth THEN depth[n] ELSE 0
           rest == Tail(queue) \o fresh
           seen == met \cup Range(fresh)
       IN  IF limit # Unset /\ here > limit
           THEN Bfs(view, rest, seen, depth, out, limit)
           ELSE Bfs(view, rest, seen, depth @@ [m \in Range(view.out[n]) |-> here + 1], Append(out, n), limit)

\* Unset: no limit.
BfsSubgraph(view, start, max_depth) ==
  IF start \notin view.nodes THEN <<>>
  ELSE IF max_depth # Unset /\ max_depth = 0 THEN <<start>>
  ELSE Bfs(view, <<start>>, {start}, [n \in {start} |-> 0], <<>>, max_depth)

-----------------------------------------------------------------------------
(* articulation_points: low-link depth first search, edges taken both ways. *)

BothWays(view) ==
  [n \in view.nodes |-> SetToSeq({m \in view.nodes : n \in Range(view.out[m]) \/ m \in Range(view.out[n])})]

Root == "no parent"
Start == [disc |-> [n \in {} |-> 0], low |-> [n \in {} |-> 0], points |-> {}]

Discover(s, u) ==
  LET t == Cardinality(DOMAIN s.disc) + 1
  IN  [s EXCEPT !.disc = @ @@ (u :> t), !.low = @ @@ (u :> t)]
LowerTo(s, u, k) == [s EXCEPT !.low[u] = Min({@, k})]

\* Mutant: a child that reaches the node itself does not depend on it.
SplitsBelow(s, u, v, parent, children) ==
  IF parent = <<>> THEN children > 1 ELSE s.low[v] > s.disc[u]

\* A root is a point if it has two children, another node if nothing below a
\* child reaches above it.
Splits(s, u, v, parent, children) ==
  IF parent = <<>> THEN children > 1 ELSE s.low[v] >= s.disc[u]

RECURSIVE Run(_, _, _, _)
\* A parent is <<>> at a root, or <<p>>.
Run(adj, s0, u, parent) ==
  LET Step(acc, v) ==
        IF v \notin DOMAIN acc.s.disc
        THEN LET s == Run(adj, acc.s, v, <<u>>)
                 t == LowerTo(s, u, s.low[v])
                 children == acc.children + 1
             IN  [children |-> children,
                  s |-> IF Splits(t, u, v, parent, children) THEN [t EXCEPT !.points = @ \cup {u}] ELSE t]
        ELSE IF parent = <<v>> THEN acc
        ELSE [acc EXCEPT !.s = LowerTo(@, u, acc.s.disc[v])]
  IN  FoldLeft(Step, [children |-> 0, s |-> Discover(s0, u)], adj[u]).s

ArticulationPoints(view) ==
  LET adj == BothWays(view)
  IN  FoldLeft(LAMBDA s, u : IF u \in DOMAIN s.disc THEN s ELSE Run(adj, s, u, <<>>),
               Start, SetToSeq(view.nodes)).points

-----------------------------------------------------------------------------
(* The questions, put to world.items: the justifications of each item. *)
NamedItems == IF world.subject = "store" THEN DOMAIN world.items ELSE {}
AskPath == \E a, b \in NamedItems \cup {0} :
  Ask("store", [verb |-> "shortest_path", from |-> a, to |-> b], Ok(PathBetween(GraphView(world.items), a, b)))
AskBall == \E a \in NamedItems \cup {0} : \E k \in {Unset} \cup 0..2 :
  Ask("store", [verb |-> "bfs_subgraph", from |-> a, depth |-> k], Ok(BfsSubgraph(GraphView(world.items), a, k)))
AskPoints ==
  Ask("store", [verb |-> "articulation_points"], Ok(ArticulationPoints(GraphView(world.items))))
StoreGraphNext == AskPath \/ AskBall \/ AskPoints

-----------------------------------------------------------------------------
Within(view, start, k) == IF start \in view.nodes THEN Ball(Successors(view), start, k) ELSE {}
\* The pieces a graph without u falls into, direction forgotten.
Pieces(view, u) ==
  LET left == view.nodes \ {u}
      adj == [n \in left |-> Range(BothWays(view)[n]) \ {u}]
  IN  Cardinality({Ball(adj, n, Cardinality(left)) : n \in left})

\* A path is found where there is one and none is shorter; every item within
\* the depth asked for is in the subgraph, once, and without a limit nothing
\* else is; an articulation point is an item whose removal splits its
\* component (algorithms.rs:78-248).
StoreGraphRight ==
  LET view == GraphView(world.items) IN
  /\ Answered("shortest_path") =>
       IF {query.from, query.to} \subseteq view.nodes
       THEN PathRight(view, query.from, query.to, Cardinality(view.nodes), answer.value)
       ELSE answer.value = NotReached
  /\ Answered("bfs_subgraph") =>
       LET all == Within(view, query.from, Cardinality(view.nodes)) IN
       /\ IsInjective(answer.value)
       /\ IF query.depth = Unset THEN Range(answer.value) = all
          ELSE Within(view, query.from, query.depth) \subseteq Range(answer.value)
  /\ Answered("articulation_points") =>
       answer.value = {u \in view.nodes :
         Pieces(view, u) > Cardinality({Ball([n \in view.nodes |-> Range(BothWays(view)[n])], m, Cardinality(view.nodes)) : m \in view.nodes})}
=============================================================================
