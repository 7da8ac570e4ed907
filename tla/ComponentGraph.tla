---------------------------- MODULE ComponentGraph ----------------------------
(***************************************************************************)
(* The graph of components that "atlas edges", "neighbors", "path", "scc"  *)
(* and "roots" ask: the union of the related-components.yaml files of the  *)
(* fresh repositories, and directed_graph.rs on its directed half.  Ids    *)
(* are numbers because the code sorts them.                                *)
(***************************************************************************)
EXTENDS Integers, Sequences, FiniteSets, SequencesExt, FiniteSetsExt, Functions, TLC

CONSTANT Ids   \* bare component ids

\* depends-on stands for every directed kind, co-implements for the symmetric.
Edge == [kind : {"depends-on", "co-implements"}, from : Ids, to : Ids]
IsDirected(e) == e.kind = "depends-on"
Ends(e) == {e.from, e.to}

\* Two records of one relation have one key: a symmetric edge is sorted.
CanonicalKey(e) ==
  IF IsDirected(e) THEN e
  ELSE [e EXCEPT !.from = Min(Ends(e)), !.to = Max(Ends(e))]

EdgeGraph(related) == {CanonicalKey(e) : e \in UNION {related[r] : r \in DOMAIN related}}

Touching(edges, c, direction) ==
  {e \in edges :
     /\ c \in Ends(e)
     /\ IsDirected(e) /\ direction = "out" => e.from = c
     /\ IsDirected(e) /\ direction = "in" => e.to = c}

\* Both ends of an edge are peers, whatever its kind.
Adjacency(edges) ==
  [c \in Ids |-> SetToSeq({p \in Ids : \E e \in edges : Ends(e) = {c, p}})]

RECURSIVE Spread(_, _, _, _)
\* Breadth first: what is queued is at its hop count, what is at the depth
\* asked for is not expanded.
Spread(next, queue, hops, depth) ==
  IF queue = <<>> THEN hops
  ELSE LET node == Head(queue)
           fresh == IF hops[node] = depth THEN <<>>
                    ELSE SelectSeq(next[node], LAMBDA p : p \notin DOMAIN hops)
       IN  Spread(next, Tail(queue) \o fresh,
                  hops @@ [p \in Range(fresh) |-> hops[node] + 1], depth)

Neighbors(edges, start, depth) ==
  Spread(Adjacency(edges), <<start>>, [c \in {start} |-> 0], depth)

\* Only directed edges make a component less than a root.
HasIncoming(edges) == {e.to : e \in {x \in edges : IsDirected(x)}}

\* add_node and add_edge: every component is a node, an edge adds its ends.
DirectedGraph(universe, edges) ==
  LET directed == {e \in edges : IsDirected(e)}
      nodes == universe \cup UNION {Ends(e) : e \in directed}
  IN  [nodes |-> nodes,
       out |-> [n \in nodes |-> SetToSeq({m \in nodes : \E e \in directed : e.from = n /\ e.to = m})]]

NoPath == <<>>

RECURSIVE Reconstruct(_, _, _)
Reconstruct(parent, from, path) ==
  IF Head(path) = from THEN path
  ELSE Reconstruct(parent, from, <<parent[Head(path)]>> \o path)

RECURSIVE Walk(_, _, _, _, _, _)
\* shortest_path's loop: a parent for each node met, the first one stays.
Walk(g, queue, parent, from, to, max_hops) ==
  IF queue = <<>> THEN NoPath
  ELSE LET node == Head(queue)[1]
           hops == Head(queue)[2]
           fresh == IF hops = max_hops THEN <<>>
                    ELSE SelectSeq(g.out[node], LAMBDA n : n \notin DOMAIN parent \cup {from})
           met == parent @@ [n \in Range(fresh) |-> node]
       IN  IF to \in Range(fresh) THEN Reconstruct(met, from, <<to>>)
           ELSE Walk(g, Tail(queue) \o [i \in DOMAIN fresh |-> <<fresh[i], hops + 1>>],
                     met, from, to, max_hops)

ShortestPath(g, from, to, max_hops) ==
  IF {from, to} \subseteq g.nodes
  THEN IF from = to THEN <<from>>
       ELSE Walk(g, <<<<from, 0>>>>, [n \in {} |-> n], from, to, max_hops)
  ELSE NoPath

-----------------------------------------------------------------------------
(* strongly_connected_components *)

Fresh == [index |-> [n \in {} |-> 0], low |-> [n \in {} |-> 0], stack |-> <<>>, components |-> {}]

Enter(s, v) ==
  LET idx == Cardinality(DOMAIN s.index)
  IN  [s EXCEPT !.index = @ @@ (v :> idx), !.low = @ @@ (v :> idx), !.stack = Append(@, v)]

Lower(s, v, n) == [s EXCEPT !.low[v] = IF n < @ THEN n ELSE @]

\* The root of a component takes everything above it from the stack.
PopComponent(s, v) ==
  LET at == CHOOSE i \in DOMAIN s.stack : s.stack[i] = v
  IN  [s EXCEPT !.components = @ \cup {{s.stack[i] : i \in at..Len(s.stack)}},
                !.stack = SubSeq(@, 1, at - 1)]

\* Mutant: every node met before lowers, also one of a finished component.
SeenAny(s, v, next) == Lower(s, v, s.index[next])

\* A neighbour met before counts while it is on the stack.
Seen(s, v, next) ==
  IF next \in Range(s.stack) THEN Lower(s, v, s.index[next]) ELSE s

RECURSIVE StrongConnect(_, _, _)
StrongConnect(g, s, v) ==
  LET Step(t, next) ==
        IF next \in DOMAIN t.index THEN Seen(t, v, next)
        ELSE LET u == StrongConnect(g, t, next) IN Lower(u, v, u.low[next])
      done == FoldLeft(Step, Enter(s, v), g.out[v])
  IN  IF done.low[v] = done.index[v] THEN PopComponent(done, v) ELSE done

StronglyConnected(g) ==
  FoldLeft(LAMBDA s, v : IF v \in DOMAIN s.index THEN s ELSE StrongConnect(g, s, v),
           Fresh, SetToSortSeq(g.nodes, <)).components
-----------------------------------------------------------------------------
(* What the answers mean. *)

Successors(g) == [n \in g.nodes |-> Range(g.out[n])]

\* Nodes at most k steps from n, along "next".
Ball(next, n, k) ==
  LET b[i \in Nat] == IF i = 0 THEN {n} ELSE b[i-1] \cup UNION {next[m] : m \in b[i-1]}
  IN  b[k]

IsWalk(g, path) == \A i \in 1..Len(path) - 1 : path[i+1] \in Range(g.out[path[i]])

\* A path is one along directed edges and no shorter one exists; none is
\* given exactly if the hops allowed do not suffice.
PathRight(g, from, to, max_hops, path) ==
  IF path = NoPath THEN from # to /\ to \notin Ball(Successors(g), from, max_hops)
  ELSE /\ path[1] = from /\ Last(path) = to /\ IsWalk(g, path)
       /\ \A k \in 0..Len(path) - 2 : to \notin Ball(Successors(g), from, k)

\* The classes of nodes that reach each other.
Classes(g) ==
  LET all == Cardinality(g.nodes)
      R(a) == Ball(Successors(g), a, all)
  IN  {{b \in g.nodes : b \in R(a) /\ a \in R(b)} : a \in g.nodes}
=============================================================================
