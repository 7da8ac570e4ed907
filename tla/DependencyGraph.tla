--------------------------- MODULE DependencyGraph ---------------------------
(***************************************************************************)
(* The dependency graph of a backlog: for each slug the slugs its entry    *)
(* lists under "dependencies", none where there is no entry.               *)
(***************************************************************************)
CONSTANT Ids   \* the slugs allocate_id may produce for backlog items

Graph == [Ids -> SUBSET Ids]

\* A set of items closed under "depends on".
Closed(deps, S) == \A i \in S : deps[i] \subseteq S

\* Following dependencies from "from" leads to "to": it is in every closed set
\* that has "from".
Reaches(deps, from, to) ==
  \A S \in SUBSET Ids : from \in S /\ Closed(deps, S) => to \in S

\* No item depends on itself, directly or through others.
Acyclic(deps) == \A i \in Ids : \A d \in deps[i] : ~Reaches(deps, d, i)
=============================================================================
