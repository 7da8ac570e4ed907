--------------------------- MODULE DependencySearch ---------------------------
(***************************************************************************)
(* dependency_path_exists, the depth-first search by which set-dependencies*)
(* refuses a cycle, over a graph that may have cycles already: "backlog    *)
(* init" stores any body.  The stack is a set here: an item pushed twice   *)
(* is skipped when it is popped again, and the answer does not depend on   *)
(* the order, so any item may come off next.                               *)
(***************************************************************************)
EXTENDS DependencyGraph

VARIABLES
  deps, from, to,   \* the arguments
  stack, visited,
  found             \* "searching", or the answer

vars == <<deps, from, to, stack, visited, found>>

Init ==
  /\ deps \in Graph
  /\ from \in Ids
  /\ to \in Ids
  /\ stack = {from}
  /\ visited = {}
  /\ found = "searching"

\* Mutant: the pushed dependencies are marked, not the item they are of.
VisitEarly(current) ==
  /\ current \notin visited
  /\ visited' = visited \cup deps[current]
  /\ stack' = (stack \ {current}) \cup (deps[current] \ visited)

\* Mutant: an item is not marked.
VisitUnmarked(current) ==
  /\ current \notin visited
  /\ visited' = visited
  /\ stack' = (stack \ {current}) \cup deps[current]

\* An item met for the first time is marked and its dependencies pushed.
Visit(current) ==
  /\ current \notin visited
  /\ visited' = visited \cup {current}
  /\ stack' = (stack \ {current}) \cup deps[current]

Skip(current) ==
  /\ current \in visited
  /\ stack' = stack \ {current}
  /\ UNCHANGED visited

Pop ==
  /\ found = "searching"
  /\ \E current \in stack :
       \/ current = to /\ found' = "yes" /\ UNCHANGED <<stack, visited>>
       \/ current # to /\ Visit(current) /\ UNCHANGED found
       \/ current # to /\ Skip(current) /\ UNCHANGED found
  /\ UNCHANGED <<deps, from, to>>

Exhausted ==
  /\ found = "searching"
  /\ stack = {}
  /\ found' = "no"
  /\ UNCHANGED <<deps, from, to, stack, visited>>

Next == Pop \/ Exhausted

\* The search is one loop in one call: it goes on while it can.
Spec == Init /\ [][Next]_vars /\ WF_vars(Next)
-----------------------------------------------------------------------------
\* The search's variables have their type.
TypeOK ==
  /\ deps \in Graph
  /\ {from, to} \subseteq Ids
  /\ stack \subseteq Ids
  /\ visited \subseteq Ids
  /\ found \in {"searching", "yes", "no"}

\* The answer is right, cycles or not: "yes" exactly if "to" is reached.
Correct ==
  /\ found = "yes" => Reaches(deps, from, to)
  /\ found = "no" => ~Reaches(deps, from, to)

\* The search ends, also when the graph has a cycle.
Terminates == <>(found # "searching")
=============================================================================
