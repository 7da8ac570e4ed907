----------------------------- MODULE MCPhaseLoop -----------------------------
(***************************************************************************)
(* Instances of PhaseLoop for TLC: one path in the context repository and  *)
(* one in a target's worktree.                                             *)
(***************************************************************************)
EXTENDS PhaseLoop

MCRepos == {"context", "target"}
MCRepoOf == [p \in Paths |-> IF p = "ctx" THEN "context" ELSE "target"]

EntryOf(r, paths, plan) == [target |-> r, paths |-> paths, plan |-> plan, bad |-> FALSE]
Target == EntryOf("target", {"tgt"}, FALSE)
Source == EntryOf("context", {"ctx"}, FALSE)

\* The specs that cover the work tree, with and without the plan directory.
Covering == {<<Target, Source>>, <<Target, EntryOf("context", {"ctx"}, TRUE)>>}

\* An empty or malformed commits.yaml, and one that leaves a path out.
Partial == {<<>>, <<Target>>}
AllSpecs == Covering \cup Partial
SourceOnly == {<<Source>>}

\* Entries that go wrong: a pathspec matches nothing, a target is not mounted.
Failing == {<<[Source EXCEPT !.bad = TRUE], EntryOf("target", {}, FALSE)>>}
=============================================================================
