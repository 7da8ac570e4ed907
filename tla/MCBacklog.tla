------------------------------ MODULE MCBacklog ------------------------------
(***************************************************************************)
(* Instances of Backlog for TLC.                                           *)
(***************************************************************************)
EXTENDS Backlog

CONSTANTS m, n   \* two intents

Serving(deps, serves) ==
  [NoEntry EXCEPT !.status = "active", !.deps = deps, !.serves = serves]

\* "a" serves every intent and "b" depends on it; a third item may be added.
MCSeeds ==
  {[i \in Ids |-> IF i = "a" THEN Serving({}, Intents)
                  ELSE IF i = "b" THEN Serving({"a"}, {}) ELSE NoEntry]}

\* The seed treats all intents alike.
IntentSymmetry == Permutations({m, n})
=============================================================================
