------------------------------- MODULE Backlog -------------------------------
(***************************************************************************)
(* The truth-maintained state of one plan: backlog.yaml and intents.yaml,  *)
(* the "state backlog" and "state intents" verbs the agents of every phase *)
(* run on them (src/state/backlog, src/state/intents), and the serves-     *)
(* intent cascade the runner runs at git-commit-triage                     *)
(* (src/defeat_cascade.rs).  One step is one whole verb: it reads the file,*)
(* checks, and replaces it.  A verb that bails leaves the file alone and   *)
(* is no step.  Titles, descriptions, results, hand-offs and the legacy    *)
(* mark are left out: no verb and no cascade reads them.                   *)
(***************************************************************************)
EXTENDS DependencyGraph, Naturals, Sequences, FiniteSets, SequencesExt

CONSTANTS
  Intents,  \* the slugs allocate_id may produce for intents (Ids: for items)
  Seeds     \* the bodies "backlog init" is given: functions on their items

Statuses == {"active", "done", "defeated", "superseded", "blocked"}
Terminal == Statuses \ {"active", "blocked"}
IntentStatuses == {"active", "satisfied", "defeated", "superseded"}
Absent == "absent"

Entry == [status : Statuses \cup {Absent},
          deps : SUBSET Ids,        \* dependencies
          serves : SUBSET Intents,  \* serves-intent justifications
          reason : BOOLEAN,         \* a blocked_reason is recorded
          cascaded : BOOLEAN]       \* defeated_by: cascade

NoEntry == [status |-> Absent, deps |-> {}, serves |-> {}, reason |-> FALSE,
            cascaded |-> FALSE]

\* "backlog init" stores its body unchecked; a body is taken to be sound.
ASSUME SeedAssumption ==
  \A s \in Seeds :
    /\ s \in [Ids -> Entry]
    /\ \A i \in Ids : /\ s[i].deps \subseteq {j \in Ids : s[j].status # Absent}
                      /\ s[i].status = Absent => s[i] = NoEntry
                      /\ ~s[i].cascaded
    /\ IsFiniteSet({i \in Ids : s[i].status # Absent})
    /\ Acyclic([i \in Ids |-> s[i].deps])

VARIABLES
  item,    \* backlog.yaml: the entry of each id
  order,   \* the ids in the order of the file
  intent   \* intents.yaml: the status of each intent

vars == <<item, order, intent>>

Present == {i \in Ids : item[i].status # Absent}
Deps == [i \in Ids |-> item[i].deps]
Done == {i \in Ids : item[i].status = "done"}

Init ==
  /\ item = [i \in Ids |-> NoEntry]
  /\ order = <<>>
  /\ intent = [n \in Intents |-> Absent]

-----------------------------------------------------------------------------
(* state backlog                                                           *)

\* run_add: the dependencies must exist; allocate_id finds a free slug.
Add(i, deps) ==
  /\ i \notin Present
  /\ deps \subseteq Present
  /\ item' = [item EXCEPT ![i] = [NoEntry EXCEPT !.status = "active", !.deps = deps]]
  /\ order' = Append(order, i)
  /\ UNCHANGED intent

\* run_init: refused when the backlog has an item.
InitBacklog(seed) ==
  /\ Present = {}
  /\ item' = seed
  /\ order' = SetToSeq({i \in Ids : seed[i].status # Absent})
  /\ UNCHANGED intent

\* Mutant: a done item may be reopened.
TransitionsReopen ==
  {"active"} \X (Statuses \ {"active"}) \cup {"blocked"} \X (Statuses \ {"blocked"})
    \cup {<<"done", "active">>}

\* BacklogStatus::transitions.
Transitions ==
  {"active"} \X (Statuses \ {"active"}) \cup {"blocked"} \X (Statuses \ {"blocked"})

\* run_set_status: a status may be set again; --reason goes with blocked only.
SetStatus(i, status) ==
  /\ i \in Present
  /\ status = item[i].status \/ <<item[i].status, status>> \in Transitions
  /\ item' = [item EXCEPT ![i].status = status, ![i].reason = status = "blocked"]
  /\ UNCHANGED <<order, intent>>

\* Mutant: only a cycle of two is refused.
SetDependenciesDirect(i, deps) ==
  /\ i \in Present
  /\ i \notin deps
  /\ deps \subseteq Present
  /\ \A d \in deps : i \notin item[d].deps
  /\ item' = [item EXCEPT ![i].deps = deps]
  /\ UNCHANGED <<order, intent>>

\* run_set_dependencies: the new ones must exist and must not reach the item.
SetDependencies(i, deps) ==
  /\ i \in Present
  /\ i \notin deps
  /\ deps \subseteq Present
  /\ \A d \in deps : ~Reaches(Deps, d, i)
  /\ item' = [item EXCEPT ![i].deps = deps]
  /\ UNCHANGED <<order, intent>>

\* Iterator::position: the first place of an id.
Position(q, id) == CHOOSE k \in DOMAIN q : q[k] = id /\ \A l \in 1..k - 1 : q[l] # id

\* Mutant: the item is put in first and taken out at its old index.
ReorderedStale(id, target, after) ==
  LET at == Position(order, target)
  IN RemoveAt(InsertAt(order, IF after THEN at + 1 ELSE at, id), Position(order, id))

\* The item is taken out and put back next to the target.
Reordered(id, target, after) ==
  LET rest == RemoveAt(order, Position(order, id))
      at == Position(rest, target)
  IN InsertAt(rest, IF after THEN at + 1 ELSE at, id)

Reorder(id, target, after) ==
  /\ id # target
  /\ {id, target} \subseteq Present
  /\ order' = Reordered(id, target, after)
  /\ UNCHANGED <<item, intent>>

\* Mutant: --force leaves the dependents' lists alone.
DeletedOnly(i) == [item EXCEPT ![i] = NoEntry]

\* --force takes the item out of every dependency list.
Deleted(i) ==
  [j \in Ids |-> IF j = i THEN NoEntry
                 ELSE [item[j] EXCEPT !.deps = @ \ {i}]]

\* Vec::retain: what is left of a list, in its order, without an id.
Retained(q, id) ==
  LET kept == {k \in DOMAIN q : q[k] # id}
      rank == [k \in kept |-> Cardinality({l \in kept : l <= k})]
  IN [n \in 1..Cardinality(kept) |-> q[CHOOSE k \in kept : rank[k] = n]]

\* run_delete: refused while another item depends on it, unless forced.
Delete(i, force) ==
  /\ i \in Present
  /\ force \/ \A j \in Ids : i \notin item[j].deps
  /\ item' = Deleted(i)
  /\ order' = Retained(order, i)
  /\ UNCHANGED intent

\* detect_repair: the blocked items all of whose dependencies are done.
Unblocked ==
  {i \in Ids : item[i].status = "blocked" /\ item[i].deps # {} /\ item[i].deps \subseteq Done}

\* run_repair_stale_statuses.
Repair ==
  /\ Unblocked # {}
  /\ item' = [i \in Ids |-> IF i \notin Unblocked THEN item[i]
                            ELSE [item[i] EXCEPT !.status = "active", !.reason = FALSE]]
  /\ UNCHANGED <<order, intent>>

-----------------------------------------------------------------------------
(* state intents                                                           *)

AddIntent(n) ==
  /\ intent[n] = Absent
  /\ intent' = [intent EXCEPT ![n] = "active"]
  /\ UNCHANGED <<item, order>>

\* Mutant: the backlog's vocabulary is used for an intent.
SetIntentStatusDone(n, status) ==
  /\ intent[n] = "active"
  /\ status # "active"
  /\ intent' = [intent EXCEPT ![n] = IF status = "satisfied" THEN "done" ELSE status]
  /\ UNCHANGED <<item, order>>

\* An active intent may be settled, once.
SetIntentStatus(n, status) ==
  /\ intent[n] = "active"
  /\ status # "active"
  /\ intent' = [intent EXCEPT ![n] = status]
  /\ UNCHANGED <<item, order>>

-----------------------------------------------------------------------------
(* The runner                                                              *)

Settled(n) == intent[n] \notin {Absent, "active"}

\* Mutant: one settled intent is enough.
CascadeDueAny(i) ==
  /\ item[i].status \in {"active", "blocked"}
  /\ \E n \in item[i].serves : Settled(n)

\* cascade_serves_intent: open, serving an intent, and none that is not settled
\* (an intent intents.yaml does not have is not).
CascadeDue(i) ==
  /\ item[i].status \in {"active", "blocked"}
  /\ item[i].serves # {}
  /\ \A n \in item[i].serves : Settled(n)

\* run_defeat_cascade.
Cascade ==
  /\ \E i \in Ids : CascadeDue(i)
  /\ item' = [i \in Ids |-> IF ~CascadeDue(i) THEN item[i]
                            ELSE [item[i] EXCEPT !.status = "defeated", !.cascaded = TRUE]]
  /\ UNCHANGED <<order, intent>>

-----------------------------------------------------------------------------
Next ==
  \/ \E i \in Ids, deps \in SUBSET Ids : Add(i, deps)
  \/ \E seed \in Seeds : InitBacklog(seed)
  \/ \E i \in Ids, status \in Statuses : SetStatus(i, status)
  \/ \E i \in Ids, deps \in SUBSET Ids : SetDependencies(i, deps)
  \/ \E i, j \in Ids, after \in BOOLEAN : Reorder(i, j, after)
  \/ \E i \in Ids, force \in BOOLEAN : Delete(i, force)
  \/ Repair
  \/ \E n \in Intents : AddIntent(n)
  \/ \E n \in Intents, status \in IntentStatuses : SetIntentStatus(n, status)
  \/ Cascade

Spec == Init /\ [][Next]_vars
-----------------------------------------------------------------------------
(* Properties                                                              *)

\* Both files have their type.
TypeOK ==
  /\ item \in [Ids -> Entry]
  /\ order \in Seq(Ids)
  /\ intent \in [Intents -> IntentStatuses \cup {Absent}]

\* The file lists every item once, whatever was added, reordered and deleted.
ListedOnce == ToSet(order) = Present /\ Len(order) = Cardinality(Present)

\* No dependency dangles: every one names an item of the backlog, forced
\* deletions and reused slugs included.
DepsExist == \A i \in Present : item[i].deps \subseteq Present

\* The dependency graph has no cycle, although set-dependencies and a forced
\* delete change it edge by edge.
DepsAcyclic == Acyclic(Deps)

\* Together: an item waits for items there are, and never for itself.
DependenciesSound == DepsExist /\ DepsAcyclic

\* An item the cascade defeated serves intents, and all of them are settled,
\* ever after.
CascadeJustified ==
  \A i \in Ids : item[i].cascaded =>
    /\ item[i].status = "defeated"
    /\ item[i].serves # {}
    /\ \A n \in item[i].serves : Settled(n)

\* No verb and no cascade takes an item out of a terminal status: it stays in
\* it until it is deleted.
TerminalIsFinal ==
  [][\A i \in Ids : item[i].status \in Terminal
       => item'[i].status \in {item[i].status, Absent}]_vars
=============================================================================
