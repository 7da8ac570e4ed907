------------------------------- MODULE Survey -------------------------------
(***************************************************************************)
(* The survey of plans (src/survey): a row per plan, written by a model    *)
(* that is only shown the plans whose files changed since the survey       *)
(* before, and completed and merged in Rust.  Pure functions: MultiPlan    *)
(* runs them.                                                              *)
(*                                                                         *)
(* A plan's files are its phase and its backlog (None when it is absent or *)
(* does not parse, which the code does not tell apart).  Memory and        *)
(* related-plans.md are hashed like them and left out.  A row's notes are  *)
(* the files the model was shown when it wrote the row.                    *)
(***************************************************************************)
EXTENDS Naturals, FiniteSets, SequencesExt

CONSTANTS Plans,      \* the plans there are, by the rank of their project/plan keys
          Strangers,  \* keys a model may make up
          Phases, Backlogs, None

ASSUME KeysAssumption == Plans \cup Strangers \subseteq Nat /\ Plans \cap Strangers = {} /\ None \notin Backlogs

Files == [phase : Phases, backlog : Backlogs \cup {None}]

\* SHA-256 over length-prefixed sections: equal for equal sections only.
InputHash(f) == <<f.phase, f.backlog>>
\* The tally of statuses and the readiness counts, functions of the backlog.
TaskCounts(f) == f.backlog

Rows == [key : Plans \cup Strangers, input_hash : {None} \cup Phases \X (Backlogs \cup {None}),
         notes : Files \cup {None}, counts : Backlogs \cup {None}]
KeysOf(rows) == {rows[i].key : i \in DOMAIN rows}

-----------------------------------------------------------------------------
(* Classification against the prior survey.  When it has several rows of   *)
(* a plan the last one counts.                                             *)

PriorRow(prior, p) == prior.rows[Max({i \in DOMAIN prior.rows : prior.rows[i].key = p})]

\* Mutant: a row is carried forward whatever has become of its plan.
UnchangedByKey(prior, snap) == DOMAIN snap \cap KeysOf(prior.rows)

Unchanged(prior, snap) ==
  {p \in DOMAIN snap : p \in KeysOf(prior.rows) /\ PriorRow(prior, p).input_hash = InputHash(snap[p])}
Changed(prior, snap) == (DOMAIN snap \cap KeysOf(prior.rows)) \ Unchanged(prior, snap)
Added(prior, snap) == DOMAIN snap \ KeysOf(prior.rows)
Removed(prior, snap) == KeysOf(prior.rows) \ DOMAIN snap
\* Mutant: plans that the prior has no row of are not analysed.
ToAnalyseChanged(prior, snap) == Changed(prior, snap)

ToAnalyse(prior, snap) == Changed(prior, snap) \cup Added(prior, snap)
IsNoop(prior, snap) == ToAnalyse(prior, snap) = {} /\ Removed(prior, snap) = {}

-----------------------------------------------------------------------------
(* What the model answers: rows for the plans it was shown, or for others, *)
(* or the same twice, and an order that names any plan, in a fence or not. *)

ModelRow(key, shown) ==
  [key |-> key, input_hash |-> None,
   notes |-> IF key \in DOMAIN shown THEN shown[key] ELSE None, counts |-> None]
Answer(keys, order, shown) ==
  [rows |-> [i \in DOMAIN keys |-> ModelRow(keys[i], shown)], order |-> order]

\* Every row's plan must have been asked for, and as many rows as plans.
MayInjectHashes(answer, asked) ==
  KeysOf(answer.rows) \subseteq DOMAIN asked /\ Len(answer.rows) = Cardinality(DOMAIN asked)
WithHash(row, asked) == [row EXCEPT !.input_hash = InputHash(asked[row.key])]
InjectInputHashes(answer, asked) ==
  [answer EXCEPT !.rows = [i \in DOMAIN @ |-> WithHash(@[i], asked)]]
\* The counts of a plan whose backlog did not parse are left as they are.
WithCounts(row, snap) ==
  IF row.key \in DOMAIN snap /\ TaskCounts(snap[row.key]) # None
  THEN [row EXCEPT !.counts = TaskCounts(snap[row.key])] ELSE row
InjectCounts(survey, snap) ==
  [survey EXCEPT !.rows = [i \in DOMAIN @ |-> WithCounts(@[i], snap)]]

\* slice::sort_by: by their keys, and the rows of one key as they were.
Before(rows, i, j) == rows[i].key < rows[j].key \/ (rows[i].key = rows[j].key /\ i <= j)
Sorted(rows) ==
  LET place == [i \in DOMAIN rows |-> Cardinality({j \in DOMAIN rows : Before(rows, j, i)})]
  IN [m \in DOMAIN rows |-> rows[CHOOSE i \in DOMAIN rows : place[i] = m]]

\* The rows that did not change and those of the answer, sorted; the order is
\* the answer's.
MayMerge(delta, prior, snap) == KeysOf(delta.rows) = ToAnalyse(prior, snap)
MergeDelta(delta, prior, snap) ==
  LET unchanged == SetToSeq(Unchanged(prior, snap))
  IN [rows |-> Sorted([i \in DOMAIN unchanged |-> PriorRow(prior, unchanged[i])] \o delta.rows),
      order |-> delta.order]
=============================================================================
