----------------------------- MODULE PlanReports -----------------------------
(***************************************************************************)
(* What is read off a plan without changing it: "plan list-items",         *)
(* "show-item" and "query-by-...", "state backlog list", the change report *)
(* of analyse-work (backlog_transitions.rs), "state phase-summary render"  *)
(* and "state memory check-anchors".  Prose is a version of a text; w is   *)
(* what is read.                                                           *)
(***************************************************************************)
EXTENDS Query, PlanKinds

CONSTANT ItemIds   \* the ids asked for

\* read_intents, read_backlog, read_memory: [state, items].  A plan's inbox is
\* looked for in the plan directory, where none is an empty one.
Read(w, kind) ==
  LET file == w.files[kind]
  IN  IF file.state = "ok" THEN Ok(file.items)
      ELSE IF file.state = "missing" THEN
             IF kind = "finding" THEN Ok(<<>>) ELSE Error("NotFound")
      ELSE IF file.state = "torn" THEN Error("InvalidInput") ELSE Error("Conflict")

Tagged(kind, items) == [i \in DOMAIN items |-> [kind |-> kind, item |-> items[i]]]

Entries(w, kind) == Range(w.files[kind].items)
WithStatus(w, status) == [k \in Kinds |-> {e \in Entries(w, k) : e.status = status}]

\* Kind after kind of those asked, the entries that are wanted; the first file
\* that does not read ends it.
Collect(w, kinds, wanted) ==
  LET Part(k) == IF k \in kinds THEN Then(Read(w, k), LAMBDA items : Ok(Tagged(k, Keep(items, wanted[k])))) ELSE Ok(<<>>)
  IN  Then(Part("intent"), LAMBDA a : Then(Part("backlog-item"), LAMBDA b :
        Then(Part("memory-entry"), LAMBDA c : Then(Part("finding"), LAMBDA d : Ok(a \o b \o c \o d)))))

Asked(kind) == IF kind = Unset THEN Kinds ELSE {kind}

ListItems(w, kind) == Collect(w, Asked(kind), [k \in Kinds |-> Entries(w, k)])

\* find_in_...: the first entry of each kind.
ShowItem(w, id) ==
  Then(ListItems(w, Unset), LAMBDA all :
    LET Hits(k) == Keep(all, {t \in Range(all) : t.kind = k /\ t.item.id = id})
        found == {k \in Kinds : Hits(k) # <<>>}
    IN  IF found = {} THEN Error("NotFound")
        ELSE IF Cardinality(found) > 1 THEN Error("Conflict")
        ELSE Ok(Head(Hits(CHOOSE k \in found : TRUE))))

Accepts(status) == {k \in Kinds : status \in Vocabulary(k)}

\* Mutant: a word that some kind does not know is refused.
QueryByStatusAll(w, kind, status) ==
  IF Accepts(status) # Asked(kind) THEN Error("InvalidInput")
  ELSE Collect(w, Asked(kind), WithStatus(w, status))

\* Without a kind only the kinds that know the word are read.
QueryByStatus(w, kind, status) ==
  IF Accepts(status) \cap Asked(kind) = {} THEN Error("InvalidInput")
  ELSE Collect(w, Accepts(status) \cap Asked(kind), WithStatus(w, status))

QueryByJustification(w, kind, jk) ==
  Collect(w, Asked(kind), [k \in Kinds |-> {e \in Entries(w, k) : jk \in {j.kind : j \in e.justifications}}])
-----------------------------------------------------------------------------
(* state backlog list *)

DoneIds(items) == {e.id : e \in {x \in Range(items) : x.status = "done"}}

EntryMatches(e, filter, items) ==
  /\ filter.status \in {Unset, e.status}
  /\ filter.ready => e.status = "active" /\ e.deps \subseteq DoneIds(items)
  /\ filter.missing_results => e.status = "done" /\ e.results = 0

Passing(filter, items) == {e \in Range(items) : EntryMatches(e, filter, items)}

\* ListLimits and apply: the head is kept, and what is cut off is announced.
Limited(items, limit) ==
  [items |-> IF limit = Unset THEN items ELSE SubSeq(items, 1, IF limit < Len(items) THEN limit ELSE Len(items)),
   truncated |-> limit # Unset /\ limit < Len(items)]

BacklogList(w, filter, limit) ==
  Then(Read(w, "backlog-item"), LAMBDA items :
    Ok(Limited(Keep(items, Passing(filter, items)), limit)))

\* The tallies a survey row is completed with: by status, and what is open.
TaskCounts(items) ==
  [s \in BacklogStatus |-> Cardinality({i \in DOMAIN items : items[i].status = s})]
Waits(e, items) == e.status = "active" /\ ~(e.deps \subseteq DoneIds(items))
PlanRowCounts(items) ==
  [unblocked |-> Cardinality({i \in DOMAIN items : items[i].status = "active" /\ ~Waits(items[i], items)}),
   blocked |-> Cardinality({i \in DOMAIN items : items[i].status = "blocked" \/ Waits(items[i], items)}),
   received |-> Cardinality({i \in DOMAIN items : items[i].handoff # 0})]

SurveyCounts(w) ==
  Then(Read(w, "backlog-item"), LAMBDA items :
    Ok([total |-> Len(items), tasks |-> TaskCounts(items), row |-> PlanRowCounts(items)]))
-----------------------------------------------------------------------------
(* Against the baseline commit: both readers of it. *)

\* read_baseline_yaml; any failure of git show is a first cycle.
BaselineYaml(w, kind) ==
  LET at == w.baseline
  IN  IF at.sha = "none" THEN Ok(<<>>)
      ELSE IF at.git = "no-repository" THEN Error("IoError")
      ELSE IF at.files[kind].state = "missing" THEN Ok(<<>>)
      ELSE IF at.files[kind].state = "ok" THEN Ok(at.files[kind].items) ELSE Error("InvalidInput")

\* The entry of an id; the code's maps are by id too.
Of(items, id) == items[CHOOSE i \in DOMAIN items : items[i].id = id]
IdsOf(items) == {e.id : e \in Range(items)}
Position(items, id) == CHOOSE i \in DOMAIN items : items[i].id = id
Both(base, now) == IdsOf(base) \cap IdsOf(now)

\* Fields of the tasks in both files that differ, with what they were and are.
Changed(base, now, Field(_)) ==
  {<<i, Field(Of(base, i)), Field(Of(now, i))>> :
     i \in {j \in Both(base, now) : Field(Of(base, j)) # Field(Of(now, j))}}

\* Results and hand-offs are versions, 0 for none.  Results that were cleared are
\* not reported.
DiffEntryFields(base, now, added, deleted) ==
  [status |-> Changed(base, now, LAMBDA e : e.status), title |-> Changed(base, now, LAMBDA e : e.claim),
   deps |-> Changed(base, now, LAMBDA e : e.deps), handoff |-> Changed(base, now, LAMBDA e : e.handoff),
   results_added |-> {t \in Changed(base, now, LAMBDA e : e.results) : t[2] = 0},
   results_modified |-> {t \in Changed(base, now, LAMBDA e : e.results) : t[2] # 0 /\ t[3] # 0},
   added |-> {<<i, Of(now, i).claim>> : i \in added}, deleted |-> {<<i, Of(base, i).claim>> : i \in deleted}]

\* Mutant: the loop over the baseline that finds what was deleted is left out.
TransitionsOfCurrent(base, now) == DiffEntryFields(base, now, IdsOf(now) \ IdsOf(base), {})

ComputeTransitions(base, now) ==
  DiffEntryFields(base, now, IdsOf(now) \ IdsOf(base), IdsOf(base) \ IdsOf(now))

\* The text is a remark, or sections with their lines; one without lines is
\* left out.
Report(remark, sections) == [remark |-> remark, sections |-> sections]
Remark(remark) == Ok(Report(remark, <<>>))
SectionOrder ==
  <<"status", "results_added", "results_modified", "added", "deleted", "title", "deps", "handoff">>

RenderTransitions(t) ==
  LET shown == Keep(SectionOrder, {s \in Range(SectionOrder) : t[s] # {}})
  IN  Report(IF shown = <<>> THEN "no-changes" ELSE "changes",
             [i \in DOMAIN shown |-> [name |-> shown[i], lines |-> t[shown[i]]]])

RenderAdditionsOnly(now) ==
  IF now = <<>> THEN Report("no-baseline-empty", <<>>)
  ELSE Report("no-baseline-found",
              <<[name |-> "added", lines |-> {<<i, Of(now, i).claim>> : i \in IdsOf(now)}]>>)

\* backlog_transitions never fails: what it cannot read is its text.
BacklogTransitions(w) ==
  LET at == w.baseline
      now == Read(w, "backlog-item")
  IN  IF at.sha = "none" THEN Remark("no-baseline")
      ELSE IF now.code # "ok" THEN Remark("unreadable")
      ELSE IF at.git = "no-repository" THEN Remark("lookup-failed")
      ELSE IF at.files["backlog-item"].state = "missing" THEN Ok(RenderAdditionsOnly(now.value))
      ELSE IF at.files["backlog-item"].state # "ok" THEN Remark("lookup-failed")
      ELSE Ok(RenderTransitions(ComputeTransitions(at.files["backlog-item"].items, now.value)))

\* compute_triage_labels: a task that moved is reprioritised, unless it was
\* just finished; one that is new is new, also when it is already done.
ComputeTriageLabels(base, now) ==
  LET finished == {i \in Both(base, now) : Of(base, i).status # "done" /\ Of(now, i).status = "done"}
      moved == {i \in Both(base, now) : Position(base, i) # Position(now, i)}
  IN  [i \in finished \cup moved \cup (IdsOf(base) \ IdsOf(now)) \cup (IdsOf(now) \ IdsOf(base)) |->
         IF i \in finished THEN "DONE" ELSE IF i \in moved THEN "REPRIORITISED"
         ELSE IF i \in IdsOf(now) THEN "NEW" ELSE "OBSOLETE"]

EntryDrifted(a, b) == <<a.claim, a.justifications, a.status>> # <<b.claim, b.justifications, b.status>>

ComputeReflectLabels(base, now) ==
  LET stale == {i \in Both(base, now) : EntryDrifted(Of(base, i), Of(now, i))}
  IN  [i \in stale \cup (IdsOf(base) \ IdsOf(now)) \cup (IdsOf(now) \ IdsOf(base)) |->
         IF i \in stale THEN "STALE" ELSE IF i \in IdsOf(now) THEN "NEW" ELSE "OBSOLETE"]

PhaseSummary(w, phase) ==
  LET kind == IF phase = "triage" THEN "backlog-item" ELSE "memory-entry"
  IN  Then(Read(w, kind), LAMBDA now : Then(BaselineYaml(w, kind), LAMBDA base :
        Ok(IF phase = "triage" THEN ComputeTriageLabels(base, now)
           ELSE ComputeReflectLabels(base, now))))
-----------------------------------------------------------------------------
(* state memory check-anchors *)

AnchorsOf(items) ==
  UNION {{<<e.id, a>> : a \in {j \in e.justifications : j.kind = "code-anchor"}} :
           e \in {x \in Range(items) : x.status = "active"}}

CheckOneAnchor(w, anchor) ==
  IF w.tree[anchor.path] = "absent" THEN "path-missing"
  ELSE IF w.tree[anchor.path] # anchor.sha THEN "sha-mismatch" ELSE "fresh"

\* A path that is there and has no blob, a directory say, ends the report.
CheckAnchors(w) ==
  Then(Read(w, "memory-entry"), LAMBDA items :
    IF \E a \in AnchorsOf(items) : w.tree[a[2].path] = "no-blob" THEN Error("IoError")
    ELSE Ok({a \in AnchorsOf(items) : CheckOneAnchor(w, a[2]) # "fresh"}))
-----------------------------------------------------------------------------
\* What the verbs write: each id once, and status words of the kind.  No kind is
\* the option that is not given.
Written(file) ==
  /\ file.items \in Seq(Range(file.items))
  /\ \A i, j \in DOMAIN file.items : file.items[i].id = file.items[j].id => i = j
ASSUME FilesAssumption ==
  /\ Unset \notin Kinds
  /\ \A w \in Worlds :
       /\ w.subject = "plan" =>
            \A k \in Kinds : Written(w.files[k]) /\ \A e \in Range(w.files[k].items) : e.status \in Vocabulary(k)
       /\ w.subject = "diff" =>
            \A k \in Kinds : Written(w.files[k]) /\ (w.baseline.sha # "none" => Written(w.baseline.files[k]))

\* JustificationKindFilter
JustificationKinds == {"serves-intent", "code-anchor", "rationale", "supersedes"}
ListFilter ==
  [status : {Unset, "done"}, ready : BOOLEAN, missing_results : BOOLEAN]

AskPlan(q, a) == Ask("plan", q, a)
AskDiff(q, a) == Ask("diff", q, a)

\* dispatch_plan and the readers among the other verbs.
PlanNext ==
  \/ \E k \in Kinds \cup {Unset} : AskPlan([verb |-> "list-items", kind |-> k], ListItems(world, k))
  \/ \E i \in ItemIds : AskPlan([verb |-> "show-item", id |-> i], ShowItem(world, i))
  \/ \E k \in Kinds \cup {Unset}, s \in UNION {Vocabulary(x) : x \in Kinds} \cup {"no-such-word"} :
       AskPlan([verb |-> "query-by-status", kind |-> k, status |-> s], QueryByStatus(world, k, s))
  \/ \E k \in Kinds \cup {Unset}, j \in JustificationKinds :
       AskPlan([verb |-> "query-by-justification", kind |-> k, justification |-> j],
               QueryByJustification(world, k, j))
  \/ \E f \in ListFilter, n \in {Unset, 0, 1} :
       AskPlan([verb |-> "backlog-list", filter |-> f, limit |-> n], BacklogList(world, f, n))
  \/ AskPlan([verb |-> "check-anchors"], CheckAnchors(world))
  \/ AskPlan([verb |-> "survey-counts"], SurveyCounts(world))
  \/ AskDiff([verb |-> "backlog-transitions"], BacklogTransitions(world))
  \/ \E p \in {"triage", "reflect"} : AskDiff([verb |-> "phase-summary", phase |-> p], PhaseSummary(world, p))
-----------------------------------------------------------------------------
LinesOf(report, name) ==
  UNION {s.lines : s \in {x \in Range(report.sections) : x.name = name}}

\* What a field is after the changes that are told of it.
Replay(before, changes, i) ==
  LET changed == {t \in changes : t[1] = i}
  IN  IF changed = {} THEN before ELSE (CHOOSE t \in changed : TRUE)[3]

\* Given the baseline, what analyse-work is told determines which tasks there
\* are and their status, titles, dependencies and hand-offs, and tells of results
\* that are new.
TellsTheChange(base, now, out) ==
  /\ IdsOf(now) = (IdsOf(base) \ {t[1] : t \in LinesOf(out, "deleted")}) \cup {t[1] : t \in LinesOf(out, "added")}
  /\ \A i \in Both(base, now) :
       /\ Of(now, i).status = Replay(Of(base, i).status, LinesOf(out, "status"), i)
       /\ Of(now, i).claim = Replay(Of(base, i).claim, LinesOf(out, "title"), i)
       /\ Of(now, i).deps = Replay(Of(base, i).deps, LinesOf(out, "deps"), i)
       /\ Of(now, i).handoff = Replay(Of(base, i).handoff, LinesOf(out, "handoff"), i)
       /\ Of(now, i).results \notin {0, Of(base, i).results} =>
            <<i, Of(base, i).results, Of(now, i).results>> \in
               LinesOf(out, "results_added") \cup LinesOf(out, "results_modified")
  /\ Len(out.sections) = 0 <=> out.remark = "no-changes"

\* Of two tasks that changed places one is labelled, and what is not labelled
\* was not added, deleted or finished.
LabelsTheChange(base, now, labels) ==
  /\ \A i, j \in Both(base, now) :
       (Position(base, i) < Position(base, j)) # (Position(now, i) < Position(now, j))
         => {i, j} \cap DOMAIN labels # {}
  /\ \A i \in ItemIds \ DOMAIN labels :
       /\ i \in IdsOf(base) <=> i \in IdsOf(now)
       /\ i \in DoneIds(now) => i \in DoneIds(base)

\* The report against a baseline tells the change, that of a plan's first cycle
\* every task; and the labels of the phase summary tell it too.
ReportsTellTheChange ==
  LET at == world.baseline
      base == at.files["backlog-item"].items
      now == world.files["backlog-item"].items
  IN  /\ Answered("backlog-transitions") /\ world.files["backlog-item"].state = "ok"
           /\ at.files["backlog-item"].state = "ok" /\ at.sha # "none" /\ at.git = "ok" =>
           TellsTheChange(base, now, answer.value)
      /\ Answered("backlog-transitions") /\ answer.value.remark = "no-baseline-found" =>
           {t[1] : t \in LinesOf(answer.value, "added")} = IdsOf(now)
      /\ Answered("phase-summary") /\ query.phase = "triage" /\ at.sha # "none"
           /\ at.files["backlog-item"].state = "ok" =>
           LabelsTheChange(base, now, answer.value)

\* What is listed can be shown by its id, unless another kind has that id too,
\* and is found by its status, with and without its kind.
FindsListed(w, listed) ==
  \A n \in DOMAIN listed :
    LET t == listed[n]
        shown == ShowItem(w, t.item.id)
        WithId == {k \in Kinds : \E u \in Range(ListItems(w, k).value) : u.item.id = t.item.id}
    IN  /\ IF WithId = {t.kind} THEN shown.code = "ok" /\ shown.value.item.id = t.item.id
           ELSE shown.code = "Conflict"
        /\ t \in Range(QueryByStatus(w, Unset, t.item.status).value)
        /\ t \in Range(QueryByStatus(w, t.kind, t.item.status).value)

\* Kind by kind the same entries are found as without one.
FindsByStatus(w, status, all) ==
  \A k \in Accepts(status) :
    LET one == QueryByStatus(w, k, status)
    IN  one.code = "ok" /\ Range(one.value) = {t \in Range(all) : t.kind = k}

Ready == [status |-> Unset, ready |-> TRUE, missing_results |-> FALSE]
\* Open and done tasks only, with dependencies that are there and no cycle.
CanFinish(items) ==
  /\ \A e \in Range(items) : e.status \in {"active", "done"} /\ e.deps \subseteq IdsOf(items)
  /\ \A S \in (SUBSET IdsOf(items)) \ {{}} : \E i \in S : Of(items, i).deps \cap S = {}

\* A listing that is not marked as cut is whole; a backlog of open and done tasks
\* whose dependencies are in it and have no cycle has a task that is ready.
ListsBacklog(items, filter, out) ==
  /\ ~out.truncated => Range(out.items) = Passing(filter, items)
  /\ filter = Ready /\ CanFinish(items) /\ DoneIds(items) # IdsOf(items) => Passing(filter, items) # {}

\* The survey counts as unblocked what "backlog list --ready" lists, each task
\* once.
CountsEach(w, counts) ==
  /\ counts.row.unblocked = Len(BacklogList(w, Ready, Unset).value.items)
  /\ counts.row.unblocked + counts.row.blocked = counts.tasks["active"] + counts.tasks["blocked"]
  /\ counts.total = counts.tasks["active"] + counts.tasks["done"] + counts.tasks["defeated"]
                       + counts.tasks["superseded"] + counts.tasks["blocked"]

\* The verbs of inspection find what there is.
InspectionFindsEveryItem ==
  /\ Answered("list-items") /\ ListItems(world, Unset).code = "ok" => FindsListed(world, answer.value)
  /\ Answered("query-by-status") /\ query.kind = Unset => FindsByStatus(world, query.status, answer.value)
  /\ Answered("backlog-list") => ListsBacklog(world.files["backlog-item"].items, query.filter, answer.value)
  /\ Answered("survey-counts") => CountsEach(world, answer.value)

\* What "findings add" captured is among what the plan verbs list.
FindingsAreListed ==
  Answered("list-items") /\ query.kind \in {Unset, "finding"} =>
    \A e \in Range(world.inbox) : \E t \in Range(answer.value) : t.item = e
=============================================================================
