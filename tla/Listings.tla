------------------------------- MODULE Listings -------------------------------
(***************************************************************************)
(* The list and show verbs of the state files, what --limit leaves of a    *)
(* list (src/cli/list_limits.rs), the backlog as a table                   *)
(* (state/backlog/render.rs) and the dependencies that the prose of a task *)
(* names and its record does not (state/backlog/lint_dependencies.rs).     *)
(*                                                                         *)
(* world.files gives each kind its file, "session" the session log.  The   *)
(* prose of a task is the set of words in it; a category is a number, and  *)
(* two of them are one but for the case of letters when halving makes them *)
(* equal.                                                                  *)
(***************************************************************************)
EXTENDS PlanReports

Effective(limits) == IF limits.all THEN Unset ELSE limits.limit

Apply(items, limits) == Limited(items, Effective(limits))

\* The newest sessions are the last.
SelectRecords(items, limits) ==
  LET cap == Effective(limits)
      cut == cap # Unset /\ cap < Len(items)
  IN  [items |-> IF cut THEN SubSeq(items, Len(items) - cap + 1, Len(items)) ELSE items, truncated |-> cut]

\* run_list and emit_envelope of memory, intents, findings and session-log.
RunList(w, kind, limits, format) ==
  Then(Read(w, kind), LAMBDA items :
    IF format = "markdown" THEN Error("InvalidInput")
    ELSE Ok(IF kind = "session" THEN SelectRecords(items, limits) ELSE Apply(items, limits)))

\* run_show: the first of the id.  The backlog refuses a table before reading.
RunShow(w, kind, id, format) ==
  IF kind = "backlog-item" /\ format = "markdown" THEN Error("InvalidInput")
  ELSE Then(Read(w, kind), LAMBDA items :
         LET hits == Keep(items, {e \in Range(items) : e.id = id})
         IN  IF hits = <<>> THEN Error("NotFound")
             ELSE IF format = "markdown" THEN Error("InvalidInput") ELSE Ok(Head(hits)))
-----------------------------------------------------------------------------
(* The backlog as a table. *)

\* Pass after pass over what has no depth: one more than the deepest of the
\* dependencies that are in the list.  What a cycle keeps waiting comes last.
ComputeDepthRanks(items) ==
  LET ids == IdsOf(items)
      Settle(depth, e) ==
        IF e.id \in DOMAIN depth \/ ~(e.deps \cap ids \subseteq DOMAIN depth) THEN depth
        ELSE depth @@ (e.id :> IF e.deps \cap ids = {} THEN 0 ELSE 1 + Max({depth[i] : i \in e.deps \cap ids}))
      Pass(depth, e) == FoldLeft(Settle, depth, items)
      depths == FoldLeft(Pass, [i \in {} |-> 0], items)
  IN  [i \in ids |-> IF i \in DOMAIN depths THEN depths[i] ELSE Len(items)]

StatusOrder == <<"active", "blocked", "done", "defeated", "superseded">>
StatusRank(s) == CHOOSE i \in DOMAIN StatusOrder : StatusOrder[i] = s

LexLess(a, b) ==
  \E i \in DOMAIN a : a[i] < b[i] /\ \A j \in 1..(i - 1) : a[j] = b[j]

\* Mutant: the order of the rows of a section without the depth.
SortSectionByStatus(section, items) ==
  LET Key(e) == <<StatusRank(e.status), Position(items, e.id)>>
  IN  SortSeq(section, LAMBDA a, b : LexLess(Key(a), Key(b)))

SortSection(section, items) ==
  LET depth == ComputeDepthRanks(items)
      Key(e) == <<StatusRank(e.status), depth[e.id], Position(items, e.id)>>
  IN  SortSeq(section, LAMBDA a, b : LexLess(Key(a), Key(b)))

\* Sections by name, whatever its case, or else by first mention.
ByCategory(items) ==
  LET First(c) == Min({i \in DOMAIN items : items[i].category = c})
      order == SortSeq(SetToSeq({e.category : e \in Range(items)}),
                       LAMBDA c, k : LexLess(<<c \div 2, First(c)>>, <<k \div 2, First(k)>>))
  IN  [n \in DOMAIN order |-> [name |-> order[n], rows |-> SelectSeq(items, LAMBDA e : e.category = order[n])]]
ByStatus(items) ==
  LET used == SelectSeq(StatusOrder, LAMBDA s : \E e \in Range(items) : e.status = s)
  IN  [n \in DOMAIN used |-> [name |-> StatusRank(used[n]), rows |-> SelectSeq(items, LAMBDA e : e.status = used[n])]]

RenderMarkdown(items, group_by) ==
  LET sections == IF group_by = "category" THEN ByCategory(items) ELSE ByStatus(items)
  IN  [n \in DOMAIN sections |-> [sections[n] EXCEPT !.rows = SortSection(@, items)]]

\* run_list of the backlog: a table is whole, whatever the limit.
RunBacklogTable(w, filter, group_by) ==
  Then(Read(w, "backlog-item"), LAMBDA items :
    Ok(RenderMarkdown(Keep(items, Passing(filter, items)), group_by)))
-----------------------------------------------------------------------------
(* lint-dependencies *)

\* contains_id_as_word: hay and id are sequences of bytes, a blank the only
\* one that no id has.
Blank == " "
IsSlugByte(b) == b # Blank
ContainsIdAsWord(hay, id) ==
  /\ id # <<>>
  /\ \E i \in 1..(Len(hay) - Len(id) + 1) :
       LET last == i + Len(id) - 1
       IN  /\ SubSeq(hay, i, last) = id
           /\ i = 1 \/ ~IsSlugByte(hay[i - 1])
           /\ last = Len(hay) \/ ~IsSlugByte(hay[last + 1])

AnalyseEntry(e, known) == ((e.prose \cap known) \ {e.id}) \ e.deps

LintDependencies(items) ==
  LET Missing(e) == AnalyseEntry(e, IdsOf(items))
      drifting == Keep(items, {e \in Range(items) : Missing(e) # {}})
  IN  [n \in DOMAIN drifting |-> [id |-> drifting[n].id, missing |-> Missing(drifting[n])]]

RunLint(w, format) ==
  Then(Read(w, "backlog-item"), LAMBDA items :
    IF format = "markdown" THEN Error("InvalidInput") ELSE Ok(LintDependencies(items)))
-----------------------------------------------------------------------------
ListedKinds == {"intent", "backlog-item", "memory-entry", "finding", "session"}
Limits == {[limit |-> Unset, all |-> TRUE]} \cup [limit : {Unset} \cup 0..3, all : {FALSE}]
OutputFormats == {"yaml", "json", "markdown"}

AskList == \E k \in ListedKinds \ {"backlog-item"}, n \in Limits, m \in OutputFormats :
  Ask("listing", [verb |-> "list", kind |-> k, limits |-> n], RunList(world, k, n, m))
AskShow == \E k \in ListedKinds, i \in ItemIds, m \in OutputFormats :
  Ask("listing", [verb |-> "show", kind |-> k, id |-> i], RunShow(world, k, i, m))
AskTable == \E filter \in ListFilter, g \in {"category", "status"} :
  Ask("listing", [verb |-> "table", filter |-> filter, group_by |-> g], RunBacklogTable(world, filter, g))
AskLint == \E m \in OutputFormats : Ask("listing", [verb |-> "lint"], RunLint(world, m))
AskWord ==
  /\ world.subject = "words"
  /\ Ask("words", [verb |-> "mentions"], Ok(ContainsIdAsWord(world.hay, world.id)))

\* The files hold what the verbs write, and an id has no blank.
ASSUME ListingsAssumption ==
  \A w \in Worlds :
    /\ w.subject = "listing" => \A k \in ListedKinds : Written(w.files[k])
    /\ w.subject = "words" =>
         w.hay \in Seq(Range(w.hay)) /\ w.id \in Seq(Range(w.id)) /\ Blank \notin Range(w.id)

ListingNext == AskList \/ AskShow \/ AskTable \/ AskLint \/ AskWord
-----------------------------------------------------------------------------
Acyclic(items) == \A S \in (SUBSET IdsOf(items)) \ {{}} : \E i \in S : Of(items, i).deps \cap S = {}
\* What lies between blanks.
WordsOf(hay) ==
  {SubSeq(hay, p[1], p[2]) : p \in {q \in (DOMAIN hay) \X (DOMAIN hay) :
     /\ q[1] <= q[2] /\ \A k \in q[1]..q[2] : hay[k] # Blank
     /\ q[1] = 1 \/ hay[q[1] - 1] = Blank
     /\ q[2] = Len(hay) \/ hay[q[2] + 1] = Blank}}

\* A list of a file that does not say that it is cut has every item; one that
\* is cut has as many as asked for, of a log the latest; and each is what
\* "show" shows for its id.
ListIsWhole(w, kind, limits, out) ==
  LET items == Read(w, kind).value IN
  /\ ~out.truncated => out.items = items
  /\ out.truncated => Len(out.items) = limits.limit /\ ~limits.all
  /\ IF kind = "session" THEN IsSuffix(out.items, items) ELSE IsPrefix(out.items, items)
  /\ \A e \in Range(out.items) : RunShow(w, kind, e.id, "yaml") = Ok(e)

\* A task that the lint does not name mentions no task it does not depend on,
\* and what it names as missing is mentioned and not depended on.
LintFindsTheDrift(items, told) ==
  \A e \in Range(items) :
    LET mentioned == {i \in IdsOf(items) \ {e.id} : i \in e.prose /\ i \notin e.deps} IN
    /\ (\A k \in DOMAIN told : told[k].id # e.id) <=> mentioned = {}
    /\ \A k \in DOMAIN told : told[k].id = e.id => told[k].missing = mentioned

\* What list, lint and the search for a mention say is what the files hold; a
\* mention is an id between blanks.
ListsAreWhole ==
  /\ Answered("list") => ListIsWhole(world, query.kind, query.limits, answer.value)
  /\ Answered("lint") => LintFindsTheDrift(Read(world, "backlog-item").value, answer.value)
  /\ Answered("mentions") => answer.value = (world.id \in WordsOf(world.hay))

\* The answers about plans: those of inspection, those that compare a plan with
\* its baseline, and the lists.
PlansAnswerRight == ReportsTellTheChange /\ InspectionFindsEveryItem /\ ListsAreWhole

\* A table has every task that passes the filter, once, under its category or
\* status, and no task stands above one of the same section and status that it
\* depends on, unless dependencies go round.
TablesAreWhole ==
  Answered("table") =>
    LET items == Read(world, "backlog-item").value
        rows == FlattenSeq([n \in DOMAIN answer.value |-> answer.value[n].rows]) IN
    /\ IsInjective(rows)
    /\ Range(rows) = Passing(query.filter, items)
    /\ \A n \in DOMAIN answer.value : \A e \in Range(answer.value[n].rows) :
         answer.value[n].name = IF query.group_by = "category" THEN e.category ELSE StatusRank(e.status)
    /\ Acyclic(items) =>
         \A n \in DOMAIN answer.value :
           LET section == answer.value[n].rows IN
           \A i, j \in DOMAIN section :
             i < j /\ section[i].status = section[j].status => section[j].id \notin section[i].deps
=============================================================================
