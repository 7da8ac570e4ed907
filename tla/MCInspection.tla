----------------------------- MODULE MCInspection -----------------------------
(***************************************************************************)
(* Every question on small files: a behaviour is one of them.              *)
(***************************************************************************)
EXTENDS AtlasQueries, Listings, GraphAlgorithms, CommandLine, RunnerReports

(* atlas: every directed graph of four components and at most four edges    *)
(* with and without one symmetric edge, and two repositories in any state.  *)
File(s, e) == [state |-> s, entries |-> e]
Repo(status, comps, related, bad, mem) ==
  [status |-> status, components |-> comps, related |-> related, related_state |-> bad, memory |-> mem]
C(i, k, p, d, s) == [id |-> i, kind |-> k, parent |-> p, deleted |-> d, segment |-> s]
E(k, a, b) == [kind |-> k, from |-> a, to |-> b]
NoFile == File("missing", {})
Away(s) == Repo(s, {}, {}, "ok", NoFile)
All == {C(i, "lib", 0, FALSE, NoSegment) : i \in Ids}
Pairs == {e \in Edge : IsDirected(e) /\ e.from # e.to}
Peers == {E("co-implements", 1, 2)}
GraphWorlds ==
  {[subject |-> "atlas", repos |-> [r \in Repos |-> IF r = "r" THEN Repo("fresh", All, d \cup s, "ok", NoFile) ELSE Away("missing")]] :
     d \in UNION {kSubset(k, Pairs) : k \in 0..4}, s \in SUBSET Peers}
Templates == {C(1, "lib", 0, FALSE, "root"), C(1, "bin", 0, TRUE, "root"),
              C(2, "bin", 1, FALSE, NoSegment), C(2, "lib", 1, TRUE, NoSegment)}
RepoStates ==
  {Away(s) : s \in {"no_local_path", "missing", "unparseable"}}
  \cup {Repo("fresh", cs, {E("depends-on", 2, 1)}, b, File("ok", {{"word"}, {"other"}})) :
          cs \in SUBSET Templates, b \in {"ok", "bad"}}
  \cup {Repo("fresh", Templates, {}, "ok", File(s, {{"word"}})) : s \in {"torn", "other-version", "missing"}}
CatalogWorlds == {[subject |-> "atlas", repos |-> w] : w \in [Repos -> RepoStates]}
MCRefs == {[repo |-> Unset, id |-> i] : i \in Ids} \cup {[repo |-> r, id |-> 1] : r \in Repos}

(* plans *)
Item(i, c, s, d, r, js) ==
  [id |-> i, claim |-> c, status |-> s, deps |-> d, results |-> r, handoff |-> 0, justifications |-> js]
J(k, p, s) == [kind |-> k, path |-> p, sha |-> s]
Anchor == J("code-anchor", "p", "v1")
Serves == J("serves-intent", "none", "none")
Why == J("rationale", "none", "none")
FileOf(s, items) == [state |-> s, items |-> items]
Whole(S) == {FileOf("ok", items) : items \in S} \cup {FileOf(s, <<>>) : s \in {"missing", "torn", "other-version"}}
Distinct(q) == \A i, j \in DOMAIN q : i # j => q[i].id # q[j].id
Lists(S, n) == {q \in UNION {[1..k -> S] : k \in 0..n} : Distinct(q)}

Intents == Lists({Item("a", 1, s, {}, 0, {Why}) : s \in {"active", "satisfied"}}, 1)
Tasks == Lists({Item(i, 1, s, d, r, {Serves}) : i \in {"b", "c"}, s \in {"active", "done"},
                  d \in {{}, {"b"}, {"a", "c"}}, r \in {0, 1}} \cup {Item("a", 1, "active", {"b"}, 0, {})}, 2)
FewTasks == {<<>>, <<Item("a", 1, "blocked", {"b"}, 0, {Serves}), Item("b", 1, "done", {}, 1, {Why})>>}
Memories == Lists({Item("a", 1, s, {}, 0, {Anchor, Why}) : s \in {"active", "superseded"}}
                  \cup {Item("c", 1, "legacy", {}, 0, {})}, 2)
Inbox == <<Item("f", 1, "new", {}, 0, {Why})>>
NoBaseline == [sha |-> "none", git |-> "ok", files |-> "none"]
\* "plan" and "state findings" look for the inbox in two places: "findings
\* add" writes that of the context, and the plan directory has none.
Plan(i, b, m, v) ==
  [subject |-> "plan", tree |-> [p \in {"p"} |-> v], inbox |-> Inbox, baseline |-> NoBaseline,
   files |-> ("intent" :> i @@ "backlog-item" :> b @@ "memory-entry" :> m @@ "finding" :> FileOf("missing", <<>>))]
PlanWorlds ==
  {Plan(FileOf("ok", <<>>), FileOf("ok", b), FileOf("ok", <<>>), "v1") : b \in Tasks}
  \cup {Plan(i, b, m, "v1") : i \in Whole(Intents), b \in Whole(FewTasks), m \in Whole(Memories)}
  \cup {Plan(FileOf("ok", <<>>), FileOf("ok", <<>>), FileOf("ok", m), v) :
           m \in Memories, v \in {"v2", "absent", "no-blob"}}
Was == Lists({Item(i, 1, s, {}, IF i = "a" THEN 2 ELSE 0, {}) : i \in ItemIds, s \in {"active", "done"}}, 3)
Now == Lists({Item(i, 1, s, {}, IF i = "c" THEN 0 ELSE 1, {}) : i \in ItemIds, s \in {"active", "done"}}
             \cup {[Item("a", 2, "active", {"b"}, 0, {Why}) EXCEPT !.handoff = 1]}, 3)
DiffWorlds ==
  {[subject |-> "diff", files |-> [k \in Kinds |-> n], inbox |-> Inbox, tree |-> "none",
    baseline |-> [sha |-> s, git |-> g, files |-> [k \in Kinds |-> b]]] :
     n \in Whole(Now), b \in Whole(Was), s \in {"none", "some"}, g \in {"ok", "no-repository"}}

(* The graph of a store: every one of four items with at most four          *)
(* references, the first item also with one to itself, one to no item and   *)
(* a justification that names none.                                         *)
Ref(e) == [names |-> TRUE, item |-> e[2]]
Referring == {e \in Ids \X Ids : e[1] # e[2]}
Extra == {{}, {Ref(<<1, 1>>), Ref(<<1, 0>>), [names |-> FALSE, item |-> 2]}}
StoreWorlds ==
  {[subject |-> "store", items |-> [i \in Ids |-> {Ref(e) : e \in {r \in d : r[1] = i}} \cup (IF i = 1 THEN x ELSE {})]] :
     d \in UNION {kSubset(k, Referring) : k \in 0..4}, x \in Extra}

(* calls: those of the prompts and a few others, with every failure.        *)
Named(slash, valid, exists) == [slash |-> slash, valid |-> valid, exists |-> exists]
Here == Named(FALSE, TRUE, TRUE)
Cli(call, formats, plan, readable, fails) ==
  [subject |-> "cli", call |-> call, formats |-> formats, plan |-> plan, readable |-> readable, fails |-> fails]
Given(v, joined) == [value |-> v, joined |-> joined]
WithFormat ==
  {Call(<<"findings", "list">>, 0, <<"format">>), Call(StateCall("phase-summary", "render"), 1, <<"phase", "format">>),
   Call(StateCall("backlog", "list"), 1, <<"limit", "all", "format">>), Call(StateCall("backlog", "show"), 2, <<"format", "format">>)}
Others == {Call(<<"run">>, n, <<>>) : n \in 0..2} \cup {Call(<<"survey">>, 1, <<"force">>), Call(<<"version">>, 0, <<>>)}
Failures == {<<>>, <<"text">>, <<"NotFound">>, <<"NotFound", "text">>, <<"text", "IoError">>,
             <<"NotFound", "text", "IoError", "text">>, <<"Conflict", "Cancelled">>}
CliWorlds ==
  {Cli(c, <<>>, Here, TRUE, e) : c \in Instructions \cup Others, e \in {<<>>, <<"Conflict">>}}
  \cup {Cli(c, <<Given(v, j)>>, Here, TRUE, e) :
          c \in WithFormat, v \in {"yaml", "json", "text", "xml"}, j \in BOOLEAN, e \in Failures}
  \cup {Cli(Call(<<"survey">>, 1, <<>>), <<>>, Named(x, y, z), TRUE, <<>>) : x, y, z \in BOOLEAN}
  \cup {Cli(Call(StateCall("backlog", "set-handoff"), 2, fl), <<>>, Here, r, <<>>) :
          fl \in {<<>>, <<"body">>, <<"body-file">>, <<"body", "body-file">>}, r \in BOOLEAN}

(* prompts *)
T(n) == Token(n)
Texts == {<<Word("w")>>, <<T("A"), Word("w")>>, <<T("PLAN")>>, <<T("B"), T("A")>>, <<T("RELATED_PLANS"), T("odd")>>, <<T("typo")>>}
PromptWorlds ==
  {[subject |-> "prompt", base |-> b, override |-> o, appends |-> a, related_plans |-> r,
    tokens |-> ("A" :> va @@ "B" :> vb)] :
     b \in Texts, o \in Texts \cup {Unset}, a \in {<<>>, <<<<Word("x")>>, <<T("A")>>>>},
     r \in {<<>>, <<Word("p"), T("PLAN")>>, <<T("B")>>},
     va \in {<<Word("a")>>, <<T("PROJECT")>>, <<T("B")>>}, vb \in {<<Word("b")>>, <<T("DEV_ROOT")>>, <<T("A")>>}}
L(h, b, t) == [h1 |-> h, blank |-> b, text |-> t]
Bodies == {<<L(TRUE, FALSE, "title"), L(FALSE, FALSE, "words")>>, <<L(FALSE, TRUE, ""), L(FALSE, FALSE, "words")>>}
MemoryWorlds ==
  {[subject |-> "fixed-memory", embedded |-> [s \in e |-> b],
    user |-> [s \in {"x", "y"} |-> <<L(FALSE, TRUE, ""), L(TRUE, FALSE, "mine")>>],
    entries |-> [s \in {"x", "y"} |-> IF s = "x" THEN k1 ELSE k2]] :
     e \in SUBSET {"x", "y"}, b \in Bodies, k1, k2 \in {"none", "file", "directory", "other", "unreadable"}}

(* configuration: up to two calls in a layer *)
Do(what, v) == [do |-> what, value |-> v]
DoAt(what, at, v) == [do |-> what, at |-> at, value |-> v]
DoFor(what, agent, at, v) == [do |-> what, agent |-> agent, at |-> at, value |-> v]
Settings ==
  {Do("set_agent", "pi"), Do("set_agent", "strange"), Do("set_headroom", "more"), Do("set_headroom", "negative"),
   DoAt("set_model", "work", "m"), DoFor("set_model_for", "pi", "work", "n"), DoFor("set_model_for", "claude-code", "survey", ""),
   Do("set_provider", "p"), DoFor("set_provider_for", "pi", "", "q"), DoFor("set_token", "pi", "TOOL", "t"),
   DoAt("append_prompt", "work", "x"), DoAt("append_prompt", "triage", "y"),
   DoAt("write", "agent", "pi"), DoAt("write", "agent", Unset), DoAt("write", "headroom", "negative"), Do("throw", "")}
Layer(n) == {Unset, [readable |-> FALSE, calls |-> <<>>]} \cup {[readable |-> TRUE, calls |-> c] : c \in SeqOf(Settings, n)}
ConfigWorlds ==
  {[subject |-> "config", global |-> g, plan |-> p] : g \in Layer(2), p \in Layer(1)}
  \cup {[subject |-> "config", global |-> g, plan |-> p] : g \in {Unset, [readable |-> TRUE, calls |-> <<Do("set_agent", "pi")>>]}, p \in Layer(2)}
DirWorlds ==
  [subject : {"config-dir"}, flag : {Unset, "context", "missing"}, env : {Unset, "other", "missing"}, xdg : {Unset, "context"}]

(* listings: backlogs of three tasks, logs of up to three records, texts of *)
(* up to five characters                                                    *)
Task(i, c, s, d, w) == [id |-> i, category |-> c, status |-> s, deps |-> d, prose |-> w, results |-> 0]
Backlogs ==
  {q \in [1..3 -> {Task(i, 2, s, d, {}) : i \in ItemIds, s \in {"active", "done"}, d \in {{}, {"a"}, {"c"}}}] : Distinct(q)}
  \cup {<<Task("a", i, "blocked", {}, w), Task("b", j, "active", {"a"}, v), Task("c", k, "defeated", {"b"}, {})>> :
          i, j, k \in {2, 3, 4}, w, v \in {{}, {"a"}, {"b", "c"}}}
Logs == {FileOf("ok", [i \in 1..n |-> [id |-> <<"a", "b", "c">>[i]]]) : n \in 0..3} \cup {FileOf("missing", <<>>), FileOf("torn", <<>>)}
Listed(b, l) == [subject |-> "listing", files |-> [k \in ListedKinds |-> IF k = "backlog-item" THEN b ELSE l]]
ListWorlds == {Listed(FileOf("ok", b), FileOf("ok", <<>>)) : b \in Backlogs} \cup {Listed(FileOf(l.state, <<>>), l) : l \in Logs}
WordWorlds ==
  [subject : {"words"}, hay : SeqOf({"x", "y", " "}, 5), id : {<<"x">>, <<"x", "y">>, <<"y", "y">>, <<>>}]

(* surveys *)
Row(p, n, w) == [project |-> p, plan |-> n, notes |-> w]
Bullet(o, w) == [of |-> o, rationale |-> w]
Rows == {<<>>, <<Row("p", 1, <<>>), Row("q", 2, <<>>), Row("p", 3, <<2>>)>>}
        \cup {<<Row("p", 1, w), Row(x, 2, v)>> : x \in {"p", "q"}, w \in SeqOf({1, 2, 4}, 4), v \in {<<>>, <<1, 2>>}}
BulletLists == {<<>>, <<Bullet(1, <<>>), Bullet(2, <<1, 1>>)>>}
Surveys ==
  [plans : Rows, cross_plan_blockers : BulletLists, parallel_streams : BulletLists,
   recommended_invocation_order : BulletLists, findings : BulletLists]
SurveyWorlds == {[subject |-> "survey-report", survey |-> s, width |-> n] : s \in Surveys, n \in {2, 6}}

(* work trees: a path in any state beside one in a few; dates, each at both *)
(* ends of the day, some of every year and all about 2000 and 2100.         *)
PathIs(b, h, i, w, x) == [base |-> b, head |-> h, index |-> i, work |-> w, blank |-> x]
WorkTrees ==
  {[subject |-> "work-tree", git |-> g, baseline |-> a,
    tree |-> [p \in {"p", "q"} |-> IF p = "p" THEN PathIs(b, h, i, w, x) ELSE o]] :
     b, h, i, w \in 0..2, x \in BOOLEAN,
     o \in {PathIs(1, 1, 1, 1, FALSE), PathIs(1, 1, 0, 0, FALSE), PathIs(1, 1, 1, 0, FALSE), PathIs(1, 2, 0, 2, TRUE)},
     g \in {"ok", "no-repository"}, a \in {"none", "bad", "ok"}}
Days == {n \in 0..48000 : n % 37 = 0} \cup 10950..11330 \cup 47480..47560
Clocks == {[subject |-> "clock", days |-> n, secs |-> s] : n \in Days, s \in {0, 86399}}
          \cup {[subject |-> "clock", days |-> 11016, secs |-> s] : s \in {59, 60, 3599, 3600, 43200}}

MCWorlds ==
  UNION {GraphWorlds, CatalogWorlds, PlanWorlds, DiffWorlds, StoreWorlds, CliWorlds, PromptWorlds, MemoryWorlds,
         ConfigWorlds, DirWorlds, ListWorlds, WordWorlds, SurveyWorlds, WorkTrees, Clocks}
MCItemIds == {"a", "b", "c"}
Next ==
  \/ AtlasNext \/ PlanNext \/ StoreGraphNext \/ CommandNext \/ PromptNext \/ ConfigNext
  \/ ListingNext \/ AskSurveyReport \/ RunnerNext
Spec == QueryInit /\ [][Next]_query_vars

\* The answers about components and about graphs, the atlas' and the stores'.
AtlasAnswersRight == GraphAnswersRight /\ CatalogAnswersAgree /\ StoreGraphRight
\* The tables, the report of a survey and the prompts.
ReportsAreWhole == TablesAreWhole /\ SurveyReportIsWhole /\ PromptsAreWhole
=============================================================================
