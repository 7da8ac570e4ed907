-------------------------------- MODULE MCPlans --------------------------------
(***************************************************************************)
(* The files of plans and of the context, each on its own: a behaviour is  *)
(* the history of one state file under its verbs' processes, of one file's *)
(* records, of one justification store, of one plan name under creation    *)
(* and migration, or of one context directory.                             *)
(***************************************************************************)
EXTENDS StateFile, Records, KnowledgeStore, PlanSetup, ContextConfig

VARIABLE story   \* which of them this behaviour is about

plan_files_vars == <<vars, record_vars, store_vars, setup_vars, context_vars, story>>

PlansInit ==
  /\ Init
  /\ \/ story \in {"file", "store"} /\ RecordsIdle /\ StoreInit /\ SetupIdle /\ ContextIdle
     \/ story = "records" /\ RecordsInit /\ StoreInit /\ SetupIdle /\ ContextIdle
     \/ story = "setup" /\ RecordsIdle /\ StoreInit /\ SetupInit /\ ContextIdle
     \/ story = "context" /\ RecordsIdle /\ StoreInit /\ SetupIdle /\ ContextInit

PlansNext ==
  /\ UNCHANGED story
  /\ \/ story = "file" /\ Next /\ UNCHANGED <<record_vars, store_vars, setup_vars, context_vars>>
     \/ story = "records" /\ RecordsNext /\ UNCHANGED <<vars, store_vars, setup_vars, context_vars>>
     \/ story = "store" /\ StoreNext /\ UNCHANGED <<vars, record_vars, setup_vars, context_vars>>
     \/ story = "setup" /\ SetupNext /\ UNCHANGED <<vars, record_vars, store_vars, context_vars>>
     \/ story = "context" /\ ContextNext /\ UNCHANGED <<vars, record_vars, store_vars, setup_vars>>

PlansSpec == PlansInit /\ [][PlansNext]_plan_files_vars
-----------------------------------------------------------------------------
(* Small instances of what the modules are given.                          *)
F(k) == <<k, "x">>
MCAnchorFlags ==
  { <<F("component"), F("path"), F("sha")>>, <<F("component"), F("path")>>,
    <<F("component"), F("path"), F("sha"), F("sha")>>, <<F("component"), F("path"), <<"sha", "">>>>,
    <<F("component"), F("path"), F("sha"), F("line")>> }
\* Two titles one of which reads as the other's second id.
MCTitles == {<<1>>, <<1, 2>>}
MCTexts == [k \in {"memory-entry"} |-> {"text"}] @@ [k \in Kinds \cup {"session", "focus", "objection"} |-> {"text", "blank"}]
MCSeeds ==
  { << [id |-> <<1, 2>>, claim |-> <<1>>, why |-> <<>>, status |-> "legacy", results |-> Unset, handoff |-> Unset] >> }
MCMaxRecords ==
  [k \in {"memory-entry"} |-> 3] @@ [k \in Kinds \cup {"session", "focus", "objection"} |-> 2]

\* Chains, two intents served at once, a ring, and one that is not there.
MCServes == ("p" :> {{}, {"r"}}) @@ ("q" :> {{}, {"p"}}) @@ ("r" :> {{"q"}, {"p", "q"}, {"p", "gone"}})

Task(i, s, d, w) == [id |-> i, status |-> s, deps |-> d, described |-> w]
V1Facts == {"phase", "backlog", "registered", "atlas"}
OldPlan(t, m, f) == [tasks |-> t, memory |-> m, facts |-> f]
Tasks == <<Task("a", "in_progress", {}, TRUE), Task("b", "blocked", {"a"}, FALSE)>>
MCOldPlans ==
  { OldPlan(Tasks, <<"m", "n">>, V1Facts), OldPlan(Tasks, Absent, V1Facts),
    OldPlan(<<Task("a", "done", {}, FALSE), Task("b", "not_started", {"a"}, TRUE)>>, <<"m">>, V1Facts),
    OldPlan(<<Task("a", "paused", {}, TRUE)>>, <<>>, V1Facts), OldPlan(Tasks, <<"m">>, V1Facts \ {"atlas"}) }
MCProposals ==
  { [intents |-> <<"i">>, serves |-> {<<"a", "i">>, <<"b", "legacy">>}],
    [intents |-> <<"i", "k">>, serves |-> {<<"a", "i">>, <<"a", "k">>, <<"b", "k">>}],
    [intents |-> <<>>, serves |-> {<<"c", "legacy">>}] }

MCEmbedded == [k \in Translated |-> "default"]
MCLegacyDirs ==
  { <<>>,
    ("config.yaml" :> [agent |-> "base", headroom |-> "base"]) @@ ("work.md" :> <<>>),
    ("config.yaml" :> [agent |-> "base", other |-> "base"]) @@ ("config.local.yaml" :> [agent |-> "own"])
      @@ ("agent.yaml" :> [model |-> "base", provider |-> "base"]) @@ ("agent.local.yaml" :> [model |-> "own", token |-> "own"]),
    ("agent.local.yaml" :> [model |-> "own"]) }
=============================================================================
