----------------------------- MODULE CommandLine -----------------------------
(***************************************************************************)
(* src/main.rs as the agents and scripts that call ravel-lite see it: what *)
(* clap accepts, how a failure comes out, and which calls the prompts tell *)
(* the agents to make.  A value is left out unless --format or a plan name *)
(* is at stake; aliases of verbs are left out.                             *)
(***************************************************************************)
EXTENDS Query

-----------------------------------------------------------------------------
(* The grammar: positional arguments (-1: one or more), flags that must and *)
(* flags that may be given.                                                 *)

Verb(args, must, may) == [args |-> args, must |-> must, may |-> may]
Body == {"body-file", "body"}
Authored == {"authored-at", "authored-in"}
Listing == {"format", "limit", "all"}

BacklogCommands ==
  "list" :> Verb(1, {}, Listing \cup {"status", "category", "ready", "has-handoff", "missing-results", "group-by"})
  @@ "show" :> Verb(2, {}, {"format"})
  @@ "add" :> Verb(1, {"title", "category"}, {"dependencies", "description-file", "description"})
  @@ "init" :> Verb(1, {"body-file"}, {})
  @@ "set-status" :> Verb(3, {}, {"reason"})
  @@ "set-results" :> Verb(2, {}, Body) @@ "set-description" :> Verb(2, {}, Body)
  @@ "set-handoff" :> Verb(2, {}, Body) @@ "clear-handoff" :> Verb(2, {}, {})
  @@ "set-title" :> Verb(3, {}, {}) @@ "set-dependencies" :> Verb(2, {}, {"deps"})
  @@ "reorder" :> Verb(4, {}, {}) @@ "delete" :> Verb(2, {}, {"force"})
  @@ "lint-dependencies" :> Verb(1, {}, {"format"})
  @@ "repair-stale-statuses" :> Verb(1, {}, {"dry-run", "format"})

MemoryCommands ==
  "list" :> Verb(1, {}, Listing) @@ "show" :> Verb(2, {}, {"format"})
  @@ "add" :> Verb(1, {"title"}, Body \cup Authored \cup {"attribution", "code-anchor"})
  @@ "init" :> Verb(1, {"body-file"}, {}) @@ "set-body" :> Verb(2, {}, Body)
  @@ "set-title" :> Verb(3, {}, {}) @@ "set-status" :> Verb(3, {}, {})
  @@ "delete" :> Verb(2, {}, {}) @@ "check-anchors" :> Verb(1, {}, {"project-root"})

IntentsCommands ==
  "list" :> Verb(1, {}, Listing) @@ "show" :> Verb(2, {}, {"format"})
  @@ "add" :> Verb(1, {"claim"}, Body \cup Authored) @@ "set-status" :> Verb(3, {}, {})

TargetsCommands ==
  "list" :> Verb(1, {}, {"format"}) @@ "show" :> Verb(2, {}, {"format"})
  @@ "add" :> Verb(1, {"repo", "component", "working-root", "branch"}, {"path-segment"})
  @@ "remove" :> Verb(2, {}, {}) @@ "mount" :> Verb(2, {}, {"config"})

TargetRequestsCommands ==
  "list" :> Verb(1, {}, {"format"}) @@ "show" :> Verb(2, {}, {"format"})
  @@ "add" :> Verb(2, {"reason"}, {}) @@ "remove" :> Verb(2, {}, {}) @@ "drain" :> Verb(1, {}, {"config"})

CommitsCommands == "list" :> Verb(1, {}, {"format"}) @@ "show" :> Verb(2, {}, {"format"})

ThisCycleFocusCommands ==
  "show" :> Verb(1, {}, {"format"}) @@ "set" :> Verb(1, {"target"}, {"item", "notes"}) @@ "clear" :> Verb(1, {}, {})

FocusObjectionsCommands ==
  "list" :> Verb(1, {}, {"format"}) @@ "clear" :> Verb(1, {}, {})
  @@ "add-wrong-target" :> Verb(1, {"suggested-target", "reasoning"}, {})
  @@ "add-skip-item" :> Verb(1, {"item-id", "reasoning"}, {}) @@ "add-premature" :> Verb(1, {"reasoning"}, {})

SessionLogCommands ==
  "list" :> Verb(1, {}, Listing) @@ "show" :> Verb(2, {}, {"format"}) @@ "show-latest" :> Verb(1, {}, {"format"})
  @@ "append" :> Verb(1, {"id", "timestamp"}, {"phase"} \cup Body)
  @@ "set-latest" :> Verb(1, {"id", "timestamp"}, {"phase"} \cup Body)

PhaseSummaryCommands == "render" :> Verb(1, {"phase"}, {"baseline", "format"})

Edge4 == Verb(4, {}, {"config"})
RelatedComponentsCommands ==
  "list" :> Verb(0, {}, {"config", "plan", "kind", "lifecycle"})
  @@ "add-edge" :> [Edge4 EXCEPT !.must = {"evidence-grade", "rationale"}, !.may = @ \cup {"evidence-field"}]
  @@ "remove-edge" :> Edge4
  @@ "discover" :> Verb(0, {}, {"config", "project", "concurrency", "apply"})
  @@ "discover-apply" :> Verb(0, {}, {"config"})

DiscoverProposalsCommands ==
  "add-proposal" :> Verb(0, {"kind", "lifecycle", "evidence-grade", "rationale"}, {"config", "participant", "evidence-field"})

FindingsCommands ==
  "list" :> Verb(0, {}, {"config"} \cup Listing) @@ "show" :> Verb(1, {}, {"config", "format"})
  @@ "add" :> Verb(0, {"claim"}, {"config", "component", "raised-in"} \cup Body \cup Authored)
  @@ "set-status" :> Verb(2, {}, {"config"})

PlanCommands ==
  "list-items" :> Verb(1, {}, {"kind", "format"}) @@ "show-item" :> Verb(2, {}, {"format"})
  @@ "query-by-status" :> Verb(1, {"status"}, {"kind", "format"})
  @@ "query-by-justification" :> Verb(1, {"justification-kind"}, {"kind", "format"})

AtlasCommands ==
  "list-repos" :> Verb(0, {}, {"config", "format"}) @@ "freshness" :> Verb(0, {}, {"config", "require-fresh"})
  @@ "list-components" :> Verb(0, {}, {"config", "repo", "kind", "format"})
  @@ "summary" :> Verb(0, {}, {"config", "repo", "format"}) @@ "describe" :> Verb(1, {}, {"config"})
  @@ "memory" :> Verb(1, {}, {"config", "search"}) @@ "edges" :> Verb(1, {}, {"config", "in", "out", "both"})
  @@ "neighbors" :> Verb(1, {}, {"config", "depth"}) @@ "roots" :> Verb(0, {}, {"config"})
  @@ "path" :> Verb(2, {}, {"config", "max-hops"}) @@ "scc" :> Verb(0, {}, {"config", "all"})

RepoCommands ==
  "list" :> Verb(0, {}, {"config", "format"}) @@ "add" :> Verb(1, {"url"}, {"config", "local-path"})
  @@ "remove" :> Verb(1, {}, {"config"})

FixedMemoryCommands == "list" :> Verb(0, {}, {"config", "format"}) @@ "show" :> Verb(1, {}, {"config"})

\* state's own verbs, and the groups below it.
StateVerbs == "set-phase" :> Verb(2, {}, {}) @@ "projects" :> Verb(-1, {}, {})
StateCommands ==
  "backlog" :> BacklogCommands @@ "memory" :> MemoryCommands @@ "intents" :> IntentsCommands
  @@ "session-log" :> SessionLogCommands @@ "targets" :> TargetsCommands
  @@ "target-requests" :> TargetRequestsCommands @@ "this-cycle-focus" :> ThisCycleFocusCommands
  @@ "focus-objections" :> FocusObjectionsCommands @@ "commits" :> CommitsCommands
  @@ "related-components" :> RelatedComponentsCommands
  @@ "discover-proposals" :> DiscoverProposalsCommands @@ "phase-summary" :> PhaseSummaryCommands

TopVerbs ==
  [v \in {"init", "run", "create", "survey-format", "survey", "sync", "version", "capabilities", "migrate-v1-v2"} |->
     CASE v = "init" -> Verb(0, {}, {"config", "force"})
       [] v = "run" -> Verb(-1, {}, {"config", "dangerous", "debug", "survey-state"})
       [] v = "create" -> Verb(1, {}, {"config", "target"}) [] v = "survey-format" -> Verb(1, {}, {})
       [] v = "survey" -> Verb(-1, {}, {"config", "model", "timeout-secs", "prior", "force"})
       [] v = "sync" -> Verb(1, {"from"}, {}) [] v \in {"version", "capabilities"} -> Verb(0, {}, {})
       [] v = "migrate-v1-v2" -> Verb(1, {"as"}, {"config"})]
Groups ==
  [g \in {"repo", "plan", "findings", "atlas", "fixed-memory"} |->
     CASE g = "repo" -> RepoCommands [] g = "plan" -> PlanCommands [] g = "findings" -> FindingsCommands
       [] g = "atlas" -> AtlasCommands [] g = "fixed-memory" -> FixedMemoryCommands]

NoVerb == Verb(0, {"no such verb"}, {})
Lookup(verbs, v) == IF v \in DOMAIN verbs THEN verbs[v] ELSE NoVerb
Commands(path) ==
  IF Len(path) = 1 THEN Lookup(TopVerbs, path[1])
  ELSE IF path[1] # "state" THEN IF path[1] \in DOMAIN Groups THEN Lookup(Groups[path[1]], path[2]) ELSE NoVerb
  ELSE IF Len(path) = 2 THEN Lookup(StateVerbs, path[2])
  ELSE IF path[2] \in DOMAIN StateCommands THEN Lookup(StateCommands[path[2]], path[3]) ELSE NoVerb

\* Flags that collect what each of their uses gives.
Collecting == {"dependencies", "deps", "item", "path-segment", "evidence-field", "participant", "code-anchor", "target"}
Conflicting == {Body, {"description-file", "description"}, {"limit", "all"}, {"in", "out"}, {"in", "both"}, {"out", "both"}}

\* A call: the words of the command, how many positional arguments, the flags.
Call(path, args, flags) == [path |-> path, args |-> args, flags |-> flags]
Count(q, x) == Cardinality({i \in DOMAIN q : q[i] = x})

\* "target" collects for create only: elsewhere it is one string.
Once(call) == Range(call.flags) \ (IF call.path = <<"create">> THEN Collecting ELSE Collecting \ {"target"})
Accepted(call) ==
  LET v == Commands(call.path)
      given == Range(call.flags)
  IN  /\ IF v.args < 0 THEN call.args > 0 \/ call.path[1] = "state" ELSE call.args = v.args
      /\ v.must \subseteq given /\ given \subseteq v.must \cup v.may
      /\ \A fl \in Once(call) : Count(call.flags, fl) = 1
      /\ \A c \in Conflicting : ~(c \subseteq given)

-----------------------------------------------------------------------------
(* What becomes of a call: world has the call, its --format flags in the    *)
(* order of the arguments, the plan it names, whether a file it names can   *)
(* be read, and how the verb ends: <<>>, or the layers of its error from    *)
(* the cause outwards, each a text or a code.                               *)

CodesAll == {"AuthRequired", "InvalidInput", "NotFound", "Conflict", "IoError", "RateLimited", "Internal", "Cancelled"}

\* Mutant: the code found first, at the cause, is kept.
InnermostCode(layers) ==
  LET codes == SelectSeq(layers, LAMBDA l : l \in CodesAll) IN IF codes = <<>> THEN "Internal" ELSE Head(codes)

\* with_code flattens what it wraps: a code takes the place of those below it.
ErrorCodeOf(layers) ==
  FoldLeft(LAMBDA code, l : IF l \in CodesAll THEN l ELSE code, "Internal", layers)

ExitCategory ==
  [code \in CodesAll |->
     CASE code = "AuthRequired" -> "auth_required" [] code = "InvalidInput" -> "usage_error"
       [] code = "NotFound" -> "not_found"         [] code = "Conflict" -> "conflict"
       [] code = "RateLimited" -> "rate_limited"   [] code = "Cancelled" -> "usage_error"
       [] code \in {"IoError", "Internal"} -> "generic_failure"]
ExitCategories ==
  {"success", "generic_failure", "usage_error", "not_found", "auth_required", "conflict", "rate_limited"}
AsCode ==
  [category \in ExitCategories |->
     CASE category = "success" -> 0     [] category = "generic_failure" -> 1 [] category = "usage_error" -> 2
       [] category = "not_found" -> 3   [] category = "auth_required" -> 4   [] category = "conflict" -> 5
       [] category = "rate_limited" -> 6]

Formats(call) == IF call.path[Len(call.path)] = "render" THEN {"text", "yaml"} ELSE {"yaml", "json", "markdown"}

\* A plan is named, not pointed at; the name is that of a directory.
ResolvePlanName(plan) ==
  IF plan.slash \/ ~plan.valid THEN <<"InvalidInput">> ELSE IF ~plan.exists THEN <<"NotFound">> ELSE <<>>

ReadsFile(call) == Range(call.flags) \cap {"body-file", "description-file"} # {}
ResolveBody(w) == IF ReadsFile(w.call) /\ ~w.readable THEN <<"cause", "IoError">> ELSE <<>>

\* The verbs by which an agent names a plan; the others take its directory.
TakesNames(call) == call.path \in {<<"run">>, <<"survey">>}

FormatKnown(w) == w.formats = <<>> \/ w.formats[1].value \in Formats(w.call)

\* The format is parsed first, then the plan found, then the body read.
Dispatch(w) ==
  LET plan == IF TakesNames(w.call) THEN ResolvePlanName(w.plan) ELSE <<>>
  IN  IF ~FormatKnown(w) THEN <<"InvalidInput">> ELSE IF plan # <<>> THEN plan
      ELSE IF ResolveBody(w) # <<>> THEN ResolveBody(w) ELSE w.fails

\* What std::env::args gives of a --format flag: one argument, or the flag and
\* then its value.
JoinedArg(v) == <<"joined", v>>
FlagArg == <<"flag", "alone">>
ValueArg(v) == <<"value", v>>
ArgsOf(f) == IF f.joined THEN <<JoinedArg(f.value)>> ELSE <<FlagArg, ValueArg(f.value)>>
Argv(w) == FlattenSeq([i \in DOMAIN w.formats |-> ArgsOf(w.formats[i])])

\* Mutant: the flag and its value in one argument are not looked for.
JsonInTwoArguments(w) ==
  \E i \in 2..Len(Argv(w)) : Argv(w)[i-1] = FlagArg /\ Argv(w)[i] = ValueArg("json")

JsonModeRequested(w) ==
  LET argv == Argv(w)
  IN  \E i \in DOMAIN argv : argv[i] = JoinedArg("json") \/ (i > 1 /\ argv[i-1] = FlagArg /\ argv[i] = ValueArg("json"))

Told(exit, json, error) == [exit |-> exit, json |-> json, error |-> error]
RunCommand(w) ==
  IF ~Accepted(w.call) THEN Told(AsCode["usage_error"], FALSE, "usage")
  ELSE LET failure == Dispatch(w)
           code == ErrorCodeOf(failure)
       IN  IF failure = <<>> THEN Told(AsCode["success"], FALSE, "none")
           ELSE Told(AsCode[ExitCategory[code]], JsonModeRequested(w), code)

Capabilities ==
  [subcommands |-> {"init", "run", "create", "survey", "survey-format", "version", "capabilities", "state",
                    "repo", "plan", "findings", "atlas", "fixed-memory"},
   error_codes |-> CodesAll, exit_categories |-> Range(AsCode)]

\* A call as clap hands it on.
FormatFlag == [value : STRING, joined : BOOLEAN]
CliWorld(w) ==
  /\ w.formats \in Seq(FormatFlag)
  /\ w.fails \in Seq(STRING)
  /\ w.plan \in [slash : BOOLEAN, valid : BOOLEAN, exists : BOOLEAN] /\ w.readable \in BOOLEAN
ASSUME CliAssumption == \A w \in Worlds : w.subject = "cli" => CliWorld(w)

AskCommand == Ask("cli", [verb |-> "command"], Ok(RunCommand(world)))
AskCapabilities == Ask("cli", [verb |-> "capabilities"], Ok(Capabilities))
CommandNext == AskCommand \/ AskCapabilities

-----------------------------------------------------------------------------
(* The calls the prompts ask for.                                           *)

StateCall(group, verb) == <<"state", group, verb>>
TriageInstructions ==
  { Call(StateCall("backlog", "list"), 1, <<>>), Call(StateCall("backlog", "list"), 1, <<"has-handoff">>),
    Call(StateCall("memory", "list"), 1, <<>>), Call(StateCall("focus-objections", "list"), 1, <<>>),
    Call(StateCall("backlog", "lint-dependencies"), 1, <<>>), Call(StateCall("backlog", "set-dependencies"), 2, <<"deps">>),
    Call(StateCall("backlog", "set-title"), 3, <<>>), Call(StateCall("backlog", "set-status"), 3, <<>>),
    Call(StateCall("backlog", "set-status"), 3, <<"reason">>), Call(StateCall("backlog", "reorder"), 2, <<"before">>),
    Call(StateCall("backlog", "reorder"), 2, <<"after">>),
    Call(StateCall("backlog", "add"), 1, <<"title", "category", "description-file">>),
    Call(StateCall("backlog", "add"), 1, <<"title", "category", "description-file", "dependencies">>),
    Call(StateCall("memory", "add"), 1, <<"title", "body-file">>), Call(StateCall("backlog", "clear-handoff"), 2, <<>>),
    Call(StateCall("backlog", "delete"), 2, <<>>), Call(StateCall("backlog", "delete"), 2, <<"force">>),
    Call(StateCall("this-cycle-focus", "set"), 1, <<"target", "item", "item", "notes">>),
    Call(<<"findings", "add">>, 0, <<"claim", "body-file", "raised-in", "authored-in", "component">>),
    Call(<<"state", "set-phase">>, 2, <<>>), Call(StateCall("phase-summary", "render"), 1, <<"phase", "baseline">>) }
WorkInstructions ==
  { Call(StateCall("backlog", "list"), 1, <<"format">>), Call(StateCall("related-components", "list"), 0, <<"plan">>),
    Call(StateCall("this-cycle-focus", "show"), 1, <<>>), Call(<<"fixed-memory", "list">>, 0, <<>>),
    Call(<<"fixed-memory", "show">>, 1, <<>>),
    Call(StateCall("focus-objections", "add-wrong-target"), 1, <<"suggested-target", "reasoning">>),
    Call(StateCall("focus-objections", "add-skip-item"), 1, <<"item-id", "reasoning">>),
    Call(StateCall("focus-objections", "add-premature"), 1, <<"reasoning">>),
    Call(StateCall("backlog", "set-status"), 3, <<>>), Call(StateCall("backlog", "set-results"), 2, <<"body-file">>) }
AnalyseInstructions ==
  { Call(StateCall("backlog", "repair-stale-statuses"), 1, <<>>), Call(StateCall("session-log", "list"), 1, <<>>),
    Call(StateCall("session-log", "set-latest"), 1, <<"id", "timestamp", "phase", "body-file">>),
    Call(StateCall("backlog", "set-handoff"), 2, <<"body-file">>) }
ReflectInstructions ==
  { Call(StateCall("session-log", "show-latest"), 1, <<>>), Call(StateCall("intents", "list"), 1, <<>>),
    Call(StateCall("memory", "check-anchors"), 1, <<>>), Call(StateCall("memory", "set-status"), 3, <<>>),
    Call(StateCall("memory", "set-body"), 2, <<"body-file">>), Call(StateCall("memory", "set-title"), 3, <<>>),
    Call(StateCall("memory", "delete"), 2, <<>>), Call(StateCall("memory", "add"), 1, <<"title", "body-file", "code-anchor">>) }
CreateInstructions ==
  { Call(StateCall("intents", "add"), 1, <<"claim", "body-file">>), Call(<<"atlas", "list-repos">>, 0, <<>>),
    Call(<<"atlas", "list-components">>, 0, <<"repo">>), Call(<<"atlas", "summary">>, 0, <<"repo">>),
    Call(<<"atlas", "describe">>, 1, <<>>), Call(<<"atlas", "neighbors">>, 1, <<>>),
    Call(StateCall("target-requests", "list"), 1, <<>>), Call(StateCall("target-requests", "add"), 2, <<"reason">>),
    Call(StateCall("target-requests", "remove"), 2, <<>>) }
Stage2Instructions ==
  { Call(StateCall("discover-proposals", "add-proposal"), 0,
      <<"config", "kind", "lifecycle", "participant", "participant", "evidence-grade",
        "evidence-field", "evidence-field", "rationale">>) }
Instructions == TriageInstructions \cup WorkInstructions \cup AnalyseInstructions
                \cup ReflectInstructions \cup CreateInstructions \cup Stage2Instructions

-----------------------------------------------------------------------------
Outermost(layers, i) == layers[i] \in CodesAll /\ \A j \in i+1..Len(layers) : layers[j] \notin CodesAll

TellsOutermost(layers, code) ==
  IF \E i \in DOMAIN layers : Outermost(layers, i)
  THEN \E i \in DOMAIN layers : Outermost(layers, i) /\ layers[i] = code
  ELSE code = "Internal"

TellsOf(w, told) ==
  LET understood == Accepted(w.call)
      asked == \E i \in DOMAIN w.formats : w.formats[i].value = "json"
  IN  /\ told.exit = 0 <=> understood /\ Dispatch(w) = <<>>
      /\ told.json <=> understood /\ asked /\ told.exit # 0
      /\ told.error \in CodesAll => /\ told.exit = AsCode[ExitCategory[told.error]]
                                   /\ TellsOutermost(Dispatch(w), told.error)
      /\ told.exit \in Capabilities.exit_categories
      /\ told.error \in Capabilities.error_codes \cup {"none", "usage"}

\* A caller that only looks at the exit code and at stderr knows what became
\* of its call: 0 for nothing but success, the class of the last code put on
\* the error otherwise, an object exactly if --format json was asked for of a
\* call that was understood; and every code it may see is one of those that
\* "capabilities" lists (main.rs:2396-2434, error_context.rs, capabilities.rs).
CallerIsTold ==
  /\ Answered("command") => TellsOf(world, answer.value)
  /\ Answered("capabilities") =>
       answer.value.subcommands \subseteq DOMAIN TopVerbs \cup DOMAIN Groups \cup {"state"}

\* Every call that a prompt shipped with the program asks an agent for is one
\* that the program understands (defaults/phases/*.md, create-plan.md,
\* discover-stage2.md against the clap definitions of main.rs).
InstructionsAreCommands ==
  Answered("command") /\ world.call \in Instructions => answer.value.error # "usage"
=============================================================================
