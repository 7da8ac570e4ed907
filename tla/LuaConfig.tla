------------------------------ MODULE LuaConfig ------------------------------
(***************************************************************************)
(* The configuration: where it is looked for (src/config.rs), how the      *)
(* config.lua of the context and that of the plan change what is shipped   *)
(* (src/config_lua.rs), and which of it the verbs that start an agent use. *)
(*                                                                         *)
(* A layer is Unset when the file is not there, or [readable, calls]: the  *)
(* calls on the ravel table and the writes to ravel.config it makes, in    *)
(* order.  A slot is a model, a provider or a token.                       *)
(***************************************************************************)
EXTENDS Query

KnownAgents == {"claude-code", "pi"}
Model(agent, use) == <<"model", agent, use>>
Provider(agent) == <<"provider", agent>>
TokenOf(agent, name) == <<"token", agent, name>>

\* seed_from_embedded: the shipped files set a model per phase, no model for
\* anything else, and the provider of pi only.
Seed ==
  [agent |-> "claude-code", headroom |-> "shipped",
   table |-> [agent |-> "claude-code", headroom |-> "shipped"],
   slots |-> [s \in {Model(a, p) : a \in KnownAgents, p \in {"work", "triage"}}
                    \cup {Provider("pi")} \cup {TokenOf(a, "TOOL") : a \in KnownAgents} |-> "shipped"],
   appends |-> <<>>]

Put(acc, slot, v) ==
  [acc EXCEPT !.slots = [s \in DOMAIN acc.slots \cup {slot} |-> IF s = slot THEN v ELSE acc.slots[s]]]
\* A setter tells ravel.config too.
SetField(acc, field, v) == [acc EXCEPT ![field] = v, !.table[field] = v]

\* The functions installed in the ravel table.  What applies to the active
\* agent asks the setters' state, not the table.
CallSetter(acc, c) ==
  CASE c.do = "set_agent" -> Ok(SetField(acc, "agent", c.value))
    [] c.do = "set_headroom" -> IF c.value = "negative" THEN Error("InvalidInput") ELSE Ok(SetField(acc, "headroom", c.value))
    [] c.do = "set_model" -> Ok(Put(acc, Model(acc.agent, c.at), c.value))
    [] c.do = "set_model_for" -> Ok(Put(acc, Model(c.agent, c.at), c.value))
    [] c.do = "set_provider" -> Ok(Put(acc, Provider(acc.agent), c.value))
    [] c.do = "set_provider_for" -> Ok(Put(acc, Provider(c.agent), c.value))
    [] c.do = "set_token" -> Ok(Put(acc, TokenOf(c.agent, c.at), c.value))
    [] c.do = "append_prompt" -> Ok([acc EXCEPT !.appends = Append(@, <<c.at, c.value>>)])
    [] c.do = "write" -> Ok([acc EXCEPT !.table[c.at] = c.value])
    [] c.do = "throw" -> Error("InvalidInput")

\* _commit_config_table: a field that is gone, or below 0, is left as it was.
CommitConfigTable(acc) ==
  [acc EXCEPT !.agent = IF acc.table.agent = Unset THEN @ ELSE acc.table.agent,
              !.headroom = IF acc.table.headroom \in {Unset, "negative"} THEN @ ELSE acc.table.headroom]

RunLayer(acc, layer) ==
  IF layer = Unset THEN Ok(acc)
  ELSE IF ~layer.readable THEN Error("IoError")
  ELSE Then(FoldLeft(LAMBDA done, c : Then(done, LAMBDA a : CallSetter(a, c)), Ok(acc), layer.calls),
            LAMBDA a : Ok(CommitConfigTable(a)))

\* Mutant: the plan's layer first.
ResolveInside(global, plan) == Then(RunLayer(Seed, plan), LAMBDA acc : RunLayer(acc, global))

ResolveLayers(global, plan) == Then(RunLayer(Seed, global), LAMBDA acc : RunLayer(acc, plan))
-----------------------------------------------------------------------------
\* select_config_dir: the flag, RAVEL_LITE_CONFIG, the platform's directory.
SelectConfigDir(w) ==
  IF w.flag # Unset THEN Ok(w.flag) ELSE IF w.env # Unset THEN Ok(w.env)
  ELSE IF w.xdg # Unset THEN Ok(w.xdg) ELSE Error("InvalidInput")

\* require_existing_dir; init makes the directory.
ResolveConfigDir(w) ==
  Then(SelectConfigDir(w), LAMBDA p : IF p \in {"context", "other"} THEN Ok(p) ELSE Error("NotFound"))

\* load_shared_config, load_agent_config, load_tokens.
Loaded == ResolveLayers(world.global, Unset)
SlotOf(acc, slot) == IF slot \in DOMAIN acc.slots THEN acc.slots[slot] ELSE Unset

\* An empty name leaves the choice to the agent's program.
Flag(v) == IF v = "" THEN Unset ELSE v

\* build_headless_args of both agents, and the interactive ones, which are of
\* the work phase.
AgentArgs(acc, phase, dangerous) ==
  [model |-> Flag(SlotOf(acc, Model(acc.agent, phase))),
   provider |-> IF acc.agent # "pi" THEN Unset
                ELSE IF SlotOf(acc, Provider("pi")) = Unset THEN "anthropic" ELSE SlotOf(acc, Provider("pi")),
   skip_permissions |-> dangerous /\ acc.agent = "claude-code"]

\* run_phase_loop, dispatch_one_cycle and phase_loop: the agent, its arguments
\* and its tokens are those of the context, the appends those of both layers.
RunPhase(phase, dangerous) ==
  Then(Loaded, LAMBDA acc :
    IF acc.agent \notin KnownAgents THEN Error("InvalidInput")
    ELSE Then(ResolveLayers(world.global, world.plan), LAMBDA both :
      Ok([agent |-> acc.agent, argv |-> AgentArgs(acc, phase, dangerous),
          tool |-> SlotOf(acc, TokenOf(acc.agent, "TOOL")),
          appends |-> SelectSeq(both.appends, LAMBDA a : a[1] = phase)])))

\* run_create, compute_survey_response and run_discover give claude a model.
OneShot(verb) ==
  Then(Loaded, LAMBDA acc :
    IF verb # "discover" /\ acc.agent # "claude-code" THEN Error("InvalidInput")
    ELSE LET use == IF verb = "create" THEN "work" ELSE verb
             named == SlotOf(acc, Model(acc.agent, use))
         IN  IF named # Unset THEN Ok(named)
             ELSE IF verb = "create" THEN Error("InvalidInput") ELSE Ok("default"))

AskDir == Ask("config-dir", [verb |-> "config-dir"], ResolveConfigDir(world))
AskResolve == Ask("config", [verb |-> "resolve"], ResolveLayers(world.global, world.plan))
AskRun == \E p \in {"work", "triage"}, d \in BOOLEAN : Ask("config", [verb |-> "run", phase |-> p, dangerous |-> d], RunPhase(p, d))
AskOneShot == \E v \in {"create", "survey", "discover"} : Ask("config", [verb |-> v], OneShot(v))

ConfigNext == AskDir \/ AskResolve \/ AskRun \/ AskOneShot
-----------------------------------------------------------------------------
CallsOf(layer) == IF layer = Unset THEN <<>> ELSE layer.calls
AllCalls(w) == CallsOf(w.global) \o CallsOf(w.plan)

\* What the ravel table and ravel.config have.
Setters ==
  {"set_agent", "set_headroom", "set_model", "set_model_for", "set_provider", "set_provider_for",
   "set_token", "append_prompt", "write", "throw"}
Fields == {"agent", "headroom"}
SetterOf(field) == IF field = "agent" THEN "set_agent" ELSE "set_headroom"
ASSUME LayersAssumption ==
  \A w \in Worlds : w.subject = "config" =>
    /\ CallsOf(w.global) \in Seq(Range(CallsOf(w.global))) /\ CallsOf(w.plan) \in Seq(Range(CallsOf(w.plan)))
    /\ \A c \in Range(CallsOf(w.global)) \cup Range(CallsOf(w.plan)) :
         c.do \in Setters /\ (c.do = "write" => c.at \in Fields)

LastIn(S) == CHOOSE i \in S : \A j \in S : j <= i
IsAbout(c, field) == c.do = SetterOf(field) \/ (c.do = "write" /\ c.at = field)
About(calls, field) == {i \in DOMAIN calls : IsAbout(calls[i], field)}

\* The agent that the calls before the i-th have set.
AgentAt(calls, i) ==
  LET S == {j \in DOMAIN calls : j < i /\ calls[j].do = "set_agent"}
  IN  IF S = {} THEN "claude-code" ELSE calls[LastIn(S)].value
AimsAt(c, agent, slot) ==
  \/ c.do = "set_model" /\ slot = Model(agent, c.at)
  \/ c.do = "set_provider" /\ slot = Provider(agent)
  \/ c.do = "set_model_for" /\ slot = Model(c.agent, c.at)
  \/ c.do = "set_provider_for" /\ slot = Provider(c.agent)
  \/ c.do = "set_token" /\ slot = TokenOf(c.agent, c.at)
Aims(calls, i, slot) == AimsAt(calls[i], AgentAt(calls, i), slot)

FieldsDecided(calls, out) ==
  \A field \in Fields :
    LET S == About(calls, field)
    IN  IF S = {} THEN out[field] = Seed[field]
        ELSE calls[LastIn(S)].value \notin {Unset, "negative"} => out[field] = calls[LastIn(S)].value

\* While no layer writes the agent itself to ravel.config.
SlotsDecided(calls, out) ==
  (\A i \in About(calls, "agent") : calls[i].do = "set_agent") =>
    \A slot \in DOMAIN out.slots \cup DOMAIN Seed.slots :
      LET S == {i \in DOMAIN calls : Aims(calls, i, slot)}
      IN  SlotOf(out, slot) = IF S = {} THEN SlotOf(Seed, slot) ELSE calls[LastIn(S)].value

Said(calls) == Keep(calls, {c \in Range(calls) : c.do = "append_prompt"})
Appends(said) == [i \in DOMAIN said |-> <<said[i].at, said[i].value>>]

\* Of all the calls that are about one thing the last decides, whether it is a
\* setter or a write to ravel.config; what no call is about stays as shipped;
\* and the appended prompts keep their order.
LastCallDecides(calls, out) ==
  FieldsDecided(calls, out) /\ SlotsDecided(calls, out) /\ out.appends = Appends(Said(calls))

\* The last call about a thing decides what the layers resolve to, the plan's
\* coming after the context's; and a directory that is named is the one used,
\* or none.
ConfigLayersApply ==
  /\ Answered("resolve") => LastCallDecides(AllCalls(world), answer.value)
  /\ Answered("config-dir") =>
       answer.value = IF world.flag # Unset THEN world.flag ELSE IF world.env # Unset THEN world.env ELSE world.xdg

\* "Read after the global layer, so plan-scoped settings override
\* workstation-scoped ones for that one plan"
\* (docs/reference/config-and-prompts.adoc:17).
PlanConfigOverrides ==
  Answered("run") =>
    LET meant == ResolveLayers(world.global, world.plan).value
    IN  answer.value.argv = AgentArgs(meant, query.phase, query.dangerous)
=============================================================================
