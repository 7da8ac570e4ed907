------------------------------- MODULE Prompts -------------------------------
(***************************************************************************)
(* What an agent is told: the prompt of a phase put together from its      *)
(* layers and its tokens substituted (src/prompt.rs), and the reference    *)
(* texts it may ask for (src/fixed_memory.rs).                             *)
(*                                                                         *)
(* A text is a sequence of words and of tokens, {{NAME}}; which it is of,  *)
(* its name tells.  "odd" is a token whose name the check for leftovers    *)
(* does not match, such as {{my-token}}.                                   *)
(***************************************************************************)
EXTENDS Query

Token(name) == [token |-> TRUE, name |-> name]
Word(name) == [token |-> FALSE, name |-> name]
Rule == Word("---")
PathTokens == <<"DEV_ROOT", "PROJECT", "PLAN", "ORCHESTRATOR">>

\* String::replace: every occurrence, and what comes in is not looked at.
Replace(text, name, value) ==
  FlattenSeq([i \in DOMAIN text |-> IF text[i] = Token(name) THEN value ELSE <<text[i]>>])

\* The tokens of a HashMap, in the order of an iteration.
Expand(text, tokens, order) == FoldLeft(LAMBDA t, name : Replace(t, name, tokens[name]), text, order)
Paths(text) == FoldLeft(LAMBDA t, name : Replace(t, name, <<Word(name)>>), text, PathTokens)

Unresolved(text) == {i \in DOMAIN text : text[i].token /\ text[i].name # "odd"}

\* Mutant: paths first, so that those in what is inlined stay.
PathsFirst(text, ctx, order) ==
  LET result == Expand(Replace(Paths(text), "RELATED_PLANS", ctx.related_plans), ctx.tokens, order)
  IN  IF Unresolved(result) = {} THEN Ok(result) ELSE Error("InvalidInput")

SubstituteTokens(text, ctx, order) ==
  LET result == Paths(Expand(Replace(text, "RELATED_PLANS", ctx.related_plans), ctx.tokens, order))
  IN  IF Unresolved(result) = {} THEN Ok(result) ELSE Error("InvalidInput")

\* The shipped prompt, the plan's addition if it has a readable one, and what
\* the config layers append, a rule between them.
Layers(ctx) == <<ctx.base>> \o (IF ctx.override = Unset THEN <<>> ELSE <<ctx.override>>) \o ctx.appends
ComposePrompt(ctx, order) ==
  SubstituteTokens(FoldLeft(LAMBDA a, b : a \o <<Rule>> \o b, Head(Layers(ctx)), Tail(Layers(ctx))), ctx, order)

AskPrompt ==
  /\ world.subject = "prompt"
  /\ \E order \in SetToSeqs(DOMAIN world.tokens) :
       Ask("prompt", [verb |-> "compose", order |-> order], ComposePrompt(world, order))

-----------------------------------------------------------------------------
(* Fixed memory: world.embedded and world.user give each slug its text, a   *)
(* sequence of lines; world.entries tells what else the user's directory    *)
(* has under the name: a "file", a "directory", a file that is not a slug's *)
(* ("other"), or one that cannot be read ("unreadable").                    *)

Delimiter == [h1 |-> FALSE, blank |-> FALSE, text |-> "addendum"]
UserFiles(w) == {s \in DOMAIN w.entries : w.entries[s] \in {"file", "unreadable"}}

Unreadable(w, slug) == slug \in DOMAIN w.entries /\ w.entries[slug] = "unreadable"

Sources(w, slug) ==
  (IF slug \in DOMAIN w.embedded THEN {"embedded"} ELSE {})
  \cup (IF slug \in UserFiles(w) THEN {"user"} ELSE {})

\* Mutant: only what is shipped is listed.
DiscoverShipped(w) == [slug \in DOMAIN w.embedded |-> Sources(w, slug)]

Discovered(w) == [slug \in DOMAIN w.embedded \cup UserFiles(w) |-> Sources(w, slug)]

\* The first line that is not blank, if it is a heading.
ExtractDescription(text) ==
  LET lines == Keep(text, {l \in Range(text) : ~l.blank})
  IN  IF lines # <<>> /\ Head(lines).h1 THEN Head(lines).text ELSE Unset

\* The shipped heading, or else the user's if that can be read.
Project(w, slug) ==
  LET shipped == IF slug \in DOMAIN w.embedded THEN ExtractDescription(w.embedded[slug]) ELSE Unset
  IN  IF shipped # Unset THEN shipped
      ELSE IF slug \in UserFiles(w) /\ w.entries[slug] = "file" THEN ExtractDescription(w.user[slug]) ELSE Unset

RenderList(w) == [slug \in DOMAIN Discovered(w) |-> [description |-> Project(w, slug), sources |-> Discovered(w)[slug]]]

\* dispatch answers every failure, also one to read, with NotFound.
ComposeMemory(w, slug) ==
  CASE slug \in UserFiles(w) /\ w.entries[slug] = "unreadable" -> Error("NotFound")
    [] Sources(w, slug) = {} -> Error("NotFound")
    [] Sources(w, slug) = {"embedded"} -> Ok(w.embedded[slug])
    [] Sources(w, slug) = {"user"} -> Ok(w.user[slug])
    [] OTHER -> Ok(w.embedded[slug] \o <<Delimiter>> \o w.user[slug])

AskMemoryList ==
  /\ world.subject = "fixed-memory"
  /\ Ask("fixed-memory", [verb |-> "list-fixed"], Ok(RenderList(world)))
AskMemoryShow ==
  /\ world.subject = "fixed-memory"
  /\ \E slug \in DOMAIN world.entries \cup DOMAIN world.embedded :
       Ask("fixed-memory", [verb |-> "show-fixed", slug |-> slug], ComposeMemory(world, slug))

PromptNext == AskPrompt \/ AskMemoryList \/ AskMemoryShow

-----------------------------------------------------------------------------
(* References.                                                              *)

\* A text with every token replaced until nothing changes: what the words of
\* the prompt mean, whatever the order.
Meaning(text, ctx) ==
  LET Step(t) == Paths(FoldLeft(LAMBDA u, n : Replace(u, n, ctx.tokens[n]),
                                Replace(t, "RELATED_PLANS", ctx.related_plans), SetToSeq(DOMAIN ctx.tokens)))
      m[i \in Nat] == IF i = 0 THEN text ELSE Step(m[i-1])
  IN  m[Cardinality(DOMAIN ctx.tokens) + 2]

Mentions(text) == {text[i].name : i \in {j \in DOMAIN text : text[j].token}}
\* The values of the tokens mention paths only.
Flat(ctx) == \A n \in DOMAIN ctx.tokens : Mentions(ctx.tokens[n]) \subseteq Range(PathTokens)
Known(ctx) == Range(PathTokens) \cup DOMAIN ctx.tokens \cup {"RELATED_PLANS", "odd"}
Everything(ctx) == FlattenSeq(Layers(ctx)) \o ctx.related_plans

\* A prompt that is sent has every layer in its place and every token
\* replaced, also those that come in with what another token stood for; one
\* whose tokens all are known, and whose values mention paths only, is sent in
\* whatever order the tokens are taken; one with an unknown token never is.
PromptsAreWhole ==
  /\ Answered("compose") =>
       LET whole == FoldLeft(LAMBDA a, b : a \o <<Rule>> \o b, Head(Layers(world)), Tail(Layers(world))) IN
       answer.value = Meaning(whole, world) /\ Unresolved(answer.value) = {}
  /\ query.verb = "compose" /\ Flat(world) /\ Mentions(Everything(world)) \subseteq Known(world)
       /\ "RELATED_PLANS" \notin Mentions(world.related_plans) => answer.code = "ok"

\* The texts are sequences of lines.
ASSUME TextsAssumption ==
  \A w \in Worlds : w.subject = "fixed-memory" =>
    /\ \A slug \in DOMAIN w.embedded : w.embedded[slug] \in Seq(Range(w.embedded[slug]))
    /\ \A slug \in DOMAIN w.entries : w.user[slug] \in Seq(Range(w.user[slug]))

\* The list of reference texts names exactly what "show" can show, from the
\* layers it shows it from, the user's text last, and describes it with a
\* heading that is in what is shown.
ShowsWhatIsListed(w, list) ==
  \A slug \in DOMAIN w.entries \cup DOMAIN w.embedded :
    LET shown == ComposeMemory(w, slug)
        listed == slug \in DOMAIN list
    IN  /\ shown.code = "ok" => listed
        /\ listed /\ ~Unreadable(w, slug) =>
             /\ shown.code = "ok"
             /\ "embedded" \in list[slug].sources =>
                  slug \in DOMAIN w.embedded /\ IsPrefix(w.embedded[slug], shown.value)
             /\ "user" \in list[slug].sources => IsSuffix(w.user[slug], shown.value)
             /\ list[slug].description # Unset =>
                  \E i \in DOMAIN shown.value : shown.value[i].h1 /\ shown.value[i].text = list[slug].description

\* Reference texts are shown as they are listed.
MemoryIsShown == Answered("list-fixed") => ShowsWhatIsListed(world, answer.value)
=============================================================================
