----------------------------- MODULE AgentStream -----------------------------
(***************************************************************************)
(* What a headless agent's stream-JSON lines become on the screen: the two *)
(* parsers (src/agent/claude_code.rs, src/agent/pi.rs) and the formatting  *)
(* they share (src/format.rs).  A line is what the parsers tell apart of   *)
(* it, a tool call its name, its kind of command and the file its path,    *)
(* its command's last word or its "state" noun stands for.                 *)
(***************************************************************************)
EXTENDS Integers, Sequences, FiniteSets, SequencesExt

LlmPhases == {"triage", "work", "analyse-work", "reflect"}

Tool(name, command, file) == [name |-> name, command |-> command, file |-> file]

\* Stream lines: tool calls with the result text, if any, behind them.
Event(type, tools, body) == [type |-> type, tools |-> tools, body |-> body]

Nothing == [kind |-> "nothing"]
Progress(tool) == [kind |-> "progress", tool |-> tool]
Highlight(label) == [kind |-> "highlight", label |-> label]
Text(rows) == [kind |-> "text", rows |-> rows]
Warning(what) == [kind |-> "warning", what |-> what]

-----------------------------------------------------------------------------
(* format_tool_call                                                        *)

\* PHASE_HIGHLIGHTS, each rule named by the file it is about.
Highlights(phase) ==
  IF phase = "analyse-work" THEN {"latest-session", "commits"}
  ELSE IF phase = "reflect" THEN {"memory"}
  ELSE IF phase = "triage" THEN {"backlog"}
  ELSE {}

\* "ravel-lite state <noun> ...", whatever the verb is.
StateTargetFile(tool) ==
  tool.command = "state" /\ tool.file \in {"latest-session", "memory", "backlog"}

Writes(tool) ==
  \/ tool.name \in {"write", "edit"}
  \/ tool.name = "bash" /\ (tool.command = "redirect" \/ StateTargetFile(tool))

\* A write the phase is waiting for is announced, once, and phase.md passed
\* over; any other call is progress.
FormatToolCall(tool, phase, shown) ==
  IF Writes(tool) /\ tool.file \in Highlights(phase)
  THEN IF tool.file \in shown THEN [shown |-> shown, out |-> Nothing]
       ELSE [shown |-> shown \cup {tool.file}, out |-> Highlight(tool.file)]
  ELSE IF Writes(tool) /\ tool.file = "phase" THEN [shown |-> shown, out |-> Nothing]
  ELSE [shown |-> shown, out |-> Progress(tool.name)]

-----------------------------------------------------------------------------
(* format_result_text.  Lines of an agent's report: an "action" marker, one *)
(* with a reason ("reasoned"), a continuation ("more"), the "open" line and *)
(* the "ruler" of an insight, "text", "blank" and "noise" (phase.md status, *)
(* fences, rules).                                                          *)

IsAction(line) == line \in {"action", "reasoned"}

\* Blank rows do not pile up.
Push(out, row) == IF row = "blank" /\ Last(out) = "blank" THEN out ELSE Append(out, row)

PushAction(out, line) ==
  LET title == Push(out, "action")
  IN IF line = "reasoned" THEN Push(title, "reason") ELSE title

\* Mutant: noise ends an action, too.
FormatLineStrict(acc, line) ==
  LET plain(row) == [acc EXCEPT !.out = Push(acc.out, row), !.action = FALSE]
  IN IF line = "noise" THEN [acc EXCEPT !.action = FALSE]
     ELSE IF IsAction(line)
     THEN [acc EXCEPT !.out = PushAction(IF acc.action THEN Push(acc.out, "blank") ELSE acc.out, line),
                      !.action = TRUE]
     ELSE IF line = "more" /\ acc.action THEN [acc EXCEPT !.out = Push(acc.out, "more")]
     ELSE IF line = "open" THEN [plain("insight") EXCEPT !.insight = TRUE]
     ELSE IF line = "ruler" /\ acc.insight THEN [acc EXCEPT !.insight = FALSE]
     ELSE IF line = "blank" THEN plain("blank")
     ELSE plain("text")

FormatLine(acc, line) ==
  LET plain(row) == [acc EXCEPT !.out = Push(acc.out, row), !.action = FALSE]
  IN IF line = "noise" THEN acc
     ELSE IF IsAction(line)
     THEN [acc EXCEPT !.out = PushAction(IF acc.action THEN Push(acc.out, "blank") ELSE acc.out, line),
                      !.action = TRUE]
     ELSE IF line = "more" /\ acc.action THEN [acc EXCEPT !.out = Push(acc.out, "more")]
     ELSE IF line = "open" THEN [plain("insight") EXCEPT !.insight = TRUE]
     ELSE IF line = "ruler" /\ acc.insight THEN [acc EXCEPT !.insight = FALSE]
     ELSE IF line = "blank" THEN plain("blank")
     ELSE plain("text")

\* The rows without the blank ones at the end, but never without the first.
TrimEnd(out) ==
  LET full == {i \in 2..Len(out) : out[i] # "blank"}
  IN SubSeq(out, 1, IF full = {} THEN 1 ELSE CHOOSE i \in full : \A j \in full : j <= i)

FormatResultText(lines) ==
  TrimEnd(FoldLeft(FormatLine, [out |-> <<"blank">>, insight |-> FALSE, action |-> FALSE], lines).out)

-----------------------------------------------------------------------------
(* The parsers.  Malformed lines are reported, valid ones of no interest   *)
(* ignored, and those two are told apart.                                  *)

Ignored(shown) == [shown |-> shown, out |-> Nothing]
Said(shown, lines) == [shown |-> shown, out |-> Text(FormatResultText(lines))]
Malformed(shown) == [shown |-> shown, out |-> Warning("malformed")]

\* claude: of the tool calls of one message the first returns from the loop.
ParseStreamLine(event, phase, shown) ==
  IF event.type = "junk" THEN Malformed(shown)
  ELSE IF event.type = "assistant" /\ event.tools # <<>>
  THEN FormatToolCall(Head(event.tools), phase, shown)
  ELSE IF event.type = "result" THEN Said(shown, event.body)
  ELSE Ignored(shown)

\* pi: a call per event, failed calls, and every message with text.
ParsePiStreamLine(event, phase, shown) ==
  IF event.type = "junk" THEN Malformed(shown)
  ELSE IF event.type = "tool_start" THEN FormatToolCall(Head(event.tools), phase, shown)
  ELSE IF event.type = "tool_error" THEN [shown |-> shown, out |-> Warning("tool error")]
  ELSE IF event.type = "message_end" /\ event.body # <<>> THEN Said(shown, event.body)
  ELSE Ignored(shown)

ParseLine(agent, event, phase, shown) ==
  IF agent = "claude" THEN ParseStreamLine(event, phase, shown)
  ELSE ParsePiStreamLine(event, phase, shown)
-----------------------------------------------------------------------------
(* What the report should look like, line by line of the agent's text.     *)

\* Line i is inside an insight: the last ruler or opening before it opened one.
InInsight(lines, i) ==
  \E j \in 1..(i - 1) : lines[j] = "open" /\ "ruler" \notin {lines[k] : k \in j..(i - 1)}

\* Line i goes on with an action: nothing but its own lines is in between.
Continues(lines, i) ==
  \E j \in 1..(i - 1) :
    /\ IsAction(lines[j])
    /\ \A k \in (j + 1)..(i - 1) :
         lines[k] \in {"more", "noise"} \/ (lines[k] = "ruler" /\ InInsight(lines, k))

RowsOf(lines, i) ==
  LET line == lines[i]
  IN IF line \in {"noise", "blank"} \/ (line = "ruler" /\ InInsight(lines, i)) THEN <<>>
     ELSE IF line = "reasoned" THEN <<"action", "reason">>
     ELSE IF line = "action" THEN <<"action">>
     ELSE IF line = "more" /\ Continues(lines, i) THEN <<"more">>
     ELSE IF line = "open" THEN <<"insight">>
     ELSE <<"text">>

\* A sequence without what is in S.
Without(s, S) == FoldLeft(LAMBDA kept, x : IF x \in S THEN kept ELSE Append(kept, x), <<>>, s)

\* The rows that are not blank are those of the lines, in order.
NothingLost(lines, rows) ==
  Without(rows, {"blank"}) = FlattenSeq([i \in 1..Len(lines) |-> RowsOf(lines, i)])

\* One blank row leads, none follows another, and none is last but the first.
WellSpaced(rows) ==
  /\ rows[1] = "blank"
  /\ \A i \in 2..Len(rows) : rows[i] = "blank" => rows[i - 1] # "blank" /\ i < Len(rows)
=============================================================================
