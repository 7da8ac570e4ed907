-------------------------------- MODULE MCCalls --------------------------------
(***************************************************************************)
(* Calls that have to come to an end, each on its own: a behaviour is one  *)
(* dependency search, one headless agent, one agent under a PTY, or one    *)
(* report to format.                                                       *)
(***************************************************************************)
EXTENDS DependencySearch, AgentProcess, PtySession

CONSTANTS ReportLength   \* bound: lines of a report

VARIABLE report   \* the lines of an agent's result text

Reports == UNION {[1..n -> {"action", "reasoned", "more", "open", "ruler", "text", "blank", "noise"}]
                  : n \in 0..ReportLength}

SearchIdle ==
  /\ deps = [i \in Ids |-> {}] /\ from = (CHOOSE i \in Ids : TRUE) /\ to = from
  /\ stack = {} /\ visited = {} /\ found = "yes"

call_vars == <<vars, agent_vars, pty_vars, report>>

CallsInit ==
  \/ Init /\ AgentIdle /\ PtyIdle /\ report = <<>>
  \/ SearchIdle /\ AgentInit /\ PtyIdle /\ report = <<>>
  \/ SearchIdle /\ AgentIdle /\ PtyInit /\ report = <<>>
  \/ SearchIdle /\ AgentIdle /\ PtyIdle /\ report \in Reports

CallsNext ==
  \/ Next /\ UNCHANGED <<agent_vars, pty_vars, report>>
  \/ AgentNext /\ UNCHANGED <<vars, pty_vars, report>>
  \/ PtyNext /\ UNCHANGED <<vars, agent_vars, report>>

CallsSpec ==
  CallsInit /\ [][CallsNext]_call_vars /\ WF_vars(Next) /\ AgentFairness /\ PtyFairness

\* A report is shown with nothing of it lost, each line as what it stands for
\* among the others, and without stray blank rows.
ReportReads ==
  LET rows == FormatResultText(report) IN NothingLost(report, rows) /\ WellSpaced(rows)

\* What an agent wrote reaches the user: its lines while it runs, the error of
\* one that failed, and the report it ends with.
AgentsAreHeard == AgentReported /\ ReportReads

\* The search ends, also when the graph has a cycle; an agent's run ends,
\* however much it writes to either pipe; a PTY session ends with its agent.
EveryCallEnds == Terminates /\ AgentRunEnds /\ SessionEnds
-----------------------------------------------------------------------------
ClaudeLines ==
  { Event("assistant", <<Tool("edit", "none", "memory")>>, <<>>),
    Event("assistant", <<Tool("bash", "state", "memory"), Tool("read", "none", "source")>>, <<>>),
    Event("result", <<>>, <<"text">>),
    Event("junk", <<>>, <<>>), Event("torn", <<>>, <<>>) }
PiLines ==
  { Event("tool_start", <<Tool("bash", "redirect", "memory")>>, <<>>),
    Event("tool_start", <<Tool("write", "none", "phase")>>, <<>>),
    Event("tool_error", <<>>, <<>>), Event("message_end", <<>>, <<"action", "noise">>),
    Event("other", <<>>, <<>>) }
MCStreamLines == [a \in {"claude", "pi"} |-> IF a = "claude" THEN ClaudeLines ELSE PiLines]
=============================================================================
