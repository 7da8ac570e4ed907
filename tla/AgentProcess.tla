----------------------------- MODULE AgentProcess -----------------------------
(***************************************************************************)
(* One headless agent (src/agent/common.rs: run_streaming_child): the      *)
(* child, a helper it may leave behind with its pipes, the two pipes of    *)
(* bounded capacity, the pump that turns stdout into messages for the TUI, *)
(* the task that drains stderr, and the runner that waits for all of them. *)
(***************************************************************************)
EXTENDS AgentStream

CONSTANTS
  StreamLines,     \* agent -> the lines it may write to stdout
  StreamPhases,    \* the headless phases
  PipeCapacity,    \* lines a pipe holds
  StderrCap,       \* STDERR_BUFFER_CAP, in lines
  MaxStdout, MaxStderr   \* bounds: lines the child writes

ASSUME ProcessAssumption ==
  /\ PipeCapacity \in Nat \ {0} /\ StderrCap \in Nat \ {0}
  /\ MaxStdout \in Nat /\ MaxStderr \in Nat

VARIABLES
  job,      \* the agent and its phase
  child,    \* the process, its exit code, and the helper it left behind
  stdout, stderr,   \* the pipes: what is in them, and whether they are read
  runner,   \* where run_streaming_child is
  shown,    \* shown_highlights
  tail,     \* the rolling stderr buffer, and its one warning
  sent,     \* messages to the TUI
  result,
  wrote, complained   \* history: lines the child got rid of

agent_vars == <<job, child, stdout, stderr, runner, shown, tail, sent, result, wrote, complained>>

Pipe == [lines |-> <<>>, open |-> TRUE]

AgentIdle ==
  /\ job = [agent |-> "none", phase |-> "none"]
  /\ child = [alive |-> FALSE, code |-> "none", helper |-> FALSE]
  /\ stdout = Pipe /\ stderr = Pipe
  /\ runner = "idle"
  /\ shown = {}
  /\ tail = [lines |-> <<>>, draining |-> FALSE, warned |-> FALSE]
  /\ sent = <<>> /\ result = "none" /\ wrote = <<>> /\ complained = 0

AgentInit ==
  /\ job \in [agent : {"claude", "pi"}, phase : StreamPhases]
  /\ child = [alive |-> FALSE, code |-> "none", helper |-> FALSE]
  /\ stdout = Pipe /\ stderr = Pipe
  /\ runner = "setup"
  /\ shown = {}
  /\ tail = [lines |-> <<>>, draining |-> FALSE, warned |-> FALSE]
  /\ sent = <<>> /\ result = "none" /\ wrote = <<>> /\ complained = 0

-----------------------------------------------------------------------------
(* setup and invoke_headless                                               *)

\* claude has none.  pi has to be installed, its extension is installed unless
\* its settings list it, and the subagents are written into the project; what
\* fails of it is logged, and the run goes on.
SetUp ==
  /\ runner = "setup"
  /\ runner' = "starting"
  /\ \E fails \in {FALSE, job.agent = "pi"} :
       sent' = IF fails THEN Append(sent, Warning("setup")) ELSE sent
  /\ UNCHANGED <<job, child, stdout, stderr, shown, tail, result, wrote, complained>>

\* The child has both pipes; the drain is a task of its own, the pump is not.
Spawned ==
  /\ child' = [child EXCEPT !.alive = TRUE]
  /\ tail' = [tail EXCEPT !.draining = TRUE]
  /\ runner' = "pumping"
  /\ UNCHANGED <<job, stdout, stderr, shown, sent, result, wrote, complained>>

\* A target, a prompt or the program is missing: the TUI hears nothing of it.
NotSpawned ==
  /\ runner' = "done"
  /\ result' = "not started"
  /\ UNCHANGED <<job, child, stdout, stderr, shown, tail, sent, wrote, complained>>

InvokeClaude == runner = "starting" /\ job.agent = "claude" /\ (Spawned \/ NotSpawned)
InvokePi == runner = "starting" /\ job.agent = "pi" /\ (Spawned \/ NotSpawned)

-----------------------------------------------------------------------------
(* The child                                                               *)

CanWrite(pipe) == child.alive /\ pipe.open /\ Len(pipe.lines) < PipeCapacity

WriteStdout(line) ==
  /\ CanWrite(stdout) /\ Len(wrote) < MaxStdout
  /\ stdout' = [stdout EXCEPT !.lines = Append(@, line)]
  /\ wrote' = Append(wrote, line)
  /\ UNCHANGED <<job, child, stderr, runner, shown, tail, sent, result, complained>>

WriteStderr ==
  /\ CanWrite(stderr) /\ complained < MaxStderr
  /\ stderr' = [stderr EXCEPT !.lines = Append(@, complained + 1)]
  /\ complained' = complained + 1
  /\ UNCHANGED <<job, child, stdout, runner, shown, tail, sent, result, wrote>>

\* A process the agent starts and does not wait for inherits its pipes.
LeaveHelper ==
  /\ child.alive /\ ~child.helper
  /\ child' = [child EXCEPT !.helper = TRUE]
  /\ UNCHANGED <<job, stdout, stderr, runner, shown, tail, sent, result, wrote, complained>>

\* It ends when all is written, or fails: at any time it can write, or when
\* its stdout is not read any more.
Exit(code) ==
  /\ child.alive
  /\ IF code = "ok" THEN Len(wrote) = MaxStdout /\ complained = MaxStderr
     ELSE complained = MaxStderr \/ ~stdout.open
  /\ child' = [child EXCEPT !.alive = FALSE, !.code = code]
  /\ UNCHANGED <<job, stdout, stderr, runner, shown, tail, sent, result, wrote, complained>>

HelperExits ==
  /\ child.helper
  /\ child' = [child EXCEPT !.helper = FALSE]
  /\ UNCHANGED <<job, stdout, stderr, runner, shown, tail, sent, result, wrote, complained>>

\* A pipe is at its end when it is empty and nobody is left to write to it.
Eof(pipe) == pipe.lines = <<>> /\ ~child.alive /\ ~child.helper

-----------------------------------------------------------------------------
(* The runner                                                              *)

\* An output of blank rows only is passed over.
IsEmpty(out) == out = Nothing \/ (out.kind = "text" /\ out.rows = <<"blank">>)

Messages(out) == IF IsEmpty(out) THEN <<>> ELSE <<out>>

\* One line, parsed and sent on.
PumpLine ==
  /\ runner = "pumping"
  /\ stdout.lines # <<>>
  /\ Head(stdout.lines).type # "torn"
  /\ LET parsed == ParseLine(job.agent, Head(stdout.lines), job.phase, shown)
     IN /\ shown' = parsed.shown
        /\ sent' = sent \o Messages(parsed.out)
  /\ stdout' = [stdout EXCEPT !.lines = Tail(@)]
  /\ UNCHANGED <<job, child, stderr, runner, tail, result, wrote, complained>>

\* A line that is not UTF-8 is a read error: the pump ends with it, and the
\* read end of the pipe with the pump.
PumpFails ==
  /\ runner = "pumping"
  /\ stdout.lines # <<>>
  /\ Head(stdout.lines).type = "torn"
  /\ runner' = "waiting"
  /\ stdout' = [lines |-> <<>>, open |-> FALSE]
  /\ result' = "read error"
  /\ UNCHANGED <<job, child, stderr, shown, tail, sent, wrote, complained>>

\* Mutant: the pump ends with the child.
PumpEndsWithChild ==
  /\ runner = "pumping"
  /\ ~child.alive
  /\ runner' = "waiting"
  /\ stdout' = [stdout EXCEPT !.open = FALSE]
  /\ UNCHANGED <<job, child, stderr, shown, tail, sent, result, wrote, complained>>

PumpEnds ==
  /\ runner = "pumping"
  /\ Eof(stdout)
  /\ runner' = "waiting"
  /\ stdout' = [stdout EXCEPT !.open = FALSE]
  /\ UNCHANGED <<job, child, stderr, shown, tail, sent, result, wrote, complained>>

\* child.wait()
WaitForChild ==
  /\ runner = "waiting"
  /\ ~child.alive
  /\ runner' = "joining"
  /\ UNCHANGED <<job, child, stdout, stderr, shown, tail, sent, result, wrote, complained>>

\* Mutant: stderr is read when the child has ended.
DrainLineLate ==
  /\ tail.draining /\ runner = "joining"
  /\ stderr.lines # <<>>
  /\ stderr' = [stderr EXCEPT !.lines = Tail(@)]
  /\ tail' = [tail EXCEPT !.lines = Append(@, Head(stderr.lines))]
  /\ UNCHANGED <<job, child, stdout, runner, shown, sent, result, wrote, complained>>

\* The last StderrCap lines are kept; the first line that goes is announced.
DrainLine ==
  /\ tail.draining
  /\ stderr.lines # <<>>
  /\ stderr' = [stderr EXCEPT !.lines = Tail(@)]
  /\ LET lines == Append(tail.lines, Head(stderr.lines))
         over == Len(lines) > StderrCap
     IN /\ tail' = [tail EXCEPT !.lines = IF over THEN Tail(lines) ELSE lines,
                                !.warned = @ \/ over]
        /\ sent' = IF over /\ ~tail.warned THEN Append(sent, Warning("overflow")) ELSE sent
  /\ UNCHANGED <<job, child, stdout, runner, shown, result, wrote, complained>>

DrainEnds ==
  /\ tail.draining
  /\ Eof(stderr)
  /\ tail' = [tail EXCEPT !.draining = FALSE]
  /\ UNCHANGED <<job, child, stdout, stderr, runner, shown, sent, result, wrote, complained>>

\* Mutant: the drain is not awaited.
FinishUnjoined ==
  /\ runner = "joining"
  /\ runner' = "done"
  /\ sent' = Append(sent, [kind |-> "agent-done"])
  /\ result' = IF result # "none" THEN result ELSE IF child.code = "ok" THEN "ok" ELSE "failed"
  /\ UNCHANGED <<job, child, stdout, stderr, shown, tail, wrote, complained>>

\* AgentDone, whatever happened; then the read error, or the exit code with
\* what is left of stderr.
Finish ==
  /\ runner = "joining"
  /\ ~tail.draining
  /\ runner' = "done"
  /\ sent' = Append(sent, [kind |-> "agent-done"])
  /\ result' = IF result # "none" THEN result ELSE IF child.code = "ok" THEN "ok" ELSE "failed"
  /\ UNCHANGED <<job, child, stdout, stderr, shown, tail, wrote, complained>>

ChildNext ==
  \/ \E line \in StreamLines[job.agent] : WriteStdout(line)
  \/ WriteStderr
  \/ \E code \in {"ok", "failed"} : Exit(code)
  \/ LeaveHelper
  \/ HelperExits

PumpStdoutToUi == PumpLine \/ PumpFails \/ PumpEnds
StderrDrain == DrainLine \/ DrainEnds
RunStreamingChild == WaitForChild \/ Finish

AgentNext ==
  /\ runner # "idle"
  /\ SetUp \/ InvokeClaude \/ InvokePi \/ ChildNext \/ PumpStdoutToUi \/ StderrDrain \/ RunStreamingChild

\* Tasks that can go on are polled; an agent that can write or exit does, and
\* the helper of a child that is gone ends.
AgentFairness ==
  /\ WF_agent_vars(PumpStdoutToUi)
  /\ WF_agent_vars(StderrDrain)
  /\ WF_agent_vars(RunStreamingChild)
  /\ WF_agent_vars((WriteStderr \/ \E code \in {"ok", "failed"} : Exit(code)))
  /\ WF_agent_vars(~child.alive /\ HelperExits)
-----------------------------------------------------------------------------
\* What the lines become one by one, highlights but once.
Report(agent, phase, lines) ==
  FoldLeft(LAMBDA acc, event :
             LET out == ParseLine(agent, event, phase, {}).out
             IN IF out.kind = "highlight" /\ Contains(acc, out) THEN acc ELSE acc \o Messages(out),
           <<>>, lines)

\* What the runner itself has to say of a run.
AsideMessages == {Warning("overflow"), Warning("setup"), [kind |-> "agent-done"]}

\* An agent that ended well is reported in full: everything it wrote before it
\* ended is on its way to the screen, in order, and a phase's highlight once.
\* AgentDone is the last word about any agent, and the error of one that failed
\* shows the last it said on stderr.
AgentReported ==
  /\ result = "ok" => Without(sent, AsideMessages) = Report(job.agent, job.phase, wrote)
  /\ \A i \in 1..Len(sent) : sent[i].kind = "agent-done" => runner = "done" /\ i = Len(sent)
  /\ result = "failed" /\ complained > 0 => tail.lines # <<>> /\ Last(tail.lines) = complained

\* The run of an agent ends, however much it writes to either pipe.
AgentRunEnds == (runner = "pumping") ~> (runner = "done")
=============================================================================
