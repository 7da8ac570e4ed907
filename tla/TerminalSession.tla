---------------------------- MODULE TerminalSession ----------------------------
(***************************************************************************)
(* The terminal of one run: the runner (run_single_plan, the phase loop it *)
(* calls and the tail of main's run_phase_loop), the TUI task it shares    *)
(* the terminal with (src/ui.rs), the two tasks that read a headless       *)
(* agent's pipes (src/agent/common.rs), the agents, and the user.  They    *)
(* talk through one unbounded mailbox; a question and a suspension carry a *)
(* one-shot channel the runner awaits, which closes when the message is    *)
(* dropped.  Lines are counted, not spelled.                               *)
(***************************************************************************)
EXTENDS Naturals, Sequences, FiniteSets, SequencesExt

CONSTANTS
  Interactive,  \* the LLM phases whose agent takes over the terminal
  Cycle,        \* the LLM phases of a cycle, in order
  MaxCycles,    \* bound: cycles the user asks for
  MaxLines      \* bound: lines on the stdout of one agent

ASSUME SessionAssumption ==
  /\ Cycle \in Seq(STRING) /\ Cycle # <<>>
  /\ MaxCycles \in Nat \ {0} /\ MaxLines \in Nat

Messages == {"log", "register", "progress", "persist", "agent-done",
             "confirm", "suspend", "resume", "quit"}
Lines == {"log", "persist"}   \* those the TUI puts into the scrollback
Questions == {"none", "proceed", "exit"}
Answers == {"none", "yes", "no"}

VARIABLES
  runner,  \* where it is, the phase it is in, the question it asked
  agent,   \* the headless agent and the tasks that read its pipes
  mail,    \* the mailbox of the TUI
  tui,     \* the state run_tui keeps
  raw,     \* the terminal is in raw mode
  ack,     \* the channel of the last Suspend is closed
  reply,   \* what came through the channel of the last Confirm
  sent,    \* lines sent to the mailbox
  painted  \* lines in the scrollback

vars == <<runner, agent, mail, tui, raw, ack, reply, sent, painted>>

Places == {"next", "suspending", "interactive", "headless", "asking", "quitting", "gone"}
NoAgent == [alive |-> FALSE, pumping |-> FALSE, draining |-> FALSE,
            lines |-> 0, warned |-> FALSE, failed |-> FALSE]

Init ==
  /\ runner = [at |-> "next", phase |-> 1, cycle |-> 1, question |-> "none"]
  /\ agent = NoAgent
  /\ mail = <<>>
  /\ tui = [at |-> "up", suspended |-> FALSE, group |-> "none", prompt |-> FALSE]
  /\ raw = TRUE
  /\ ack = FALSE
  /\ reply = "none"
  /\ sent = 0 /\ painted = 0

Phase == Cycle[runner.phase]

\* The lines among some messages.
LineCount(messages) == Cardinality({i \in DOMAIN messages : messages[i] \in Lines})

\* Mutant: the runner's handle keeps the question's channel open.
PostHeld(messages) ==
  /\ mail' = IF tui.at = "up" THEN mail \o messages ELSE mail
  /\ sent' = sent + LineCount(messages)
  /\ ack' = IF Contains(messages, "suspend") THEN tui.at # "up" ELSE ack
  /\ reply' = IF Contains(messages, "confirm") THEN "none" ELSE reply

\* UISender::send: messages to a TUI that is gone are dropped, their channels
\* with them.
Post(messages) ==
  /\ mail' = IF tui.at = "up" THEN mail \o messages ELSE mail
  /\ sent' = sent + LineCount(messages)
  /\ ack' = IF Contains(messages, "suspend") THEN tui.at # "up" ELSE ack
  /\ reply' = IF ~Contains(messages, "confirm") THEN reply
              ELSE IF tui.at = "up" THEN "none" ELSE "no"

-----------------------------------------------------------------------------
(* The runner                                                              *)

\* The phase header; a headless agent is spawned, for an interactive one the
\* terminal is asked for.
BeginPhase ==
  /\ runner.at = "next" /\ runner.phase <= Len(Cycle)
  /\ IF Phase \in Interactive
     THEN /\ Post(<<"log", "register", "suspend">>)
          /\ runner' = [runner EXCEPT !.at = "suspending"]
          /\ UNCHANGED agent
     ELSE /\ Post(<<"log", "register">>)
          /\ runner' = [runner EXCEPT !.at = "headless"]
          /\ agent' = [NoAgent EXCEPT !.alive = TRUE, !.pumping = TRUE,
                                      !.draining = TRUE, !.lines = MaxLines]
  /\ UNCHANGED <<tui, raw, painted>>

\* Mutant: the channel of the suspension is not awaited.
InvokeInteractiveAtOnce ==
  /\ runner.at = "suspending"
  /\ runner' = [runner EXCEPT !.at = "interactive"]
  /\ UNCHANGED <<agent, mail, tui, raw, ack, reply, sent, painted>>

\* UI::suspend returns when its channel is closed.
InvokeInteractive ==
  /\ runner.at = "suspending" /\ ack
  /\ runner' = [runner EXCEPT !.at = "interactive"]
  /\ UNCHANGED <<agent, mail, tui, raw, ack, reply, sent, painted>>

\* Mutant: a stopped loop steps past the end of the cycle.
AdvancedPast(stuck) ==
  [runner EXCEPT !.at = "next", !.phase = IF stuck THEN Len(Cycle) + 2 ELSE @ + 1]

\* Back to the loop: the next phase, or, when phase.md has not advanced, out.
Advanced(stuck) ==
  [runner EXCEPT !.at = "next", !.phase = IF stuck THEN Len(Cycle) + 1 ELSE @ + 1]

\* Mutant: ui.resume() is forgotten when the phase ends well, too.
InteractiveEndsSuspended(stuck) ==
  /\ runner.at = "interactive"
  /\ runner' = Advanced(stuck)
  /\ UNCHANGED <<agent, mail, tui, raw, ack, reply, sent, painted>>

InteractiveEnds(stuck) ==
  /\ runner.at = "interactive"
  /\ Post(<<"resume">>)
  /\ runner' = Advanced(stuck)
  /\ UNCHANGED <<agent, tui, raw, painted>>

\* The error leaves run_single_plan; main logs it and asks.
Fatal(messages) ==
  /\ Post(messages \o <<"log", "confirm">>)
  /\ runner' = [runner EXCEPT !.at = "asking", !.question = "exit"]
  /\ UNCHANGED <<tui, raw, painted>>

\* The agent cannot be started or exits non-zero: ? skips ui.resume().
InteractiveFails ==
  /\ runner.at = "interactive"
  /\ Fatal(<<>>)
  /\ UNCHANGED agent

\* Anything of the loop outside the agents that bails.
PhaseFails ==
  /\ runner.at = "next" /\ runner.phase <= Len(Cycle)
  /\ Fatal(<<>>)
  /\ UNCHANGED agent

\* Mutant: the task that reads stderr is not joined.
RunStreamingChildUnjoined(stuck) ==
  /\ runner.at = "headless"
  /\ ~agent.alive /\ ~agent.pumping
  /\ IF agent.failed
     THEN Fatal(<<"agent-done">>)
     ELSE /\ Post(<<"agent-done">>)
          /\ runner' = Advanced(stuck)
          /\ UNCHANGED <<tui, raw, painted>>
  /\ UNCHANGED agent

\* Mutant: AgentDone is sent on failure only.
RunStreamingChildSilent(stuck) ==
  /\ runner.at = "headless"
  /\ ~agent.alive /\ ~agent.pumping /\ ~agent.draining
  /\ IF agent.failed
     THEN Fatal(<<"agent-done">>)
     ELSE /\ runner' = Advanced(stuck)
          /\ UNCHANGED <<mail, tui, raw, ack, reply, sent, painted>>
  /\ agent' = NoAgent

\* The end of run_streaming_child: pump done, child reaped, drain joined.
RunStreamingChild(stuck) ==
  /\ runner.at = "headless"
  /\ ~agent.alive /\ ~agent.pumping /\ ~agent.draining
  /\ IF agent.failed
     THEN Fatal(<<"agent-done">>)
     ELSE /\ Post(<<"agent-done">>)
          /\ runner' = Advanced(stuck)
          /\ UNCHANGED <<tui, raw, painted>>
  /\ agent' = NoAgent

\* The cycle is over, or stopped: run_single_plan asks.
Ask ==
  /\ runner.at = "next" /\ runner.phase > Len(Cycle)
  /\ Post(<<"log", "confirm">>)
  /\ runner' = [runner EXCEPT !.at = "asking", !.question = "proceed"]
  /\ UNCHANGED <<agent, tui, raw, painted>>

\* UI::confirm returns.
Answered ==
  /\ runner.at = "asking" /\ reply # "none"
  /\ IF runner.question = "proceed" /\ reply = "yes"
     THEN /\ runner' = [at |-> "next", phase |-> 1, cycle |-> runner.cycle + 1,
                        question |-> "none"]
          /\ UNCHANGED <<mail, sent, ack, reply>>
     ELSE /\ runner' = [runner EXCEPT !.at = "quitting", !.question = "none"]
          /\ Post((IF runner.question = "proceed" THEN <<"log">> ELSE <<>>) \o <<"quit">>)
  /\ UNCHANGED <<agent, tui, raw, painted>>

\* The handle of the TUI task is awaited, and the process ends.
Exit ==
  /\ runner.at = "quitting" /\ tui.at # "up"
  /\ runner' = [runner EXCEPT !.at = "gone"]
  /\ UNCHANGED <<agent, mail, tui, raw, ack, reply, sent, painted>>

-----------------------------------------------------------------------------
(* A headless agent and the tasks that read it                             *)

\* pump_stdout_to_ui: a tool call is progress; a result, and a line that does
\* not parse, persists.
Pump(message) ==
  /\ agent.pumping /\ agent.lines > 0
  /\ message \in {"progress", "persist"}
  /\ Post(<<message>>)
  /\ agent' = [agent EXCEPT !.lines = @ - 1]
  /\ UNCHANGED <<runner, tui, raw, painted>>

\* The agent closes its pipes and exits.
ChildExits(ok) ==
  /\ agent.alive
  /\ agent' = [agent EXCEPT !.alive = FALSE, !.failed = @ \/ ~ok]
  /\ UNCHANGED <<runner, mail, tui, raw, ack, reply, sent, painted>>

\* The end of stdout, or a line that is not UTF-8.
PumpEnds(error) ==
  /\ agent.pumping
  /\ error \/ ~agent.alive
  /\ agent' = [agent EXCEPT !.pumping = FALSE, !.failed = @ \/ error]
  /\ UNCHANGED <<runner, mail, tui, raw, ack, reply, sent, painted>>

\* spawn_stderr_drain: the one warning that the buffer overflowed.
DrainWarns ==
  /\ agent.draining /\ ~agent.warned
  /\ Post(<<"persist">>)
  /\ agent' = [agent EXCEPT !.warned = TRUE]
  /\ UNCHANGED <<runner, tui, raw, painted>>

DrainEnds ==
  /\ agent.draining /\ ~agent.alive
  /\ agent' = [agent EXCEPT !.draining = FALSE]
  /\ UNCHANGED <<runner, mail, tui, raw, ack, reply, sent, painted>>

-----------------------------------------------------------------------------
(* The TUI                                                                 *)

\* AppState::handle_message; what it ignores is dropped.
Handled(message) ==
  [tui EXCEPT !.group = IF message = "register" THEN "idle"
                        ELSE IF message = "progress" /\ @ # "none" THEN "busy"
                        ELSE IF message = "agent-done" THEN "none" ELSE @,
              !.prompt = @ \/ message = "confirm"]

\* A line for the scrollback clears the status line it supersedes.
Cleared == [tui EXCEPT !.group = IF @ = "busy" THEN "idle" ELSE @]

Receive(message) ==
  /\ tui.at = "up" /\ mail # <<>> /\ message = Head(mail)
  /\ mail' = Tail(mail)
  /\ UNCHANGED <<runner, agent, reply, sent>>

\* Mutant: the loop is left without restoring the terminal.
ReceiveQuitRaw ==
  /\ Receive("quit")
  /\ tui' = [tui EXCEPT !.at = "quit", !.prompt = FALSE]
  /\ UNCHANGED <<raw, ack, painted>>

ReceiveQuit ==
  /\ Receive("quit")
  /\ tui' = [tui EXCEPT !.at = "quit", !.prompt = FALSE]
  /\ raw' = FALSE
  /\ UNCHANGED <<ack, painted>>

ReceiveSuspend ==
  /\ ~tui.suspended
  /\ Receive("suspend")
  /\ tui' = [tui EXCEPT !.suspended = TRUE]
  /\ raw' = FALSE
  /\ ack' = TRUE
  /\ UNCHANGED painted

\* Mutant: the terminal's mode is not restored.
ReceiveResumeCooked ==
  /\ Receive("resume")
  /\ tui' = [tui EXCEPT !.suspended = FALSE]
  /\ UNCHANGED <<raw, ack, painted>>

ReceiveResume ==
  /\ Receive("resume")
  /\ tui' = [tui EXCEPT !.suspended = FALSE]
  /\ raw' = TRUE
  /\ UNCHANGED <<ack, painted>>

ReceiveLine ==
  /\ ~tui.suspended
  /\ \E message \in Lines : Receive(message)
  /\ tui' = Cleared
  /\ painted' = painted + 1
  /\ UNCHANGED <<raw, ack>>

\* The others go to handle_message, while suspended lines too.
ReceiveOther ==
  /\ \E message \in Messages \ {"quit", "resume"} :
       /\ message \in Lines \cup {"suspend"} => tui.suspended
       /\ Receive(message)
       /\ tui' = Handled(message)
       /\ ack' = (ack \/ message = "suspend")
  /\ UNCHANGED <<raw, painted>>

\* Mutant: the question stays on the viewport.
KeyKept(answer) ==
  /\ tui.at = "up" /\ ~tui.suspended /\ tui.prompt
  /\ answer = "yes" /\ runner.question = "proceed" => runner.cycle < MaxCycles
  /\ reply' = answer
  /\ UNCHANGED <<runner, agent, mail, tui, raw, ack, sent, painted>>

\* The user's answer; keys are polled only while the TUI has the terminal.
Key(answer) ==
  /\ tui.at = "up" /\ ~tui.suspended /\ tui.prompt
  /\ answer = "yes" /\ runner.question = "proceed" => runner.cycle < MaxCycles
  /\ reply' = answer
  /\ tui' = [tui EXCEPT !.prompt = FALSE]
  /\ UNCHANGED <<runner, agent, mail, raw, ack, sent, painted>>

\* Ctrl-C or Ctrl-D: the process exits from the TUI task.
Cancel ==
  /\ tui.at = "up" /\ ~tui.suspended
  /\ runner' = [runner EXCEPT !.at = "gone", !.question = "none"]
  /\ agent' = NoAgent
  /\ tui' = [tui EXCEPT !.at = "quit", !.prompt = FALSE]
  /\ raw' = FALSE
  /\ mail' = <<>>
  /\ UNCHANGED <<ack, reply, sent, painted>>

\* A call on the terminal fails (while suspended only Resume makes one): run_tui
\* returns, and what it holds is dropped.
TuiFails ==
  /\ tui.at = "up"
  /\ tui.suspended => mail # <<>> /\ Head(mail) = "resume"
  /\ tui' = [tui EXCEPT !.at = "failed", !.prompt = FALSE]
  /\ mail' = <<>>
  /\ ack' = TRUE
  /\ reply' = IF tui.prompt \/ Contains(mail, "confirm") THEN "no" ELSE reply
  /\ UNCHANGED <<runner, agent, raw, sent, painted>>

-----------------------------------------------------------------------------
RunnerStep ==
  \/ BeginPhase
  \/ InvokeInteractive
  \/ \E stuck \in BOOLEAN : InteractiveEnds(stuck) \/ RunStreamingChild(stuck)
  \/ InteractiveFails
  \/ PhaseFails
  \/ Ask
  \/ Answered
  \/ Exit

AgentStep ==
  \/ \E message \in {"progress", "persist"} : Pump(message)
  \/ \E error \in BOOLEAN : PumpEnds(error)
  \/ \E ok \in BOOLEAN : ChildExits(ok)
  \/ DrainWarns
  \/ DrainEnds

ReceiveStep ==
  ReceiveQuit \/ ReceiveSuspend \/ ReceiveResume \/ ReceiveLine \/ ReceiveOther

UserAnswers == \E answer \in {"yes", "no"} : Key(answer)

Next == RunnerStep \/ AgentStep \/ ReceiveStep \/ UserAnswers \/ Cancel \/ TuiFails

Spec == Init /\ [][Next]_vars

\* Tasks are scheduled, agents end, and a question on the screen is answered.
FairSpec ==
  /\ Spec
  /\ WF_vars(RunnerStep) /\ WF_vars(AgentStep) /\ WF_vars(ReceiveStep)
  /\ WF_vars(UserAnswers)
-----------------------------------------------------------------------------
(* Properties                                                              *)

\* Every variable has its type.
TypeOK ==
  /\ runner \in [at : Places, phase : 1..Len(Cycle) + 1, cycle : 1..MaxCycles,
                 question : Questions]
  /\ agent \in [alive : BOOLEAN, pumping : BOOLEAN, draining : BOOLEAN,
                lines : 0..MaxLines, warned : BOOLEAN, failed : BOOLEAN]
  /\ mail \in Seq(Messages)
  /\ tui \in [at : {"up", "quit", "failed"}, suspended : BOOLEAN,
              group : {"none", "idle", "busy"}, prompt : BOOLEAN]
  /\ raw \in BOOLEAN /\ ack \in BOOLEAN
  /\ reply \in Answers
  /\ sent \in Nat /\ painted \in Nat

\* While an interactive agent owns the terminal the TUI neither polls its keys
\* nor has it in raw mode.
TerminalHandedOver ==
  runner.at = "interactive" /\ tui.at = "up" => tui.suspended /\ ~raw

\* The TUI draws in raw mode, after any number of handovers.
DrawsInRawMode == tui.at = "up" => raw = ~tui.suspended

\* Together: the terminal has one owner, and is in the mode of that owner.
TerminalShared == TerminalHandedOver /\ DrawsInRawMode

Pending == LineCount(mail)

\* No line is lost: a TUI that has the terminal has painted every line that is
\* not in its mailbox, those sent around a handover included.
NothingDropped == tui.at = "up" /\ ~tui.suspended => sent = painted + Pending

\* A question is shown only while the runner waits for its answer, and every
\* line that leads up to it is on the screen.
PromptIsCurrent ==
  tui.prompt => /\ runner.at = "asking" /\ reply = "none"
                /\ Pending = 0

\* A tool-call line on the viewport is that of the agent that runs, or the
\* message that clears it is under way.
StatusIsLive ==
  tui.at = "up" /\ tui.group = "busy" =>
    \/ runner.at = "headless"
    \/ Contains(mail, "agent-done") \/ Contains(mail, "log")

\* Together: the screen says what was sent and what is going on.
ScreenTells == NothingDropped /\ PromptIsCurrent /\ StatusIsLive

\* A process that ends without losing its terminal leaves it cooked.
TerminalRestored == runner.at = "gone" /\ tui.at # "failed" => ~raw

\* A question is answered, unless an interactive agent's failure led to it.
QuestionAnswered ==
  (/\ runner.at = "asking"
   /\ runner.question = "proceed" \/ Phase \notin Interactive)
    ~> runner.at # "asking"

\* A fatal error is shown, and acknowledged before the run is torn down.
ErrorAcknowledged ==
  (runner.at = "asking" /\ runner.question = "exit") ~> runner.at # "asking"

\* A run whose terminal is lost ends, in whatever phase it is.
TerminalLossEndsRun == tui.at = "failed" ~> runner.at = "gone"

\* Together: a run waits for ever on nothing but its agent and its user.
RunMovesOn == QuestionAnswered /\ TerminalLossEndsRun
================================================================================
