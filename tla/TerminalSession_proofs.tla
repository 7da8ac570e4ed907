------------------------- MODULE TerminalSession_proofs -------------------------
(***************************************************************************)
(* For any phases and any number of cycles and lines: the TUI and an       *)
(* interactive agent never share the terminal, and a run that keeps its    *)
(* terminal gives it back.  The argument follows the Suspend message: from *)
(* its sending to its receipt it is the last of the mailbox, so nothing    *)
(* behind it can wake the TUI up again.                                    *)
(***************************************************************************)
EXTENDS TerminalSession, FiniteSetTheorems, TLAPS

Free(messages, message) == \A i \in DOMAIN messages : messages[i] # message

\* The Suspend is the last message and the only one of its kind.
SuspendIsLast ==
  /\ mail # <<>>
  /\ mail[Len(mail)] = "suspend"
  /\ \A i \in 1..Len(mail) - 1 : mail[i] # "suspend"

Waiting == runner.at = "suspending" /\ ~ack
Handed == (runner.at = "suspending" /\ ack) \/ runner.at = "interactive"

Types ==
  /\ runner \in [at : Places, phase : Nat, cycle : Nat, question : Questions]
  /\ agent \in [alive : BOOLEAN, pumping : BOOLEAN, draining : BOOLEAN,
                lines : Nat, warned : BOOLEAN, failed : BOOLEAN]
  /\ mail \in Seq(Messages)
  /\ tui \in [at : {"up", "quit", "failed"}, suspended : BOOLEAN,
              group : {"none", "idle", "busy"}, prompt : BOOLEAN]
  /\ raw \in BOOLEAN /\ ack \in BOOLEAN

AgentIdle == runner.at # "headless" => agent = NoAgent

MailInv ==
  tui.at = "up" =>
    /\ Waiting => SuspendIsLast
    /\ ~Waiting => Free(mail, "suspend")
    /\ Handed => tui.suspended /\ Free(mail, "resume")

ModeInv ==
  /\ DrawsInRawMode
  /\ tui.at = "quit" => ~raw
  /\ runner.at = "gone" => tui.at # "up"

IInv == Types /\ AgentIdle /\ MailInv /\ ModeInv

-----------------------------------------------------------------------------
\* The TUI starts up, in raw mode, with an empty mailbox.
LEMMA InitIInv == Init => IInv
<1> SUFFICES ASSUME Init PROVE IInv
    OBVIOUS
<1>1. Types
  <2>1. mail \in Seq(Messages) BY DEF Init
  <2>2. raw \in BOOLEAN /\ ack \in BOOLEAN BY DEF Init
  <2>3. runner \in [at : Places, phase : Nat, cycle : Nat, question : Questions]
        BY DEF Init, Places, Questions
  <2>4. agent \in [alive : BOOLEAN, pumping : BOOLEAN, draining : BOOLEAN,
                   lines : Nat, warned : BOOLEAN, failed : BOOLEAN]
        BY DEF Init, NoAgent
  <2>5. tui \in [at : {"up", "quit", "failed"}, suspended : BOOLEAN,
                 group : {"none", "idle", "busy"}, prompt : BOOLEAN]
        BY DEF Init
  <2> QED BY <2>1, <2>2, <2>3, <2>4, <2>5 DEF Types
<1>2. AgentIdle BY DEF Init, AgentIdle
<1>3. MailInv BY DEF Init, MailInv, Waiting, Handed, Free
<1>4. ModeInv BY DEF Init, ModeInv, DrawsInRawMode
<1> QED BY <1>1, <1>2, <1>3, <1>4 DEF IInv

\* A message that is in neither of two lists is not in both together.
LEMMA ConcatFree ==
  ASSUME NEW s \in Seq(Messages), NEW t \in Seq(Messages), NEW message,
         Free(s, message), Free(t, message)
  PROVE  s \o t \in Seq(Messages) /\ Free(s \o t, message)
BY DEF Free

\* Posting messages that suspend nothing keeps the mailbox free of Suspend.
LEMMA PostFree ==
  ASSUME NEW messages \in Seq(Messages), Free(messages, "suspend"),
         mail \in Seq(Messages), Post(messages)
  PROVE  /\ mail' \in Seq(Messages)
         /\ ack' = ack
         /\ tui.at = "up" => mail' = mail \o messages
         /\ Free(mail, "suspend") => Free(mail', "suspend")
<1>1. ~Contains(messages, "suspend") BY DEF Contains, Free
<1>2. mail' = IF tui.at = "up" THEN mail \o messages ELSE mail
      BY DEF Post
<1>3. ack' = ack BY <1>1 DEF Post
<1>4. mail \o messages \in Seq(Messages) OBVIOUS
<1>5. Free(mail, "suspend") => Free(mail \o messages, "suspend") BY DEF Free
<1> QED BY <1>2, <1>3, <1>4, <1>5

\* A step of the runner that leaves it neither waiting nor handed over.
LEMMA PostIInv ==
  ASSUME IInv, NEW messages \in Seq(Messages), Free(messages, "suspend"),
         Post(messages), ~Waiting,
         runner' \in [at : Places, phase : Nat, cycle : Nat, question : Questions],
         runner'.at \notin {"suspending", "interactive", "headless", "gone"},
         agent' = NoAgent, UNCHANGED <<tui, raw>>
  PROVE  IInv'
<1> USE DEF IInv
<1>1. /\ mail' \in Seq(Messages) /\ ack' = ack
      /\ Free(mail, "suspend") => Free(mail', "suspend")
      BY PostFree DEF Types
<1>2. Types' BY <1>1 DEF Types, NoAgent
<1>3. AgentIdle' BY DEF AgentIdle
<1>4. MailInv' BY <1>1 DEF MailInv, Waiting, Handed
<1>5. ModeInv' BY DEF ModeInv, DrawsInRawMode
<1> QED BY <1>2, <1>3, <1>4, <1>5

\* A headless agent's message, whoever sends it.
LEMMA AgentPostIInv ==
  ASSUME IInv, NEW message \in {"progress", "persist"}, Post(<<message>>),
         runner.at = "headless",
         agent' \in [alive : BOOLEAN, pumping : BOOLEAN, draining : BOOLEAN,
                     lines : Nat, warned : BOOLEAN, failed : BOOLEAN],
         UNCHANGED <<runner, tui, raw>>
  PROVE  IInv'
<1> USE DEF IInv
<1>1. <<message>> \in Seq(Messages) /\ Free(<<message>>, "suspend")
      BY DEF Messages, Free
<1>2. /\ mail' \in Seq(Messages) /\ ack' = ack
      /\ Free(mail, "suspend") => Free(mail', "suspend")
      BY <1>1, PostFree DEF Types
<1>3. Types' BY <1>2 DEF Types
<1>4. AgentIdle' BY DEF AgentIdle
<1>5. MailInv' BY <1>2 DEF MailInv, Waiting, Handed
<1>6. ModeInv' BY DEF ModeInv, DrawsInRawMode
<1> QED BY <1>3, <1>4, <1>5, <1>6
\* A step of the agent or its tasks that sends nothing.
LEMMA QuietIInv ==
  ASSUME IInv, runner.at = "headless",
         agent' \in [alive : BOOLEAN, pumping : BOOLEAN, draining : BOOLEAN,
                     lines : Nat, warned : BOOLEAN, failed : BOOLEAN],
         UNCHANGED <<runner, mail, tui, raw, ack>>
  PROVE  IInv'
<1> USE DEF IInv
<1>1. Types' BY DEF Types
<1>2. AgentIdle' BY DEF AgentIdle
<1>3. MailInv' BY DEF MailInv, Waiting, Handed, SuspendIsLast
<1>4. ModeInv' BY DEF ModeInv, DrawsInRawMode
<1> QED BY <1>1, <1>2, <1>3, <1>4

-----------------------------------------------------------------------------
\* The runner begins a phase.
LEMMA BeginPhaseIInv == ASSUME IInv, BeginPhase PROVE IInv'
<1> USE DEF IInv
<1>1. runner.at = "next" /\ UNCHANGED <<tui, raw>> BY DEF BeginPhase
<1>2. CASE Phase \in Interactive
  <2> DEFINE messages == <<"log", "register", "suspend">>
  <2>1. /\ Post(messages)
        /\ runner' = [runner EXCEPT !.at = "suspending"]
        /\ agent' = agent
        BY <1>2 DEF BeginPhase
  <2>2. mail' = IF tui.at = "up" THEN mail \o messages ELSE mail
        BY <2>1 DEF Post
  <2>3. ack' = (tui.at # "up")
    <3>1. messages[3] = "suspend" /\ 3 \in 1..Len(messages) OBVIOUS
    <3>2. Contains(messages, "suspend") BY <3>1 DEF Contains
    <3> QED BY <2>1, <3>2 DEF Post
  <2>4. messages \in Seq(Messages) BY DEF Messages
  <2>5. Types' BY <1>1, <2>1, <2>2, <2>3, <2>4 DEF Types, Places
  <2>6. AgentIdle' BY <1>1, <2>1 DEF AgentIdle, Types
  <2>7. MailInv'
    <3>1. SUFFICES ASSUME tui.at = "up" PROVE SuspendIsLast' /\ ~Handed' /\ Waiting'
          BY <1>1 DEF MailInv
    <3>2. Free(mail, "suspend") BY <1>1, <3>1 DEF MailInv, Waiting
    <3>3. mail' = mail \o messages /\ mail \in Seq(Messages) BY <2>2, <3>1 DEF Types
    <3>4. Len(mail') = Len(mail) + 3 /\ mail'[Len(mail) + 3] = "suspend"
          BY <3>3
    <3>5. \A i \in 1..Len(mail) + 2 : mail'[i] # "suspend" BY <3>2, <3>3 DEF Free
    <3>6. SuspendIsLast' BY <3>4, <3>5, <3>3 DEF SuspendIsLast
    <3> QED BY <2>1, <2>3, <3>1, <3>6 DEF Handed, Waiting, Types
  <2>8. ModeInv' BY <1>1, <2>1 DEF ModeInv, DrawsInRawMode, Types
  <2> QED BY <2>5, <2>6, <2>7, <2>8
<1>3. CASE Phase \notin Interactive
  <2>1. /\ Post(<<"log", "register">>)
        /\ runner' = [runner EXCEPT !.at = "headless"]
        /\ agent' = [NoAgent EXCEPT !.alive = TRUE, !.pumping = TRUE,
                                    !.draining = TRUE, !.lines = MaxLines]
        BY <1>3 DEF BeginPhase
  <2>2. <<"log", "register">> \in Seq(Messages) /\ Free(<<"log", "register">>, "suspend")
        BY DEF Messages, Free
  <2>3. /\ mail' \in Seq(Messages) /\ ack' = ack
        /\ Free(mail, "suspend") => Free(mail', "suspend")
        BY <2>1, <2>2, PostFree DEF Types
  <2>4. runner'.at = "headless" BY <2>1 DEF Types
  <2>5. agent' \in [alive : BOOLEAN, pumping : BOOLEAN, draining : BOOLEAN,
                    lines : Nat, warned : BOOLEAN, failed : BOOLEAN]
        BY <2>1, SessionAssumption DEF NoAgent
  <2>6. Types' BY <1>1, <2>1, <2>3, <2>5 DEF Types, Places
  <2>7. AgentIdle' BY <2>4 DEF AgentIdle
  <2>8. MailInv' BY <1>1, <2>3, <2>4 DEF MailInv, Waiting, Handed
  <2>9. ModeInv' BY <1>1, <2>4 DEF ModeInv, DrawsInRawMode
  <2> QED BY <2>6, <2>7, <2>8, <2>9
<1> QED BY <1>2, <1>3

\* The runner starts an agent, in the TUI or out of it.
LEMMA InvokeIInv == ASSUME IInv, InvokeInteractive PROVE IInv'
<1> USE DEF IInv, InvokeInteractive
<1>1. Types' BY DEF Types, Places
<1>2. AgentIdle' BY DEF AgentIdle, Types
<1>3. MailInv' BY DEF MailInv, Waiting, Handed, Types
<1>4. ModeInv' BY DEF ModeInv, DrawsInRawMode, Types
<1> QED BY <1>1, <1>2, <1>3, <1>4

\* A fatal error, with or without the headless agent's last message.
LEMMA FatalIInv ==
  ASSUME IInv, NEW messages \in {<<>>, <<"agent-done">>}, Fatal(messages), ~Waiting,
         agent' = NoAgent
  PROVE  IInv'
<1> DEFINE all == messages \o <<"log", "confirm">>
<1>1. all \in Seq(Messages) /\ Free(all, "suspend")
  <2>1. messages \in Seq(Messages) /\ Free(messages, "suspend")
    <3>1. CASE messages = <<>> BY <3>1 DEF Free
    <3>2. CASE messages = <<"agent-done">> BY <3>2 DEF Messages, Free
    <3> QED BY <3>1, <3>2
  <2>2. <<"log", "confirm">> \in Seq(Messages) /\ Free(<<"log", "confirm">>, "suspend")
        BY DEF Messages, Free
  <2> QED BY <2>1, <2>2, ConcatFree
<1>2. Post(all) /\ UNCHANGED <<tui, raw>> BY DEF Fatal
<1>3. runner' = [runner EXCEPT !.at = "asking", !.question = "exit"] BY DEF Fatal
<1>4. runner' \in [at : Places, phase : Nat, cycle : Nat, question : Questions]
      /\ runner'.at = "asking"
      BY <1>3 DEF IInv, Types, Places, Questions
<1> HIDE DEF all
<1> QED BY <1>1, <1>2, <1>4, PostIInv

\* The next place of the runner is one.
LEMMA AdvancedType ==
  ASSUME Types, NEW stuck \in BOOLEAN
  PROVE  /\ Advanced(stuck) \in [at : Places, phase : Nat, cycle : Nat, question : Questions]
         /\ Advanced(stuck).at = "next"
<1>1. Len(Cycle) \in Nat BY SessionAssumption
<1> DEFINE p == IF stuck THEN Len(Cycle) + 1 ELSE runner.phase + 1
<1>2. p \in Nat BY <1>1 DEF Types
<1>3. Advanced(stuck) = [runner EXCEPT !.at = "next", !.phase = p] BY DEF Advanced
<1> HIDE DEF p
<1> QED BY <1>2, <1>3 DEF Types, Places

\* Every step of the runner.
LEMMA RunnerIInv == ASSUME IInv, RunnerStep PROVE IInv'
<1>0. Types /\ AgentIdle BY DEF IInv
<1>1. CASE BeginPhase BY <1>1, BeginPhaseIInv
<1>2. CASE InvokeInteractive BY <1>2, InvokeIInv
<1>3. ASSUME NEW stuck \in BOOLEAN, InteractiveEnds(stuck) PROVE IInv'
  <2>1. /\ runner.at = "interactive" /\ Post(<<"resume">>)
        /\ runner' = Advanced(stuck) /\ UNCHANGED <<agent, tui, raw>>
        BY <1>3 DEF InteractiveEnds
  <2>2. agent' = NoAgent BY <1>0, <2>1 DEF AgentIdle
  <2>3. <<"resume">> \in Seq(Messages) /\ Free(<<"resume">>, "suspend")
        BY DEF Messages, Free
  <2>4. ~Waiting BY <2>1 DEF Waiting
  <2> QED BY <1>0, <2>1, <2>2, <2>3, <2>4, AdvancedType, PostIInv
<1>4. ASSUME NEW stuck \in BOOLEAN, RunStreamingChild(stuck) PROVE IInv'
  <2>1. agent' = NoAgent /\ ~Waiting BY <1>4 DEF RunStreamingChild, Waiting
  <2>2. CASE agent.failed
    <3>1. Fatal(<<"agent-done">>) BY <1>4, <2>2 DEF RunStreamingChild
    <3> QED BY <2>1, <3>1, FatalIInv
  <2>3. CASE ~agent.failed
    <3>1. /\ Post(<<"agent-done">>) /\ runner' = Advanced(stuck)
          /\ UNCHANGED <<tui, raw>>
          BY <1>4, <2>3 DEF RunStreamingChild
    <3>2. <<"agent-done">> \in Seq(Messages) /\ Free(<<"agent-done">>, "suspend")
          BY DEF Messages, Free
    <3> QED BY <1>0, <2>1, <3>1, <3>2, AdvancedType, PostIInv
  <2> QED BY <2>2, <2>3
<1>5. CASE InteractiveFails
  <2>1. Fatal(<<>>) /\ ~Waiting BY <1>5 DEF InteractiveFails, Waiting
  <2>2. agent' = NoAgent BY <1>0, <1>5 DEF InteractiveFails, AgentIdle
  <2> QED BY <2>1, <2>2, FatalIInv
<1>6. CASE PhaseFails
  <2>1. Fatal(<<>>) /\ ~Waiting BY <1>6 DEF PhaseFails, Waiting
  <2>2. agent' = NoAgent BY <1>0, <1>6 DEF PhaseFails, AgentIdle
  <2> QED BY <2>1, <2>2, FatalIInv
<1>7. CASE Ask
  <2>1. /\ runner.at = "next" /\ Post(<<"log", "confirm">>)
        /\ runner' = [runner EXCEPT !.at = "asking", !.question = "proceed"]
        /\ UNCHANGED <<agent, tui, raw>>
        BY <1>7 DEF Ask
  <2>2. agent' = NoAgent /\ ~Waiting BY <1>0, <2>1 DEF AgentIdle, Waiting
  <2>3. <<"log", "confirm">> \in Seq(Messages) /\ Free(<<"log", "confirm">>, "suspend")
        BY DEF Messages, Free
  <2>4. runner' \in [at : Places, phase : Nat, cycle : Nat, question : Questions]
        /\ runner'.at = "asking"
        BY <1>0, <2>1 DEF Types, Places, Questions
  <2> QED BY <2>1, <2>2, <2>3, <2>4, PostIInv
<1>8. CASE Answered
  <2>1. runner.at = "asking" /\ UNCHANGED <<agent, tui, raw>> BY <1>8 DEF Answered
  <2>2. agent' = NoAgent /\ ~Waiting BY <1>0, <2>1 DEF AgentIdle, Waiting
  <2>3. CASE runner.question = "proceed" /\ reply = "yes"
    <3>1. /\ runner' = [at |-> "next", phase |-> 1, cycle |-> runner.cycle + 1,
                        question |-> "none"]
          /\ UNCHANGED <<mail, ack>>
          BY <1>8, <2>3 DEF Answered
    <3>2. Types' BY <1>0, <2>1, <3>1 DEF Types, Places, Questions
    <3>3. AgentIdle' BY <2>2 DEF AgentIdle
    <3>4. MailInv' BY <2>1, <2>2, <3>1 DEF IInv, MailInv, Waiting, Handed
    <3>5. ModeInv' BY <2>1, <3>1 DEF IInv, ModeInv, DrawsInRawMode
    <3> QED BY <3>2, <3>3, <3>4, <3>5 DEF IInv
  <2>4. CASE ~(runner.question = "proceed" /\ reply = "yes")
    <3> DEFINE words == IF runner.question = "proceed" THEN <<"log">> ELSE <<>>
               last == words \o <<"quit">>
    <3>1. /\ runner' = [runner EXCEPT !.at = "quitting", !.question = "none"]
          /\ Post(last)
          BY <1>8, <2>4 DEF Answered
    <3>2. words \in Seq(Messages) /\ Free(words, "suspend")
      <4>1. CASE runner.question = "proceed" BY <4>1 DEF Messages, Free
      <4>2. CASE runner.question # "proceed" BY <4>2 DEF Free
      <4> QED BY <4>1, <4>2
    <3>5. <<"quit">> \in Seq(Messages) /\ Free(<<"quit">>, "suspend")
          BY DEF Messages, Free
    <3> HIDE DEF words
    <3>3. last \in Seq(Messages) /\ Free(last, "suspend") BY <3>2, <3>5, ConcatFree
    <3> HIDE DEF last
    <3>4. runner' \in [at : Places, phase : Nat, cycle : Nat, question : Questions]
          /\ runner'.at = "quitting"
          BY <1>0, <3>1 DEF Types, Places, Questions
    <3> QED BY <2>1, <2>2, <3>1, <3>3, <3>4, PostIInv
  <2> QED BY <2>3, <2>4
<1>9. CASE Exit
  <2> USE <1>9 DEF Exit, IInv
  <2>1. Types' BY DEF Types, Places
  <2>2. AgentIdle' BY DEF AgentIdle, Types
  <2>3. MailInv' BY DEF MailInv
  <2>4. ModeInv' BY DEF ModeInv, DrawsInRawMode, Types
  <2> QED BY <2>1, <2>2, <2>3, <2>4
<1> QED BY <1>1, <1>2, <1>3, <1>4, <1>5, <1>6, <1>7, <1>8, <1>9 DEF RunnerStep

-----------------------------------------------------------------------------
\* Every step of the agent and its readers.
LEMMA AgentIInv == ASSUME IInv, AgentStep PROVE IInv'
<1> DEFINE Agents == [alive : BOOLEAN, pumping : BOOLEAN, draining : BOOLEAN,
                      lines : Nat, warned : BOOLEAN, failed : BOOLEAN]
<1>1. agent \in Agents /\ (runner.at # "headless" => agent = NoAgent)
      BY DEF IInv, Types, AgentIdle
<1>2. ASSUME NEW message \in {"progress", "persist"}, Pump(message) PROVE IInv'
  <2>1. runner.at = "headless" BY <1>1, <1>2 DEF Pump, NoAgent
  <2>2. agent' \in Agents BY <1>1, <1>2 DEF Pump
  <2> QED BY <1>2, <2>1, <2>2, AgentPostIInv DEF Pump
<1>3. ASSUME NEW error \in BOOLEAN, PumpEnds(error) PROVE IInv'
  <2>1. runner.at = "headless" BY <1>1, <1>3 DEF PumpEnds, NoAgent
  <2>2. agent' \in Agents BY <1>1, <1>3 DEF PumpEnds
  <2> QED BY <1>3, <2>1, <2>2, QuietIInv DEF PumpEnds
<1>4. ASSUME NEW ok \in BOOLEAN, ChildExits(ok) PROVE IInv'
  <2>1. runner.at = "headless" BY <1>1, <1>4 DEF ChildExits, NoAgent
  <2>2. agent' \in Agents BY <1>1, <1>4 DEF ChildExits
  <2> QED BY <1>4, <2>1, <2>2, QuietIInv DEF ChildExits
<1>5. CASE DrainWarns
  <2>1. runner.at = "headless" BY <1>1, <1>5 DEF DrainWarns, NoAgent
  <2>2. agent' \in Agents BY <1>1, <1>5 DEF DrainWarns
  <2> QED BY <1>5, <2>1, <2>2, AgentPostIInv DEF DrainWarns
<1>6. CASE DrainEnds
  <2>1. runner.at = "headless" BY <1>1, <1>6 DEF DrainEnds, NoAgent
  <2>2. agent' \in Agents BY <1>1, <1>6 DEF DrainEnds
  <2> QED BY <1>6, <2>1, <2>2, QuietIInv DEF DrainEnds
<1> QED BY <1>2, <1>3, <1>4, <1>5, <1>6 DEF AgentStep

-----------------------------------------------------------------------------
\* What the receipt of a message does to the mailbox: a Suspend is its last
\* message, any other leaves the Suspend the last.
LEMMA Received ==
  ASSUME IInv, NEW message \in Messages, Receive(message)
  PROVE  /\ tui.at = "up" /\ mail' = Tail(mail) /\ mail' \in Seq(Messages)
         /\ UNCHANGED <<runner, agent>>
         /\ message = "suspend" => Waiting /\ mail' = <<>>
         /\ message # "suspend" /\ Waiting => SuspendIsLast'
         /\ ~Waiting => Free(mail', "suspend")
         /\ Handed => message # "resume" /\ tui.suspended /\ Free(mail', "resume")
<1>1. /\ tui.at = "up" /\ mail # <<>> /\ message = Head(mail)
      /\ mail' = Tail(mail) /\ UNCHANGED <<runner, agent>>
      BY DEF Receive
<1>2. mail \in Seq(Messages) /\ mail' \in Seq(Messages) BY <1>1 DEF IInv, Types
<1>3. /\ Len(mail') = Len(mail) - 1
      /\ \A i \in 1..Len(mail) - 1 : mail'[i] = mail[i + 1]
      /\ message = mail[1] /\ 1 \in DOMAIN mail
      BY <1>1, <1>2
<1>4. /\ Waiting => SuspendIsLast
      /\ ~Waiting => Free(mail, "suspend")
      /\ Handed => tui.suspended /\ Free(mail, "resume")
      BY <1>1 DEF IInv, MailInv
<1>5. message = "suspend" => Waiting /\ mail' = <<>>
  <2> SUFFICES ASSUME message = "suspend" PROVE Waiting /\ mail' = <<>>
      OBVIOUS
  <2>1. Waiting BY <1>3, <1>4 DEF Free
  <2>2. ~(1 \in 1..Len(mail) - 1) BY <1>3, <1>4, <2>1 DEF SuspendIsLast
  <2>3. Len(mail) \in Nat /\ Len(mail) # 0 BY <1>1, <1>2
  <2> QED BY <1>2, <1>3, <2>1, <2>2, <2>3
<1>6. message # "suspend" /\ Waiting => SuspendIsLast'
  <2> SUFFICES ASSUME message # "suspend", Waiting PROVE SuspendIsLast'
      OBVIOUS
  <2>1. mail[Len(mail)] = "suspend" /\ (\A i \in 1..Len(mail) - 1 : mail[i] # "suspend")
        BY <1>4 DEF SuspendIsLast
  <2>2. Len(mail) \in Nat /\ Len(mail) > 1 BY <1>1, <1>2, <1>3, <2>1
  <2>3. Len(mail') > 0 /\ mail'[Len(mail')] = "suspend" BY <1>3, <2>1, <2>2
  <2>4. \A i \in 1..Len(mail') - 1 : mail'[i] # "suspend" BY <1>3, <2>1, <2>2
  <2> QED BY <1>2, <2>3, <2>4 DEF SuspendIsLast
<1>7. ~Waiting => Free(mail', "suspend") BY <1>2, <1>3, <1>4 DEF Free
<1>8. Handed => message # "resume" /\ tui.suspended /\ Free(mail', "resume")
      BY <1>2, <1>3, <1>4 DEF Free
<1> QED BY <1>1, <1>2, <1>5, <1>6, <1>7, <1>8

\* The TUI takes a message.
LEMMA ReceiveIInv == ASSUME IInv, ReceiveStep PROVE IInv'
<1> DEFINE Tuis == [at : {"up", "quit", "failed"}, suspended : BOOLEAN,
                    group : {"none", "idle", "busy"}, prompt : BOOLEAN]
<1>0. tui \in Tuis /\ raw \in BOOLEAN /\ ack \in BOOLEAN /\ Types /\ AgentIdle /\ ModeInv
      BY DEF IInv, Types
<1>1. CASE ReceiveQuit
  <2>1. /\ Receive("quit") /\ raw' = FALSE /\ ack' = ack
        /\ tui' = [tui EXCEPT !.at = "quit", !.prompt = FALSE]
        BY <1>1 DEF ReceiveQuit
  <2>2. "quit" \in Messages BY DEF Messages
  <2>3. mail' \in Seq(Messages) /\ UNCHANGED <<runner, agent>> BY <2>1, <2>2, Received
  <2>4. tui' \in Tuis /\ tui'.at = "quit" BY <1>0, <2>1
  <2>5. Types' BY <1>0, <2>1, <2>3, <2>4 DEF Types
  <2>6. AgentIdle' BY <1>0, <2>3 DEF AgentIdle
  <2>7. MailInv' BY <2>4 DEF MailInv
  <2>8. ModeInv' BY <2>1, <2>4 DEF ModeInv, DrawsInRawMode
  <2> QED BY <2>5, <2>6, <2>7, <2>8 DEF IInv
<1>2. CASE ReceiveSuspend
  <2>1. /\ Receive("suspend") /\ raw' = FALSE /\ ack' = TRUE
        /\ tui' = [tui EXCEPT !.suspended = TRUE]
        BY <1>2 DEF ReceiveSuspend
  <2>2. "suspend" \in Messages BY DEF Messages
  <2>3. /\ tui.at = "up" /\ mail' = <<>> /\ mail' \in Seq(Messages)
        /\ UNCHANGED <<runner, agent>>
        BY <2>1, <2>2, Received
  <2>4. tui' \in Tuis /\ tui'.at = "up" /\ tui'.suspended BY <1>0, <2>1, <2>3
  <2>5. Types' BY <1>0, <2>1, <2>3, <2>4 DEF Types
  <2>6. AgentIdle' BY <1>0, <2>3 DEF AgentIdle
  <2>7. MailInv' BY <2>1, <2>3, <2>4 DEF MailInv, Waiting, Free
  <2>8. ModeInv' BY <1>0, <2>1, <2>3, <2>4 DEF ModeInv, DrawsInRawMode
  <2> QED BY <2>5, <2>6, <2>7, <2>8 DEF IInv
<1>3. CASE ReceiveResume
  <2>1. /\ Receive("resume") /\ raw' = TRUE /\ ack' = ack
        /\ tui' = [tui EXCEPT !.suspended = FALSE]
        BY <1>3 DEF ReceiveResume
  <2>2. "resume" \in Messages BY DEF Messages
  <2>3. /\ tui.at = "up" /\ mail' \in Seq(Messages) /\ UNCHANGED <<runner, agent>>
        /\ ~Handed
        /\ Waiting => SuspendIsLast'
        /\ ~Waiting => Free(mail', "suspend")
        BY <2>1, <2>2, Received
  <2>4. tui' \in Tuis /\ tui'.at = "up" /\ ~tui'.suspended BY <1>0, <2>1, <2>3
  <2>5. Types' BY <1>0, <2>1, <2>3, <2>4 DEF Types
  <2>6. AgentIdle' BY <1>0, <2>3 DEF AgentIdle
  <2>7. MailInv' BY <2>1, <2>3 DEF MailInv, Waiting, Handed
  <2>8. ModeInv' BY <1>0, <2>1, <2>3, <2>4 DEF ModeInv, DrawsInRawMode
  <2> QED BY <2>5, <2>6, <2>7, <2>8 DEF IInv
\* A message that changes neither the mode nor the suspension.
<1>4. ASSUME NEW message \in Messages, Receive(message), raw' = raw,
             ack' = (ack \/ message = "suspend"), tui' \in Tuis,
             tui'.at = tui.at, tui'.suspended = tui.suspended,
             message = "suspend" => tui.suspended
      PROVE  IInv'
  <2>1. /\ tui.at = "up" /\ mail' \in Seq(Messages) /\ UNCHANGED <<runner, agent>>
        /\ message = "suspend" => Waiting /\ mail' = <<>>
        /\ message # "suspend" /\ Waiting => SuspendIsLast'
        /\ ~Waiting => Free(mail', "suspend")
        /\ Handed => tui.suspended /\ Free(mail', "resume")
        BY <1>4, Received
  <2>2. Types' BY <1>0, <1>4, <2>1 DEF Types
  <2>3. AgentIdle' BY <1>0, <2>1 DEF AgentIdle
  <2>4. MailInv'
    <3>1. CASE message = "suspend"
      <4>1. mail' = <<>> /\ ack' /\ tui'.suspended BY <1>4, <2>1, <3>1
      <4> QED BY <4>1 DEF MailInv, Waiting, Free
    <3>2. CASE message # "suspend"
      <4>1. ack' = ack BY <1>0, <1>4, <3>2
      <4> QED BY <1>4, <2>1, <3>2, <4>1 DEF MailInv, Waiting, Handed
    <3> QED BY <3>1, <3>2
  <2>5. ModeInv' BY <1>0, <1>4, <2>1 DEF ModeInv, DrawsInRawMode
  <2> QED BY <2>2, <2>3, <2>4, <2>5 DEF IInv
<1>5. CASE ReceiveLine
  <2>1. PICK message \in Lines : Receive(message) BY <1>5 DEF ReceiveLine
  <2>2. message \in Messages /\ message # "suspend" BY DEF Lines, Messages
  <2>3. raw' = raw /\ ack' = ack /\ tui' = Cleared BY <1>5 DEF ReceiveLine
  <2>4. Cleared \in Tuis /\ Cleared.at = tui.at /\ Cleared.suspended = tui.suspended
        BY <1>0 DEF Cleared
  <2>5. ack' = (ack \/ message = "suspend") BY <1>0, <2>2, <2>3
  <2> QED BY <1>4, <2>1, <2>2, <2>3, <2>4, <2>5
<1>6. CASE ReceiveOther
  <2>1. raw' = raw BY <1>6 DEF ReceiveOther
  <2>2. PICK message \in Messages \ {"quit", "resume"} :
          /\ message \in Lines \cup {"suspend"} => tui.suspended
          /\ Receive(message)
          /\ tui' = Handled(message)
          /\ ack' = (ack \/ message = "suspend")
        BY <1>6 DEF ReceiveOther
  <2>3. /\ Handled(message) \in Tuis /\ Handled(message).at = tui.at
        /\ Handled(message).suspended = tui.suspended
        BY <1>0 DEF Handled
  <2> QED BY <1>4, <2>1, <2>2, <2>3
<1> QED BY <1>1, <1>2, <1>3, <1>5, <1>6 DEF ReceiveStep

-----------------------------------------------------------------------------
\* Steps after which the TUI is as it was, but for the question, or is gone.
LEMMA KeyIInv == ASSUME IInv, NEW answer \in {"yes", "no"}, Key(answer) PROVE IInv'
<1> USE DEF IInv
<1>1. /\ tui' = [tui EXCEPT !.prompt = FALSE]
      /\ UNCHANGED <<runner, agent, mail, raw, ack>>
      BY DEF Key
<1>2. tui'.at = tui.at /\ tui'.suspended = tui.suspended BY <1>1 DEF Types
<1>3. Types' BY <1>1 DEF Types
<1>4. AgentIdle' BY <1>1 DEF AgentIdle
<1>5. MailInv' BY <1>1, <1>2 DEF MailInv, Waiting, Handed, SuspendIsLast
<1>6. ModeInv' BY <1>1, <1>2 DEF ModeInv, DrawsInRawMode
<1> QED BY <1>3, <1>4, <1>5, <1>6

\* The user presses a key to cancel.
LEMMA CancelIInv == ASSUME IInv, Cancel PROVE IInv'
<1> USE DEF IInv
<1>1. /\ runner' = [runner EXCEPT !.at = "gone", !.question = "none"]
      /\ agent' = NoAgent /\ raw' = FALSE /\ mail' = <<>> /\ ack' = ack
      /\ tui' = [tui EXCEPT !.at = "quit", !.prompt = FALSE]
      BY DEF Cancel
<1>2. tui'.at = "quit" BY <1>1 DEF Types
<1>3. agent' \in [alive : BOOLEAN, pumping : BOOLEAN, draining : BOOLEAN,
                  lines : Nat, warned : BOOLEAN, failed : BOOLEAN]
      BY <1>1 DEF NoAgent
<1>4. runner' \in [at : Places, phase : Nat, cycle : Nat, question : Questions]
      BY <1>1 DEF Types, Places, Questions
<1>5. Types'
  <2>1. tui' \in [at : {"up", "quit", "failed"}, suspended : BOOLEAN,
                group : {"none", "idle", "busy"}, prompt : BOOLEAN]
        BY <1>1 DEF Types
  <2>2. mail' \in Seq(Messages) BY <1>1
  <2> QED BY <1>1, <1>3, <1>4, <2>1, <2>2 DEF Types
<1>6. AgentIdle' BY <1>1 DEF AgentIdle
<1>7. MailInv' BY <1>2 DEF MailInv
<1>8. ModeInv' BY <1>1, <1>2 DEF ModeInv, DrawsInRawMode
<1> QED BY <1>5, <1>6, <1>7, <1>8

\* The TUI fails.
LEMMA TuiFailsIInv == ASSUME IInv, TuiFails PROVE IInv'
<1> USE DEF IInv
<1>1. /\ tui.at = "up" /\ mail' = <<>> /\ ack' = TRUE
      /\ tui' = [tui EXCEPT !.at = "failed", !.prompt = FALSE]
      /\ UNCHANGED <<runner, agent, raw>>
      BY DEF TuiFails
<1>2. tui'.at = "failed" BY <1>1 DEF Types
<1>3. Types'
  <2>1. tui' \in [at : {"up", "quit", "failed"}, suspended : BOOLEAN,
                group : {"none", "idle", "busy"}, prompt : BOOLEAN]
        BY <1>1 DEF Types
  <2>2. mail' \in Seq(Messages) BY <1>1
  <2> QED BY <1>1, <2>1, <2>2 DEF Types
<1>4. AgentIdle' BY <1>1 DEF AgentIdle
<1>5. MailInv' BY <1>2 DEF MailInv
<1>6. ModeInv' BY <1>1, <1>2 DEF ModeInv, DrawsInRawMode
<1> QED BY <1>3, <1>4, <1>5, <1>6

\* Every step keeps the invariant.
LEMMA StepIInv == ASSUME IInv, [Next]_vars PROVE IInv'
<1>1. CASE RunnerStep BY <1>1, RunnerIInv
<1>2. CASE AgentStep BY <1>2, AgentIInv
<1>3. CASE ReceiveStep BY <1>3, ReceiveIInv
<1>4. CASE UserAnswers BY <1>4, KeyIInv DEF UserAnswers
<1>5. CASE Cancel BY <1>5, CancelIInv
<1>6. CASE TuiFails BY <1>6, TuiFailsIInv
<1>7. CASE UNCHANGED vars
  <2> USE <1>7 DEF vars, IInv
  <2>1. Types' BY DEF Types
  <2>2. AgentIdle' BY DEF AgentIdle
  <2>3. MailInv' BY DEF MailInv, Waiting, Handed, SuspendIsLast, Free
  <2>4. ModeInv' BY DEF ModeInv, DrawsInRawMode
  <2> QED BY <2>1, <2>2, <2>3, <2>4
<1> QED BY <1>1, <1>2, <1>3, <1>4, <1>5, <1>6, <1>7 DEF Next

\* The invariant holds in every state.
LEMMA Invariant == Spec => []IInv
BY InitIInv, StepIInv, PTL DEF Spec

\* An interactive agent has the terminal to itself: the TUI of
\* src/ui.rs is suspended and out of raw mode for as long as it runs.
THEOREM HandoverIsExclusive == Spec => []TerminalHandedOver
<1>1. IInv => TerminalHandedOver
      BY DEF IInv, Types, MailInv, ModeInv, DrawsInRawMode, Handed, TerminalHandedOver
<1> QED BY <1>1, Invariant, PTL

\* After any number of handovers the TUI draws in raw mode and only then.
THEOREM ModeFollowsSuspension == Spec => []DrawsInRawMode
<1>1. IInv => DrawsInRawMode BY DEF IInv, ModeInv
<1> QED BY <1>1, Invariant, PTL

\* The terminal has one owner, and is in the mode of that owner.
THEOREM TerminalIsShared == Spec => []TerminalShared
<1>1. TerminalHandedOver /\ DrawsInRawMode => TerminalShared BY DEF TerminalShared
<1> QED BY <1>1, HandoverIsExclusive, ModeFollowsSuspension, PTL

\* A run that has not lost its terminal leaves it out of raw mode, whether it
\* ends by itself or is cancelled.
THEOREM TerminalIsRestored == Spec => []TerminalRestored
<1>1. IInv => TerminalRestored BY DEF IInv, Types, ModeInv, TerminalRestored
<1> QED BY <1>1, Invariant, PTL
-----------------------------------------------------------------------------
(* What the screen says.                                                   *)

LinesOf(q) == {i \in DOMAIN q : q[i] \in Lines}

\* The lines of a mailbox can be counted.
LEMMA LinesOfFinite ==
  ASSUME NEW q \in Seq(Messages)
  PROVE  IsFiniteSet(LinesOf(q)) /\ LineCount(q) = Cardinality(LinesOf(q)) /\ LineCount(q) \in Nat
<1>1. Len(q) \in Nat /\ DOMAIN q = 1..Len(q) OBVIOUS
<1>2. IsFiniteSet(1..Len(q)) BY <1>1, FS_Interval
<1>3. LinesOf(q) \subseteq 1..Len(q) BY <1>1 DEF LinesOf
<1>4. IsFiniteSet(LinesOf(q)) BY <1>2, <1>3, FS_Subset
<1>5. LineCount(q) = Cardinality(LinesOf(q)) BY DEF LineCount, LinesOf
<1> QED BY <1>4, <1>5, FS_CardinalityType

\* The lines of two mailboxes, one behind the other.
LEMMA LineCountConcat ==
  ASSUME NEW q \in Seq(Messages), NEW r \in Seq(Messages)
  PROVE  q \o r \in Seq(Messages) /\ LineCount(q \o r) = LineCount(q) + LineCount(r)
<1> DEFINE n == Len(q)
           all == LinesOf(q \o r)
           shifted == {i \in all : i > n}
           f == [j \in LinesOf(r) |-> n + j]
<1>1. /\ q \o r \in Seq(Messages) /\ n \in Nat /\ Len(r) \in Nat /\ Len(q \o r) = n + Len(r)
      /\ DOMAIN q = 1..n /\ DOMAIN r = 1..Len(r) /\ DOMAIN (q \o r) = 1..n + Len(r)
      OBVIOUS
<1>2. \A i \in 1..n : (q \o r)[i] = q[i] OBVIOUS
<1>3. \A j \in 1..Len(r) : (q \o r)[n + j] = r[j] OBVIOUS
<1>4. LinesOf(q) = {i \in all : i <= n} BY <1>1, <1>2 DEF LinesOf
<1>5. \A j \in LinesOf(r) : n + j \in shifted
  <2> SUFFICES ASSUME NEW j \in LinesOf(r) PROVE n + j \in shifted
      OBVIOUS
  <2>1. j \in 1..Len(r) /\ r[j] \in Lines BY <1>1 DEF LinesOf
  <2>2. n + j \in 1..n + Len(r) /\ n + j > n BY <1>1, <2>1
  <2>3. (q \o r)[n + j] \in Lines BY <1>3, <2>1
  <2> QED BY <1>1, <2>2, <2>3 DEF LinesOf
<1>6. \A i \in shifted : i - n \in LinesOf(r) /\ n + (i - n) = i
  <2> SUFFICES ASSUME NEW i \in shifted PROVE i - n \in LinesOf(r) /\ n + (i - n) = i
      OBVIOUS
  <2>1. i \in 1..n + Len(r) /\ i > n /\ (q \o r)[i] \in Lines BY <1>1 DEF LinesOf
  <2>2. i - n \in 1..Len(r) /\ n + (i - n) = i BY <1>1, <2>1
  <2>3. r[i - n] \in Lines BY <1>3, <2>1, <2>2
  <2> QED BY <1>1, <2>2, <2>3 DEF LinesOf
<1>7. \A j \in LinesOf(r) : j \in Nat BY <1>1 DEF LinesOf
<1>8. f \in Bijection(LinesOf(r), shifted)
  <2>1. f \in [LinesOf(r) -> shifted] BY <1>5
  <2>2. \A a, b \in LinesOf(r) : f[a] = f[b] => a = b BY <1>1, <1>7
  <2>3. \A i \in shifted : \E j \in LinesOf(r) : f[j] = i BY <1>6
  <2> HIDE DEF f, shifted
  <2> QED BY <2>1, <2>2, <2>3 DEF Bijection, Injection, Surjection, IsInjective
<1>9. IsFiniteSet(LinesOf(q)) /\ IsFiniteSet(LinesOf(r)) /\ IsFiniteSet(all) BY <1>1, LinesOfFinite
<1>10. IsFiniteSet(shifted) /\ Cardinality(shifted) = Cardinality(LinesOf(r))
  <2> HIDE DEF f, shifted
  <2> QED BY <1>8, <1>9, FS_Bijection DEF ExistsBijection
<1>11. all = LinesOf(q) \cup shifted /\ LinesOf(q) \cap shifted = {}
  <2>1. \A i \in all : i \in Nat BY <1>1 DEF LinesOf
  <2> QED BY <1>1, <1>4, <2>1
<1>12. Cardinality(all) = Cardinality(LinesOf(q)) + Cardinality(shifted)
  <2>1. Cardinality(LinesOf(q) \cup shifted) = Cardinality(LinesOf(q)) + Cardinality(shifted)
                                                - Cardinality(LinesOf(q) \cap shifted)
    <3> HIDE DEF shifted
    <3> QED BY <1>9, <1>10, FS_Union
  <2>2. Cardinality(LinesOf(q) \cap shifted) = 0 BY <1>11, FS_EmptySet
  <2>3. Cardinality(LinesOf(q)) \in Nat /\ Cardinality(shifted) \in Nat
    <3> HIDE DEF shifted
    <3> QED BY <1>9, <1>10, FS_CardinalityType
  <2> HIDE DEF shifted, all
  <2> QED BY <1>11, <2>1, <2>2, <2>3
<1> QED BY <1>1, <1>10, <1>12, LinesOfFinite

\* The lines of a mailbox whose first message is received.
LEMMA LineCountTail ==
  ASSUME NEW q \in Seq(Messages), q # <<>>
  PROVE  LineCount(q) = LineCount(Tail(q)) + (IF Head(q) \in Lines THEN 1 ELSE 0)
<1>1. Head(q) \in Messages /\ Tail(q) \in Seq(Messages) /\ <<Head(q)>> \in Seq(Messages) OBVIOUS
<1>2. q = <<Head(q)>> \o Tail(q) OBVIOUS
<1>3. LineCount(q) = LineCount(<<Head(q)>>) + LineCount(Tail(q))
  <2>1. LineCount(<<Head(q)>> \o Tail(q)) = LineCount(<<Head(q)>>) + LineCount(Tail(q))
    BY <1>1, LineCountConcat
  <2> QED BY <1>2, <2>1
<1>4. LineCount(<<Head(q)>>) = IF Head(q) \in Lines THEN 1 ELSE 0
  <2>1. LinesOf(<<Head(q)>>) = IF Head(q) \in Lines THEN {1} ELSE {} BY DEF LinesOf
  <2>2. LineCount(<<Head(q)>>) = Cardinality(LinesOf(<<Head(q)>>)) BY <1>1, LinesOfFinite
  <2> QED BY <2>1, <2>2, FS_EmptySet, FS_Singleton
<1>5. LineCount(Tail(q)) \in Nat BY <1>1, LinesOfFinite
<1> HIDE DEF LineCount
<1> QED BY <1>3, <1>4, <1>5

\* An empty mailbox holds none.
LEMMA NoLines == LineCount(<<>>) = 0
<1>1. LinesOf(<<>>) = {} BY DEF LinesOf
<1> QED BY <1>1, FS_EmptySet DEF LineCount, LinesOf

\* The confirmation is the last message and the only one of its kind.
ConfirmIsLast ==
  /\ mail # <<>>
  /\ mail[Len(mail)] = "confirm"
  /\ \A i \in 1..Len(mail) - 1 : mail[i] # "confirm"

\* While the TUI is suspended nothing is dropped: an agent has the terminal and
\* nobody sends, or the Resume is the next message.  Or no Resume comes any
\* more, after an interactive agent that failed.
Resuming == mail # <<>> /\ mail[1] = "resume"
Stranded == runner.at = "asking" /\ reply = "none" /\ Free(mail, "resume")

Counted ==
  \/ /\ sent = painted + LineCount(mail)
     /\ tui.suspended => (Handed /\ mail = <<>>) \/ Resuming
  \/ tui.suspended /\ Stranded

\* A question is on its way behind everything that leads up to it, or shown, or
\* answered; otherwise there is none.
Asked ==
  IF runner.at = "asking"
  THEN \/ ~tui.prompt /\ reply = "none" /\ ConfirmIsLast
       \/ mail = <<>> /\ (tui.prompt <=> reply = "none")
  ELSE ~tui.prompt /\ Free(mail, "confirm")

\* Whatever a headless agent that is gone has put on the screen, or sent, is
\* followed by the message that clears it.
Followed ==
  runner.at # "headless" =>
    /\ tui.group = "busy" => \E j \in DOMAIN mail : mail[j] = "agent-done"
    /\ \A i \in DOMAIN mail : mail[i] = "progress" =>
         \E j \in DOMAIN mail : j > i /\ mail[j] = "agent-done"

ScreenTypes == reply \in Answers /\ sent \in Nat /\ painted \in Nat

ScreenInv ==
  /\ ScreenTypes
  /\ tui.at # "up" => ~tui.prompt
  /\ tui.at = "up" => Counted /\ Asked /\ Followed

\* Posting keeps the counters numbers.
LEMMA PostTypes ==
  ASSUME ScreenTypes, NEW messages \in Seq(Messages), Post(messages), painted' = painted
  PROVE  ScreenTypes'
<1>1. LineCount(messages) \in Nat BY LinesOfFinite
<1>2. sent' = sent + LineCount(messages) BY DEF Post
<1>3. reply' \in {reply, "none", "no"} BY DEF Post
<1> QED BY <1>1, <1>2, <1>3 DEF ScreenTypes, Answers

\* With the TUI gone there is nothing on the screen to answer for.
LEMMA Gone ==
  ASSUME ScreenInv, tui' = tui, tui.at # "up", ScreenTypes'
  PROVE  ScreenInv'
BY DEF ScreenInv

\* What is posted is counted where it is put.
LEMMA PostUp ==
  ASSUME IInv, ScreenInv, NEW messages \in Seq(Messages), Post(messages), tui.at = "up",
         painted' = painted
  PROVE  /\ mail \in Seq(Messages) /\ mail' = mail \o messages /\ mail' \in Seq(Messages)
         /\ DOMAIN mail = 1..Len(mail) /\ DOMAIN messages = 1..Len(messages)
         /\ DOMAIN mail' = 1..Len(mail) + Len(messages)
         /\ Len(mail) \in Nat /\ Len(messages) \in Nat
         /\ \A i \in 1..Len(mail) : mail'[i] = mail[i]
         /\ \A i \in 1..Len(messages) : mail'[Len(mail) + i] = messages[i]
         /\ sent = painted + LineCount(mail) => sent' = painted' + LineCount(mail')
         /\ Resuming => Resuming'
<1>1. mail \in Seq(Messages) BY DEF IInv, Types
<1>2. mail' = mail \o messages /\ sent' = sent + LineCount(messages) BY DEF Post
<1>3. mail' \in Seq(Messages) /\ LineCount(mail') = LineCount(mail) + LineCount(messages)
  BY <1>1, <1>2, LineCountConcat
<1>4. LineCount(mail) \in Nat /\ LineCount(messages) \in Nat BY <1>1, LinesOfFinite
<1>5. sent \in Nat /\ painted \in Nat BY DEF ScreenInv, ScreenTypes
<1>6. sent = painted + LineCount(mail) => sent' = painted' + LineCount(mail')
  BY <1>2, <1>3, <1>4, <1>5
<1>7. /\ DOMAIN mail = 1..Len(mail) /\ DOMAIN messages = 1..Len(messages)
      /\ DOMAIN mail' = 1..Len(mail) + Len(messages)
      /\ Len(mail) \in Nat /\ Len(messages) \in Nat
      /\ \A i \in 1..Len(mail) : mail'[i] = mail[i]
      /\ \A i \in 1..Len(messages) : mail'[Len(mail) + i] = messages[i]
  BY <1>1, <1>2
<1>8. Resuming => Resuming'
  <2> SUFFICES ASSUME Resuming PROVE Resuming'
      OBVIOUS
  <2>1. mail # <<>> /\ mail[1] = "resume" BY DEF Resuming
  <2>2. 1 \in 1..Len(mail) BY <1>1, <2>1
  <2>3. mail'[1] = "resume" /\ mail' # <<>> BY <1>7, <2>1, <2>2
  <2> QED BY <2>3 DEF Resuming
<1> QED BY <1>1, <1>2, <1>3, <1>6, <1>7, <1>8

\* What is posted outside a hand-over is counted in the mailbox.
LEMMA PostCounted ==
  ASSUME IInv, ScreenInv, NEW messages \in Seq(Messages), Post(messages), tui.at = "up",
         UNCHANGED <<tui, painted>>, ~Handed, ~Stranded
  PROVE  Counted'
<1>1. sent = painted + LineCount(mail) /\ (tui.suspended => Resuming)
  BY DEF ScreenInv, Counted
<1>2. sent' = painted' + LineCount(mail') /\ (Resuming => Resuming') BY <1>1, PostUp
<1> QED BY <1>1, <1>2 DEF Counted

\* No question among what is posted, and none before.
LEMMA PostUnasked ==
  ASSUME IInv, ScreenInv, NEW messages \in Seq(Messages), Post(messages), tui.at = "up",
         UNCHANGED <<tui, painted>>, ~tui.prompt, Free(mail, "confirm"), Free(messages, "confirm"),
         runner'.at # "asking"
  PROVE  Asked'
<1>1. Free(mail', "confirm")
  <2>1. mail' = mail \o messages /\ mail \in Seq(Messages) BY PostUp
  <2> QED BY <2>1, ConcatFree
<1> QED BY <1>1 DEF Asked

\* The question is the last of what is posted, and there was none before.
LEMMA PostAsked ==
  ASSUME IInv, ScreenInv, NEW words \in Seq(Messages), Free(words, "confirm"),
         Post(words \o <<"confirm">>), tui.at = "up", UNCHANGED <<tui, painted>>,
         ~tui.prompt, Free(mail, "confirm"), runner'.at = "asking"
  PROVE  reply' = "none" /\ Asked'
<1> DEFINE messages == words \o <<"confirm">>
           n == Len(mail) + Len(words)
<1>1. <<"confirm">> \in Seq(Messages) /\ "confirm" \in Messages BY DEF Messages
<1>2. /\ messages \in Seq(Messages) /\ Len(messages) = Len(words) + 1 /\ Len(words) \in Nat
      /\ messages[Len(words) + 1] = "confirm"
      /\ \A i \in 1..Len(words) : messages[i] = words[i]
  BY <1>1
<1> HIDE DEF messages
<1>3. Post(messages) BY DEF messages
<1>4. Contains(messages, "confirm")
  <2>1. Len(words) + 1 \in 1..Len(messages) BY <1>2
  <2> QED BY <1>2, <2>1 DEF Contains
<1>5. reply' = "none" BY <1>3, <1>4 DEF Post
<1>6. /\ mail' = mail \o messages /\ mail' \in Seq(Messages) /\ Len(mail) \in Nat
      /\ DOMAIN mail' = 1..Len(mail) + Len(messages)
      /\ mail \in Seq(Messages)
      /\ \A i \in 1..Len(mail) : mail'[i] = mail[i]
      /\ \A i \in 1..Len(messages) : mail'[Len(mail) + i] = messages[i]
  BY <1>2, <1>3, PostUp
<1>7. Len(mail') = n + 1 /\ n \in Nat BY <1>2, <1>6
<1>8. mail'[n + 1] = "confirm"
  <2>1. Len(words) + 1 \in 1..Len(messages) BY <1>2
  <2>2. mail'[Len(mail) + (Len(words) + 1)] = "confirm" BY <1>2, <1>6, <2>1
  <2> QED BY <1>2, <1>6, <2>2
<1>9. \A i \in 1..n : mail'[i] # "confirm"
  <2> SUFFICES ASSUME NEW i \in 1..n PROVE mail'[i] # "confirm"
      OBVIOUS
  <2>1. CASE i <= Len(mail)
    <3>1. i \in 1..Len(mail) /\ i \in DOMAIN mail BY <1>6, <2>1
    <3>2. mail[i] # "confirm" BY <3>1 DEF Free
    <3> QED BY <1>6, <3>1, <3>2
  <2>2. CASE i > Len(mail)
    <3> DEFINE j == i - Len(mail)
    <3>1. j \in 1..Len(words) /\ j \in 1..Len(messages) /\ Len(mail) + j = i BY <1>2, <1>6, <1>7, <2>2
    <3> HIDE DEF j
    <3>2. words[j] # "confirm"
      <4>1. j \in DOMAIN words BY <3>1
      <4> QED BY <4>1 DEF Free
    <3>3. mail'[Len(mail) + j] = messages[j] /\ messages[j] = words[j] BY <1>2, <1>6, <3>1
    <3> QED BY <3>1, <3>2, <3>3
  <2> QED BY <1>6, <1>7, <2>1, <2>2
<1>10. ConfirmIsLast'
  <2>1. mail' # <<>> BY <1>6, <1>7
  <2>2. mail'[Len(mail')] = "confirm" BY <1>7, <1>8
  <2>3. Len(mail') - 1 = n BY <1>7
  <2> QED BY <1>9, <2>1, <2>2, <2>3 DEF ConfirmIsLast
<1> QED BY <1>5, <1>10 DEF Asked

\* Nothing is posted that would have to be cleared, or what clears it is.
LEMMA PostFollowed ==
  ASSUME IInv, ScreenInv, NEW messages \in Seq(Messages), Post(messages), tui.at = "up",
         UNCHANGED <<tui, painted>>, Free(messages, "progress"),
         runner.at # "headless" \/ (messages # <<>> /\ messages[1] = "agent-done")
  PROVE  Followed'
<1>1. /\ mail' = mail \o messages /\ Len(mail) \in Nat /\ Len(messages) \in Nat
      /\ DOMAIN mail = 1..Len(mail) /\ DOMAIN messages = 1..Len(messages)
      /\ DOMAIN mail' = 1..Len(mail) + Len(messages)
      /\ \A i \in 1..Len(mail) : mail'[i] = mail[i]
      /\ \A i \in 1..Len(messages) : mail'[Len(mail) + i] = messages[i]
  BY PostUp
<1>2. \A i \in DOMAIN mail' : mail'[i] = "progress" => i \in DOMAIN mail /\ mail[i] = "progress"
  <2> SUFFICES ASSUME NEW i \in DOMAIN mail', mail'[i] = "progress"
               PROVE  i \in DOMAIN mail /\ mail[i] = "progress"
      OBVIOUS
  <2>1. CASE i <= Len(mail) BY <1>1, <2>1
  <2>2. CASE i > Len(mail)
    <3> DEFINE j == i - Len(mail)
    <3>1. j \in 1..Len(messages) /\ Len(mail) + j = i BY <1>1, <2>2
    <3> HIDE DEF j
    <3>2. messages[j] = "progress" BY <1>1, <3>1
    <3> QED BY <1>1, <3>1, <3>2 DEF Free
  <2> QED BY <1>1, <2>1, <2>2
<1>3. CASE messages # <<>> /\ messages[1] = "agent-done"
  <2>1. 1 \in 1..Len(messages) BY <1>3
  <2>2. mail'[Len(mail) + 1] = "agent-done" /\ Len(mail) + 1 \in DOMAIN mail' BY <1>1, <1>3, <2>1
  <2>3. \A i \in DOMAIN mail : Len(mail) + 1 > i BY <1>1
  <2> QED BY <1>2, <2>2, <2>3 DEF Followed
<1>4. CASE runner.at # "headless"
  <2>1. /\ tui.group = "busy" => \E j \in DOMAIN mail : mail[j] = "agent-done"
        /\ \A i \in DOMAIN mail : mail[i] = "progress" =>
             \E j \in DOMAIN mail : j > i /\ mail[j] = "agent-done"
    BY <1>4 DEF ScreenInv, Followed
  <2>2. \A j \in DOMAIN mail : j \in DOMAIN mail' /\ mail'[j] = mail[j] BY <1>1
  <2>3. tui'.group = "busy" => \E j \in DOMAIN mail' : mail'[j] = "agent-done" BY <2>1, <2>2
  <2>4. \A i \in DOMAIN mail' : mail'[i] = "progress" =>
             \E j \in DOMAIN mail' : j > i /\ mail'[j] = "agent-done"
    BY <1>2, <2>1, <2>2
  <2> QED BY <2>3, <2>4 DEF Followed
<1> QED BY <1>3, <1>4

\* A step that posts, once its effect on the screen is known.
LEMMA PostScreen ==
  ASSUME ScreenInv, NEW messages \in Seq(Messages), Post(messages), UNCHANGED <<tui, painted>>,
         tui.at = "up" => Counted' /\ Asked' /\ Followed'
  PROVE  ScreenInv'
<1>1. ScreenTypes' BY PostTypes DEF ScreenInv
<1> QED BY <1>1 DEF ScreenInv

\* The words the runner posts, and what they are free of.
LEMMA Words ==
  /\ <<"log", "register", "suspend">> \in Seq(Messages)
  /\ <<"log", "register">> \in Seq(Messages)
  /\ <<"log">> \in Seq(Messages) /\ <<"resume">> \in Seq(Messages)
  /\ <<"agent-done">> \in Seq(Messages) /\ <<"agent-done", "log">> \in Seq(Messages)
  /\ \A m \in {"confirm", "progress", "resume"} :
       /\ Free(<<"log", "register", "suspend">>, m)
       /\ Free(<<"log", "register">>, m) /\ Free(<<"log">>, m)
       /\ Free(<<"agent-done">>, m) /\ Free(<<"agent-done", "log">>, m)
BY DEF Messages, Free

\* A failing runner says so last.
LEMMA FatalScreen ==
  ASSUME IInv, ScreenInv, NEW messages \in {<<>>, <<"agent-done">>}, Fatal(messages),
         runner.at \notin {"asking", "suspending"},
         runner.at = "headless" => messages = <<"agent-done">>
  PROVE  ScreenInv'
<1> DEFINE words == messages \o <<"log">>
           all == messages \o <<"log", "confirm">>
<1>1. /\ words \in Seq(Messages) /\ all = words \o <<"confirm">> /\ all \in Seq(Messages)
      /\ Free(words, "confirm") /\ Free(all, "progress") /\ Free(all, "resume")
      /\ messages = <<"agent-done">> => all # <<>> /\ all[1] = "agent-done"
  <2>1. CASE messages = <<>> BY <2>1 DEF Messages, Free
  <2>2. CASE messages = <<"agent-done">> BY <2>2 DEF Messages, Free
  <2> QED BY <2>1, <2>2
<1>2. Post(all) /\ UNCHANGED <<tui, painted>> BY DEF Fatal
<1>3. runner'.at = "asking" BY DEF Fatal, IInv, Types
<1> HIDE DEF words, all
<1>4. ASSUME tui.at = "up" PROVE Counted' /\ Asked' /\ Followed'
  <2>1. ~tui.prompt /\ Free(mail, "confirm") BY <1>4 DEF ScreenInv, Asked
  <2>2. reply' = "none" /\ Asked' BY <1>1, <1>2, <1>3, <1>4, <2>1, PostAsked
  <2>3. Followed' BY <1>1, <1>2, <1>4, PostFollowed
  <2>4. Counted'
    <3>1. CASE ~Handed
      <4>1. ~Stranded BY DEF Stranded
      <4> QED BY <1>1, <1>2, <1>4, <3>1, <4>1, PostCounted
    <3>2. CASE Handed
      <4>1. tui.suspended /\ Free(mail, "resume") BY <1>4, <3>2 DEF IInv, MailInv
      <4>2. mail' = mail \o all /\ mail \in Seq(Messages) BY <1>1, <1>2, <1>4, PostUp
      <4>3. Free(mail', "resume") BY <1>1, <4>1, <4>2, ConcatFree
      <4> QED BY <1>2, <1>3, <2>2, <4>1, <4>3 DEF Counted, Stranded
    <3> QED BY <3>1, <3>2
  <2> QED BY <2>2, <2>3, <2>4
<1> QED BY <1>1, <1>2, <1>4, PostScreen

\* A phase that begins says so.
LEMMA BeginPhaseScreen == ASSUME IInv, ScreenInv, BeginPhase PROVE ScreenInv'
<1>1. runner.at = "next" /\ UNCHANGED <<tui, painted>> BY DEF BeginPhase
<1>2. ~Handed /\ ~Stranded BY <1>1 DEF Handed, Stranded
<1>3. tui.at = "up" => ~tui.prompt /\ Free(mail, "confirm") BY <1>1 DEF ScreenInv, Asked
<1>4. CASE Phase \in Interactive
  <2>1. Post(<<"log", "register", "suspend">>) /\ runner' = [runner EXCEPT !.at = "suspending"]
    BY <1>4 DEF BeginPhase
  <2>2. runner'.at = "suspending" BY <2>1 DEF IInv, Types
  <2>3. ASSUME tui.at = "up" PROVE Counted' /\ Asked' /\ Followed'
    <3>1. Counted' BY <1>1, <1>2, <2>1, <2>3, Words, PostCounted
    <3>2. Asked' BY <1>1, <1>3, <2>1, <2>2, <2>3, Words, PostUnasked
    <3>3. Followed' BY <1>1, <2>1, <2>3, Words, PostFollowed
    <3> QED BY <3>1, <3>2, <3>3
  <2> QED BY <1>1, <2>1, <2>3, Words, PostScreen
<1>5. CASE Phase \notin Interactive
  <2>1. Post(<<"log", "register">>) /\ runner' = [runner EXCEPT !.at = "headless"]
    BY <1>5 DEF BeginPhase
  <2>2. runner'.at = "headless" BY <2>1 DEF IInv, Types
  <2>3. ASSUME tui.at = "up" PROVE Counted' /\ Asked' /\ Followed'
    <3>1. Counted' BY <1>1, <1>2, <2>1, <2>3, Words, PostCounted
    <3>2. Asked' BY <1>1, <1>3, <2>1, <2>2, <2>3, Words, PostUnasked
    <3>3. Followed' BY <2>2 DEF Followed
    <3> QED BY <3>1, <3>2, <3>3
  <2> QED BY <1>1, <2>1, <2>3, Words, PostScreen
<1> QED BY <1>4, <1>5

\* An interactive agent runs, and ends; the Resume is then the next message.
LEMMA InteractiveScreen ==
  ASSUME IInv, ScreenInv,
         InvokeInteractive \/ \E stuck \in BOOLEAN : InteractiveEnds(stuck)
  PROVE  ScreenInv'
<1>1. CASE InvokeInteractive
  <2>1. /\ runner.at = "suspending" /\ ack /\ runner' = [runner EXCEPT !.at = "interactive"]
        /\ UNCHANGED <<mail, tui, ack, reply, sent, painted>>
    BY <1>1 DEF InvokeInteractive
  <2>2. runner'.at = "interactive" BY <2>1 DEF IInv, Types
  <2>3. ASSUME tui.at = "up" PROVE Counted' /\ Asked' /\ Followed'
    <3>1. Counted' BY <2>1, <2>2, <2>3 DEF ScreenInv, Counted, Stranded, Resuming, Handed, LineCount
    <3>2. Asked' BY <2>1, <2>2, <2>3 DEF ScreenInv, Asked, Free
    <3>3. Followed' BY <2>1, <2>2, <2>3 DEF ScreenInv, Followed
    <3> QED BY <3>1, <3>2, <3>3
  <2> QED BY <2>1, <2>3 DEF ScreenInv, ScreenTypes
<1>2. ASSUME NEW stuck \in BOOLEAN, InteractiveEnds(stuck) PROVE ScreenInv'
  <2>1. /\ runner.at = "interactive" /\ Post(<<"resume">>) /\ runner' = Advanced(stuck)
        /\ UNCHANGED <<tui, painted>>
    BY <1>2 DEF InteractiveEnds
  <2>2. runner'.at = "next" BY <2>1, AdvancedType DEF IInv
  <2>3. Free(<<"resume">>, "confirm") /\ Free(<<"resume">>, "progress") BY DEF Free
  <2>4. ASSUME tui.at = "up" PROVE Counted' /\ Asked' /\ Followed'
    <3>1. ~tui.prompt /\ Free(mail, "confirm") BY <2>1, <2>4 DEF ScreenInv, Asked
    <3>2. Asked' BY <2>1, <2>2, <2>3, <2>4, <3>1, Words, PostUnasked
    <3>3. Followed' BY <2>1, <2>3, <2>4, Words, PostFollowed
    <3>4. Counted'
      <4>1. tui.suspended /\ Free(mail, "resume") BY <2>1, <2>4 DEF IInv, MailInv, Handed
      <4>2. mail \in Seq(Messages) BY DEF IInv, Types
      <4>3. ~Resuming BY <4>1, <4>2 DEF Free, Resuming
      <4>4. mail = <<>> /\ sent = painted + LineCount(mail)
        BY <2>1, <2>4, <4>1, <4>3 DEF ScreenInv, Counted, Stranded
      <4>5. sent' = painted' + LineCount(mail') /\ mail' = mail \o <<"resume">>
        BY <2>1, <2>4, <4>4, Words, PostUp
      <4>6. mail' = <<"resume">> BY <4>4, <4>5
      <4>7. Resuming' BY <4>6 DEF Resuming
      <4> QED BY <4>5, <4>7 DEF Counted
    <3> QED BY <3>2, <3>3, <3>4
  <2> QED BY <2>1, <2>4, Words, PostScreen
<1> QED BY <1>1, <1>2

\* The rest of the runner: the end of a headless agent, a question, its answer
\* and the end of the run.
LEMMA RunnerScreen == ASSUME IInv, ScreenInv, RunnerStep PROVE ScreenInv'
<1>1. CASE BeginPhase BY <1>1, BeginPhaseScreen
<1>2. CASE InvokeInteractive BY <1>2, InteractiveScreen
<1>3. ASSUME NEW stuck \in BOOLEAN, InteractiveEnds(stuck) PROVE ScreenInv' BY <1>3, InteractiveScreen
<1>4. ASSUME NEW stuck \in BOOLEAN, RunStreamingChild(stuck) PROVE ScreenInv'
  <2>1. runner.at = "headless" BY <1>4 DEF RunStreamingChild
  <2>2. CASE agent.failed
    <3>1. Fatal(<<"agent-done">>) BY <1>4, <2>2 DEF RunStreamingChild
    <3> QED BY <2>1, <3>1, FatalScreen
  <2>3. CASE ~agent.failed
    <3>1. Post(<<"agent-done">>) /\ runner' = Advanced(stuck) /\ UNCHANGED <<tui, painted>>
      BY <1>4, <2>3 DEF RunStreamingChild
    <3>2. runner'.at = "next" BY <3>1, AdvancedType DEF IInv
    <3>3. ~Handed /\ ~Stranded BY <2>1 DEF Handed, Stranded
    <3>4. ASSUME tui.at = "up" PROVE Counted' /\ Asked' /\ Followed'
      <4>1. ~tui.prompt /\ Free(mail, "confirm") BY <2>1, <3>4 DEF ScreenInv, Asked
      <4>2. Counted' BY <3>1, <3>3, <3>4, Words, PostCounted
      <4>3. Asked' BY <3>1, <3>2, <3>4, <4>1, Words, PostUnasked
      <4>4. Followed'
        <5>1. <<"agent-done">> # <<>> /\ <<"agent-done">>[1] = "agent-done" OBVIOUS
        <5> QED BY <3>1, <3>4, <5>1, Words, PostFollowed
      <4> QED BY <4>2, <4>3, <4>4
    <3> QED BY <3>1, <3>4, Words, PostScreen
  <2> QED BY <2>2, <2>3
<1>5. CASE InteractiveFails
  <2>1. runner.at = "interactive" /\ Fatal(<<>>) BY <1>5 DEF InteractiveFails
  <2> QED BY <2>1, FatalScreen
<1>6. CASE PhaseFails
  <2>1. runner.at = "next" /\ Fatal(<<>>) BY <1>6 DEF PhaseFails
  <2> QED BY <2>1, FatalScreen
<1>7. CASE Ask
  <2>1. /\ runner.at = "next" /\ Post(<<"log", "confirm">>) /\ UNCHANGED <<tui, painted>>
        /\ runner' = [runner EXCEPT !.at = "asking", !.question = "proceed"]
    BY <1>7 DEF Ask
  <2>2. runner'.at = "asking" BY <2>1 DEF IInv, Types
  <2>3. <<"log", "confirm">> = <<"log">> \o <<"confirm">> /\ <<"log", "confirm">> \in Seq(Messages)
        /\ Free(<<"log", "confirm">>, "progress")
    BY DEF Messages, Free
  <2>4. ~Handed /\ ~Stranded BY <2>1 DEF Handed, Stranded
  <2>5. ASSUME tui.at = "up" PROVE Counted' /\ Asked' /\ Followed'
    <3>1. ~tui.prompt /\ Free(mail, "confirm") BY <2>1, <2>5 DEF ScreenInv, Asked
    <3>2. Counted' BY <2>1, <2>3, <2>4, <2>5, PostCounted
    <3>3. Asked' BY <2>1, <2>2, <2>3, <2>5, <3>1, Words, PostAsked
    <3>4. Followed' BY <2>1, <2>3, <2>5, PostFollowed
    <3> QED BY <3>2, <3>3, <3>4
  <2> QED BY <2>1, <2>3, <2>5, PostScreen
<1>8. CASE Answered
  <2>1. runner.at = "asking" /\ reply # "none" /\ UNCHANGED <<tui, painted>> BY <1>8 DEF Answered
  <2>2. ~Handed /\ ~Stranded BY <2>1 DEF Handed, Stranded
  <2>3. tui.at = "up" => mail = <<>> /\ ~tui.prompt /\ Free(mail, "confirm")
    BY <2>1 DEF ScreenInv, ScreenTypes, Asked, Free
  <2>4. CASE runner.question = "proceed" /\ reply = "yes"
    <3>1. /\ runner' = [at |-> "next", phase |-> 1, cycle |-> runner.cycle + 1, question |-> "none"]
          /\ UNCHANGED <<mail, sent, ack, reply>>
      BY <1>8, <2>4 DEF Answered
    <3>2. ASSUME tui.at = "up" PROVE Counted' /\ Asked' /\ Followed'
      <4>1. Counted' BY <2>1, <2>2, <3>1, <3>2 DEF ScreenInv, Counted, Resuming, LineCount
      <4>2. Asked' BY <2>3, <2>1, <3>1, <3>2 DEF Asked, Free
      <4>3. Followed' BY <2>1, <3>1, <3>2 DEF ScreenInv, Followed
      <4> QED BY <4>1, <4>2, <4>3
    <3> QED BY <2>1, <3>1, <3>2 DEF ScreenInv, ScreenTypes
  <2>5. CASE ~(runner.question = "proceed" /\ reply = "yes")
    <3> DEFINE last == (IF runner.question = "proceed" THEN <<"log">> ELSE <<>>) \o <<"quit">>
    <3>1. runner' = [runner EXCEPT !.at = "quitting", !.question = "none"] /\ Post(last)
      BY <1>8, <2>5 DEF Answered
    <3>2. runner'.at = "quitting" BY <3>1 DEF IInv, Types
    <3>3. last \in Seq(Messages) /\ Free(last, "confirm") /\ Free(last, "progress")
      <4>1. CASE runner.question = "proceed" BY <4>1 DEF Messages, Free
      <4>2. CASE runner.question # "proceed" BY <4>2 DEF Messages, Free
      <4> QED BY <4>1, <4>2
    <3> HIDE DEF last
    <3>4. ASSUME tui.at = "up" PROVE Counted' /\ Asked' /\ Followed'
      <4>1. Counted' BY <2>1, <2>2, <3>1, <3>3, <3>4, PostCounted
      <4>2. Asked' BY <2>1, <2>3, <3>1, <3>2, <3>3, <3>4, PostUnasked
      <4>3. Followed' BY <2>1, <3>1, <3>3, <3>4, PostFollowed
      <4> QED BY <4>1, <4>2, <4>3
    <3> QED BY <2>1, <3>1, <3>3, <3>4, PostScreen
  <2> QED BY <2>4, <2>5
<1>9. CASE Exit
  <2>1. tui.at # "up" /\ UNCHANGED <<tui, reply, sent, painted>> BY <1>9 DEF Exit
  <2> QED BY <2>1 DEF ScreenInv, ScreenTypes
<1> QED BY <1>1, <1>2, <1>3, <1>4, <1>5, <1>6, <1>7, <1>8, <1>9 DEF RunnerStep

\* A headless agent's tasks: what they send is counted, and cleared later.
LEMMA AgentScreen == ASSUME IInv, ScreenInv, AgentStep PROVE ScreenInv'
<1>1. runner.at # "headless" => agent = NoAgent BY DEF IInv, AgentIdle
<1>2. ASSUME NEW message \in {"progress", "persist"}, Post(<<message>>),
             runner.at = "headless", UNCHANGED <<runner, tui, painted>>
      PROVE  ScreenInv'
  <2>1. <<message>> \in Seq(Messages) /\ Free(<<message>>, "confirm") BY DEF Messages, Free
  <2>2. ~Handed /\ ~Stranded BY <1>2 DEF Handed, Stranded
  <2>3. ASSUME tui.at = "up" PROVE Counted' /\ Asked' /\ Followed'
    <3>1. ~tui.prompt /\ Free(mail, "confirm") BY <1>2, <2>3 DEF ScreenInv, Asked
    <3>2. Counted' BY <1>2, <2>1, <2>2, <2>3, PostCounted
    <3>3. Asked' BY <1>2, <2>1, <2>3, <3>1, PostUnasked
    <3>4. Followed' BY <1>2 DEF Followed
    <3> QED BY <3>2, <3>3, <3>4
  <2> QED BY <1>2, <2>1, <2>3, PostScreen
<1>3. ASSUME runner.at = "headless", UNCHANGED <<runner, mail, tui, reply, sent, painted>>
      PROVE  ScreenInv'
  <2>1. ASSUME tui.at = "up" PROVE Counted' /\ Asked' /\ Followed'
    <3>1. Counted' BY <1>3, <2>1 DEF ScreenInv, Counted, Handed, Stranded, Resuming, LineCount
    <3>2. Asked' BY <1>3, <2>1 DEF ScreenInv, Asked, Free
    <3>3. Followed' BY <1>3 DEF Followed
    <3> QED BY <3>1, <3>2, <3>3
  <2> QED BY <1>3, <2>1 DEF ScreenInv, ScreenTypes
<1>4. ASSUME NEW message \in {"progress", "persist"}, Pump(message) PROVE ScreenInv'
  <2>1. runner.at = "headless" BY <1>1, <1>4 DEF Pump, NoAgent
  <2> QED BY <1>2, <1>4, <2>1 DEF Pump
<1>5. ASSUME NEW error \in BOOLEAN, PumpEnds(error) PROVE ScreenInv'
  <2>1. runner.at = "headless" BY <1>1, <1>5 DEF PumpEnds, NoAgent
  <2> QED BY <1>3, <1>5, <2>1 DEF PumpEnds
<1>6. ASSUME NEW ok \in BOOLEAN, ChildExits(ok) PROVE ScreenInv'
  <2>1. runner.at = "headless" BY <1>1, <1>6 DEF ChildExits, NoAgent
  <2> QED BY <1>3, <1>6, <2>1 DEF ChildExits
<1>7. CASE DrainWarns
  <2>1. runner.at = "headless" BY <1>1, <1>7 DEF DrainWarns, NoAgent
  <2> QED BY <1>2, <1>7, <2>1 DEF DrainWarns
<1>8. CASE DrainEnds
  <2>1. runner.at = "headless" BY <1>1, <1>8 DEF DrainEnds, NoAgent
  <2> QED BY <1>3, <1>8, <2>1 DEF DrainEnds
<1> QED BY <1>4, <1>5, <1>6, <1>7, <1>8 DEF AgentStep

-----------------------------------------------------------------------------
\* What the receipt of a message leaves in the mailbox.
LEMMA Taken ==
  ASSUME IInv, ScreenInv, NEW message \in Messages, Receive(message)
  PROVE  /\ tui.at = "up" /\ mail # <<>> /\ mail[1] = message /\ mail' \in Seq(Messages)
         /\ 1 \in DOMAIN mail
         /\ UNCHANGED <<runner, reply, sent>>
         /\ LineCount(mail) = LineCount(mail') + (IF message \in Lines THEN 1 ELSE 0)
         /\ LineCount(mail) \in Nat /\ LineCount(mail') \in Nat
         /\ \A i \in DOMAIN mail' : i + 1 \in DOMAIN mail /\ mail'[i] = mail[i + 1]
         /\ \A j \in DOMAIN mail : j # 1 => j - 1 \in DOMAIN mail' /\ mail'[j - 1] = mail[j]
         /\ \A i \in DOMAIN mail : i \in Nat
         /\ Len(mail') = Len(mail) - 1 /\ Len(mail) \in Nat
<1>1. /\ tui.at = "up" /\ mail # <<>> /\ message = Head(mail)
      /\ mail' = Tail(mail) /\ UNCHANGED <<runner, reply, sent>>
  BY DEF Receive
<1>2. mail \in Seq(Messages) /\ mail' \in Seq(Messages) BY <1>1 DEF IInv, Types
<1>3. /\ Len(mail') = Len(mail) - 1 /\ Len(mail) \in Nat
      /\ DOMAIN mail = 1..Len(mail) /\ DOMAIN mail' = 1..Len(mail) - 1
      /\ \A i \in 1..Len(mail) - 1 : mail'[i] = mail[i + 1]
      /\ mail[1] = message /\ 1 \in DOMAIN mail
  BY <1>1, <1>2
<1>4. LineCount(mail) = LineCount(mail') + (IF message \in Lines THEN 1 ELSE 0)
  BY <1>1, <1>2, LineCountTail
<1>5. LineCount(mail) \in Nat /\ LineCount(mail') \in Nat BY <1>2, LinesOfFinite
<1>6. \A i \in DOMAIN mail' : i + 1 \in DOMAIN mail /\ mail'[i] = mail[i + 1] BY <1>3
<1>7. \A j \in DOMAIN mail : j # 1 => j - 1 \in DOMAIN mail' /\ mail'[j - 1] = mail[j]
  <2> SUFFICES ASSUME NEW j \in DOMAIN mail, j # 1
               PROVE  j - 1 \in DOMAIN mail' /\ mail'[j - 1] = mail[j]
      OBVIOUS
  <2>1. j - 1 \in 1..Len(mail) - 1 /\ (j - 1) + 1 = j BY <1>3
  <2> QED BY <1>3, <2>1
<1>8. \A i \in DOMAIN mail : i \in Nat BY <1>3
<1> QED BY <1>1, <1>2, <1>3, <1>4, <1>5, <1>6, <1>7, <1>8

\* A message taken that is not the question leaves it in the mailbox.
LEMMA TakenAsked ==
  ASSUME IInv, ScreenInv, NEW message \in Messages, Receive(message),
         tui'.prompt = (tui.prompt \/ message = "confirm")
  PROVE  Asked'
<1>1. /\ tui.at = "up" /\ mail # <<>> /\ mail[1] = message /\ mail' \in Seq(Messages)
      /\ UNCHANGED <<runner, reply>> /\ 1 \in DOMAIN mail
      /\ \A i \in DOMAIN mail' : i + 1 \in DOMAIN mail /\ mail'[i] = mail[i + 1]
      /\ Len(mail') = Len(mail) - 1 /\ Len(mail) \in Nat
  BY Taken
<1>2. mail \in Seq(Messages) /\ DOMAIN mail = 1..Len(mail) BY DEF IInv, Types
<1>3. Asked BY <1>1 DEF ScreenInv
<1>4. CASE runner.at # "asking"
  <2>1. ~tui.prompt /\ Free(mail, "confirm") BY <1>3, <1>4 DEF Asked
  <2>2. message # "confirm" BY <1>1, <2>1 DEF Free
  <2>3. Free(mail', "confirm") BY <1>1, <2>1 DEF Free
  <2> QED BY <1>1, <1>4, <2>1, <2>2, <2>3 DEF Asked
<1>5. CASE runner.at = "asking"
  <2>1. ~tui.prompt /\ reply = "none" /\ ConfirmIsLast BY <1>1, <1>3, <1>5 DEF Asked
  <2>2. mail[Len(mail)] = "confirm" /\ \A i \in 1..Len(mail) - 1 : mail[i] # "confirm"
    BY <2>1 DEF ConfirmIsLast
  <2>3. CASE Len(mail) = 1
    <3>1. message = "confirm" BY <1>1, <2>2, <2>3
    <3>2. mail' = <<>> BY <1>1, <2>3
    <3>3. tui'.prompt = TRUE BY <3>1
    <3> QED BY <1>1, <1>5, <2>1, <3>2, <3>3 DEF Asked
  <2>4. CASE Len(mail) # 1
    <3>1. Len(mail) > 1 BY <1>1, <1>2, <2>4
    <3>2. message # "confirm" BY <1>1, <2>2, <3>1
    <3>3. Len(mail') \in 1..Len(mail) - 1 /\ DOMAIN mail' = 1..Len(mail')  BY <1>1, <3>1
    <3>4. mail'[Len(mail')] = "confirm" BY <1>1, <2>2, <3>3
    <3>5. \A i \in 1..Len(mail') - 1 : mail'[i] # "confirm" BY <1>1, <2>2, <3>3
    <3>6. ConfirmIsLast' BY <1>1, <3>3, <3>4, <3>5 DEF ConfirmIsLast
    <3> QED BY <1>1, <1>5, <2>1, <3>2, <3>6 DEF Asked
  <2> QED BY <2>3, <2>4
<1> QED BY <1>4, <1>5

\* A message taken that ends no session leaves its end in the mailbox.
LEMMA TakenFollowed ==
  ASSUME IInv, ScreenInv, NEW message \in Messages, Receive(message),
         tui'.group = "busy" =>
           (tui.group = "busy" /\ message # "agent-done") \/ message = "progress"
  PROVE  Followed'
<1>1. /\ tui.at = "up" /\ mail[1] = message /\ UNCHANGED runner /\ 1 \in DOMAIN mail
      /\ mail' \in Seq(Messages)
      /\ \A i \in DOMAIN mail' : i + 1 \in DOMAIN mail /\ mail'[i] = mail[i + 1]
      /\ \A j \in DOMAIN mail : j # 1 => j - 1 \in DOMAIN mail' /\ mail'[j - 1] = mail[j]
      /\ \A i \in DOMAIN mail : i \in Nat
  BY Taken
<1>2. SUFFICES ASSUME runner.at # "headless"
               PROVE  /\ tui'.group = "busy" => \E j \in DOMAIN mail' : mail'[j] = "agent-done"
                      /\ \A i \in DOMAIN mail' : mail'[i] = "progress" =>
                           \E j \in DOMAIN mail' : j > i /\ mail'[j] = "agent-done"
  BY <1>1 DEF Followed
<1>3. /\ tui.group = "busy" => \E j \in DOMAIN mail : mail[j] = "agent-done"
      /\ \A i \in DOMAIN mail : mail[i] = "progress" =>
           \E j \in DOMAIN mail : j > i /\ mail[j] = "agent-done"
  BY <1>1, <1>2 DEF ScreenInv, Followed
<1>4. ASSUME tui'.group = "busy" PROVE \E j \in DOMAIN mail' : mail'[j] = "agent-done"
  <2>1. message # "agent-done" BY <1>4
  <2>2. PICK j \in DOMAIN mail : mail[j] = "agent-done" BY <1>1, <1>3, <1>4
  <2>3. j # 1 BY <1>1, <2>1, <2>2
  <2> QED BY <1>1, <2>2, <2>3
<1>5. ASSUME NEW i \in DOMAIN mail', mail'[i] = "progress"
      PROVE  \E j \in DOMAIN mail' : j > i /\ mail'[j] = "agent-done"
  <2>1. i + 1 \in DOMAIN mail /\ mail[i + 1] = "progress" BY <1>1, <1>5
  <2>2. PICK j \in DOMAIN mail : j > i + 1 /\ mail[j] = "agent-done" BY <1>3, <2>1
  <2>3. i \in Nat /\ j \in Nat
    <3>1. \A k \in DOMAIN mail' : k \in Nat BY <1>1
    <3> QED BY <1>1, <3>1
  <2>4. j # 1 /\ j - 1 > i BY <2>2, <2>3
  <2> QED BY <1>1, <2>2, <2>4
<1> QED BY <1>4, <1>5

\* The TUI takes a message, and paints it.
LEMMA ReceiveScreen == ASSUME IInv, ScreenInv, ReceiveStep PROVE ScreenInv'
<1>0. tui = [at |-> tui.at, suspended |-> tui.suspended, group |-> tui.group, prompt |-> tui.prompt]
      /\ sent \in Nat /\ painted \in Nat /\ ScreenTypes /\ tui.prompt \in BOOLEAN /\ tui.suspended \in BOOLEAN
  BY DEF IInv, Types, ScreenInv, ScreenTypes
<1>1. CASE ReceiveQuit
  <2>1. Receive("quit") /\ tui' = [tui EXCEPT !.at = "quit", !.prompt = FALSE] /\ painted' = painted
    BY <1>1 DEF ReceiveQuit
  <2>2. "quit" \in Messages BY DEF Messages
  <2>3. UNCHANGED <<reply, sent>> BY <2>1, <2>2, Taken
  <2>4. tui'.at = "quit" /\ tui'.prompt = FALSE BY <1>0, <2>1
  <2> QED BY <1>0, <2>1, <2>3, <2>4 DEF ScreenInv, ScreenTypes
<1>2. CASE ReceiveSuspend
  <2>1. /\ ~tui.suspended /\ Receive("suspend") /\ tui' = [tui EXCEPT !.suspended = TRUE]
        /\ ack' = TRUE /\ painted' = painted
    BY <1>2 DEF ReceiveSuspend
  <2>2. "suspend" \in Messages /\ "suspend" \notin Lines BY DEF Messages, Lines
  <2>3. Waiting /\ mail' = <<>> /\ UNCHANGED runner BY <2>1, <2>2, Received
  <2>4. /\ tui.at = "up" /\ UNCHANGED <<reply, sent>> /\ LineCount(mail) = LineCount(mail')
        /\ LineCount(mail') \in Nat
    BY <2>1, <2>2, Taken
  <2>5. tui'.at = tui.at /\ tui'.prompt = tui.prompt /\ tui'.group = tui.group /\ tui'.suspended
    BY <1>0, <2>1
  <2>6. Counted'
    <3>1. sent = painted + LineCount(mail) BY <2>1, <2>4 DEF ScreenInv, Counted
    <3>2. sent' = painted' + LineCount(mail') BY <2>1, <2>4, <3>1
    <3>3. Handed' BY <2>1, <2>3 DEF Waiting, Handed
    <3> QED BY <2>3, <3>2, <3>3 DEF Counted
  <2>7. Asked' BY <1>0, <2>1, <2>2, <2>5, TakenAsked
  <2>8. Followed' BY <2>1, <2>2, <2>5, TakenFollowed
  <2> QED BY <1>0, <2>1, <2>4, <2>5, <2>6, <2>7, <2>8 DEF ScreenInv, ScreenTypes
<1>3. CASE ReceiveResume
  <2>1. Receive("resume") /\ tui' = [tui EXCEPT !.suspended = FALSE] /\ painted' = painted
    BY <1>3 DEF ReceiveResume
  <2>2. "resume" \in Messages /\ "resume" \notin Lines BY DEF Messages, Lines
  <2>3. /\ tui.at = "up" /\ UNCHANGED <<reply, sent>> /\ LineCount(mail) = LineCount(mail')
        /\ LineCount(mail') \in Nat /\ mail[1] = "resume" /\ 1 \in DOMAIN mail
    BY <2>1, <2>2, Taken
  <2>4. tui'.at = tui.at /\ tui'.prompt = tui.prompt /\ tui'.group = tui.group /\ ~tui'.suspended
    BY <1>0, <2>1
  <2>5. Counted'
    <3>1. ~Stranded BY <2>3 DEF Stranded, Free
    <3>2. sent = painted + LineCount(mail) BY <2>3, <3>1 DEF ScreenInv, Counted
    <3> QED BY <2>1, <2>3, <2>4, <3>2 DEF Counted
  <2>6. Asked' BY <1>0, <2>1, <2>2, <2>4, TakenAsked
  <2>7. Followed' BY <2>1, <2>2, <2>4, TakenFollowed
  <2> QED BY <1>0, <2>1, <2>3, <2>4, <2>5, <2>6, <2>7 DEF ScreenInv, ScreenTypes
<1>4. CASE ReceiveLine
  <2>1. ~tui.suspended /\ tui' = Cleared /\ painted' = painted + 1 BY <1>4 DEF ReceiveLine
  <2>2. PICK message \in Lines : Receive(message) BY <1>4 DEF ReceiveLine
  <2>3. message \in Messages /\ message \notin {"confirm", "progress"} BY DEF Lines, Messages
  <2>4. /\ tui.at = "up" /\ UNCHANGED <<reply, sent>> /\ LineCount(mail) = LineCount(mail') + 1
        /\ LineCount(mail') \in Nat
    BY <2>2, <2>3, Taken
  <2>5. tui'.at = tui.at /\ tui'.prompt = tui.prompt /\ tui'.group # "busy" /\ ~tui'.suspended
    BY <1>0, <2>1 DEF Cleared
  <2>6. Counted'
    <3>1. sent = painted + LineCount(mail) BY <2>1, <2>4 DEF ScreenInv, Counted
    <3>2. sent' = painted' + LineCount(mail') BY <1>0, <2>1, <2>4, <3>1
    <3> QED BY <2>5, <3>2 DEF Counted
  <2>7. Asked' BY <1>0, <2>2, <2>3, <2>5, TakenAsked
  <2>8. Followed' BY <2>2, <2>3, <2>5, TakenFollowed
  <2> QED BY <1>0, <2>1, <2>4, <2>5, <2>6, <2>7, <2>8 DEF ScreenInv, ScreenTypes
<1>5. CASE ReceiveOther
  <2>1. painted' = painted BY <1>5 DEF ReceiveOther
  <2>2. PICK message \in Messages \ {"quit", "resume"} :
          /\ message \in Lines \cup {"suspend"} => tui.suspended
          /\ Receive(message)
          /\ tui' = Handled(message)
    BY <1>5 DEF ReceiveOther
  <2>3. /\ tui.at = "up" /\ UNCHANGED <<runner, reply, sent>> /\ mail # <<>> /\ mail[1] = message
        /\ LineCount(mail) = LineCount(mail') + (IF message \in Lines THEN 1 ELSE 0)
        /\ LineCount(mail') \in Nat
        /\ \A i \in DOMAIN mail' : i + 1 \in DOMAIN mail /\ mail'[i] = mail[i + 1]
    BY <2>2, Taken
  <2>4. /\ tui'.at = tui.at /\ tui'.suspended = tui.suspended
        /\ tui'.prompt = (tui.prompt \/ message = "confirm")
        /\ tui'.group = "busy" => (tui.group = "busy" /\ message # "agent-done") \/ message = "progress"
    BY <1>0, <2>2 DEF Handled
  <2>5. Counted'
    <3>1. CASE tui.suspended
      <4>1. ~Resuming BY <2>2, <2>3 DEF Resuming
      <4>2. Stranded BY <2>3, <3>1, <4>1 DEF ScreenInv, Counted
      <4>3. Stranded' BY <2>3, <4>2 DEF Stranded, Free
      <4> QED BY <2>4, <3>1, <4>3 DEF Counted
    <3>2. CASE ~tui.suspended
      <4>1. message \notin Lines BY <2>2, <3>2
      <4>2. sent = painted + LineCount(mail) BY <2>3, <3>2 DEF ScreenInv, Counted
      <4>3. sent' = painted' + LineCount(mail') BY <2>1, <2>3, <4>1, <4>2
      <4> QED BY <2>4, <3>2, <4>3 DEF Counted
    <3> QED BY <3>1, <3>2
  <2>6. Asked' BY <2>2, <2>4, TakenAsked
  <2>7. Followed' BY <2>2, <2>4, TakenFollowed
  <2> QED BY <1>0, <2>1, <2>3, <2>4, <2>5, <2>6, <2>7 DEF ScreenInv, ScreenTypes
<1> QED BY <1>1, <1>2, <1>3, <1>4, <1>5 DEF ReceiveStep

\* The user's answer; a cancelled run and a failed TUI, which show nothing more.
LEMMA UserScreen ==
  ASSUME IInv, ScreenInv, (\E answer \in {"yes", "no"} : Key(answer)) \/ Cancel \/ TuiFails
  PROVE  ScreenInv'
<1>0. tui = [at |-> tui.at, suspended |-> tui.suspended, group |-> tui.group, prompt |-> tui.prompt]
      /\ ScreenTypes
  BY DEF IInv, Types, ScreenInv
<1>1. ASSUME NEW answer \in {"yes", "no"}, Key(answer) PROVE ScreenInv'
  <2>1. /\ tui.at = "up" /\ ~tui.suspended /\ tui.prompt /\ reply' = answer
        /\ tui' = [tui EXCEPT !.prompt = FALSE]
        /\ UNCHANGED <<runner, agent, mail, raw, ack, sent, painted>>
    BY <1>1 DEF Key
  <2>2. /\ tui'.at = tui.at /\ tui'.suspended = tui.suspended /\ tui'.prompt = FALSE
        /\ tui'.group = tui.group
    BY <1>0, <2>1
  <2>3. runner.at = "asking" /\ mail = <<>> BY <2>1 DEF ScreenInv, Asked
  <2>4. Counted' BY <2>1, <2>2 DEF ScreenInv, Counted, LineCount
  <2>5. Asked' BY <2>1, <2>2, <2>3 DEF Asked
  <2>6. Followed' BY <2>1, <2>2 DEF ScreenInv, Followed
  <2>7. ScreenTypes' BY <1>0, <2>1 DEF ScreenTypes, Answers
  <2> QED BY <2>1, <2>2, <2>4, <2>5, <2>6, <2>7 DEF ScreenInv
<1>2. CASE Cancel
  <2>1. tui' = [tui EXCEPT !.at = "quit", !.prompt = FALSE] /\ UNCHANGED <<reply, sent, painted>>
    BY <1>2 DEF Cancel
  <2>2. tui'.at = "quit" /\ ~tui'.prompt BY <1>0, <2>1
  <2> QED BY <1>0, <2>1, <2>2 DEF ScreenInv, ScreenTypes
<1>3. CASE TuiFails
  <2>1. /\ tui' = [tui EXCEPT !.at = "failed", !.prompt = FALSE] /\ UNCHANGED <<sent, painted>>
        /\ reply' \in {reply, "no"}
    BY <1>3 DEF TuiFails
  <2>2. tui'.at = "failed" /\ ~tui'.prompt BY <1>0, <2>1
  <2> QED BY <1>0, <2>1, <2>2 DEF ScreenInv, ScreenTypes, Answers
<1> QED BY <1>1, <1>2, <1>3

\* Nothing is sent, nothing painted.
LEMMA InitScreen == Init => ScreenInv
<1> SUFFICES ASSUME Init PROVE ScreenInv
    OBVIOUS
<1>1. /\ mail = <<>> /\ tui = [at |-> "up", suspended |-> FALSE, group |-> "none", prompt |-> FALSE]
      /\ runner.at = "next" /\ reply = "none" /\ sent = 0 /\ painted = 0
  BY DEF Init
<1>2. Counted BY <1>1, NoLines DEF Counted
<1>3. Asked BY <1>1 DEF Asked, Free
<1>4. Followed BY <1>1 DEF Followed
<1> QED BY <1>1, <1>2, <1>3, <1>4 DEF ScreenInv, ScreenTypes, Answers

\* Every step keeps what the screen tells.
LEMMA StepScreen == ASSUME IInv, ScreenInv, [Next]_vars PROVE ScreenInv'
<1>1. CASE RunnerStep BY <1>1, RunnerScreen
<1>2. CASE AgentStep BY <1>2, AgentScreen
<1>3. CASE ReceiveStep BY <1>3, ReceiveScreen
<1>4. CASE UserAnswers BY <1>4, UserScreen DEF UserAnswers
<1>5. CASE Cancel \/ TuiFails BY <1>5, UserScreen
<1>6. CASE UNCHANGED vars
  <2>1. UNCHANGED <<runner, mail, tui, ack, reply, sent, painted>> BY <1>6 DEF vars
  <2>2. Counted <=> Counted' BY <2>1 DEF Counted, Handed, Resuming, Stranded, Free, LineCount
  <2>3. Asked <=> Asked' BY <2>1 DEF Asked, ConfirmIsLast, Free
  <2>4. Followed <=> Followed' BY <2>1 DEF Followed
  <2>5. ScreenTypes <=> ScreenTypes' BY <2>1 DEF ScreenTypes
  <2> QED BY <2>1, <2>2, <2>3, <2>4, <2>5 DEF ScreenInv
<1> QED BY <1>1, <1>2, <1>3, <1>4, <1>5, <1>6 DEF Next

\* The invariant says what the property says.
LEMMA ScreenInvSuffices == IInv /\ ScreenInv => ScreenTells
<1> SUFFICES ASSUME IInv, ScreenInv PROVE ScreenTells
    OBVIOUS
<1>1. NothingDropped BY DEF NothingDropped, Pending, ScreenInv, Counted
<1>2. PromptIsCurrent
  <2> SUFFICES ASSUME tui.prompt PROVE runner.at = "asking" /\ reply = "none" /\ Pending = 0
      BY DEF PromptIsCurrent
  <2>1. tui.at = "up" /\ Asked BY DEF ScreenInv
  <2>2. runner.at = "asking" /\ reply = "none" /\ mail = <<>> BY <2>1 DEF Asked
  <2> QED BY <2>2, NoLines DEF Pending
<1>3. StatusIsLive
  <2> SUFFICES ASSUME tui.at = "up", tui.group = "busy", runner.at # "headless"
               PROVE  Contains(mail, "agent-done")
      BY DEF StatusIsLive
  <2>1. PICK j \in DOMAIN mail : mail[j] = "agent-done" BY DEF ScreenInv, Followed
  <2>2. DOMAIN mail = 1..Len(mail) BY DEF IInv, Types
  <2> QED BY <2>1, <2>2 DEF Contains
<1> QED BY <1>1, <1>2, <1>3 DEF ScreenTells

\* For any cycle, any number of lines and however the tasks take turns: a TUI
\* that has the terminal has painted every line it was sent and has received,
\* a question is shown when everything that leads up to it is, and only while
\* the runner waits for the answer; the line of a tool call is that of the
\* agent that runs, or is about to be cleared (ui.rs, agent/common.rs).
THEOREM TheScreenTells == Spec => []ScreenTells
<1>1. Init => IInv /\ ScreenInv BY InitIInv, InitScreen
<1>2. (IInv /\ ScreenInv) /\ [Next]_vars => (IInv /\ ScreenInv)' BY StepIInv, StepScreen
<1> QED BY <1>1, <1>2, ScreenInvSuffices, PTL DEF Spec
=============================================================================
