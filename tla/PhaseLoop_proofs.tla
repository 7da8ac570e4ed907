--------------------------- MODULE PhaseLoop_proofs ---------------------------
(***************************************************************************)
(* Type correctness of PhaseLoop; the invariants that hold wherever the    *)
(* runner dies; and, for a run that nobody kills, what its commits and     *)
(* baselines hold and that it implements PlanCycle.  For every set of      *)
(* paths, repositories and specs and for any number of cycles and crashes. *)
(***************************************************************************)
EXTENDS PhaseLoop, TLAPS

\* Where the runner is decides which script phase it handles and what phase.md
\* holds: the handler's own phase until write_phase, its successor after.
Control ==
  /\ step = "agent" => /\ running \in LlmPhases
                       /\ handler = None
                       /\ tree.phase \in {running} \cup AgentNext(running)
  /\ step # "agent" => running = None
  /\ step \in {"consume", "cascade", "append", "phase"} =>
       /\ handler \in ScriptPhases
       /\ tree.phase = handler
  /\ step \in {"consume", "cascade"} => handler = "git-commit-triage"
  /\ step = "append" => handler = "git-commit-analyse-work"
  /\ step \in {"commit", "spec", "stage", "entry", "save", "commitsave"} =>
       /\ handler \in ScriptPhases
       /\ tree.phase = Successor[handler]
  /\ step \in {"spec", "stage", "entry"} => handler = "git-commit-analyse-work"
  /\ step = "entry" => queue.entries # <<>>

\* The record ids of session-log.yaml number it, and the latest session is
\* either the record of its number or the next one.
Sessions ==
  /\ \A i \in DOMAIN tree.log : tree.log[i].id = i
  /\ tree.latest.id <= Len(tree.log) + 1
  /\ tree.latest.id \in DOMAIN tree.log => tree.log[tree.latest.id] = tree.latest
  /\ \/ tree.phase \in (Phases \ {"analyse-work", "git-commit-analyse-work"})
     \/ step = "phase" /\ handler = "git-commit-analyse-work"
     => tree.latest.id <= Len(tree.log)

\* What precedes write_phase in git-commit-triage is done when it is reached.
Boundary ==
  /\ step = "phase" /\ handler = "git-commit-triage" => ~tree.stale
  /\ step \in {"cascade", "phase"} /\ handler = "git-commit-triage" => tree.objections = 0

IInv == TypeOK /\ Control

USE DEF LlmPhases, ScriptPhases, Phases, Torn, None

\* A script phase is followed by one for an agent.
LEMMA SuccessorType == \A p \in ScriptPhases : Successor[p] \in LlmPhases
  BY DEF Successor

\* The entry git_commit_plan makes up has the type of entries.
LEMMA CatchAllType == CatchAll \in Seq(Entry)
  BY PathAssumption DEF CatchAll, Entry

\* A commit keeps the types of what git holds.
LEMMA GitCommitType ==
  ASSUME TypeOK, NEW r \in Repos, NEW withPlan \in BOOLEAN,
         NEW label \in Phases \cup {None, "spec"},
         GitCommit(r, withPlan, label)
  PROVE  /\ headTree' \in Tree
         /\ history' \in Seq(Commit)
         /\ src' \in [Paths -> {"clean", "dirty", "staged", "both"}]
         /\ owed' \subseteq Paths
<1> DEFINE newTree == IF withPlan THEN tree ELSE headTree
<1>1. newTree \in Tree
  BY DEF TypeOK
<1>2. Staged(r) \subseteq Paths
  BY DEF Staged
<1>3. AfterCommit(Staged(r)) \in [Paths -> {"clean", "dirty", "staged", "both"}]
  BY DEF AfterCommit, TypeOK
<1>4. [label |-> label, edits |-> newTree.edits, paths |-> Staged(r)] \in Commit
  BY <1>1, <1>2 DEF Commit, Tree
<1>5. CASE UNCHANGED <<headTree, history, src, owed>>
  BY <1>5 DEF TypeOK
<1>6. CASE /\ src' = AfterCommit(Staged(r))
           /\ owed' = owed \ Staged(r)
           /\ headTree' = newTree
           /\ history' = IF r # Context THEN history
                         ELSE Append(history, [label |-> label,
                                               edits |-> newTree.edits,
                                               paths |-> Staged(r)])
  BY <1>1, <1>3, <1>4, <1>6 DEF TypeOK
<1> QED
  BY <1>5, <1>6 DEF GitCommit

\* An absent commit spec has the type of specs.
LEMMA NoSpecType == NoSpec \in Spec0
  BY DEF NoSpec, Spec0

\* The log grows by records.
LEMMA AppendedType ==
  ASSUME NEW log \in Seq(Session), NEW rec \in Session
  PROVE  Appended(log, rec) \in Seq(Session)
  BY DEF Appended

\* git_save_baseline changes the baseline it names and nothing else.
LEMMA SavedType ==
  ASSUME TypeOK, NEW p \in LlmPhases
  PROVE  /\ Saved(p) \in Tree
         /\ Saved(p).phase = tree.phase
         /\ Saved(p).stale = tree.stale
         /\ Saved(p).objections = tree.objections
         /\ Saved(p).latest = tree.latest
         /\ Saved(p).log = tree.log
<1>1. [exists |-> TRUE, sha |-> HeadSha] \in Baseline
  BY DEF HeadSha, TypeOK, Baseline
<1>2. tree \in Tree
  BY DEF TypeOK
<1> QED
  BY <1>1, <1>2 DEF Saved, Tree

\* Types and control hold in every state.
LEMMA TypeControl == Spec => []IInv
<1>1. Init => IInv
  BY PathAssumption DEF Init, IInv, TypeOK, Control, FirstTree, Tree, Commit, NoSpec,
     Spec0, NoSession, Session, Baseline, Steps
<1>2. IInv /\ [Next]_vars => IInv'
  <2> SUFFICES ASSUME TypeOK, Control, [Next]_vars
               PROVE  TypeOK' /\ Control'
    BY DEF IInv
  <2> USE DEF Control
  <2>1. CASE Start
    BY <2>1 DEF Start, TypeOK, Steps, volatile
  <2>2. CASE Confirm
    <3>1. CASE step' = "top" /\ UNCHANGED volatile
      BY <2>2, <3>1 DEF Confirm, TypeOK, Steps, volatile
    <3>2. CASE Exit
      BY <2>2, <3>2, NoSpecType DEF Confirm, Exit, TypeOK, Steps
    <3> QED
      BY <2>2, <3>1, <3>2 DEF Confirm
  <2>3. CASE BeginScript
    BY <2>3 DEF BeginScript, TypeOK, Steps
  <2>4. CASE BeginLlm
    <3>1. Saved("work") \in Tree /\ Saved("work").phase = tree.phase
      BY SavedType
    <3>2. tree' \in Tree /\ tree'.phase = tree.phase
      BY <2>4, <3>1 DEF BeginLlm, TypeOK
    <3> QED
      BY <2>4, <3>2 DEF BeginLlm, TypeOK, Steps
  <2>5. CASE ReadPhaseFails
    BY <2>5 DEF ReadPhaseFails, Exit, TypeOK, Steps, NoSpec, Spec0
  <2>6. CASE AgentExit
    BY <2>6 DEF AgentExit, TypeOK, Steps
  <2>7. CASE AgentStep
    <3> SUFFICES /\ tree' \in Tree
                 /\ step = "agent" => tree'.phase \in {running} \cup AgentNext(running)
                 /\ src' \in [Paths -> {"clean", "dirty", "staged", "both"}]
                 /\ step = "agent"
                 /\ AgentOnly
      BY DEF AgentOnly, TypeOK, volatile
    <3>1. CASE EditPlan
      BY <3>1 DEF EditPlan, TypeOK, Tree
    <3>2. CASE DefeatIntent
      BY <3>2 DEF DefeatIntent, Agent, TypeOK, Tree
    <3>3. CASE \E p \in Paths : WorkEditSource(p)
      BY <3>3 DEF WorkEditSource, Agent, TypeOK
    <3>4. CASE WorkObject
      BY <3>4 DEF WorkObject, Agent, TypeOK, Tree
    <3>5. CASE \E p \in Paths : RevertSource(p)
      BY <3>5 DEF RevertSource, Agent, TypeOK
    <3>6. CASE \E s \in Specs : WriteSpec(s)
      <4>1. PICK s \in Specs : WriteSpec(s)
        BY <3>6
      <4>2. [cycle |-> cycle, entries |-> s] \in Spec0
        BY SpecAssumption DEF TypeOK, Spec0
      <4> QED
        BY <4>1, <4>2 DEF WriteSpec, Agent, TypeOK, Tree
    <3>7. CASE SetLatestSession
      <4>1. [id |-> Len(tree.log) + 1, cycle |-> cycle] \in Session
        BY DEF TypeOK, Tree, Session
      <4> QED
        BY <3>7, <4>1 DEF SetLatestSession, Agent, TypeOK, Tree
    <3>8. CASE \E q \in Phases : SetPhase(q)
      BY <3>8 DEF SetPhase, TypeOK, Tree
    <3> QED
      BY <2>7, <3>1, <3>2, <3>3, <3>4, <3>5, <3>6, <3>7, <3>8 DEF AgentStep
  <2>8. CASE ConsumeObjections
    BY <2>8 DEF ConsumeObjections, TypeOK, Tree, Steps, volatile
  <2>9. CASE CascadeDefeated
    BY <2>9 DEF CascadeDefeated, TypeOK, Tree, Steps, volatile
  <2>10. CASE AppendSessionLog
    <3>1. Appended(tree.log, tree.latest) \in Seq(Session)
      BY AppendedType DEF TypeOK, Tree
    <3> QED
      BY <2>10, <3>1 DEF AppendSessionLog, TypeOK, Tree, Steps, volatile
  <2>11. CASE WritePhase
    <3>1. tree' \in Tree /\ tree'.phase = Successor[handler]
      BY <2>11, SuccessorType DEF WritePhase, TypeOK, Tree
    <3>2. cycle' \in Nat \ {0}
      BY <2>11 DEF WritePhase, TypeOK
    <3> QED
      BY <2>11, <3>1, <3>2 DEF WritePhase, TypeOK, Steps, volatile
  <2>12. CASE CommitPhase
    <3>1. /\ headTree' \in Tree
          /\ history' \in Seq(Commit)
          /\ src' \in [Paths -> {"clean", "dirty", "staged", "both"}]
          /\ owed' \subseteq Paths
      BY <2>12, GitCommitType, PathAssumption DEF CommitPhase, GitCommitPlan, TypeOK
    <3> QED
      BY <2>12, <3>1 DEF CommitPhase, TypeOK, Steps, volatile
  <2>13. CASE ConsumeSpec
    <3> DEFINE entries == IF tree.spec.entries = <<>> THEN CatchAll ELSE tree.spec.entries
    <3>1. queue' \in Spec0
      BY <2>13, CatchAllType DEF ConsumeSpec, TypeOK, Tree, Spec0
    <3>2. tree' \in Tree /\ tree'.phase = tree.phase
      BY <2>13, NoSpecType DEF ConsumeSpec, TypeOK, Tree
    <3>3. owed' \subseteq Paths
      BY <2>13 DEF ConsumeSpec, Promised
    <3> QED
      BY <2>13, <3>1, <3>2, <3>3 DEF ConsumeSpec, TypeOK, Steps
  <2>14. CASE StageEntry
    BY <2>14 DEF StageEntry, Restaged, TypeOK, Steps, volatile
  <2>15. CASE BailUnmounted
    BY <2>15 DEF BailUnmounted, Exit, TypeOK, Steps, NoSpec, Spec0
  <2>16. CASE CommitEntry
    <3> DEFINE e == Head(queue.entries)
    <3>1. e \in Entry /\ Tail(queue.entries) \in Seq(Entry)
      BY <2>16 DEF CommitEntry, TypeOK, Spec0
    <3>2. e.target \in Repos /\ (e.target = Context /\ e.plan /\ ~e.bad) \in BOOLEAN
      BY <3>1 DEF Entry
    <3>3. /\ headTree' \in Tree
          /\ history' \in Seq(Commit)
          /\ src' \in [Paths -> {"clean", "dirty", "staged", "both"}]
          /\ owed' \subseteq Paths
      BY <2>16, <3>2, GitCommitType DEF CommitEntry
    <3>4. queue' \in Spec0
      BY <2>16, <3>1 DEF CommitEntry, TypeOK, Spec0
    <3> QED
      BY <2>16, <3>3, <3>4 DEF CommitEntry, TypeOK, Steps, volatile
  <2>17. CASE SpecApplied
    BY <2>17 DEF SpecApplied, TypeOK, Steps, volatile
  <2>18. CASE SaveBaseline
    <3>1. tree' \in Tree /\ tree'.phase = tree.phase
      BY <2>18, SavedType, SuccessorType DEF SaveBaseline
    <3> QED
      BY <2>18, <3>1 DEF SaveBaseline, TypeOK, Steps, volatile
  <2>19. CASE CommitBaseline
    <3>1. /\ headTree' \in Tree
          /\ history' \in Seq(Commit)
          /\ src' \in [Paths -> {"clean", "dirty", "staged", "both"}]
          /\ owed' \subseteq Paths
      BY <2>19, GitCommitType, PathAssumption DEF CommitBaseline, GitCommitPlan, TypeOK
    <3> QED
      BY <2>19, <3>1 DEF CommitBaseline, TypeOK, Steps, volatile
  <2>20. CASE Crash
    <3>1. tree' \in Tree
      <4>1. CASE tree' = tree
        BY <4>1 DEF TypeOK
      <4>2. CASE tree' = [tree EXCEPT !.phase = Torn]
        BY <4>2 DEF TypeOK, Tree
      <4>3. CASE tree' = [tree EXCEPT !.base[Successor[handler]].sha = 0]
        <5> DEFINE q == Successor[handler]
        <5>1. tree \in Tree /\ tree.base \in [LlmPhases -> Baseline]
          BY DEF TypeOK, Tree
        <5>2. q \in LlmPhases => [tree.base[q] EXCEPT !.sha = 0] \in Baseline
          BY <5>1 DEF Baseline
        <5>3. [tree.base EXCEPT ![q].sha = 0] \in [LlmPhases -> Baseline]
          BY <5>1, <5>2
        <5>4. tree' = [tree EXCEPT !.base = [tree.base EXCEPT ![q].sha = 0]]
          BY <4>3, <5>1 DEF Tree
        <5> HIDE DEF q
        <5> QED
          BY <5>1, <5>3, <5>4 DEF Tree
      <4> QED
        BY <2>20, <4>1, <4>2, <4>3 DEF Crash
    <3> QED
      BY <2>20, <3>1 DEF Crash, Exit, TypeOK, Steps, NoSpec, Spec0
  <2>21. CASE UNCHANGED vars
    BY <2>21 DEF vars, TypeOK, volatile
  <2> QED
    BY <2>1, <2>2, <2>3, <2>4, <2>5, <2>6, <2>7, <2>8, <2>9, <2>10, <2>11, <2>12, <2>13,
       <2>14, <2>15, <2>16, <2>17, <2>18, <2>19, <2>20, <2>21
       DEF Next, Runner, Handler, Idle
<1> QED
  BY <1>1, <1>2, PTL DEF Spec

\* Every reachable state of the cycle has its type, for every instance.
THEOREM TypeCorrect == Spec => []TypeOK
<1>1. IInv => TypeOK
  BY DEF IInv
<1> QED
  BY <1>1, TypeControl, PTL

-----------------------------------------------------------------------------
(* Sessions                                                                *)

\* Appending the latest session to a numbered log keeps it numbered and puts
\* the latest session in it.
LEMMA AppendedSessions ==
  ASSUME NEW log \in Seq(Session), NEW rec \in Session,
         \A i \in DOMAIN log : log[i].id = i,
         rec.id <= Len(log) + 1,
         rec.id \in DOMAIN log => log[rec.id] = rec
  PROVE  /\ \A i \in DOMAIN Appended(log, rec) : Appended(log, rec)[i].id = i
         /\ rec.id <= Len(Appended(log, rec))
         /\ rec.id \in DOMAIN Appended(log, rec) => Appended(log, rec)[rec.id] = rec
<1>0. rec.id \in Nat /\ Len(log) \in Nat /\ DOMAIN log = 1 .. Len(log)
  BY DEF Session
<1>1. CASE rec.id = 0 \/ \E i \in DOMAIN log : log[i].id = rec.id
  <2>1. Appended(log, rec) = log
    BY <1>1 DEF Appended
  <2>2. rec.id <= Len(log)
    BY <1>0, <1>1
  <2> QED
    BY <2>1, <2>2
<1>2. CASE ~(rec.id = 0 \/ \E i \in DOMAIN log : log[i].id = rec.id)
  <2>1. Appended(log, rec) = Append(log, rec)
    BY <1>2 DEF Appended
  <2>2. rec.id = Len(log) + 1
    BY <1>0, <1>2
  <2>3. Len(Append(log, rec)) = Len(log) + 1
    OBVIOUS
  <2>4. \A i \in 1 .. Len(log) : Append(log, rec)[i] = log[i]
    OBVIOUS
  <2>5. Append(log, rec)[Len(log) + 1] = rec
    OBVIOUS
  <2>6. DOMAIN Append(log, rec) = 1 .. Len(log) + 1
    OBVIOUS
  <2> QED
    BY <1>0, <2>1, <2>2, <2>3, <2>4, <2>5, <2>6
<1> QED
  BY <1>1, <1>2

\* What a step must leave alone for Sessions to survive it trivially.
LEMMA SessionsFrame ==
  ASSUME Sessions, tree'.log = tree.log, tree'.latest = tree.latest,
         \/ tree'.phase \in (Phases \ {"analyse-work", "git-commit-analyse-work"})
         \/ step' = "phase" /\ handler' = "git-commit-analyse-work"
         => \/ tree.phase \in (Phases \ {"analyse-work", "git-commit-analyse-work"})
            \/ step = "phase" /\ handler = "git-commit-analyse-work"
  PROVE  Sessions'
  BY DEF Sessions

\* What is known of the latest session holds in every state.
LEMMA SessionsInductive == Spec => []Sessions
<1>1. Init => Sessions
  BY DEF Init, Sessions, FirstTree, NoSession
<1>2. IInv /\ IInv' /\ Sessions /\ [Next]_vars => Sessions'
  <2> SUFFICES ASSUME TypeOK, Control, TypeOK', Sessions, [Next]_vars
               PROVE  Sessions'
    BY DEF IInv
  <2> USE DEF Control
  <2>0. /\ tree.log \in Seq(Session) /\ tree.latest \in Session
        /\ Len(tree.log) \in Nat /\ tree.latest.id \in Nat
        /\ DOMAIN tree.log = 1 .. Len(tree.log)
    <3>1. tree.log \in Seq(Session) /\ tree.latest \in Session
      BY DEF TypeOK, Tree
    <3> QED
      BY <3>1 DEF Session
  <2>1. CASE UNCHANGED tree /\ step' # "phase"
    BY <2>1, SessionsFrame
  <2>2. CASE BeginScript
    BY <2>2, SessionsFrame DEF BeginScript
  <2>3. CASE BeginLlm
    <3>1. tree'.log = tree.log /\ tree'.latest = tree.latest /\ tree'.phase = tree.phase
      BY <2>3, SavedType DEF BeginLlm
    <3> QED
      BY <2>3, <3>1, SessionsFrame DEF BeginLlm
  <2>4. CASE AgentStep
    <3>1. step = "agent" /\ step' = step /\ handler' = handler
      BY <2>4 DEF AgentStep, AgentOnly, volatile, EditPlan, DefeatIntent, Agent,
         WorkEditSource, WorkObject, RevertSource, WriteSpec, SetLatestSession, SetPhase
    <3>2. CASE SetLatestSession
      <4>1. /\ tree'.log = tree.log
            /\ tree'.latest.id = Len(tree.log) + 1
            /\ tree'.phase = tree.phase
        BY <3>2 DEF SetLatestSession, TypeOK, Tree
      <4>2. tree.phase \in {"analyse-work", "git-commit-analyse-work"}
        BY <3>2 DEF SetLatestSession, Agent, AgentNext
      <4> QED
        BY <2>0, <3>1, <4>1, <4>2 DEF Sessions
    <3>3. CASE \E q \in Phases : SetPhase(q)
      <4>1. PICK q \in Phases : SetPhase(q)
        BY <3>3
      <4>2. /\ tree'.log = tree.log /\ tree'.latest = tree.latest
            /\ tree.phase = running /\ tree'.phase \in AgentNext(running)
        BY <4>1 DEF SetPhase, TypeOK, Tree
      <4>3. tree.phase = "analyse-work" => tree'.phase = "git-commit-analyse-work"
        BY <4>2 DEF AgentNext
      <4>4. tree.phase \in Phases /\ tree.phase # "git-commit-analyse-work"
        BY <3>1, <4>2
      <4> QED
        BY <3>1, <4>2, <4>3, <4>4, SessionsFrame
    <3>4. CASE \/ EditPlan \/ DefeatIntent \/ \E p \in Paths : WorkEditSource(p)
               \/ WorkObject \/ \E p \in Paths : RevertSource(p)
               \/ \E s \in Specs : WriteSpec(s)
      <4>1. tree'.log = tree.log /\ tree'.latest = tree.latest /\ tree'.phase = tree.phase
        BY <3>4 DEF EditPlan, DefeatIntent, WorkEditSource, WorkObject, RevertSource,
           WriteSpec, TypeOK, Tree
      <4> QED
        BY <3>1, <4>1, SessionsFrame
    <3> QED
      BY <2>4, <3>2, <3>3, <3>4 DEF AgentStep
  <2>5. CASE ConsumeObjections \/ CascadeDefeated
    <3>1. tree'.log = tree.log /\ tree'.latest = tree.latest /\ tree'.phase = tree.phase
      BY <2>5 DEF ConsumeObjections, CascadeDefeated, TypeOK, Tree
    <3>2. handler' = "git-commit-triage"
      BY <2>5 DEF ConsumeObjections, CascadeDefeated, volatile
    <3> QED
      BY <3>1, <3>2, SessionsFrame
  <2>6. CASE AppendSessionLog
    <3>1. tree'.log = Appended(tree.log, tree.latest) /\ tree'.latest = tree.latest
      BY <2>6 DEF AppendSessionLog, TypeOK, Tree
    <3> QED
      BY <2>0, <3>1, AppendedSessions DEF Sessions
  <2>7. CASE WritePhase
    <3>1. /\ tree'.log = tree.log /\ tree'.latest = tree.latest
          /\ tree'.phase = Successor[handler] /\ handler' = handler
          /\ step' # "phase" /\ step = "phase"
      BY <2>7 DEF WritePhase, TypeOK, Tree, volatile
    <3>2. CASE handler = "git-commit-analyse-work"
      BY <3>1, <3>2, SessionsFrame
    <3>3. CASE handler # "git-commit-analyse-work"
      BY <3>1, <3>3, SessionsFrame
    <3> QED
      BY <3>2, <3>3
  <2>8. CASE ConsumeSpec \/ SaveBaseline
    <3>1. tree'.log = tree.log /\ tree'.latest = tree.latest /\ tree'.phase = tree.phase
      <4>1. tree \in Tree
        BY DEF TypeOK
      <4>2. CASE ConsumeSpec
        BY <4>1, <4>2 DEF ConsumeSpec, Tree
      <4>3. CASE SaveBaseline
        BY <4>3, SavedType, SuccessorType DEF SaveBaseline
      <4> QED
        BY <2>8, <4>2, <4>3
    <3>2. step' # "phase"
      BY <2>8 DEF ConsumeSpec, SaveBaseline
    <3> QED
      BY <3>1, <3>2, SessionsFrame
  <2>9. CASE Crash
    <3>1. step' = "off"
      BY <2>9 DEF Crash, Exit
    <3>2. CASE tree' = [tree EXCEPT !.phase = Torn]
      <4>1. tree'.log = tree.log /\ tree'.latest = tree.latest /\ tree'.phase = Torn
        BY <3>2 DEF TypeOK, Tree
      <4> QED
        BY <3>1, <4>1, SessionsFrame
    <3>3. CASE tree' = [tree EXCEPT !.base[Successor[handler]].sha = 0]
      <4>1. tree'.log = tree.log /\ tree'.latest = tree.latest /\ tree'.phase = tree.phase
        BY <3>3 DEF TypeOK, Tree
      <4> QED
        BY <3>1, <4>1, SessionsFrame
    <3> QED
      BY <2>1, <2>9, <3>1, <3>2, <3>3 DEF Crash
  <2>10. CASE UNCHANGED vars
    BY <2>10, SessionsFrame DEF vars, volatile
  <2>11. CASE \/ Start \/ Confirm \/ ReadPhaseFails \/ AgentExit \/ CommitPhase
              \/ StageEntry \/ BailUnmounted \/ CommitEntry \/ SpecApplied \/ CommitBaseline
    <3>1. UNCHANGED tree /\ step' # "phase"
      BY <2>11 DEF Start, Confirm, Exit, ReadPhaseFails, AgentExit, CommitPhase,
         StageEntry, BailUnmounted, CommitEntry, SpecApplied, CommitBaseline
    <3> QED
      BY <2>1, <3>1
  <2> QED
    BY <2>2, <2>3, <2>4, <2>5, <2>6, <2>7, <2>8, <2>9, <2>10, <2>11
       DEF Next, Runner, Handler, Idle
<1> QED
  BY <1>1, <1>2, TypeControl, PTL DEF Spec

\* SessionLogged, for any number of cycles and of crashes anywhere: no session
\* record is overwritten in latest-session.yaml before it is in the log.
THEOREM SessionsAreLogged == Spec => []SessionLogged
<1>1. TypeOK /\ Sessions => SessionLogged
  <2> SUFFICES ASSUME TypeOK, Sessions, tree.latest.id # 0,
                      tree.phase \in (Phases \ {"analyse-work", "git-commit-analyse-work"})
               PROVE  \E i \in DOMAIN tree.log : tree.log[i] = tree.latest
    BY DEF SessionLogged
  <2>1. tree.log \in Seq(Session) /\ tree.latest \in Session
    BY DEF TypeOK, Tree
  <2>2. tree.latest.id \in Nat
    BY <2>1 DEF Session
  <2>3. DOMAIN tree.log = 1 .. Len(tree.log) /\ Len(tree.log) \in Nat
    BY <2>1
  <2>4. tree.latest.id <= Len(tree.log)
    BY DEF Sessions
  <2>5. tree.latest.id \in DOMAIN tree.log
    BY <2>2, <2>3, <2>4
  <2> QED
    BY <2>5 DEF Sessions
<1> QED
  BY <1>1, TypeCorrect, SessionsInductive, PTL

\* LogIdsUnique, likewise: no boundary, run again after a death, duplicates a
\* record of the log.
THEOREM LogIdsAreUnique == Spec => []LogIdsUnique
<1>1. Sessions => LogIdsUnique
  BY DEF Sessions, LogIdsUnique
<1> QED
  BY <1>1, SessionsInductive, PTL

\* SessionsKept: a session's record is in the log, once, whatever dies.
THEOREM SessionsAreKept == Spec => []SessionsKept
<1>1. SessionLogged /\ LogIdsUnique => SessionsKept
  BY DEF SessionsKept
<1> QED
  BY <1>1, SessionsAreLogged, LogIdsAreUnique, PTL

-----------------------------------------------------------------------------
(* The triage boundary                                                     *)

\* The part of the state the triage boundary is about, left alone.
LEMMA BoundaryFrame ==
  ASSUME Boundary, CascadedBeforeWork, ObjectionsFresh,
         tree'.stale = tree.stale, tree'.objections = tree.objections,
         tree'.phase \in AfterTriage => tree.phase \in AfterTriage /\ cycle' = cycle,
         step' \notin {"cascade", "phase"} \/ handler' # "git-commit-triage"
  PROVE  Boundary' /\ CascadedBeforeWork' /\ ObjectionsFresh'
  BY DEF Boundary, CascadedBeforeWork, ObjectionsFresh

\* A step of the agent is in the phase it was started for.
LEMMA AgentFrame ==
  ASSUME AgentStep
  PROVE  step = "agent" /\ step' = step /\ handler' = handler /\ cycle' = cycle
  BY DEF AgentStep, AgentOnly, volatile, EditPlan, DefeatIntent, Agent,
     WorkEditSource, WorkObject, RevertSource, WriteSpec, SetLatestSession, SetPhase

\* What is known of the boundary phases holds in every state.
LEMMA BoundaryInductive == Spec => [](Boundary /\ CascadedBeforeWork /\ ObjectionsFresh)
<1> DEFINE J == Boundary /\ CascadedBeforeWork /\ ObjectionsFresh
<1>1. Init => J
  BY DEF Init, FirstTree, Boundary, CascadedBeforeWork, ObjectionsFresh, AfterTriage
<1>2. IInv /\ J /\ [Next]_vars => J'
  <2> SUFFICES ASSUME TypeOK, Control, J, [Next]_vars
               PROVE  J'
    BY DEF IInv
  <2> USE DEF Control, AfterTriage
  <2>0. tree \in Tree
    BY DEF TypeOK
  <2>1. CASE UNCHANGED <<tree, cycle>> /\ step' \notin {"consume", "cascade", "phase"}
    BY <2>1, BoundaryFrame
  <2>2. CASE \/ Start \/ Confirm \/ ReadPhaseFails \/ AgentExit \/ CommitPhase
             \/ StageEntry \/ BailUnmounted \/ CommitEntry \/ SpecApplied \/ CommitBaseline
    <3>1. UNCHANGED <<tree, cycle>> /\ step' \notin {"consume", "cascade", "phase"}
      BY <2>2 DEF Start, Confirm, Exit, ReadPhaseFails, AgentExit, CommitPhase,
         StageEntry, BailUnmounted, CommitEntry, SpecApplied, CommitBaseline
    <3> QED
      BY <2>1, <3>1
  <2>3. CASE BeginScript
    <3>1. UNCHANGED <<tree, cycle>> /\ handler' = tree.phase
      BY <2>3 DEF BeginScript
    <3>2. handler' = "git-commit-triage" => step' = "consume"
      BY <2>3 DEF BeginScript
    <3> QED
      BY <3>1, <3>2, BoundaryFrame
  <2>4. CASE BeginLlm
    <3>1. UNCHANGED cycle /\ step' = "agent" /\ tree'.stale = tree.stale
          /\ tree'.objections = tree.objections /\ tree'.phase = tree.phase
      BY <2>4, SavedType DEF BeginLlm
    <3> QED
      BY <3>1, BoundaryFrame
  <2>5. CASE AgentStep
    <3>1. step = "agent" /\ step' = "agent" /\ cycle' = cycle
      BY <2>5, AgentFrame
    <3>2. CASE DefeatIntent
      <4>1. tree'.phase \notin AfterTriage
        BY <2>0, <3>2 DEF DefeatIntent, Agent, AgentNext, Tree
      <4> QED
        BY <3>1, <4>1 DEF Boundary, CascadedBeforeWork, ObjectionsFresh
    <3>3. CASE WorkObject
      <4>1. tree'.stale = tree.stale /\ tree'.phase = tree.phase /\ tree'.objections = cycle
        BY <2>0, <3>3 DEF WorkObject, Tree
      <4> QED
        BY <3>1, <4>1 DEF Boundary, CascadedBeforeWork, ObjectionsFresh
    <3>4. CASE \E q \in Phases : SetPhase(q)
      <4>1. PICK q \in Phases : SetPhase(q)
        BY <3>4
      <4>2. tree'.stale = tree.stale /\ tree'.objections = tree.objections
            /\ tree.phase = running /\ tree'.phase \in AgentNext(running)
        BY <2>0, <4>1 DEF SetPhase, Tree
      <4>3. tree.phase = "triage" => tree'.phase = "git-commit-triage"
        BY <4>2 DEF AgentNext
      <4>4. tree.phase \in LlmPhases
        BY <3>1, <4>2
      <4> QED
        BY <3>1, <4>2, <4>3, <4>4, BoundaryFrame
    <3>5. CASE \/ EditPlan \/ \E p \in Paths : WorkEditSource(p)
               \/ \E p \in Paths : RevertSource(p)
               \/ \E s \in Specs : WriteSpec(s)
               \/ SetLatestSession
      <4>1. tree'.stale = tree.stale /\ tree'.phase = tree.phase
            /\ tree'.objections = tree.objections
        BY <2>0, <3>5 DEF EditPlan, WorkEditSource, RevertSource, WriteSpec,
           SetLatestSession, Tree
      <4> QED
        BY <3>1, <4>1, BoundaryFrame
    <3> QED
      BY <2>5, <3>2, <3>3, <3>4, <3>5 DEF AgentStep
  <2>6. CASE ConsumeObjections
    <3>1. tree'.stale = tree.stale /\ tree'.phase = tree.phase /\ tree'.objections = 0
          /\ step' = "cascade" /\ cycle' = cycle
      BY <2>0, <2>6 DEF ConsumeObjections, Tree
    <3> QED
      BY <3>1 DEF Boundary, CascadedBeforeWork, ObjectionsFresh
  <2>7. CASE CascadeDefeated
    <3>1. tree'.stale = FALSE /\ tree'.phase = tree.phase
          /\ tree'.objections = tree.objections /\ tree.objections = 0
      BY <2>0, <2>7 DEF CascadeDefeated, Tree, Boundary
    <3> QED
      BY <3>1 DEF Boundary, CascadedBeforeWork, ObjectionsFresh
  <2>8. CASE AppendSessionLog
    <3>1. tree'.stale = tree.stale /\ tree'.phase = tree.phase /\ cycle' = cycle
          /\ tree'.objections = tree.objections /\ handler' # "git-commit-triage"
      BY <2>0, <2>8 DEF AppendSessionLog, Tree, volatile
    <3> QED
      BY <3>1, BoundaryFrame
  <2>9. CASE WritePhase
    <3>1. tree'.stale = tree.stale /\ tree'.objections = tree.objections
          /\ tree'.phase = Successor[handler] /\ step' \notin {"cascade", "phase"}
          /\ tree.phase = handler /\ handler \in ScriptPhases
      BY <2>0, <2>9 DEF WritePhase, Tree
    <3>2. CASE handler = "git-commit-triage"
      <4>1. ~tree.stale /\ tree.objections = 0
        BY <2>9, <3>2 DEF WritePhase, Boundary
      <4> QED
        BY <3>1, <4>1 DEF Boundary, CascadedBeforeWork, ObjectionsFresh
    <3>3. CASE handler = "git-commit-reflect"
      BY <3>1, <3>3 DEF Boundary, CascadedBeforeWork, ObjectionsFresh, Successor
    <3>4. CASE handler \in {"git-commit-work", "git-commit-analyse-work"}
      <4>1. cycle' = cycle
        BY <2>9, <3>4 DEF WritePhase
      <4> QED
        BY <3>1, <3>4, <4>1, BoundaryFrame
    <3> QED
      BY <3>1, <3>2, <3>3, <3>4
  <2>10. CASE ConsumeSpec \/ SaveBaseline
    <3>1. tree'.stale = tree.stale /\ tree'.phase = tree.phase
          /\ tree'.objections = tree.objections
      <4>1. CASE ConsumeSpec
        BY <2>0, <4>1 DEF ConsumeSpec, Tree
      <4>2. CASE SaveBaseline
        BY <4>2, SavedType, SuccessorType DEF SaveBaseline
      <4> QED
        BY <2>10, <4>1, <4>2
    <3>2. cycle' = cycle /\ step' \notin {"cascade", "phase"}
      BY <2>10 DEF ConsumeSpec, SaveBaseline
    <3> QED
      BY <3>1, <3>2, BoundaryFrame
  <2>11. CASE Crash
    <3>1. step' = "off" /\ cycle' = cycle
      BY <2>11 DEF Crash, Exit
    <3>2. tree'.stale = tree.stale /\ tree'.phase \in {tree.phase, Torn}
          /\ tree'.objections = tree.objections
      BY <2>0, <2>11 DEF Crash, Tree
    <3> QED
      BY <3>1, <3>2, BoundaryFrame
  <2>12. CASE UNCHANGED vars
    BY <2>12 DEF vars, volatile, Boundary, CascadedBeforeWork, ObjectionsFresh
  <2> QED
    BY <2>2, <2>3, <2>4, <2>5, <2>6, <2>7, <2>8, <2>9, <2>10, <2>11, <2>12
       DEF Next, Runner, Handler, Idle
<1> QED
  BY <1>1, <1>2, TypeControl, PTL DEF Spec

\* CascadedBeforeWork: whatever dies between the cascade, write_phase and the
\* commits, no phase after triage runs on items whose intents are defeated.
THEOREM CascadeRunsFirst == Spec => []CascadedBeforeWork
BY BoundaryInductive, PTL

\* ObjectionsFresh: whatever dies at the triage boundary, no objection triage
\* has read is read again by a later triage.
THEOREM ObjectionsAreFresh == Spec => []ObjectionsFresh
BY BoundaryInductive, PTL

\* TriageTakesEffect: both, wherever the runner dies and is run again.
THEOREM TriageIsEffective == Spec => []TriageTakesEffect
<1>1. CascadedBeforeWork /\ ObjectionsFresh => TriageTakesEffect
  BY DEF TriageTakesEffect
<1> QED
  BY <1>1, CascadeRunsFirst, ObjectionsAreFresh, PTL

-----------------------------------------------------------------------------
(* The end of a cycle                                                      *)

\* CleanAtCycleEnd: when the user is asked whether to go round again after
\* git-commit-reflect, its two commits hold the whole plan directory.
THEOREM CycleEndsClean == Spec => []CleanAtCycleEnd
<1>1. Init => CleanAtCycleEnd
  BY DEF Init, CleanAtCycleEnd
<1>2. IInv /\ CleanAtCycleEnd /\ [Next]_vars => CleanAtCycleEnd'
  <2> SUFFICES ASSUME Control, CleanAtCycleEnd, [Next]_vars,
                      step' = "confirm", handler' = "git-commit-reflect", ~CommitMayFail
               PROVE  tree' = headTree'
    BY DEF IInv, CleanAtCycleEnd
  <2>1. CASE CommitBaseline
    BY <2>1 DEF CommitBaseline, GitCommitPlan, GitCommit
  <2>2. CASE AgentExit
    BY <2>2 DEF AgentExit, Control
  <2>3. CASE AgentStep
    BY <2>3, AgentFrame
  <2>4. CASE UNCHANGED vars
    BY <2>4 DEF vars, volatile, CleanAtCycleEnd
  <2>5. CASE \/ Start \/ Confirm \/ BeginScript \/ BeginLlm \/ ReadPhaseFails \/ Crash
             \/ ConsumeObjections \/ CascadeDefeated \/ AppendSessionLog \/ WritePhase
             \/ CommitPhase \/ ConsumeSpec \/ StageEntry \/ BailUnmounted \/ CommitEntry
             \/ SpecApplied \/ SaveBaseline
    BY <2>5 DEF Start, Confirm, BeginScript, BeginLlm, ReadPhaseFails, Crash, Exit,
       ConsumeObjections, CascadeDefeated, AppendSessionLog, WritePhase, CommitPhase,
       ConsumeSpec, StageEntry, BailUnmounted, CommitEntry, SpecApplied, SaveBaseline
  <2> QED
    BY <2>1, <2>2, <2>3, <2>4, <2>5 DEF Next, Runner, Handler, Idle
<1> QED
  BY <1>1, <1>2, TypeControl, PTL DEF Spec

-----------------------------------------------------------------------------
(* A run that nobody kills and whose commits git makes                     *)

Undisturbed == MaxCrashes = 0 /\ ~CommitMayFail

\* The work agent asks for the boundary that the loop has for it
\* (src/phase_loop.rs); the shipped prompt goes straight to analyse-work.
AsksForItsBoundary == WorkNext \subseteq {"git-commit-work"}

\* commits.yaml names targets that are mounted; its pathspecs match something.
Applicable(entries) ==
  \A i \in DOMAIN entries : entries[i].target \in Mounted \cup {Context}
SpecsAreApplicable == \A s \in Specs : Applicable(s)
Matching(entries) == \A i \in DOMAIN entries : ~entries[i].bad
SpecsMatch == \A s \in Specs : Matching(s)

\* The context's last commit is what HEAD holds.
HeadIsLast ==
  /\ history # <<>>
  /\ history[Len(history)].edits = headTree.edits

\* The baseline of phase p names a commit with the last edits of others.
Based(p, others) ==
  /\ tree.base[p].sha \in DOMAIN history
  /\ \A q \in others : history[tree.base[p].sha].edits[q] = tree.edits[q]

\* A boundary's first commit takes the plan directory; its baseline, saved
\* next, names that commit until the phase comes round again.
Baselines ==
  /\ HeadIsLast
  /\ step = "save" /\ handler # "git-commit-analyse-work" => headTree.edits = tree.edits
  /\ /\ tree.phase \in {"work", "git-commit-work", "analyse-work", "git-commit-analyse-work"}
     /\ ~(handler = "git-commit-triage" /\ step \in {"commit", "save"})
     => tree.base["work"].exists /\ Based("work", {"triage"})
  /\ /\ tree.phase \in {"triage", "git-commit-triage"}
     /\ ~(handler = "git-commit-reflect" /\ step \in {"commit", "save"})
     => tree.base["triage"].sha = 0 \/ Based("triage", LlmPhases \ {"triage"})

\* commits.yaml is there only between its writing and its consumption.
SpecFresh ==
  /\ tree.spec.cycle \in {0, cycle}
  /\ tree.phase \notin {"analyse-work", "git-commit-analyse-work"} /\ step # "spec"
     => tree.spec.cycle = 0
  /\ SpecIsCurrent

\* The index is empty but between git add and git commit of an entry.
IndexEmpty ==
  /\ step # "entry" => \A p \in Paths : src[p] \in {"clean", "dirty"}
  /\ step = "entry" =>
       \A p \in Paths :
         IF RepoOf[p] = Head(queue.entries).target
         THEN src[p] \in {"clean", "dirty", "staged"} ELSE src[p] \in {"clean", "dirty"}
  /\ PlanCommitsScoped

\* What work left in the plan directory is in HEAD once its boundary is crossed.
WorkIsHeld ==
  tree.phase \in {"analyse-work", "git-commit-analyse-work"} /\ step # "commit"
  => headTree.edits["work"] = tree.edits["work"]

\* HEAD records the phase an agent may be started in.
HandlerSteps == {"commit", "spec", "stage", "entry", "save", "commitsave"}
Recorded ==
  tree.phase \in LlmPhases /\ step \notin HandlerSteps => headTree.phase = tree.phase

\* Every target in commits.yaml and in what is left of it is mounted.
QueueApplies ==
  /\ Applicable(tree.spec.entries)
  /\ step \in {"stage", "entry"} => Applicable(queue.entries)

\* What the consumed spec promised is committed or still ahead; an entry's
\* paths are staged before it is committed.
OwedAhead ==
  /\ Matching(tree.spec.entries)
  /\ step \in {"stage", "entry"} => Matching(queue.entries)
  /\ step \notin {"stage", "entry"} => owed = {}
  /\ step \in {"stage", "entry"} =>
       \A p \in owed : p \in Promised(queue.entries) /\ src[p] # "clean"
  /\ step = "entry" =>
       \A p \in owed : p \in Head(queue.entries).paths /\ RepoOf[p] = Head(queue.entries).target
                       => src[p] = "staged"

-----------------------------------------------------------------------------
(* What the steps do to the plan directory, by the fields the invariants   *)
(* below read.                                                             *)

QuietStep == Start \/ Confirm \/ BeginScript \/ ReadPhaseFails \/ AgentExit
PlainStep == ConsumeObjections \/ CascadeDefeated \/ AppendSessionLog

\* With no death, a step is one of these.
LEMMA StepOfTheRun ==
  ASSUME TypeOK, MaxCrashes = 0, [Next]_vars
  PROVE  \/ QuietStep \/ PlainStep \/ BeginLlm \/ AgentStep \/ WritePhase
         \/ ConsumeSpec \/ StageEntry \/ BailUnmounted \/ CommitPhase
         \/ CommitEntry \/ SpecApplied \/ SaveBaseline \/ CommitBaseline
         \/ UNCHANGED vars
<1>1. ~Crash
  BY DEF Crash, TypeOK
<1> QED
  BY <1>1 DEF Next, Runner, Handler, Idle, QuietStep, PlainStep

\* The steps between phases write nothing on disk and end outside a boundary's
\* second half.
LEMMA QuietEffects ==
  ASSUME Control, QuietStep
  PROVE  /\ UNCHANGED <<tree, headTree, history, src, cycle, owed>>
         /\ step \notin HandlerSteps
         /\ step' \notin HandlerSteps
  BY DEF QuietStep, Start, Confirm, Exit, BeginScript, ReadPhaseFails, AgentExit,
     HandlerSteps

\* Consuming objections, cascading and logging the session leave the rest of
\* the plan directory alone.
LEMMA PlainEffects ==
  ASSUME TypeOK, Control, PlainStep
  PROVE  /\ UNCHANGED <<headTree, history, src, cycle, owed, queue, handler>>
         /\ tree'.phase = tree.phase /\ tree'.edits = tree.edits
         /\ tree'.spec = tree.spec /\ tree'.base = tree.base
         /\ tree.phase \in ScriptPhases
         /\ step \notin HandlerSteps
         /\ step' \notin HandlerSteps
<1> tree \in Tree
  BY DEF TypeOK
<1>1. CASE ConsumeObjections
  BY <1>1 DEF ConsumeObjections, Tree, volatile, Control, HandlerSteps
<1>2. CASE CascadeDefeated
  BY <1>2 DEF CascadeDefeated, Tree, volatile, Control, HandlerSteps
<1>3. CASE AppendSessionLog
  BY <1>3 DEF AppendSessionLog, Tree, volatile, Control, HandlerSteps
<1> QED
  BY <1>1, <1>2, <1>3 DEF PlainStep

\* Starting an agent may seed work-baseline with HEAD.
LEMMA BeginEffects ==
  ASSUME TypeOK, Control, BeginLlm
  PROVE  /\ UNCHANGED <<headTree, history, src, cycle, owed, queue>>
         /\ tree'.phase = tree.phase /\ tree'.edits = tree.edits
         /\ tree'.spec = tree.spec
         /\ (tree.phase = "work" /\ ~tree.base["work"].exists) \/ tree'.base = tree.base
         /\ tree.phase \in LlmPhases
         /\ step = "top" /\ step' = "agent" /\ handler' = None
<1> tree \in Tree
  BY DEF TypeOK
<1> QED
  BY DEF BeginLlm, Saved, Tree

\* An agent writes its own phase's edits, the spec in analyse-work, the phase
\* it asks for, and source files; it stages nothing.
LEMMA AgentEffects ==
  ASSUME TypeOK, Control, AgentStep
  PROVE  /\ step = "agent" /\ step' = "agent"
         /\ UNCHANGED <<headTree, history, cycle, owed, queue, handler, running>>
         /\ tree'.base = tree.base
         /\ \A q \in LlmPhases \ {running} : tree'.edits[q] = tree.edits[q]
         /\ \/ tree'.phase = tree.phase
            \/ tree.phase = running /\ tree'.phase \in AgentNext(running)
         /\ \/ tree'.spec = tree.spec
            \/ /\ running = "analyse-work"
               /\ tree'.phase = tree.phase
               /\ tree'.spec.cycle = cycle /\ tree'.spec.entries \in Specs
         /\ \A p \in Paths : src[p] \in {"clean", "dirty"} => src'[p] \in {"clean", "dirty"}
<1>0. tree \in Tree /\ src \in [Paths -> {"clean", "dirty", "staged", "both"}]
  BY DEF TypeOK
<1>1. CASE EditPlan
  BY <1>0, <1>1 DEF EditPlan, AgentOnly, Tree, volatile
<1>2. CASE DefeatIntent \/ WorkObject \/ SetLatestSession
  BY <1>0, <1>2 DEF DefeatIntent, WorkObject, SetLatestSession, Agent, AgentOnly, Tree, volatile
<1>3. CASE \E p \in Paths : WorkEditSource(p)
  BY <1>0, <1>3 DEF WorkEditSource, Agent, AgentOnly, volatile
<1>4. CASE \E p \in Paths : RevertSource(p)
  BY <1>0, <1>4 DEF RevertSource, Agent, AgentOnly, volatile
<1>5. CASE \E s \in Specs : WriteSpec(s)
  BY <1>0, <1>5 DEF WriteSpec, Agent, AgentOnly, Tree, volatile
<1>6. CASE \E q \in Phases : SetPhase(q)
  BY <1>0, <1>6 DEF SetPhase, AgentOnly, Tree, volatile
<1> QED
  BY <1>1, <1>2, <1>3, <1>4, <1>5, <1>6 DEF AgentStep

\* write_phase changes phase.md, and ends the cycle after reflect.
LEMMA WriteEffects ==
  ASSUME TypeOK, Control, WritePhase
  PROVE  /\ UNCHANGED <<headTree, history, src, owed, queue, handler>>
         /\ tree'.edits = tree.edits /\ tree'.spec = tree.spec /\ tree'.base = tree.base
         /\ tree.phase = handler /\ handler \in ScriptPhases
         /\ tree'.phase = Successor[handler]
         /\ step = "phase"
         /\ step' = IF handler = "git-commit-analyse-work" THEN "spec" ELSE "commit"
         /\ cycle' = IF handler = "git-commit-reflect" THEN cycle + 1 ELSE cycle
<1> tree \in Tree
  BY DEF TypeOK
<1> QED
  BY DEF WritePhase, Tree, volatile, Control

\* Consuming commits.yaml deletes it and queues its entries, or the catch-all.
LEMMA ConsumeEffects ==
  ASSUME TypeOK, Control, ConsumeSpec
  PROVE  /\ UNCHANGED <<headTree, history, src, cycle, handler>>
         /\ tree'.phase = tree.phase /\ tree'.edits = tree.edits /\ tree'.base = tree.base
         /\ tree'.spec = NoSpec
         /\ tree.phase = "reflect" /\ handler = "git-commit-analyse-work"
         /\ step = "spec" /\ step' = "stage"
         /\ queue'.cycle = tree.spec.cycle
         /\ queue'.entries \in {CatchAll, tree.spec.entries}
         /\ owed' = {p \in Promised(queue'.entries) : src[p] # "clean"}
<1> tree \in Tree
  BY DEF TypeOK
<1> QED
  BY DEF ConsumeSpec, Tree, Control, Successor

\* Saving a baseline names HEAD's commit and changes nothing else.
LEMMA SaveEffects ==
  ASSUME TypeOK, Control, SaveBaseline
  PROVE  /\ UNCHANGED <<headTree, history, src, cycle, owed, queue, handler>>
         /\ tree'.phase = tree.phase /\ tree'.edits = tree.edits /\ tree'.spec = tree.spec
         /\ handler \in ScriptPhases /\ tree.phase = Successor[handler]
         /\ tree'.base = [tree.base EXCEPT ![Successor[handler]] =
                            [exists |-> TRUE, sha |-> Len(history)]]
         /\ step = "save" /\ step' = "commitsave"
<1> tree \in Tree
  BY DEF TypeOK
<1> QED
  BY SuccessorType DEF SaveBaseline, Saved, HeadSha, Tree, Control, volatile

\* A commit that git makes takes the index, and the plan directory if asked.
LEMMA CommitWorks ==
  ASSUME TypeOK, ~CommitMayFail, NEW r \in Repos, NEW withPlan \in BOOLEAN,
         NEW label \in Phases \cup {None, "spec"},
         GitCommit(r, withPlan, label)
  PROVE  /\ headTree' = IF withPlan THEN tree ELSE headTree
         /\ src' = AfterCommit(Staged(r))
         /\ owed' = owed \ Staged(r)
         /\ \/ history' = history /\ (r = Context => headTree' = headTree)
            \/ /\ r = Context
               /\ history' = Append(history, [label |-> label, edits |-> headTree'.edits,
                                              paths |-> Staged(r)])
<1>1. Staged(r) = {} => src = AfterCommit(Staged(r)) /\ owed = owed \ Staged(r)
  BY DEF AfterCommit, TypeOK
<1> QED
  BY <1>1 DEF GitCommit

\* The history stays HEAD's, and keeps the commits it has.
LEMMA CommitHistory ==
  ASSUME TypeOK, ~CommitMayFail, HeadIsLast,
         NEW r \in Repos, NEW withPlan \in BOOLEAN, r # Context => ~withPlan,
         NEW label \in Phases \cup {None, "spec"},
         GitCommit(r, withPlan, label)
  PROVE  /\ HeadIsLast'
         /\ \A i \in DOMAIN history : i \in DOMAIN history' /\ history'[i] = history[i]
<1> DEFINE c == [label |-> label, edits |-> headTree'.edits, paths |-> Staged(r)]
<1>1. history \in Seq(Commit) /\ history' \in Seq(Commit) /\ headTree' \in Tree
  BY GitCommitType DEF TypeOK
<1>2. CASE history' = history /\ headTree' = headTree
  BY <1>2 DEF HeadIsLast
<1>3. CASE history' = Append(history, c)
  <2>1. c.edits = headTree'.edits
    OBVIOUS
  <2>2. Len(history') = Len(history) + 1 /\ history'[Len(history) + 1] = c
    BY <1>1, <1>3
  <2>3. \A i \in 1 .. Len(history) : history'[i] = history[i]
    BY <1>1, <1>3
  <2>4. DOMAIN history = 1 .. Len(history) /\ DOMAIN history' = 1 .. Len(history) + 1
    BY <1>1, <2>2
  <2> HIDE DEF c
  <2> QED
    BY <1>1, <2>1, <2>2, <2>3, <2>4 DEF HeadIsLast
<1> QED
  BY <1>2, <1>3, CommitWorks

-----------------------------------------------------------------------------
(* Baselines                                                               *)

\* A baseline that names a commit still does when the history grows and the
\* others' edits stay.
LEMMA BasedStays ==
  ASSUME NEW p \in LlmPhases, NEW others \in SUBSET LlmPhases,
         Based(p, others), tree'.base[p] = tree.base[p],
         \A q \in others : tree'.edits[q] = tree.edits[q],
         \A i \in DOMAIN history : i \in DOMAIN history' /\ history'[i] = history[i]
  PROVE  Based(p, others)'
  BY DEF Based

\* Baselines is inductive when no death leaves a boundary half crossed and git
\* makes the commits it is asked for.
LEMMA BaselinesInductive ==
  ASSUME Undisturbed
  PROVE  Spec => []Baselines
<1>1. Init => Baselines
  BY DEF Init, FirstTree, Baselines, HeadIsLast
<1>2. IInv /\ Baselines /\ [Next]_vars => Baselines'
  <2> SUFFICES ASSUME TypeOK, Control, Baselines, [Next]_vars
               PROVE  Baselines'
    BY DEF IInv
  <2> USE DEF HandlerSteps
  <2>0. /\ MaxCrashes = 0 /\ ~CommitMayFail /\ HeadIsLast
        /\ tree \in Tree /\ history \in Seq(Commit)
    BY DEF Undisturbed, TypeOK, Baselines
  <2>1. CASE QuietStep
    <3>1. /\ UNCHANGED <<tree, headTree, history>>
          /\ step \notin {"commit", "save"} /\ step' \notin {"commit", "save"}
      BY <2>1, QuietEffects
    <3> QED
      BY <3>1 DEF Baselines, HeadIsLast, Based
  <2>2. CASE PlainStep
    <3>1. /\ UNCHANGED <<headTree, history>>
          /\ tree'.phase = tree.phase /\ tree'.edits = tree.edits /\ tree'.base = tree.base
          /\ step \notin {"commit", "save"} /\ step' \notin {"commit", "save"}
      BY <2>2, PlainEffects
    <3> QED
      BY <3>1 DEF Baselines, HeadIsLast, Based
  <2>3. CASE BeginLlm
    <3>1. /\ UNCHANGED <<headTree, history>>
          /\ tree'.phase = tree.phase /\ tree'.edits = tree.edits
          /\ (tree.phase = "work" /\ ~tree.base["work"].exists) \/ tree'.base = tree.base
          /\ step = "top" /\ step' = "agent"
      BY <2>3, BeginEffects
    <3>2. tree'.base = tree.base
      BY <3>1 DEF Baselines
    <3> QED
      BY <3>1, <3>2 DEF Baselines, HeadIsLast, Based
  <2>4. CASE AgentStep
    <3>1. /\ step = "agent" /\ step' = "agent" /\ UNCHANGED <<headTree, history>>
          /\ tree'.base = tree.base
          /\ \A q \in LlmPhases \ {running} : tree'.edits[q] = tree.edits[q]
          /\ \/ tree'.phase = tree.phase
             \/ tree.phase = running /\ tree'.phase \in AgentNext(running)
      BY <2>4, AgentEffects
    <3>2. running \in LlmPhases /\ tree.phase \in {running} \cup AgentNext(running)
      BY <3>1 DEF Control
    <3>3. WorkNext \subseteq {"git-commit-work", "analyse-work"}
      BY WorkAssumption
    <3>4. Based("work", {"triage"}) /\ running # "triage" => Based("work", {"triage"})'
      BY <3>1 DEF Based
    <3>5. Based("triage", LlmPhases \ {"triage"}) /\ running = "triage"
          => Based("triage", LlmPhases \ {"triage"})'
      BY <3>1 DEF Based
    <3>6. CASE running = "triage"
      BY <3>1, <3>2, <3>5, <3>6 DEF Baselines, HeadIsLast, AgentNext
    <3>7. CASE running \in {"work", "analyse-work"}
      BY <3>1, <3>2, <3>3, <3>4, <3>7 DEF Baselines, HeadIsLast, AgentNext
    <3>8. CASE running = "reflect"
      BY <3>1, <3>2, <3>8 DEF Baselines, HeadIsLast, AgentNext
    <3> QED
      BY <3>2, <3>6, <3>7, <3>8
  <2>5. CASE WritePhase
    <3>1. /\ UNCHANGED <<headTree, history, handler>>
          /\ tree'.edits = tree.edits /\ tree'.base = tree.base
          /\ tree.phase = handler /\ handler \in ScriptPhases
          /\ tree'.phase = Successor[handler]
          /\ step = "phase" /\ step' \in {"spec", "commit"}
          /\ handler # "git-commit-analyse-work" => step' = "commit"
      BY <2>5, WriteEffects
    <3> QED
      BY <3>1 DEF Baselines, HeadIsLast, Based, Successor
  <2>6. CASE ConsumeSpec \/ StageEntry \/ BailUnmounted \/ SpecApplied
    <3>1. handler = "git-commit-analyse-work" /\ tree.phase = "reflect"
      BY <2>6 DEF ConsumeSpec, StageEntry, BailUnmounted, SpecApplied, Control, Successor
    <3>2. tree'.phase = tree.phase
      BY <2>0, <2>6, ConsumeEffects DEF StageEntry, BailUnmounted, SpecApplied
    <3>3. UNCHANGED <<headTree, history>> /\ (step' = "save" => handler' = handler)
      BY <2>6 DEF ConsumeSpec, StageEntry, BailUnmounted, SpecApplied, volatile, Exit
    <3> QED
      BY <3>1, <3>2, <3>3 DEF Baselines, HeadIsLast
  <2>7. CASE CommitPhase \/ CommitBaseline
    <3>1. /\ GitCommitPlan /\ UNCHANGED <<tree, handler>>
          /\ \/ step = "commit" /\ step' = "save"
             \/ step = "commitsave" /\ step' \in {"confirm", "top"}
      BY <2>7 DEF CommitPhase, CommitBaseline, volatile
    <3>2. handler \in Phases \cup {None, "spec"} /\ Context \in Repos
      BY PathAssumption DEF TypeOK
    <3>3. headTree' = tree
      BY <2>0, <3>1, <3>2, CommitWorks DEF GitCommitPlan
    <3>4. HeadIsLast' /\ \A i \in DOMAIN history : i \in DOMAIN history' /\ history'[i] = history[i]
      BY <2>0, <3>1, <3>2, CommitHistory DEF GitCommitPlan
    <3>5. Based("work", {"triage"}) => Based("work", {"triage"})'
      BY <3>1, <3>4, BasedStays
    <3>6. Based("triage", LlmPhases \ {"triage"}) => Based("triage", LlmPhases \ {"triage"})'
      BY <3>1, <3>4, BasedStays
    <3>7. HeadIsLast' /\ headTree'.edits = tree'.edits
      BY <3>1, <3>3, <3>4
    <3> QED
      BY <3>1, <3>5, <3>6, <3>7 DEF Baselines
  <2>8. CASE CommitEntry
    <3> DEFINE e == Head(queue.entries)
    <3>1. e \in Entry
      BY <2>8 DEF CommitEntry, TypeOK, Control, Spec0
    <3>2. /\ GitCommit(e.target, e.target = Context /\ e.plan /\ ~e.bad, "spec")
          /\ UNCHANGED tree /\ step' = "stage" /\ step = "entry"
      BY <2>8 DEF CommitEntry
    <3>3. tree.phase = "reflect"
      BY <3>2 DEF Control, Successor
    <3>4. e.target \in Repos /\ (e.target = Context /\ e.plan /\ ~e.bad) \in BOOLEAN
      BY <3>1 DEF Entry
    <3> HIDE DEF e
    <3>5. HeadIsLast'
      BY <2>0, <3>2, <3>4, CommitHistory
    <3> QED
      BY <3>2, <3>3, <3>5 DEF Baselines
  <2>9. CASE SaveBaseline
    <3> DEFINE q == Successor[handler]
    <3>1. /\ UNCHANGED <<headTree, history>>
          /\ tree'.phase = tree.phase /\ tree'.edits = tree.edits
          /\ handler \in ScriptPhases /\ tree.phase = q
          /\ tree'.base = [tree.base EXCEPT ![q] = [exists |-> TRUE, sha |-> Len(history)]]
          /\ step = "save" /\ step' = "commitsave"
      BY <2>9, SaveEffects
    <3>2. tree.base \in [LlmPhases -> Baseline] /\ q \in LlmPhases
      BY <2>0, <3>1, SuccessorType DEF Tree
    <3>3. Len(history) \in DOMAIN history
      BY <2>0 DEF HeadIsLast
    <3>4. q # "reflect" => history[Len(history)].edits = tree.edits
      BY <2>0, <3>1 DEF Baselines, HeadIsLast, Successor
    <3>5. CASE q = "work"
      BY <2>0, <3>1, <3>2, <3>3, <3>4, <3>5 DEF Baselines, HeadIsLast, Based
    <3>6. CASE q = "triage"
      BY <2>0, <3>1, <3>2, <3>3, <3>4, <3>6 DEF Baselines, HeadIsLast, Based
    <3>7. CASE q = "reflect"
      BY <2>0, <3>1, <3>7 DEF Baselines, HeadIsLast
    <3>8. CASE q = "analyse-work"
      <4>1. handler # "git-commit-triage"
        BY <3>1, <3>8 DEF Successor
      <4>2. tree'.base["work"] = tree.base["work"]
        BY <3>1, <3>2, <3>8
      <4> QED
        BY <3>1, <3>8, <4>1, <4>2 DEF Baselines, HeadIsLast, Based
    <3> QED
      BY <3>2, <3>5, <3>6, <3>7, <3>8
  <2>10. CASE UNCHANGED vars
    BY <2>10 DEF vars, volatile, Baselines, HeadIsLast, Based
  <2> QED
    BY <2>0, <2>1, <2>2, <2>3, <2>4, <2>5, <2>6, <2>7, <2>8, <2>9, <2>10, StepOfTheRun
<1> QED
  BY <1>1, <1>2, TypeControl, PTL DEF Spec

\* BaselinesCover, for any number of cycles of a run that is not killed and
\* whose commits git makes: what is shown as the doing of work or of triage
\* holds no edit of another phase.
THEOREM BaselinesAreRight ==
  ASSUME Undisturbed
  PROVE  Spec => []BaselinesCover
<1>1. IInv /\ Baselines => BaselinesCover
  <2> SUFFICES ASSUME TypeOK, Control, Baselines
               PROVE  BaselinesCover
    BY DEF IInv
  <2>1. running # None => step = "agent" /\ tree.phase \in {running} \cup AgentNext(running)
    BY DEF Control
  <2>2. WorkNext \subseteq {"git-commit-work", "analyse-work"}
    BY WorkAssumption
  <2>3. WorkBaselineHasTriage
    BY <2>1, <2>2 DEF WorkBaselineHasTriage, Baselines, Based, AgentNext
  <2>4. TriageBaselineCovers
    BY <2>1 DEF TriageBaselineCovers, BaselineCovers, Baselines, Based, AgentNext
  <2> QED
    BY <2>3, <2>4 DEF BaselinesCover
<1> QED
  BY <1>1, TypeControl, BaselinesInductive, PTL

-----------------------------------------------------------------------------
(* What the commits of a cycle hold                                        *)

\* SpecFresh is inductive when no runner dies between write_phase and the
\* consumption of commits.yaml.
LEMMA SpecFreshInductive ==
  ASSUME MaxCrashes = 0
  PROVE  Spec => []SpecFresh
<1>1. Init => SpecFresh
  BY DEF Init, FirstTree, SpecFresh, SpecIsCurrent, NoSpec
<1>2. IInv /\ SpecFresh /\ [Next]_vars => SpecFresh'
  <2> SUFFICES ASSUME TypeOK, Control, SpecFresh, [Next]_vars
               PROVE  SpecFresh'
    BY DEF IInv
  <2> USE DEF HandlerSteps
  <2>1. CASE QuietStep
    BY <2>1, QuietEffects DEF SpecFresh, SpecIsCurrent
  <2>2. CASE PlainStep
    BY <2>2, PlainEffects DEF SpecFresh, SpecIsCurrent
  <2>3. CASE BeginLlm
    BY <2>3, BeginEffects DEF SpecFresh, SpecIsCurrent
  <2>4. CASE AgentStep
    <3>1. /\ step = "agent" /\ step' = "agent" /\ cycle' = cycle
          /\ \/ tree'.phase = tree.phase
             \/ tree.phase = running /\ tree'.phase \in AgentNext(running)
      BY <2>4, AgentEffects
    <3>4. \/ tree'.spec = tree.spec
          \/ /\ running = "analyse-work"
             /\ tree'.phase = tree.phase
             /\ tree'.spec.cycle = cycle
      BY <2>4, AgentEffects
    <3>2. running \in LlmPhases /\ tree.phase \in {running} \cup AgentNext(running)
      BY <3>1 DEF Control
    <3>3. WorkNext \subseteq {"git-commit-work", "analyse-work"}
      BY WorkAssumption
    <3> QED
      BY <3>1, <3>2, <3>3, <3>4 DEF SpecFresh, SpecIsCurrent, AgentNext
  <2>5. CASE WritePhase
    BY <2>5, WriteEffects DEF SpecFresh, SpecIsCurrent, Successor
  <2>6. CASE ConsumeSpec
    BY <2>6, ConsumeEffects DEF SpecFresh, SpecIsCurrent, NoSpec
  <2>7. CASE StageEntry \/ BailUnmounted \/ SpecApplied
    BY <2>7 DEF StageEntry, BailUnmounted, SpecApplied, Exit, volatile, SpecFresh, SpecIsCurrent
  <2>8. CASE CommitPhase \/ CommitBaseline
    BY <2>8 DEF CommitPhase, CommitBaseline, volatile, SpecFresh, SpecIsCurrent
  <2>9. CASE CommitEntry
    <3>1. /\ UNCHANGED <<tree, cycle>> /\ step = "entry" /\ step' = "stage"
          /\ queue' = [queue EXCEPT !.entries = Tail(@)]
      BY <2>9, Zenon DEF CommitEntry
    <3>2. queue'.cycle = queue.cycle
      BY <3>1 DEF TypeOK, Spec0
    <3> QED
      BY <3>1, <3>2 DEF SpecFresh, SpecIsCurrent
  <2>10. CASE SaveBaseline
    BY <2>10, SaveEffects DEF SpecFresh, SpecIsCurrent
  <2>11. CASE UNCHANGED vars
    BY <2>11 DEF vars, volatile, SpecFresh, SpecIsCurrent
  <2> QED
    BY <2>1, <2>2, <2>3, <2>4, <2>5, <2>6, <2>7, <2>8, <2>9, <2>10, <2>11, StepOfTheRun
<1> QED
  BY <1>1, <1>2, TypeControl, PTL DEF Spec

\* WorkIsHeld is inductive when the work agent asks for git-commit-work and
\* that boundary is crossed whole.
LEMMA WorkIsHeldInductive ==
  ASSUME Undisturbed, AsksForItsBoundary
  PROVE  Spec => []WorkIsHeld
<1>1. Init => WorkIsHeld
  BY DEF Init, FirstTree, WorkIsHeld
<1>2. IInv /\ WorkIsHeld /\ [Next]_vars => WorkIsHeld'
  <2> SUFFICES ASSUME TypeOK, Control, WorkIsHeld, [Next]_vars
               PROVE  WorkIsHeld'
    BY DEF IInv
  <2> USE DEF HandlerSteps
  <2>0. MaxCrashes = 0 /\ ~CommitMayFail
    BY DEF Undisturbed
  <2>1. CASE QuietStep
    BY <2>1, QuietEffects DEF WorkIsHeld
  <2>2. CASE PlainStep
    BY <2>2, PlainEffects DEF WorkIsHeld
  <2>3. CASE BeginLlm
    BY <2>3, BeginEffects DEF WorkIsHeld
  <2>4. CASE AgentStep
    <3>1. /\ step = "agent" /\ step' = "agent" /\ headTree' = headTree
          /\ \A q \in LlmPhases \ {running} : tree'.edits[q] = tree.edits[q]
          /\ \/ tree'.phase = tree.phase
             \/ tree.phase = running /\ tree'.phase \in AgentNext(running)
      BY <2>4, AgentEffects
    <3>2. running \in LlmPhases /\ tree.phase \in {running} \cup AgentNext(running)
      BY <3>1 DEF Control
    <3>3. CASE running = "work"
      BY <3>1, <3>2, <3>3 DEF WorkIsHeld, AgentNext, AsksForItsBoundary
    <3>4. CASE running = "analyse-work"
      BY <3>1, <3>2, <3>4 DEF WorkIsHeld, AgentNext
    <3>5. CASE running \in {"triage", "reflect"}
      BY <3>1, <3>2, <3>5 DEF WorkIsHeld, AgentNext
    <3> QED
      BY <3>2, <3>3, <3>4, <3>5
  <2>5. CASE WritePhase
    BY <2>5, WriteEffects DEF WorkIsHeld, Successor
  <2>6. CASE ConsumeSpec
    BY <2>6, ConsumeEffects DEF WorkIsHeld
  <2>7. CASE StageEntry \/ BailUnmounted \/ SpecApplied
    BY <2>7 DEF StageEntry, BailUnmounted, SpecApplied, Exit, volatile, WorkIsHeld
  <2>8. CASE CommitPhase \/ CommitBaseline
    <3>1. GitCommitPlan /\ UNCHANGED tree
      BY <2>8 DEF CommitPhase, CommitBaseline
    <3>2. handler \in Phases \cup {None, "spec"} /\ Context \in Repos
      BY PathAssumption DEF TypeOK
    <3>3. headTree' = tree
      BY <2>0, <3>1, <3>2, CommitWorks DEF GitCommitPlan
    <3> QED
      BY <3>1, <3>3 DEF WorkIsHeld
  <2>9. CASE CommitEntry
    <3>1. tree.phase = "reflect" /\ UNCHANGED tree
      BY <2>9 DEF CommitEntry, Control, Successor
    <3> QED
      BY <3>1 DEF WorkIsHeld
  <2>10. CASE SaveBaseline
    BY <2>10, SaveEffects DEF WorkIsHeld
  <2>11. CASE UNCHANGED vars
    BY <2>11 DEF vars, volatile, WorkIsHeld
  <2> QED
    BY <2>0, <2>1, <2>2, <2>3, <2>4, <2>5, <2>6, <2>7, <2>8, <2>9, <2>10, <2>11, StepOfTheRun
<1> QED
  BY <1>1, <1>2, TypeControl, PTL DEF Spec

\* A commit that carries no path, or is not a phase's, keeps the phases' clean.
LEMMA ScopedCommit ==
  ASSUME TypeOK, ~CommitMayFail, PlanCommitsScoped,
         NEW r \in Repos, NEW withPlan \in BOOLEAN,
         NEW label \in Phases \cup {None, "spec"},
         label \notin ScriptPhases \/ Staged(r) = {},
         GitCommit(r, withPlan, label)
  PROVE  PlanCommitsScoped'
<1> DEFINE c == [label |-> label, edits |-> headTree'.edits, paths |-> Staged(r)]
<1>1. history' = history \/ history' = Append(history, c)
  BY CommitWorks
<1>2. ASSUME history' = Append(history, c)
      PROVE  PlanCommitsScoped'
  <2>1. history \in Seq(Commit) /\ (c.label \in ScriptPhases => c.paths = {})
    BY DEF TypeOK
  <2> HIDE DEF c
  <2>2. \A i \in DOMAIN history' :
          (i \in DOMAIN history /\ history'[i] = history[i]) \/ history'[i] = c
    <3>1. DOMAIN history' = 1 .. Len(history) + 1 /\ DOMAIN history = 1 .. Len(history)
      BY <1>2, <2>1
    <3>2. \A i \in 1 .. Len(history) : history'[i] = history[i]
      BY <1>2, <2>1
    <3>3. history'[Len(history) + 1] = c
      BY <1>2, <2>1
    <3> QED
      BY <2>1, <3>1, <3>2, <3>3
  <2> QED
    BY <2>1, <2>2 DEF PlanCommitsScoped
<1>3. history' = history => PlanCommitsScoped'
  BY DEF PlanCommitsScoped
<1> QED
  BY <1>1, <1>2, <1>3

\* IndexEmpty is inductive: agents stage nothing, and every git add is
\* followed by the commit of its repository's index.
LEMMA IndexInductive ==
  ASSUME Undisturbed
  PROVE  Spec => []IndexEmpty
<1>1. Init => IndexEmpty
  BY DEF Init, IndexEmpty, PlanCommitsScoped
<1>2. IInv /\ IndexEmpty /\ [Next]_vars => IndexEmpty'
  <2> SUFFICES ASSUME TypeOK, Control, IndexEmpty, [Next]_vars
               PROVE  IndexEmpty'
    BY DEF IInv
  <2> USE DEF HandlerSteps
  <2>0. /\ MaxCrashes = 0 /\ ~CommitMayFail /\ PlanCommitsScoped
        /\ src \in [Paths -> {"clean", "dirty", "staged", "both"}]
    BY DEF Undisturbed, TypeOK, IndexEmpty
  <2>1. CASE UNCHANGED <<src, history>> /\ step # "entry" /\ step' # "entry"
    BY <2>1 DEF IndexEmpty, PlanCommitsScoped
  <2>2. CASE \/ QuietStep \/ PlainStep \/ BeginLlm \/ WritePhase \/ ConsumeSpec
             \/ BailUnmounted \/ SpecApplied \/ SaveBaseline
    <3>1. UNCHANGED <<src, history>> /\ step # "entry" /\ step' # "entry"
      BY <2>2, QuietEffects, PlainEffects, BeginEffects, WriteEffects, ConsumeEffects,
         SaveEffects DEF BailUnmounted, SpecApplied, Exit
    <3> QED
      BY <2>1, <3>1
  <2>3. CASE AgentStep
    <3>1. /\ step = "agent" /\ step' = "agent" /\ history' = history
          /\ \A p \in Paths : src[p] \in {"clean", "dirty"} => src'[p] \in {"clean", "dirty"}
      BY <2>3, AgentEffects
    <3> QED
      BY <3>1 DEF IndexEmpty, PlanCommitsScoped
  <2>4. CASE StageEntry
    <3> DEFINE e == Head(queue.entries)
               paths == IF e.bad THEN {} ELSE e.paths
    <3>1. /\ src' = Restaged(e.target, paths) /\ step = "stage" /\ step' = "entry"
          /\ UNCHANGED <<queue, history>>
      BY <2>4 DEF StageEntry, volatile
    <3> HIDE DEF e, paths
    <3>2. \A p \in Paths : src[p] \in {"clean", "dirty"}
      BY <3>1 DEF IndexEmpty
    <3>3. \A p \in Paths :
            IF RepoOf[p] = e.target
            THEN src'[p] \in {"clean", "dirty", "staged"} ELSE src'[p] \in {"clean", "dirty"}
      BY <3>1, <3>2 DEF Restaged
    <3>4. Head(queue'.entries).target = e.target
      BY <3>1 DEF e
    <3> QED
      BY <2>0, <3>1, <3>3, <3>4 DEF IndexEmpty, PlanCommitsScoped
  <2>5. CASE CommitPhase \/ CommitBaseline
    <3>1. GitCommitPlan /\ step # "entry" /\ step' # "entry"
      BY <2>5 DEF CommitPhase, CommitBaseline
    <3>2. handler \in Phases \cup {None, "spec"} /\ Context \in Repos
      BY PathAssumption DEF TypeOK
    <3>3. \A p \in Paths : src[p] \in {"clean", "dirty"}
      BY <3>1 DEF IndexEmpty
    <3>4. Staged(Context) = {}
      BY <3>3 DEF Staged
    <3>5. src' = AfterCommit(Staged(Context))
      BY <2>0, <3>1, <3>2, CommitWorks DEF GitCommitPlan
    <3>6. src' = src
      BY <2>0, <3>4, <3>5 DEF AfterCommit
    <3>7. PlanCommitsScoped'
      BY <2>0, <3>1, <3>2, <3>4, ScopedCommit DEF GitCommitPlan
    <3> QED
      BY <3>1, <3>3, <3>6, <3>7 DEF IndexEmpty
  <2>6. CASE CommitEntry
    <3> DEFINE e == Head(queue.entries)
    <3>1. e \in Entry
      BY <2>6 DEF CommitEntry, TypeOK, Control, Spec0
    <3>2. /\ GitCommit(e.target, e.target = Context /\ e.plan /\ ~e.bad, "spec")
          /\ step' = "stage" /\ step = "entry"
      BY <2>6 DEF CommitEntry
    <3>3. e.target \in Repos /\ (e.target = Context /\ e.plan /\ ~e.bad) \in BOOLEAN
      BY <3>1 DEF Entry
    <3>4. \A p \in Paths :
            IF RepoOf[p] = e.target
            THEN src[p] \in {"clean", "dirty", "staged"} ELSE src[p] \in {"clean", "dirty"}
      BY <3>2 DEF IndexEmpty
    <3> HIDE DEF e
    <3>5. PlanCommitsScoped' /\ src' = AfterCommit(Staged(e.target))
      BY <2>0, <3>2, <3>3, CommitWorks, ScopedCommit
    <3>6. \A p \in Paths : src'[p] \in {"clean", "dirty"}
      BY <3>4, <3>5 DEF AfterCommit, Staged
    <3> QED
      BY <3>2, <3>5, <3>6 DEF IndexEmpty
  <2>7. CASE UNCHANGED vars
    BY <2>7 DEF vars, volatile, IndexEmpty, PlanCommitsScoped
  <2> QED
    BY <2>0, <2>2, <2>3, <2>4, <2>5, <2>6, <2>7, StepOfTheRun
<1> QED
  BY <1>1, <1>2, TypeControl, PTL DEF Spec

\* CommitsAreRight, for any number of cycles of such a run whose work agent
\* asks for its boundary: a plan-state commit carries no source path, the spec
\* applied is this cycle's, and analyse-work finds work's edits in HEAD.
THEOREM CommitsHoldTheCycle ==
  ASSUME Undisturbed, AsksForItsBoundary
  PROVE  Spec => []CommitsAreRight
<1>0. MaxCrashes = 0
  BY DEF Undisturbed
<1>1. IInv /\ SpecFresh /\ WorkIsHeld /\ IndexEmpty => CommitsAreRight
  <2> SUFFICES ASSUME TypeOK, Control, SpecFresh, WorkIsHeld, IndexEmpty
               PROVE  CommitsAreRight
    BY DEF IInv
  <2>1. PlanCommitsScoped /\ SpecIsCurrent
    BY DEF IndexEmpty, SpecFresh
  <2>2. running = "analyse-work"
        => step = "agent" /\ tree.phase \in {"analyse-work", "git-commit-analyse-work"}
    BY DEF Control, AgentNext
  <2>3. WorkCommitted
    BY <2>2 DEF WorkCommitted, WorkIsHeld
  <2> QED
    BY <2>1, <2>3 DEF CommitsAreRight
<1>2. Spec => []SpecFresh
  BY <1>0, SpecFreshInductive
<1> QED
  BY <1>1, <1>2, TypeControl, WorkIsHeldInductive, IndexInductive, PTL

-----------------------------------------------------------------------------
(* The refinement of PlanCycle                                             *)

\* Taking the first entry of a list of entries off it.
LEMMA TailOfEntries ==
  ASSUME NEW q \in Seq(Entry), q # <<>>
  PROVE  /\ Applicable(q) => Applicable(Tail(q))
         /\ Matching(q) => Matching(Tail(q))
         /\ \A p \in Promised(q) :
              \/ p \in Promised(Tail(q))
              \/ p \in Head(q).paths /\ RepoOf[p] = Head(q).target
<1>1. /\ Len(q) \in Nat /\ Len(q) > 0
      /\ Tail(q) \in Seq(Entry) /\ Len(Tail(q)) = Len(q) - 1
      /\ \A i \in 1 .. Len(q) - 1 : Tail(q)[i] = q[i + 1]
      /\ Head(q) = q[1]
      /\ DOMAIN q = 1 .. Len(q) /\ DOMAIN Tail(q) = 1 .. Len(q) - 1
  OBVIOUS
<1>2. \A i \in DOMAIN Tail(q) : i + 1 \in DOMAIN q /\ Tail(q)[i] = q[i + 1]
  BY <1>1
<1>3. \A i \in DOMAIN q : i = 1 \/ (i - 1 \in DOMAIN Tail(q) /\ Tail(q)[i - 1] = q[i])
  BY <1>1
<1>4. Applicable(q) => Applicable(Tail(q))
  BY <1>2 DEF Applicable
<1>5. Matching(q) => Matching(Tail(q))
  BY <1>2 DEF Matching
<1>6. ASSUME NEW p \in Promised(q)
      PROVE  \/ p \in Promised(Tail(q))
             \/ p \in Head(q).paths /\ RepoOf[p] = Head(q).target
  <2>1. PICK i \in DOMAIN q : p \in q[i].paths /\ RepoOf[p] = q[i].target
    BY DEF Promised
  <2>2. p \in Paths
    BY DEF Promised
  <2>3. CASE i = 1
    BY <1>1, <2>1, <2>3
  <2>4. CASE i - 1 \in DOMAIN Tail(q) /\ Tail(q)[i - 1] = q[i]
    <3>1. p \in Tail(q)[i - 1].paths /\ RepoOf[p] = Tail(q)[i - 1].target
      BY <2>1, <2>4
    <3> QED
      BY <2>2, <2>4, <3>1 DEF Promised
  <2> QED
    BY <1>3, <2>3, <2>4
<1> QED
  BY <1>4, <1>5, <1>6

\* No entry and the catch-all name only what is mounted, and match.
LEMMA NoEntries == Applicable(<<>>) /\ Matching(<<>>)
  BY DEF Applicable, Matching

\* The catch-all names the context, which is always mounted.
LEMMA CatchAllApplies == Applicable(CatchAll) /\ Matching(CatchAll)
<1> DEFINE c == [target |-> Context, paths |-> {p \in Paths : RepoOf[p] = Context},
                 plan |-> TRUE, bad |-> FALSE]
<1>1. c.target = Context /\ ~c.bad
  OBVIOUS
<1>2. CatchAll = <<c>>
  BY DEF CatchAll
<1> HIDE DEF c
<1>3. \A i \in DOMAIN CatchAll : CatchAll[i] = c
  BY <1>2
<1> QED
  BY <1>1, <1>3 DEF Applicable, Matching

\* QueueApplies is inductive when what analyse-work writes is applicable.
LEMMA QueueAppliesInductive ==
  ASSUME MaxCrashes = 0, SpecsAreApplicable
  PROVE  Spec => []QueueApplies
<1>1. Init => QueueApplies
  BY NoEntries DEF Init, FirstTree, QueueApplies, NoSpec
<1>2. IInv /\ QueueApplies /\ [Next]_vars => QueueApplies'
  <2> SUFFICES ASSUME TypeOK, Control, QueueApplies, [Next]_vars
               PROVE  QueueApplies'
    BY DEF IInv
  <2> USE DEF HandlerSteps
  <2>1. CASE QuietStep \/ PlainStep \/ BeginLlm \/ WritePhase \/ SaveBaseline
    <3>1. tree'.spec = tree.spec /\ step' \notin {"stage", "entry"}
      BY <2>1, QuietEffects, PlainEffects, BeginEffects, WriteEffects, SaveEffects
    <3> QED
      BY <3>1 DEF QueueApplies
  <2>2. CASE AgentStep
    <3>1. step' = "agent"
          /\ (tree'.spec = tree.spec \/ tree'.spec.entries \in Specs)
      BY <2>2, AgentEffects
    <3> QED
      BY <3>1 DEF QueueApplies, SpecsAreApplicable
  <2>3. CASE ConsumeSpec
    <3>1. tree'.spec = NoSpec /\ queue'.entries \in {CatchAll, tree.spec.entries}
      BY <2>3, ConsumeEffects
    <3> QED
      BY <3>1, NoEntries, CatchAllApplies DEF QueueApplies, NoSpec
  <2>4. CASE StageEntry \/ SpecApplied \/ BailUnmounted
    BY <2>4 DEF StageEntry, SpecApplied, BailUnmounted, Exit, volatile, QueueApplies
  <2>5. CASE CommitPhase \/ CommitBaseline
    BY <2>5 DEF CommitPhase, CommitBaseline, QueueApplies
  <2>6. CASE CommitEntry
    <3>1. /\ UNCHANGED tree /\ step = "entry"
          /\ queue' = [queue EXCEPT !.entries = Tail(@)]
      BY <2>6 DEF CommitEntry
    <3>2. queue'.entries = Tail(queue.entries) /\ queue.entries \in Seq(Entry)
      BY <3>1 DEF TypeOK, Spec0
    <3>3. Applicable(queue.entries) /\ queue.entries # <<>>
      BY <3>1 DEF QueueApplies, Control
    <3> QED
      BY <3>1, <3>2, <3>3, TailOfEntries DEF QueueApplies
  <2>7. CASE UNCHANGED vars
    BY <2>7 DEF vars, volatile, QueueApplies
  <2> QED
    BY <2>1, <2>2, <2>3, <2>4, <2>5, <2>6, <2>7, StepOfTheRun
<1> QED
  BY <1>1, <1>2, TypeControl, PTL DEF Spec

\* No entry of an applicable queue ends the run.
LEMMA NoBail ==
  ASSUME TypeOK, QueueApplies
  PROVE  ~BailUnmounted
<1> SUFFICES ASSUME BailUnmounted PROVE FALSE
  OBVIOUS
<1>1. step = "stage" /\ queue.entries # <<>> /\ queue.entries \in Seq(Entry)
      /\ Head(queue.entries).target \notin Mounted \cup {Context}
  BY DEF BailUnmounted, TypeOK, Spec0
<1>2. 1 \in DOMAIN queue.entries /\ Head(queue.entries) = queue.entries[1]
  BY <1>1
<1> QED
  BY <1>1, <1>2 DEF QueueApplies, Applicable

\* Recorded is inductive when a boundary, once entered, is crossed whole.
LEMMA RecordedInductive ==
  ASSUME Undisturbed, AsksForItsBoundary, SpecsAreApplicable
  PROVE  Spec => []Recorded
<1>0. MaxCrashes = 0
  BY DEF Undisturbed
<1>1. Init => Recorded
  BY DEF Init, Recorded
<1>2. IInv /\ QueueApplies /\ Recorded /\ [Next]_vars => Recorded'
  <2> SUFFICES ASSUME TypeOK, Control, QueueApplies, Recorded, [Next]_vars
               PROVE  Recorded'
    BY DEF IInv
  <2> USE DEF HandlerSteps
  <2>0. MaxCrashes = 0 /\ ~CommitMayFail
    BY DEF Undisturbed
  <2>1. CASE QuietStep
    BY <2>1, QuietEffects DEF Recorded
  <2>2. CASE PlainStep
    BY <2>2, PlainEffects DEF Recorded
  <2>3. CASE BeginLlm
    BY <2>3, BeginEffects DEF Recorded
  <2>4. CASE AgentStep
    <3>1. /\ step = "agent" /\ step' = "agent" /\ headTree' = headTree
          /\ \/ tree'.phase = tree.phase
             \/ tree.phase = running /\ tree'.phase \in AgentNext(running)
      BY <2>4, AgentEffects
    <3>2. AgentNext(running) \cap LlmPhases = {}
      BY DEF AgentNext, AsksForItsBoundary
    <3> QED
      BY <3>1, <3>2 DEF Recorded
  <2>5. CASE \/ WritePhase \/ ConsumeSpec \/ StageEntry \/ CommitPhase
             \/ CommitEntry \/ SpecApplied \/ SaveBaseline
    <3>1. step' \in HandlerSteps
      BY <2>5 DEF WritePhase, ConsumeSpec, StageEntry, CommitPhase, CommitEntry,
         SpecApplied, SaveBaseline
    <3> QED
      BY <3>1 DEF Recorded
  <2>6. CASE CommitBaseline
    <3>1. GitCommitPlan /\ UNCHANGED tree
      BY <2>6 DEF CommitBaseline
    <3>2. handler \in Phases \cup {None, "spec"} /\ Context \in Repos
      BY PathAssumption DEF TypeOK
    <3>3. headTree' = tree
      BY <2>0, <3>1, <3>2, CommitWorks DEF GitCommitPlan
    <3> QED
      BY <3>1, <3>3 DEF Recorded
  <2>7. CASE UNCHANGED vars
    BY <2>7 DEF vars, Recorded
  <2> QED
    BY <2>0, <2>1, <2>2, <2>3, <2>4, <2>5, <2>6, <2>7, StepOfTheRun, NoBail
<1>3. Spec => []QueueApplies
  BY <1>0, QueueAppliesInductive
<1> QED
  BY <1>1, <1>2, <1>3, TypeControl, PTL DEF Spec

\* ImplementsCycle: a run that is not killed, whose commits git makes, whose
\* work agent asks for its boundary and whose specs name mounted targets goes
\* round the cycle PlanCycle promises.
THEOREM LoopImplementsCycle ==
  ASSUME Undisturbed, AsksForItsBoundary, SpecsAreApplicable
  PROVE  Spec => ImplementsCycle
<1>0. MaxCrashes = 0
  BY DEF Undisturbed
<1>1. Init => Cycle!Init
  BY DEF Init, FirstTree, Cycle!Init
<1>2. IInv /\ QueueApplies /\ Recorded /\ [Next]_vars
      => [Cycle!Next]_<<tree.phase, headTree.phase, running>>
  <2> SUFFICES ASSUME TypeOK, Control, QueueApplies, Recorded, [Next]_vars
               PROVE  Cycle!Next \/ UNCHANGED <<tree.phase, headTree.phase, running>>
    BY DEF IInv
  <2> USE DEF HandlerSteps
  <2>0. MaxCrashes = 0 /\ ~CommitMayFail
    BY DEF Undisturbed
  <2>1. CASE AgentExit
    <3>1. running \in LlmPhases /\ running' = None /\ UNCHANGED <<tree, headTree>>
      BY <2>1 DEF AgentExit, Control
    <3> QED
      BY <3>1 DEF Cycle!Next, Cycle!End
  <2>2. CASE Start \/ Confirm \/ BeginScript \/ ReadPhaseFails
    BY <2>2 DEF Start, Confirm, BeginScript, ReadPhaseFails, Exit, volatile, Control
  <2>3. CASE PlainStep
    BY <2>3, PlainEffects DEF PlainStep, ConsumeObjections, CascadeDefeated,
       AppendSessionLog, volatile
  <2>4. CASE BeginLlm
    <3>1. /\ headTree' = headTree /\ tree'.phase = tree.phase
          /\ tree.phase \in LlmPhases /\ step = "top"
      BY <2>4, BeginEffects
    <3>2. running = None /\ running' = tree.phase /\ headTree.phase = tree.phase
      BY <2>4, <3>1 DEF BeginLlm, Control, Recorded
    <3> QED
      BY <3>1, <3>2 DEF Cycle!Next, Cycle!Begin, Cycle!Ring
  <2>5. CASE AgentStep
    <3>1. /\ step = "agent" /\ UNCHANGED <<headTree, running>>
          /\ \/ tree'.phase = tree.phase
             \/ tree.phase = running /\ tree'.phase \in AgentNext(running)
      BY <2>5, AgentEffects
    <3>2. running \in LlmPhases
      BY <3>1 DEF Control
    <3> QED
      BY <3>1, <3>2 DEF AgentNext, AsksForItsBoundary, Cycle!Next, Cycle!Ask, Cycle!Ring
  <2>6. CASE WritePhase
    <3>1. /\ headTree' = headTree /\ step = "phase"
          /\ tree.phase = handler /\ handler \in ScriptPhases
          /\ tree'.phase = Successor[handler]
      BY <2>6, WriteEffects
    <3>2. running = None /\ running' = None
      BY <2>6, <3>1 DEF WritePhase, volatile, Control
    <3> QED
      BY <3>1, <3>2 DEF Successor, Cycle!Next, Cycle!Cross, Cycle!Ring
  <2>7. CASE ConsumeSpec \/ StageEntry \/ SpecApplied \/ SaveBaseline
    <3>1. tree'.phase = tree.phase
      BY <2>7, ConsumeEffects, SaveEffects DEF StageEntry, SpecApplied
    <3> QED
      BY <2>7, <3>1 DEF ConsumeSpec, StageEntry, SpecApplied, SaveBaseline, volatile
  <2>8. CASE CommitPhase \/ CommitBaseline
    <3>1. /\ GitCommitPlan /\ UNCHANGED <<tree, running>>
          /\ step \in {"commit", "commitsave"}
      BY <2>8 DEF CommitPhase, CommitBaseline, volatile
    <3>2. handler \in Phases \cup {None, "spec"} /\ Context \in Repos
      BY PathAssumption DEF TypeOK
    <3>3. headTree' = tree
      BY <2>0, <3>1, <3>2, CommitWorks DEF GitCommitPlan
    <3>4. running = None /\ tree.phase \in LlmPhases
      BY <3>1, SuccessorType DEF Control
    <3> QED
      BY <3>1, <3>3, <3>4 DEF Cycle!Next, Cycle!Record, Cycle!Ring
  <2>9. CASE CommitEntry
    <3> DEFINE e == Head(queue.entries)
    <3>1. e \in Entry
      BY <2>9 DEF CommitEntry, TypeOK, Control, Spec0
    <3>2. /\ GitCommit(e.target, e.target = Context /\ e.plan /\ ~e.bad, "spec")
          /\ UNCHANGED <<tree, running>> /\ step = "entry"
      BY <2>9 DEF CommitEntry
    <3>3. e.target \in Repos /\ (e.target = Context /\ e.plan /\ ~e.bad) \in BOOLEAN
      BY <3>1 DEF Entry
    <3>4. running = None /\ tree.phase = "reflect"
      BY <3>2 DEF Control, Successor
    <3> HIDE DEF e
    <3>5. headTree' = tree \/ headTree' = headTree
      BY <2>0, <3>2, <3>3, CommitWorks
    <3> QED
      BY <3>2, <3>4, <3>5 DEF Cycle!Next, Cycle!Record, Cycle!Ring
  <2>10. CASE UNCHANGED vars
    BY <2>10 DEF vars, volatile
  <2> QED
    BY <2>0, <2>1, <2>2, <2>3, <2>4, <2>5, <2>6, <2>7, <2>8, <2>9, <2>10,
       StepOfTheRun, NoBail DEF QuietStep
<1>3. Spec => []QueueApplies
  BY <1>0, QueueAppliesInductive
<1> QED
  BY <1>1, <1>2, <1>3, TypeControl, RecordedInductive, PTL DEF Spec, ImplementsCycle, Cycle!Spec

-----------------------------------------------------------------------------
(* Progress that is recorded is committed                                  *)

\* OwedAhead is inductive when the specs are applicable and match: each entry
\* stages what it names, and its commit takes all that is staged.
LEMMA OwedInductive ==
  ASSUME Undisturbed, SpecsAreApplicable, SpecsMatch
  PROVE  Spec => []OwedAhead
<1>0. MaxCrashes = 0
  BY DEF Undisturbed
<1>1. Init => OwedAhead
  BY NoEntries DEF Init, FirstTree, OwedAhead, NoSpec
<1>2. IInv /\ QueueApplies /\ OwedAhead /\ [Next]_vars => OwedAhead'
  <2> SUFFICES ASSUME TypeOK, Control, QueueApplies, OwedAhead, [Next]_vars
               PROVE  OwedAhead'
    BY DEF IInv
  <2> USE DEF HandlerSteps
  <2>0. /\ MaxCrashes = 0 /\ ~CommitMayFail
        /\ src \in [Paths -> {"clean", "dirty", "staged", "both"}]
        /\ owed \subseteq Paths
    BY DEF Undisturbed, TypeOK
  <2>1. CASE QuietStep \/ PlainStep \/ BeginLlm \/ WritePhase \/ SaveBaseline
    <3>1. /\ tree'.spec = tree.spec /\ owed' = owed
          /\ step \notin {"stage", "entry"} /\ step' \notin {"stage", "entry"}
      BY <2>1, QuietEffects, PlainEffects, BeginEffects, WriteEffects, SaveEffects
    <3> QED
      BY <3>1 DEF OwedAhead
  <2>2. CASE AgentStep
    <3>1. /\ step = "agent" /\ step' = "agent" /\ owed' = owed
          /\ (tree'.spec = tree.spec \/ tree'.spec.entries \in Specs)
      BY <2>2, AgentEffects
    <3> QED
      BY <3>1 DEF OwedAhead, SpecsMatch
  <2>3. CASE ConsumeSpec
    <3>1. /\ tree'.spec = NoSpec /\ queue'.entries \in {CatchAll, tree.spec.entries}
          /\ owed' = {p \in Promised(queue'.entries) : src[p] # "clean"}
          /\ src' = src /\ step' = "stage"
      BY <2>3, ConsumeEffects
    <3>2. Matching(tree.spec.entries)' /\ Matching(queue.entries)'
      BY <3>1, NoEntries, CatchAllApplies DEF OwedAhead, NoSpec
    <3>3. \A p \in owed' : p \in Promised(queue.entries)' /\ src'[p] # "clean"
      BY <3>1 DEF Promised
    <3> QED
      BY <3>1, <3>2, <3>3 DEF OwedAhead
  <2>4. CASE StageEntry
    <3> DEFINE e == Head(queue.entries)
    <3>1. /\ src' = Restaged(e.target, IF e.bad THEN {} ELSE e.paths)
          /\ step = "stage" /\ step' = "entry" /\ queue.entries # <<>>
          /\ UNCHANGED <<tree, queue, owed>>
      BY <2>4 DEF StageEntry, volatile
    <3>2. /\ Matching(tree.spec.entries) /\ Matching(queue.entries)
          /\ \A p \in owed : p \in Promised(queue.entries) /\ src[p] # "clean"
      BY <3>1 DEF OwedAhead
    <3>3. ~e.bad
      <4>1. queue.entries \in Seq(Entry)
        BY DEF TypeOK, Spec0
      <4>2. 1 \in DOMAIN queue.entries /\ e = queue.entries[1]
        BY <3>1, <4>1
      <4> QED
        BY <3>2, <4>2 DEF Matching
    <3> HIDE DEF e
    <3>4. src' = Restaged(e.target, e.paths)
      BY <3>1, <3>3
    <3>5. \A p \in owed : src'[p] # "clean"
      BY <2>0, <3>2, <3>4 DEF Restaged
    <3>6. \A p \in owed : p \in e.paths /\ RepoOf[p] = e.target => src'[p] = "staged"
      BY <2>0, <3>2, <3>4 DEF Restaged
    <3>7. Head(queue'.entries) = e /\ Promised(queue'.entries) = Promised(queue.entries)
      BY <3>1 DEF e
    <3> QED
      BY <3>1, <3>2, <3>5, <3>6, <3>7 DEF OwedAhead
  <2>5. CASE SpecApplied
    <3>1. /\ UNCHANGED <<tree, owed>> /\ step = "stage" /\ step' = "save"
          /\ queue.entries = <<>>
      BY <2>5 DEF SpecApplied
    <3>2. owed = {}
      BY <3>1 DEF OwedAhead, Promised
    <3> QED
      BY <3>1, <3>2 DEF OwedAhead
  <2>6. CASE CommitPhase \/ CommitBaseline
    <3>1. /\ GitCommitPlan /\ UNCHANGED tree /\ step \notin {"stage", "entry"}
          /\ step' \notin {"stage", "entry"}
      BY <2>6 DEF CommitPhase, CommitBaseline
    <3>2. handler \in Phases \cup {None, "spec"} /\ Context \in Repos
      BY PathAssumption DEF TypeOK
    <3>3. owed' = owed \ Staged(Context)
      BY <2>0, <3>1, <3>2, CommitWorks DEF GitCommitPlan
    <3> QED
      BY <3>1, <3>3 DEF OwedAhead
  <2>7. CASE CommitEntry
    <3> DEFINE e == Head(queue.entries)
    <3>1. /\ UNCHANGED tree /\ step = "entry" /\ step' = "stage"
          /\ GitCommit(e.target, e.target = Context /\ e.plan /\ ~e.bad, "spec")
          /\ queue' = [queue EXCEPT !.entries = Tail(@)]
      BY <2>7 DEF CommitEntry
    <3>2. /\ queue.entries \in Seq(Entry) /\ queue.entries # <<>>
          /\ queue'.entries = Tail(queue.entries)
      BY <3>1 DEF TypeOK, Spec0, Control
    <3>3. e \in Entry
      BY <3>2
    <3>4. e.target \in Repos /\ (e.target = Context /\ e.plan /\ ~e.bad) \in BOOLEAN
      BY <3>3 DEF Entry
    <3>5. /\ Matching(tree.spec.entries) /\ Matching(queue.entries)
          /\ \A p \in owed : p \in Promised(queue.entries) /\ src[p] # "clean"
          /\ \A p \in owed : p \in e.paths /\ RepoOf[p] = e.target => src[p] = "staged"
      BY <3>1 DEF OwedAhead
    <3>6. \A p \in Promised(queue.entries) :
            p \in Promised(Tail(queue.entries)) \/ (p \in e.paths /\ RepoOf[p] = e.target)
      BY <3>2, TailOfEntries
    <3>7. Matching(Tail(queue.entries))
      BY <3>2, <3>5, TailOfEntries
    <3> HIDE DEF e
    <3>8. src' = AfterCommit(Staged(e.target)) /\ owed' = owed \ Staged(e.target)
      BY <2>0, <3>1, <3>4, CommitWorks
    <3>9. ASSUME NEW p \in owed'
          PROVE  p \in Promised(Tail(queue.entries)) /\ src'[p] # "clean"
      <4>1. p \in owed /\ p \in Paths /\ p \notin Staged(e.target)
        BY <2>0, <3>8
      <4>2. ~(p \in e.paths /\ RepoOf[p] = e.target)
        BY <3>5, <4>1 DEF Staged
      <4>3. src'[p] = src[p]
        BY <3>8, <4>1 DEF AfterCommit
      <4> QED
        BY <3>5, <3>6, <4>1, <4>2, <4>3
    <3> QED
      BY <3>1, <3>2, <3>5, <3>7, <3>9 DEF OwedAhead
  <2>8. CASE UNCHANGED vars
    BY <2>8 DEF vars, volatile, OwedAhead
  <2> QED
    BY <2>0, <2>1, <2>2, <2>3, <2>4, <2>5, <2>6, <2>7, <2>8, StepOfTheRun, NoBail
<1>3. Spec => []QueueApplies
  BY <1>0, QueueAppliesInductive
<1> QED
  BY <1>1, <1>2, <1>3, TypeControl, PTL DEF Spec

\* NoFalseProgress, for any number of cycles of a run that is not killed, whose
\* commits git makes and whose specs are applicable and match: no plan-state
\* commit of git-commit-analyse-work or git-commit-reflect is made while a dirty
\* path the consumed commits.yaml named is not committed.
THEOREM ProgressIsReal ==
  ASSUME Undisturbed, SpecsAreApplicable, SpecsMatch
  PROVE  Spec => NoFalseProgress
<1>1. IInv /\ OwedAhead /\ [Next]_vars
      => [/\ step \in {"commit", "commitsave"}
          /\ tree.phase \in {"reflect", "triage"}
          /\ headTree' # headTree
          => owed' = {}]_vars
  <2> SUFFICES ASSUME TypeOK, Control, OwedAhead, [Next]_vars,
                      step \in {"commit", "commitsave"}, headTree' # headTree
               PROVE  owed' = {}
    BY DEF IInv
  <2>1. owed = {}
    BY DEF OwedAhead
  <2>2. MaxCrashes = 0 /\ ~CommitMayFail
    BY DEF Undisturbed
  <2>3. CASE CommitPhase \/ CommitBaseline
    <3>1. GitCommitPlan
      BY <2>3 DEF CommitPhase, CommitBaseline
    <3>2. handler \in Phases \cup {None, "spec"} /\ Context \in Repos
      BY PathAssumption DEF TypeOK
    <3>3. owed' = owed \ Staged(Context)
      BY <2>2, <3>1, <3>2, CommitWorks DEF GitCommitPlan
    <3> QED
      BY <2>1, <3>3
  <2>4. CASE ~(CommitPhase \/ CommitBaseline)
    <3>1. headTree' = headTree
      BY <2>2, <2>4, StepOfTheRun, QuietEffects, PlainEffects, BeginEffects,
         AgentEffects, WriteEffects, ConsumeEffects, SaveEffects
         DEF HandlerSteps, StageEntry, BailUnmounted, CommitEntry, SpecApplied, vars
    <3> QED
      BY <3>1
  <2> QED
    BY <2>3, <2>4
<1> QED
  BY <1>1, TypeControl, OwedInductive, PTL DEF Spec, NoFalseProgress
=============================================================================
