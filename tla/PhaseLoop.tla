------------------------------ MODULE PhaseLoop ------------------------------
(***************************************************************************)
(* The phase cycle of one plan: the runner of src/phase_loop.rs, the git   *)
(* plumbing of src/git.rs it calls at every phase boundary, the agent it   *)
(* starts in every LLM phase, and the crashes that may stop it between any *)
(* two effects on disk.                                                    *)
(*                                                                         *)
(* The plan directory is the record "tree", what the context repository's  *)
(* HEAD holds of it is "headTree".  Contents are abstracted to the cycle   *)
(* that wrote them (0: the file is absent).  A source path is clean, dirty *)
(* (worktree differs from the index), staged (index differs from HEAD) or  *)
(* both, the four answers of git status.                                   *)
(***************************************************************************)
EXTENDS Naturals, Sequences

CONSTANTS
  Paths,          \* source paths the work agent may edit
  Repos,          \* the context repository and the targets' worktrees
  Context,        \* the repository project_dir and the plan directory are in
  RepoOf,         \* the repository a path is in
  Mounted,        \* the targets targets.yaml has a row for
  Specs,          \* the commits.yaml bodies analyse-work may write
  WorkNext,       \* the phases the work agent may set
  Editors,        \* bound: the phases whose plan edits a run follows
  MaxCycles,      \* bound: cycles the user lets begin
  MaxCrashes,     \* bound: runner deaths
  CommitMayFail,  \* git commit may exit non-zero (a hook, a lock)
  TornWrites      \* a crash may fall inside fs::write, leaving an empty file

LlmPhases == {"triage", "work", "analyse-work", "reflect"}
ScriptPhases == {"git-commit-triage", "git-commit-work",
                 "git-commit-analyse-work", "git-commit-reflect"}
Phases == LlmPhases \cup ScriptPhases
Torn == "torn"    \* what read_phase cannot parse

\* One entry of commits.yaml.  "plan": its pathspecs reach the plan directory;
\* "bad": one of them matches nothing, so git add stages none of them.
Entry == [target : Repos, paths : SUBSET Paths, plan : BOOLEAN, bad : BOOLEAN]

ASSUME PathAssumption == /\ Context \in Repos
                         /\ RepoOf \in [Paths -> Repos]
                         /\ Mounted \subseteq Repos
ASSUME SpecAssumption == Specs \subseteq Seq(Entry)
ASSUME WorkAssumption == WorkNext \subseteq {"git-commit-work", "analyse-work"}
ASSUME BoundAssumption == /\ MaxCycles \in Nat /\ MaxCrashes \in Nat
                          /\ Editors \subseteq LlmPhases
ASSUME SwitchAssumption == CommitMayFail \in BOOLEAN /\ TornWrites \in BOOLEAN

VARIABLES
  tree,      \* the plan directory on disk
  headTree,  \* the plan directory in the context's HEAD
  history,   \* the context's commits, oldest first
  src,       \* git status of each source path
  step,      \* where the runner is
  running,   \* the LLM phase phase_loop read and started an agent for
  handler,   \* the script phase being handled
  queue,     \* the parsed commits.yaml, as far as not yet applied
  cycle,     \* ghost: number of the current cycle
  crashes,   \* ghost: runner deaths so far
  owed       \* ghost: dirty paths the consumed spec promised, not committed

volatile == <<running, handler, queue>>
vars == <<tree, headTree, history, src, step, volatile, cycle, crashes, owed>>

None == "none"
NoSpec == [cycle |-> 0, entries |-> <<>>]
Spec0 == [cycle : Nat, entries : Seq(Entry)]
Session == [id : Nat, cycle : Nat]
NoSession == [id |-> 0, cycle |-> 0]
Baseline == [exists : BOOLEAN, sha : Nat]   \* sha: an index of history, 0: empty

Tree == [phase : Phases \cup {Torn},
         edits : [LlmPhases -> Nat],    \* cycle of each phase's last plan edit
         stale : BOOLEAN,               \* an item outlives its defeated intents
         objections : Nat,              \* focus-objections.yaml
         spec : Spec0,                  \* commits.yaml
         latest : Session,              \* latest-session.yaml
         log : Seq(Session),            \* session-log.yaml
         base : [LlmPhases -> Baseline]]   \* <phase>-baseline

Commit == [label : Phases \cup {None, "spec"},  \* None: the creation commit
           edits : [LlmPhases -> Nat],
           paths : SUBSET Paths]

Steps == {"off", "top", "agent", "consume", "cascade", "append", "phase",
          "commit", "spec", "stage", "entry", "save", "commitsave", "confirm"}

\* Mutant: reflect still hands over to the dream phase of the old cycle.
SuccessorDream == [p \in ScriptPhases |->
  IF p = "git-commit-triage" THEN "work"
  ELSE IF p = "git-commit-work" THEN "analyse-work"
  ELSE IF p = "git-commit-analyse-work" THEN "reflect" ELSE "dream"]

\* The LLM phase each handler writes to phase.md; also the phase whose
\* <phase>-baseline it saves.
Successor == [p \in ScriptPhases |->
  IF p = "git-commit-triage" THEN "work"
  ELSE IF p = "git-commit-work" THEN "analyse-work"
  ELSE IF p = "git-commit-analyse-work" THEN "reflect" ELSE "triage"]

\* What the shipped phase prompts tell an agent to pass to set-phase.
AgentNext(p) ==
  IF p = "triage" THEN {"git-commit-triage"}
  ELSE IF p = "work" THEN WorkNext
  ELSE IF p = "analyse-work" THEN {"git-commit-analyse-work"}
  ELSE {"git-commit-reflect"}

FirstTree ==
  [phase |-> "triage", edits |-> [p \in LlmPhases |-> 0], stale |-> FALSE,
   objections |-> 0, spec |-> NoSpec, latest |-> NoSession, log |-> <<>>,
   base |-> [p \in LlmPhases |-> [exists |-> FALSE, sha |-> 0]]]

\* A plan as create leaves it, committed, with no runner.
Init ==
  /\ tree = FirstTree
  /\ headTree = FirstTree
  /\ history = <<[label |-> None, edits |-> FirstTree.edits, paths |-> {}]>>
  /\ src = [p \in Paths |-> "clean"]
  /\ step = "off"
  /\ running = None
  /\ handler = None
  /\ queue = NoSpec
  /\ cycle = 1
  /\ crashes = 0
  /\ owed = {}

-----------------------------------------------------------------------------
(* git: the index of a repository, and commits of the whole of it          *)

Staged(r) == {p \in Paths : RepoOf[p] = r /\ src[p] \in {"staged", "both"}}
Dirty(r) == {p \in Paths : RepoOf[p] = r /\ src[p] # "clean"}

\* git reset -- . and then git add of a set of paths, in repository r.
Restaged(r, paths) ==
  [p \in Paths |->
     IF RepoOf[p] # r \/ src[p] = "clean" THEN src[p]
     ELSE IF p \in paths THEN "staged" ELSE "dirty"]

\* git commit takes the whole index: what was staged becomes clean.
AfterCommit(paths) ==
  [p \in Paths |->
     IF p \notin paths THEN src[p]
     ELSE IF src[p] = "both" THEN "dirty" ELSE "clean"]

\* A commit of repository r carrying its index, and the plan directory if
\* withPlan.  Nothing to commit: none is made.  A failing git commit goes
\* unnoticed: its exit status is not looked at.
GitCommit(r, withPlan, label) ==
  LET carried == Staged(r)
      newTree == IF withPlan THEN tree ELSE headTree
  IN \/ /\ \/ carried = {} /\ newTree = headTree
           \/ CommitMayFail
        /\ UNCHANGED <<headTree, history, src, owed>>
     \/ /\ ~(carried = {} /\ newTree = headTree)
        /\ src' = AfterCommit(carried)
        /\ owed' = owed \ carried
        /\ headTree' = newTree
        /\ history' = IF r # Context THEN history
                      ELSE Append(history, [label |-> label,
                                            edits |-> newTree.edits,
                                            paths |-> carried])

\* Mutant: the git add is forgotten.
GitCommitUnadded == GitCommit(Context, FALSE, handler)

\* git add . in the plan directory, then commit of the context's whole index.
GitCommitPlan == GitCommit(Context, TRUE, handler)

\* Mutant: the parent of the commit just made.
ParentSha == Len(history) - 1

\* git rev-parse HEAD in the plan directory.
HeadSha == Len(history)

\* git_save_baseline: that sha in <phase>-baseline.
Saved(phase) == [tree EXCEPT !.base[phase] = [exists |-> TRUE, sha |-> HeadSha]]

-----------------------------------------------------------------------------
(* The runner between phases                                               *)

\* The process ends and everything it only held in memory is gone.
Exit == step' = "off" /\ running' = None /\ handler' = None /\ queue' = NoSpec

\* The user starts ravel-lite run on the plan.
Start ==
  /\ step = "off"
  /\ cycle <= MaxCycles
  /\ step' = "top"
  /\ UNCHANGED <<tree, headTree, history, src, volatile, cycle, crashes, owed>>

\* Mutant: the handlers of the two phases skip what precedes write_phase.
BeginScriptAtWrite ==
  /\ step = "top"
  /\ tree.phase \in ScriptPhases
  /\ handler' = tree.phase
  /\ step' = "phase"
  /\ UNCHANGED <<tree, headTree, history, src, running, queue, cycle, crashes, owed>>

\* The loop reads phase.md; a script phase enters its handler.
BeginScript ==
  /\ step = "top"
  /\ tree.phase \in ScriptPhases
  /\ handler' = tree.phase
  /\ step' = IF tree.phase = "git-commit-triage" THEN "consume"
             ELSE IF tree.phase = "git-commit-analyse-work" THEN "append" ELSE "phase"
  /\ UNCHANGED <<tree, headTree, history, src, running, queue, cycle, crashes, owed>>

\* An LLM phase starts an agent; work first seeds a missing work-baseline.
BeginLlm ==
  /\ step = "top"
  /\ tree.phase \in LlmPhases
  /\ running' = tree.phase
  /\ handler' = None
  /\ tree' = IF tree.phase = "work" /\ ~tree.base["work"].exists
             THEN Saved("work") ELSE tree
  /\ step' = "agent"
  /\ UNCHANGED <<headTree, history, src, queue, cycle, crashes, owed>>

\* phase.md does not parse: run_single_plan returns the error.
ReadPhaseFails ==
  /\ step = "top"
  /\ tree.phase = Torn
  /\ Exit
  /\ UNCHANGED <<tree, headTree, history, src, cycle, crashes, owed>>

\* The agent process ends.  An unchanged phase.md ends phase_loop, any other
\* value is handled by its next iteration.
AgentExit ==
  /\ step = "agent"
  /\ step' = IF tree.phase = running THEN "confirm" ELSE "top"
  /\ running' = None
  /\ UNCHANGED <<tree, headTree, history, src, handler, queue, cycle, crashes, owed>>

\* run_single_plan asks whether to go round again.
Confirm ==
  /\ step = "confirm"
  /\ \/ step' = "top" /\ cycle <= MaxCycles /\ UNCHANGED volatile
     \/ Exit
  /\ UNCHANGED <<tree, headTree, history, src, cycle, crashes, owed>>

-----------------------------------------------------------------------------
(* What an agent does while it runs, as its prompt tells it                *)

Agent(p) == step = "agent" /\ running = p
AgentOnly == UNCHANGED <<headTree, history, step, volatile, cycle, crashes, owed>>

\* Any phase edits the plan's own files (backlog, memory, intents).
EditPlan ==
  /\ step = "agent"
  /\ running \in Editors
  /\ tree' = [tree EXCEPT !.edits[running] = cycle]
  /\ UNCHANGED src /\ AgentOnly

\* Triage defeats an intent that active items still serve.
DefeatIntent ==
  /\ Agent("triage")
  /\ tree' = [tree EXCEPT !.stale = TRUE]
  /\ UNCHANGED src /\ AgentOnly

WorkEditSource(p) ==
  /\ Agent("work")
  /\ src' = [src EXCEPT ![p] = IF @ \in {"staged", "both"} THEN "both" ELSE "dirty"]
  /\ UNCHANGED tree /\ AgentOnly

WorkObject ==
  /\ Agent("work")
  /\ tree' = [tree EXCEPT !.objections = cycle]
  /\ UNCHANGED src /\ AgentOnly

\* git checkout -- path, or rm of an untracked one.
RevertSource(p) ==
  /\ Agent("analyse-work")
  /\ src' = [src EXCEPT ![p] = IF @ \in {"staged", "both"} THEN "staged" ELSE "clean"]
  /\ UNCHANGED tree /\ AgentOnly

WriteSpec(entries) ==
  /\ Agent("analyse-work")
  /\ tree' = [tree EXCEPT !.spec = [cycle |-> cycle, entries |-> entries]]
  /\ UNCHANGED src /\ AgentOnly

\* The id is one more than the number of records in the log.
SetLatestSession ==
  /\ Agent("analyse-work")
  /\ tree' = [tree EXCEPT !.latest = [id |-> Len(tree.log) + 1, cycle |-> cycle]]
  /\ UNCHANGED src /\ AgentOnly

SetPhase(q) ==
  /\ step = "agent"
  /\ tree.phase = running
  /\ q \in AgentNext(running)
  /\ tree' = [tree EXCEPT !.phase = q]
  /\ UNCHANGED src /\ AgentOnly

AgentStep ==
  \/ EditPlan
  \/ DefeatIntent
  \/ \E p \in Paths : WorkEditSource(p)
  \/ WorkObject
  \/ \E p \in Paths : RevertSource(p)
  \/ \E s \in Specs : WriteSpec(s)
  \/ SetLatestSession
  \/ \E q \in Phases : SetPhase(q)

-----------------------------------------------------------------------------
(* handle_script_phase: the effects of the handlers, one at a time         *)

\* Mutant: focus-objections.yaml is left in place.
ConsumeNothing ==
  /\ step = "consume"
  /\ step' = "cascade"
  /\ UNCHANGED <<tree, headTree, history, src, volatile, cycle, crashes, owed>>

ConsumeObjections ==
  /\ step = "consume"
  /\ tree' = [tree EXCEPT !.objections = 0]
  /\ step' = "cascade"
  /\ UNCHANGED <<headTree, history, src, volatile, cycle, crashes, owed>>

CascadeDefeated ==
  /\ step = "cascade"
  /\ tree' = [tree EXCEPT !.stale = FALSE]
  /\ step' = "phase"
  /\ UNCHANGED <<headTree, history, src, volatile, cycle, crashes, owed>>

\* Mutant: appended without looking for the id.
AppendedAgain(log, rec) == IF rec.id = 0 THEN log ELSE Append(log, rec)

\* The log takes the latest session unless it has a record with its id.
Appended(log, rec) ==
  IF rec.id = 0 \/ \E i \in DOMAIN log : log[i].id = rec.id THEN log
  ELSE Append(log, rec)

\* Mutant: a record that is in the log already is an error.
AppendSessionLogStrict ==
  /\ step = "append"
  /\ IF \E i \in DOMAIN tree.log : tree.log[i].id = tree.latest.id
     THEN Exit /\ UNCHANGED tree
     ELSE /\ tree' = [tree EXCEPT !.log = Appended(tree.log, tree.latest)]
          /\ step' = "phase"
          /\ UNCHANGED volatile
  /\ UNCHANGED <<headTree, history, src, cycle, crashes, owed>>

AppendSessionLog ==
  /\ step = "append"
  /\ tree' = [tree EXCEPT !.log = Appended(tree.log, tree.latest)]
  /\ step' = "phase"
  /\ UNCHANGED <<headTree, history, src, volatile, cycle, crashes, owed>>

WritePhase ==
  /\ step = "phase"
  /\ tree' = [tree EXCEPT !.phase = Successor[handler]]
  /\ step' = IF handler = "git-commit-analyse-work" THEN "spec" ELSE "commit"
  /\ cycle' = IF handler = "git-commit-reflect" THEN cycle + 1 ELSE cycle
  /\ UNCHANGED <<headTree, history, src, volatile, crashes, owed>>

CommitPhase ==
  /\ step = "commit"
  /\ GitCommitPlan
  /\ step' = "save"
  /\ UNCHANGED <<tree, volatile, cycle, crashes>>

\* Stage every change under project_dir: what a missing, malformed or empty
\* commits.yaml falls back to.
CatchAll ==
  <<[target |-> Context, paths |-> {p \in Paths : RepoOf[p] = Context},
     plan |-> TRUE, bad |-> FALSE]>>

Promised(entries) ==
  {p \in Paths : \E i \in DOMAIN entries :
     p \in entries[i].paths /\ RepoOf[p] = entries[i].target}

\* Mutant: commits.yaml is not deleted.
ConsumeSpecKept ==
  /\ step = "spec"
  /\ LET entries == IF tree.spec.entries = <<>> THEN CatchAll ELSE tree.spec.entries
     IN /\ queue' = [cycle |-> tree.spec.cycle, entries |-> entries]
        /\ owed' = {p \in Promised(entries) : src[p] # "clean"}
  /\ step' = "stage"
  /\ UNCHANGED <<tree, headTree, history, src, running, handler, cycle, crashes>>

\* apply_commits_spec reads commits.yaml and deletes it before any git call.
ConsumeSpec ==
  /\ step = "spec"
  /\ LET entries == IF tree.spec.entries = <<>> THEN CatchAll ELSE tree.spec.entries
     IN /\ queue' = [cycle |-> tree.spec.cycle, entries |-> entries]
        /\ owed' = {p \in Promised(entries) : src[p] # "clean"}
  /\ tree' = [tree EXCEPT !.spec = NoSpec]
  /\ step' = "stage"
  /\ UNCHANGED <<headTree, history, src, running, handler, cycle, crashes>>

\* git reset, git add of the next entry's paths in the worktree it names.
StageEntry ==
  /\ step = "stage"
  /\ queue.entries # <<>>
  /\ LET e == Head(queue.entries)
     IN /\ e.target \in Mounted \cup {Context}
        /\ src' = Restaged(e.target, IF e.bad THEN {} ELSE e.paths)
  /\ step' = "entry"
  /\ UNCHANGED <<tree, headTree, history, volatile, cycle, crashes, owed>>

\* An entry for a target that is not mounted: the error ends the run.
BailUnmounted ==
  /\ step = "stage"
  /\ queue.entries # <<>>
  /\ Head(queue.entries).target \notin Mounted \cup {Context}
  /\ Exit
  /\ UNCHANGED <<tree, headTree, history, src, cycle, crashes, owed>>

\* Mutants: the entry is staged and never committed; only the first entry is.
CommitEntrySkipped ==
  /\ step = "entry"
  /\ queue' = [queue EXCEPT !.entries = Tail(@)]
  /\ step' = "stage"
  /\ UNCHANGED <<tree, headTree, history, src, running, handler, cycle, crashes, owed>>
CommitEntryFirst ==
  /\ step = "entry"
  /\ LET e == Head(queue.entries)
     IN GitCommit(e.target, e.target = Context /\ e.plan /\ ~e.bad, "spec")
  /\ queue' = [queue EXCEPT !.entries = <<>>]
  /\ step' = "stage"
  /\ UNCHANGED <<tree, running, handler, cycle, crashes>>

CommitEntry ==
  /\ step = "entry"
  /\ LET e == Head(queue.entries)
     IN GitCommit(e.target, e.target = Context /\ e.plan /\ ~e.bad, "spec")
  /\ queue' = [queue EXCEPT !.entries = Tail(@)]
  /\ step' = "stage"
  /\ UNCHANGED <<tree, running, handler, cycle, crashes>>

SpecApplied ==
  /\ step = "stage"
  /\ queue.entries = <<>>
  /\ step' = "save"
  /\ UNCHANGED <<tree, headTree, history, src, volatile, cycle, crashes, owed>>

SaveBaseline ==
  /\ step = "save"
  /\ tree' = Saved(Successor[handler])
  /\ step' = "commitsave"
  /\ UNCHANGED <<headTree, history, src, volatile, cycle, crashes, owed>>

\* Mutant: the baseline is not committed.
CommitBaselineDropped ==
  /\ step = "commitsave"
  /\ step' = IF handler = "git-commit-reflect" THEN "confirm" ELSE "top"
  /\ UNCHANGED <<tree, headTree, history, src, volatile, cycle, crashes, owed>>

\* The second commit; git-commit-reflect ends the cycle and phase_loop.
CommitBaseline ==
  /\ step = "commitsave"
  /\ GitCommitPlan
  /\ step' = IF handler = "git-commit-reflect" THEN "confirm" ELSE "top"
  /\ UNCHANGED <<tree, volatile, cycle, crashes>>

-----------------------------------------------------------------------------
\* The runner and its agent die, or an error it propagates ends it (a failed
\* mount at the top of the loop, a failed agent).  A boundary's phase.md and
\* baseline are written by a truncating fs::write: a death inside one leaves
\* the file there and empty.
Crash ==
  /\ step # "off"
  /\ crashes < MaxCrashes
  /\ crashes' = crashes + 1
  /\ Exit
  /\ \/ tree' = tree
     \/ TornWrites /\ step = "phase" /\ tree' = [tree EXCEPT !.phase = Torn]
     \/ TornWrites /\ step = "save" /\ tree' = [tree EXCEPT !.base[Successor[handler]].sha = 0]
  /\ UNCHANGED <<headTree, history, src, cycle, owed>>

\* Nobody has started the plan: the one state in which nothing need happen.
Idle == step = "off" /\ UNCHANGED vars

Handler ==
  \/ ConsumeObjections \/ CascadeDefeated \/ AppendSessionLog \/ WritePhase
  \/ CommitPhase \/ ConsumeSpec \/ StageEntry \/ BailUnmounted \/ CommitEntry
  \/ SpecApplied \/ SaveBaseline \/ CommitBaseline

Runner == BeginScript \/ BeginLlm \/ ReadPhaseFails \/ AgentExit \/ Handler

Next == Start \/ Confirm \/ Runner \/ AgentStep \/ Crash \/ Idle

Spec == Init /\ [][Next]_vars

\* The runner's own steps are never delayed for ever, and a stopped plan is
\* run again.  Nothing is assumed of the agent or of the answer to Confirm.
FairSpec == Spec /\ WF_vars(BeginScript \/ Handler) /\ WF_vars(Start)
-----------------------------------------------------------------------------
(* Properties                                                              *)

\* Every variable has its type: the shapes of the plan directory's files, of
\* the commits git holds of it, and of what the runner keeps in memory.
TypeOK ==
  /\ tree \in Tree
  /\ headTree \in Tree
  /\ history \in Seq(Commit)
  /\ src \in [Paths -> {"clean", "dirty", "staged", "both"}]
  /\ step \in Steps
  /\ running \in LlmPhases \cup {None}
  /\ handler \in ScriptPhases \cup {None}
  /\ queue \in Spec0
  /\ cycle \in Nat \ {0}
  /\ crashes \in Nat
  /\ owed \subseteq Paths

\* The phases from the writing of phase p's successor to the next triage.
AfterTriage == {"work", "git-commit-work", "analyse-work",
                "git-commit-analyse-work", "reflect", "git-commit-reflect"}

\* No session record is lost: analyse-work's record in latest-session.yaml,
\* which the next cycle overwrites, is in session-log.yaml whenever phase.md is
\* past git-commit-analyse-work, wherever in append_session_log's handler the
\* runner died and was run again.
SessionLogged ==
  /\ tree.phase \in (Phases \ {"analyse-work", "git-commit-analyse-work"})
  /\ tree.latest.id # 0
  => \E i \in DOMAIN tree.log : tree.log[i] = tree.latest

\* The log holds one record per id: re-running a boundary never duplicates one.
LogIdsUnique ==
  \A i, j \in DOMAIN tree.log : tree.log[i].id = tree.log[j].id => i = j

\* Together: a session's record is kept, once, across every death.
SessionsKept == SessionLogged /\ LogIdsUnique

\* No phase after triage sees an active item whose intents are all defeated:
\* cascade_defeated_items runs before phase.md leaves git-commit-triage.
CascadedBeforeWork == tree.phase \in AfterTriage => ~tree.stale

\* Objections that triage has read are gone: from work to reflect
\* focus-objections.yaml is absent or was written by this cycle's work phase.
ObjectionsFresh == tree.phase \in AfterTriage => tree.objections \in {0, cycle}

\* Together: what triage decided about items and objections holds for the
\* rest of the cycle.
TriageTakesEffect == CascadedBeforeWork /\ ObjectionsFresh

\* A cycle that ends at the user prompt leaves nothing of the plan directory
\* uncommitted, phase.md and the baseline included, if git commit works.
CleanAtCycleEnd ==
  /\ step = "confirm"
  /\ handler = "git-commit-reflect"
  /\ ~CommitMayFail
  => tree = headTree

\* The context records no false progress (apply_commits_spec): the plan-state
\* commits of git-commit-analyse-work and git-commit-reflect are made only when
\* every dirty path the consumed commits.yaml named is committed.
NoFalseProgress ==
  [][/\ step \in {"commit", "commitsave"}
     /\ tree.phase \in {"reflect", "triage"}
     /\ headTree' # headTree
     => owed' = {}]_vars

\* A plan-state commit (run-plan: ...) carries no source path.
PlanCommitsScoped ==
  \A i \in DOMAIN history :
    history[i].label \in ScriptPhases => history[i].paths = {}

\* The spec being applied was written in this cycle, not left by another one.
SpecIsCurrent == step \in {"stage", "entry"} => queue.cycle \in {0, cycle}

\* While work and analyse-work run, work-baseline names a commit that has
\* triage's last edits: the diff of BACKLOG_TRANSITIONS is of work alone.
WorkBaselineHasTriage ==
  /\ running \in {"work", "analyse-work"}
  /\ tree.base["work"].sha # 0
  => history[tree.base["work"].sha].edits["triage"] = tree.edits["triage"]

\* While phase p runs, p-baseline names a commit that has the last edits every
\* other phase made: the phase summary of p shows p's edits and no others.
BaselineCovers(p) ==
  /\ running = p
  /\ tree.base[p].sha # 0
  => \A q \in LlmPhases \ {p} :
       history[tree.base[p].sha].edits[q] = tree.edits[q]
TriageBaselineCovers == BaselineCovers("triage")

\* Together: what is shown as the doing of a phase is that phase's.
BaselinesCover == WorkBaselineHasTriage /\ TriageBaselineCovers

\* Work's plan edits are committed before analyse-work starts: each of the
\* cycle's four boundaries is crossed.
WorkCommitted ==
  running = "analyse-work" => headTree.edits["work"] = tree.edits["work"]

\* Together: the commits of a cycle hold what this cycle did, each in the
\* repository it belongs to, and leave nothing of work out.
CommitsAreRight == PlanCommitsScoped /\ SpecIsCurrent /\ WorkCommitted

\* The runner implements the cycle PlanCycle promises: an agent runs only in a
\* phase the context's HEAD has recorded, and boundaries are crossed without one.
Cycle == INSTANCE PlanCycle
           WITH pos <- tree.phase, rec <- headTree.phase, active <- running
ImplementsCycle == Cycle!Spec

\* A boundary an agent asked for is crossed, however often (within MaxCrashes)
\* the runner dies on the way, if the plan is run again, unless a death tears
\* phase.md.
BoundaryCompletes ==
  (tree.phase \in ScriptPhases /\ step # "agent")
    ~> tree.phase \in LlmPhases \cup {Torn}
=============================================================================
