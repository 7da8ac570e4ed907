---------------------------- MODULE Targets_proofs -----------------------------
(***************************************************************************)
(* What Targets keeps for any components, repositories, dependencies and   *)
(* other plan, and any number of faults.                                   *)
(***************************************************************************)
EXTENDS Targets, TLAPS

\* No job is one in every field.
LEMMA IdleIsJob == /\ Idle \in Job
                   /\ Idle.kind = "none" /\ Idle.at = "done"
                   /\ Idle.todo = {} /\ Idle.closure = {} /\ Idle.comps = {}
  BY DEF Idle, Job

(* Every variable keeps its type, whoever acts.                            *)
LEMMA TypeStep == TypeOK /\ [Next]_vars => TypeOK'
<1> SUFFICES ASSUME TypeOK, [Next]_vars
             PROVE  TypeOK'
  OBVIOUS
<1> USE TargetsAssumption, IdleIsJob DEF TargetsAssumption, TypeOK
<1>1. CASE Verb
  BY <1>1 DEF Verb, AddRequest, RemoveRequest, AddRow, RemoveRow
<1>2. CASE Start
  <2>1. CASE StartDrain
    BY <2>1 DEF StartDrain, JobOnly, Job
  <2>2. CASE StartSync
    BY <2>2 DEF StartSync, JobOnly, Job
  <2>3. ASSUME NEW c \in Components, StartMount(c)
        PROVE  TypeOK'
    BY <2>3 DEF StartMount, JobOnly, Job
  <2> QED
    BY <1>2, <2>1, <2>2, <2>3 DEF Start
<1>3. CASE JobStep
  <2>1. ASSUME NEW c \in Components, TakeRequest(c)
        PROVE  TypeOK'
    <3>1. Closure(c) \subseteq Components
      BY DEF Closure
    <3> QED
      BY <2>1, <3>1 DEF TakeRequest, JobOnly, Fail, Job
  <2>2. ASSUME NEW c \in Components, TakeComponent(c)
        PROVE  TypeOK'
    BY <2>2 DEF TakeComponent, JobOnly, Job
  <2>3. ASSUME NEW c \in Components, WriteRow(c)
        PROVE  TypeOK'
    <3>1. CASE c \in index
      <4>1. job' = [job EXCEPT !.at = "component", !.closure = @ \ {c}, !.comps = {}]
        BY <2>3, <3>1 DEF WriteRow
      <4>2. job' \in Job
        BY <4>1 DEF Job
      <4> QED
        BY <2>3, <3>1, <4>2 DEF WriteRow
    <3>2. CASE c \notin index
      BY <2>3, <3>2 DEF WriteRow, Fail
    <3> QED
      BY <3>1, <3>2
  <2>4. ASSUME NEW c \in Components, NEW clean \in BOOLEAN, Merge(c, clean)
        PROVE  TypeOK'
    BY <2>4 DEF Merge, Fail, Job
  <2>5. ASSUME NEW r \in Repos, VerifyWorktree(r)
        PROVE  TypeOK'
    BY <2>5 DEF VerifyWorktree, JobOnly, Fail, Job
  <2>6. ASSUME NEW r \in Repos, WorktreeAdded(r)
        PROVE  TypeOK'
    BY <2>6 DEF WorktreeAdded, JobOnly, Fail, Job
  <2>7. ASSUME NEW r \in Repos, StartWorktree(r)
        PROVE  TypeOK'
    <3>1. CASE git[r].branch
      BY <2>7, <3>1 DEF StartWorktree, Fail
    <3>2. CASE ~git[r].branch
      <4>1. job' \in Job
        BY <2>7, <3>2 DEF StartWorktree, Job
      <4>2. git' = [git EXCEPT ![r].branch = TRUE, ![r].adding = "branch"]
        BY <2>7, <3>2 DEF StartWorktree
      <4>3. git' \in [Repos -> Git]
        BY <4>2 DEF Git
      <4> QED
        BY <2>7, <3>2, <4>1, <4>3 DEF StartWorktree
    <3> QED
      BY <3>1, <3>2
  <2>8. CASE ClosureDone
    BY <2>8 DEF ClosureDone, JobOnly, Job
  <2>9. CASE Finish
    BY <2>9 DEF Finish
  <2> QED
    BY <1>3, <2>1, <2>2, <2>3, <2>4, <2>5, <2>6, <2>7, <2>8, <2>9 DEF JobStep
<1>4. CASE Die
  BY <1>4 DEF Die, Fault
<1>5. ASSUME NEW r \in Repos, GitStep(r) \/ GitFails(r) \/ GitDies(r)
      PROVE  TypeOK'
  <2>1. git' \in [Repos -> Git]
    <3>1. CASE GitRegisters(r)
      BY <3>1 DEF GitRegisters, Git
    <3>2. CASE GitChecksOut(r)
      BY <3>2 DEF GitChecksOut, Git
    <3>3. CASE GitFails(r)
      BY <3>3 DEF GitFails, Git
    <3>4. CASE GitDies(r)
      BY <3>4 DEF GitDies, Git
    <3> QED
      BY <1>5, <3>1, <3>2, <3>3, <3>4 DEF GitStep
  <2>2. faults' \in 0..MaxFaults
    BY <1>5 DEF GitStep, GitRegisters, GitChecksOut, GitFails, GitDies, Fault
  <2> QED
    BY <1>5, <2>1, <2>2 DEF GitStep, GitRegisters, GitChecksOut, GitFails, GitDies, GitOnly
<1>6. ASSUME NEW c \in Components, Index(c)
      PROVE  TypeOK'
  BY <1>6 DEF Index, UserOnly
<1>7. ASSUME NEW r \in Repos,
             RemoveWorktree(r) \/ SwitchWorktree(r) \/ SwitchBack(r)
               \/ DeleteBranch(r) \/ Prune(r) \/ ResolveConflict(r)
      PROVE  TypeOK'
  <2>1. git' \in [Repos -> Git]
    <3>1. CASE RemoveWorktree(r)
      BY <3>1 DEF RemoveWorktree, Git
    <3>2. CASE SwitchWorktree(r)
      BY <3>2 DEF SwitchWorktree, Git
    <3>3. CASE SwitchBack(r)
      BY <3>3 DEF SwitchBack, Git
    <3>4. CASE DeleteBranch(r)
      BY <3>4 DEF DeleteBranch, Git
    <3>5. CASE Prune(r)
      BY <3>5 DEF Prune, Git
    <3>6. CASE ResolveConflict(r)
      BY <3>6 DEF ResolveConflict
    <3> QED
      BY <1>7, <3>1, <3>2, <3>3, <3>4, <3>5, <3>6
  <2> QED
    BY <1>7, <2>1 DEF RemoveWorktree, SwitchWorktree, SwitchBack, DeleteBranch, Prune,
              ResolveConflict, UserOnly
<1>8. CASE UNCHANGED vars
  BY <1>8 DEF vars
<1> QED
  BY <1>1, <1>2, <1>3, <1>4, <1>5, <1>6, <1>7, <1>8 DEF Next

\* The first state is typed.
LEMMA TypeInit == Init => TypeOK
<1> SUFFICES ASSUME Init PROVE TypeOK
  OBVIOUS
<1>1. git \in [Repos -> Git]
  BY DEF Init, Git
<1> QED
  BY <1>1, TargetsAssumption, IdleIsJob DEF Init, TypeOK, TargetsAssumption

(* The two files, the index, git's state and the process that mounts are   *)
(* well typed in every reachable state.                                    *)
THEOREM TypeCorrect == Spec => []TypeOK
  BY TypeInit, TypeStep, PTL DEF Spec
-----------------------------------------------------------------------------
(* Worktrees and rows                                                      *)

Excused == meddled \cup orphaned

Sound(r) ==
  /\ git[r].dir # "none" /\ git[r].reg = "plan"
  /\ git[r].branch /\ git[r].adding = "no"

\* git makes the branch before the directory, and deletes it after; a directory
\* that the user has left alone is registered with the plan's branch.
GitInv ==
  \A r \in Repos :
    /\ git[r].adding # "no" \/ git[r].dir # "none" => git[r].branch
    /\ git[r].adding = "checkout" => git[r].dir # "none"
    /\ git[r].dir # "none" /\ r \notin meddled => git[r].reg = "plan"

\* A git that runs has a process that waits for it, or is an orphan; and the
\* process that is about to write a row has seen its worktree.
JobInv ==
  /\ job.kind = "none" => job.at = "done"
  /\ \A c, d \in job.comps : c = d
  /\ \A r \in Repos \ orphaned :
       git[r].adding # "no" => job.at = "git" /\ \E c \in job.comps : RepoOf[c] = r
  /\ job.at = "row" => \A c \in job.comps : RepoOf[c] \notin Excused => Sound(RepoOf[c])

RowsInv == \A c \in rows : RepoOf[c] \notin Excused => Sound(RepoOf[c])

WorktreeInv == TypeOK /\ GitInv /\ JobInv /\ RowsInv

\* The first state has no worktree and no row.
LEMMA WorktreeInit == Init => WorktreeInv
<1> SUFFICES ASSUME Init PROVE WorktreeInv
  OBVIOUS
<1>1. \A r \in Repos : git[r].dir = "none" /\ git[r].adding = "no"
  BY DEF Init
<1>2. rows = {} /\ job.comps = {} /\ job.at = "done"
  BY IdleIsJob DEF Init
<1> QED
  BY <1>1, <1>2, TypeInit DEF WorktreeInv, GitInv, JobInv, RowsInv

\* A step that leaves git and the rows alone disturbs no worktree.
LEMMA Quiet ==
  ASSUME WorktreeInv, TypeOK', JobInv', UNCHANGED <<git, rows, meddled, orphaned>>
  PROVE  WorktreeInv'
  BY DEF WorktreeInv, GitInv, RowsInv, Excused, Sound

\* A process that leaves git alone and waits for nothing keeps the invariant.
LEMMA QuietJob ==
  ASSUME WorktreeInv, TypeOK', UNCHANGED <<git, rows, meddled, orphaned>>,
         \A r \in Repos \ orphaned : git[r].adding = "no",
         job'.kind = "none" => job'.at = "done",
         \A c, d \in job'.comps : c = d,
         job'.at # "row"
  PROVE  WorktreeInv'
<1>1. JobInv'
  BY DEF JobInv
<1> QED
  BY <1>1, Quiet

(* The steps of the process that mounts: only "git worktree add" touches   *)
(* git's state, and only where there is nothing yet.                       *)
LEMMA JobKeepsWorktrees == WorktreeInv /\ (JobStep \/ Start \/ Die) => WorktreeInv'
<1> SUFFICES ASSUME WorktreeInv, JobStep \/ Start \/ Die
             PROVE  WorktreeInv'
  OBVIOUS
<1> USE TargetsAssumption, IdleIsJob DEF TargetsAssumption
<1>0. TypeOK /\ TypeOK'
  BY TypeStep DEF WorktreeInv, Next
<1>a. job \in Job /\ git \in [Repos -> Git]
  BY <1>0 DEF TypeOK
<1>b. job.at # "git" => \A r \in Repos \ orphaned : git[r].adding = "no"
  BY DEF WorktreeInv, JobInv
<1>c. \A c, d \in job.comps : c = d
  BY DEF WorktreeInv, JobInv
<1>d. job.kind = "none" => job.at = "done"
  BY DEF WorktreeInv, JobInv
<1>1. CASE Start
  <2>1. job'.comps = {} /\ job'.at # "row" /\ job'.kind # "none"
    BY <1>1 DEF Start, StartDrain, StartSync, StartMount, Job
  <2>2. \A r \in Repos \ orphaned : git[r].adding = "no"
    BY <1>b, <1>d, <1>1 DEF Start, StartDrain, StartSync, StartMount, Free
  <2>3. UNCHANGED <<git, rows, meddled, orphaned>>
    BY <1>1 DEF Start, StartDrain, StartSync, StartMount, JobOnly
  <2> QED
    BY <1>0, <2>1, <2>2, <2>3, QuietJob
<1>2. ASSUME NEW c \in Components, TakeRequest(c)
      PROVE  WorktreeInv'
  <2>1. /\ job.at = "request"
        /\ UNCHANGED <<git, rows, meddled, orphaned>>
    BY <1>2 DEF TakeRequest, JobOnly
  <2>2. /\ job'.comps \subseteq job.comps /\ job'.at # "row"
        /\ job'.kind = "none" => job'.at = "done"
    BY <1>2, <1>a, <1>d DEF TakeRequest, Fail, Job
  <2> QED
    BY <1>0, <1>b, <1>c, <2>1, <2>2, QuietJob
<1>3. ASSUME NEW c \in Components, TakeComponent(c)
      PROVE  WorktreeInv'
  <2>1. /\ job.at = "component"
        /\ UNCHANGED <<git, rows, meddled, orphaned>>
    BY <1>3 DEF TakeComponent, JobOnly
  <2>2. /\ job'.comps \in {job.comps, {c}} /\ job'.at # "row"
        /\ job'.kind = "none" => job'.at = "done"
    BY <1>3, <1>a, <1>d DEF TakeComponent, Job
  <2> QED
    BY <1>0, <1>b, <1>c, <2>1, <2>2, QuietJob
<1>4. CASE ClosureDone
  <2>1. /\ job.at = "component"
        /\ UNCHANGED <<git, rows, meddled, orphaned>>
    BY <1>4 DEF ClosureDone, JobOnly
  <2>2. /\ job'.comps = job.comps /\ job'.at # "row"
        /\ job'.kind = "none" => job'.at = "done"
    BY <1>4, <1>a, <1>d DEF ClosureDone, Job
  <2> QED
    BY <1>0, <1>b, <1>c, <2>1, <2>2, QuietJob
<1>5. CASE Finish
  <2>1. /\ job.at # "git" /\ job' = Idle
        /\ UNCHANGED <<git, rows, meddled, orphaned>>
    BY <1>5 DEF Finish
  <2> QED
    BY <1>0, <1>b, <2>1, QuietJob
<1>6. ASSUME NEW c \in Components, NEW clean \in BOOLEAN, Merge(c, clean)
      PROVE  WorktreeInv'
  <2>1. /\ job.at = "merge"
        /\ UNCHANGED <<git, rows, meddled, orphaned>>
    BY <1>6 DEF Merge
  <2>2. /\ job'.comps \subseteq job.comps /\ job'.at # "row"
        /\ job'.kind = "none" => job'.at = "done"
    BY <1>6, <1>a, <1>d DEF Merge, Fail, Job
  <2> QED
    BY <1>0, <1>b, <1>c, <2>1, <2>2, QuietJob
<1>7. CASE Die
  <2>1. job' = Idle /\ UNCHANGED <<git, rows, meddled>>
    BY <1>7 DEF Die
  <2>2. orphaned' = orphaned \cup {r \in Repos : git[r].adding # "no"}
    BY <1>7 DEF Die
  <2>3. GitInv'
    BY <2>1 DEF WorktreeInv, GitInv
  <2>4. RowsInv'
    BY <2>1, <2>2 DEF WorktreeInv, RowsInv, Excused, Sound
  <2>5. JobInv'
    BY <2>1, <2>2 DEF JobInv
  <2> QED
    BY <1>0, <2>3, <2>4, <2>5 DEF WorktreeInv
<1>8. ASSUME NEW r \in Repos, VerifyWorktree(r)
      PROVE  WorktreeInv'
  <2>1. /\ job.at = "worktree" /\ git[r].dir # "none"
        /\ \E c \in job.comps : RepoOf[c] = r
        /\ UNCHANGED <<git, rows, meddled, orphaned>>
    BY <1>8 DEF VerifyWorktree, JobOnly
  <2>2. CASE git[r].reg = "plan"
    <3>1. job' = [job EXCEPT !.at = "row"]
      BY <1>8, <2>2 DEF VerifyWorktree
    <3>2. job'.comps = job.comps /\ job'.kind = job.kind
      BY <3>1, <1>a DEF Job
    <3>3. r \notin Excused => Sound(r)
      BY <1>b, <2>1, <2>2 DEF WorktreeInv, GitInv, Excused, Sound
    <3>4. JobInv'
      BY <1>b, <1>c, <1>d, <2>1, <3>2, <3>3 DEF JobInv, Excused, Sound
    <3> QED
      BY <1>0, <2>1, <3>4, Quiet
  <2>3. CASE git[r].reg # "plan"
    <3>1. job' = Idle
      BY <1>8, <2>3 DEF VerifyWorktree, Fail
    <3> QED
      BY <1>0, <1>b, <2>1, <3>1, QuietJob
  <2> QED
    BY <2>2, <2>3
<1>9. ASSUME NEW r \in Repos, WorktreeAdded(r)
      PROVE  WorktreeInv'
  <2>1. /\ job.at = "git" /\ git[r].adding = "no"
        /\ \E c \in job.comps : RepoOf[c] = r
        /\ UNCHANGED <<git, rows, meddled, orphaned>>
    BY <1>9 DEF WorktreeAdded, JobOnly
  <2>2. \A s \in Repos \ orphaned : git[s].adding = "no"
    BY <1>c, <2>1 DEF WorktreeInv, JobInv
  <2>3. CASE git[r].dir = "full"
    <3>1. job' = [job EXCEPT !.at = "row"]
      BY <1>9, <2>3 DEF WorktreeAdded
    <3>2. job'.comps = job.comps /\ job'.kind = job.kind
      BY <3>1, <1>a DEF Job
    <3>3. r \notin Excused => Sound(r)
      BY <2>1, <2>3 DEF WorktreeInv, GitInv, Excused, Sound
    <3>4. JobInv'
      BY <1>c, <1>d, <2>1, <2>2, <3>2, <3>3 DEF JobInv, Excused, Sound
    <3> QED
      BY <1>0, <2>1, <3>4, Quiet
  <2>4. CASE git[r].dir # "full"
    <3>1. job' = Idle
      BY <1>9, <2>4 DEF WorktreeAdded, Fail
    <3> QED
      BY <1>0, <2>1, <2>2, <3>1, QuietJob
  <2> QED
    BY <2>3, <2>4
<1>10. ASSUME NEW c \in Components, WriteRow(c)
       PROVE  WorktreeInv'
  <2>1. /\ job.at = "row" /\ c \in job.comps
        /\ UNCHANGED <<git, meddled, orphaned>>
    BY <1>10 DEF WriteRow
  <2>2. CASE c \in index
    <3>1. /\ rows' = rows \cup {c}
          /\ job' = [job EXCEPT !.at = "component", !.closure = @ \ {c}, !.comps = {}]
      BY <1>10, <2>2 DEF WriteRow
    <3>2. job'.comps = {} /\ job'.kind = job.kind /\ job'.at = "component"
      BY <3>1, <1>a DEF Job
    <3>3. RowsInv'
      BY <2>1, <3>1 DEF WorktreeInv, RowsInv, JobInv, Excused, Sound
    <3>4. JobInv'
      BY <1>b, <1>d, <2>1, <3>2 DEF JobInv
    <3>5. GitInv'
      BY <2>1 DEF WorktreeInv, GitInv
    <3> QED
      BY <1>0, <3>3, <3>4, <3>5 DEF WorktreeInv
  <2>3. CASE c \notin index
    <3>1. job' = Idle /\ rows' = rows
      BY <1>10, <2>3 DEF WriteRow, Fail
    <3> QED
      BY <1>0, <1>b, <2>1, <3>1, QuietJob
  <2> QED
    BY <2>2, <2>3
<1>11. ASSUME NEW r \in Repos, StartWorktree(r)
       PROVE  WorktreeInv'
  <2>1. /\ job.at = "worktree" /\ git[r].dir = "none"
        /\ \E c \in job.comps : RepoOf[c] = r
        /\ UNCHANGED <<rows, meddled, orphaned>>
    BY <1>11 DEF StartWorktree
  <2>2. CASE git[r].branch
    <3>1. job' = Idle /\ git' = git
      BY <1>11, <2>2 DEF StartWorktree, Fail
    <3> QED
      BY <1>0, <1>b, <2>1, <3>1, QuietJob
  <2>3. CASE ~git[r].branch
    <3>1. /\ git' = [git EXCEPT ![r].branch = TRUE, ![r].adding = "branch"]
          /\ job' = [job EXCEPT !.at = "git"]
      BY <1>11, <2>3 DEF StartWorktree
    <3>2. job'.comps = job.comps /\ job'.kind = job.kind /\ job'.at = "git"
      BY <3>1, <1>a DEF Job
    <3>3. \A s \in Repos \ {r} : git'[s] = git[s]
      BY <3>1, <1>a
    <3>4. /\ git'[r].branch /\ git'[r].adding = "branch"
          /\ git'[r].dir = "none"
      BY <3>1, <2>1, <1>a DEF Git
    <3>5. GitInv'
      BY <2>1, <3>3, <3>4 DEF WorktreeInv, GitInv
    <3>6. JobInv'
      BY <1>b, <1>c, <1>d, <2>1, <3>2, <3>3 DEF JobInv
    <3>7. RowsInv'
      <4> SUFFICES ASSUME NEW c \in rows, RepoOf[c] \notin Excused
                   PROVE  Sound(RepoOf[c])'
        BY <2>1 DEF RowsInv, Excused
      <4>1. Sound(RepoOf[c]) /\ RepoOf[c] \in Repos
        BY <1>0 DEF WorktreeInv, RowsInv, TypeOK
      <4>2. RepoOf[c] # r
        BY <4>1, <2>1 DEF Sound
      <4> QED
        BY <4>1, <4>2, <3>3 DEF Sound
    <3> QED
      BY <1>0, <3>5, <3>6, <3>7 DEF WorktreeInv
  <2> QED
    BY <2>2, <2>3
<1> QED
  BY <1>1, <1>2, <1>3, <1>4, <1>5, <1>6, <1>7, <1>8, <1>9, <1>10, <1>11 DEF JobStep
(* A step that changes git's state of one repository r and no row, and     *)
(* leaves the process that mounts alone.                                   *)
LEMMA OneRepository ==
  ASSUME WorktreeInv, TypeOK', NEW r \in Repos,
         UNCHANGED <<rows, job, orphaned>>,
         meddled \subseteq meddled',
         \A s \in Repos \ {r} : git'[s] = git[s],
         git'[r].adding # "no" \/ git'[r].dir # "none" => git'[r].branch,
         git'[r].adding = "checkout" => git'[r].dir # "none",
         git'[r].dir # "none" /\ r \notin meddled' => git'[r].reg = "plan",
         git'[r].adding # "no" => git[r].adding # "no",
         r \notin meddled' \cup orphaned /\ Sound(r) => Sound(r)'
  PROVE  WorktreeInv'
<1>1. GitInv'
  BY DEF WorktreeInv, GitInv
<1>2. \A s \in Repos : s \notin Excused' /\ Sound(s) => Sound(s)'
  BY DEF Excused, Sound
<1>3. \A s \in Repos : s \notin Excused' => s \notin Excused
  BY DEF Excused
<1>4. \A c \in Components : RepoOf[c] \in Repos
  BY TargetsAssumption DEF TargetsAssumption
<1>5. rows \subseteq Components /\ job.comps \subseteq Components
  BY DEF WorktreeInv, TypeOK, Job
<1>6. RowsInv'
  BY <1>2, <1>3, <1>4, <1>5 DEF WorktreeInv, RowsInv
<1>7. JobInv'
  BY <1>2, <1>3, <1>4, <1>5 DEF WorktreeInv, JobInv
<1> QED
  BY <1>1, <1>6, <1>7 DEF WorktreeInv

(* A git that fails takes its directory away again: it runs for a process   *)
(* that has not written the row, or its repository is excused.             *)
LEMMA GitKeepsWorktrees ==
  ASSUME WorktreeInv, NEW r \in Repos, GitStep(r) \/ GitFails(r) \/ GitDies(r)
  PROVE  WorktreeInv'
<1>0. TypeOK /\ TypeOK'
  BY TypeStep DEF WorktreeInv, Next
<1>a. git \in [Repos -> Git]
  BY <1>0 DEF TypeOK
<1>b. UNCHANGED <<rows, job, meddled, orphaned>>
  BY DEF GitStep, GitRegisters, GitChecksOut, GitFails, GitDies, GitOnly
<1>c. git[r].adding # "no" /\ git[r].branch /\ ~Sound(r)
  BY DEF GitStep, GitRegisters, GitChecksOut, GitFails, GitDies, WorktreeInv, GitInv, Sound
<1>d. \A s \in Repos \ {r} : git'[s] = git[s]
  BY <1>a DEF GitStep, GitRegisters, GitChecksOut, GitFails, GitDies
<1>1. CASE GitRegisters(r)
  <2>1. CASE git[r].reg # "no"
    <3>1. git'[r] = [git[r] EXCEPT !.adding = "no"]
      BY <1>1, <1>a, <2>1 DEF GitRegisters
    <3>2. /\ git'[r].adding = "no" /\ git'[r].dir = git[r].dir
          /\ git'[r].branch = git[r].branch /\ git'[r].reg = git[r].reg
      BY <3>1, <1>a DEF Git
    <3> QED
      BY <1>0, <1>b, <1>c, <1>d, <3>2, OneRepository DEF WorktreeInv, GitInv
  <2>2. CASE git[r].reg = "no"
    <3>1. git'[r] = [git[r] EXCEPT !.reg = "plan", !.dir = "part", !.adding = "checkout"]
      BY <1>1, <1>a, <2>2 DEF GitRegisters
    <3>2. /\ git'[r].adding = "checkout" /\ git'[r].dir = "part"
          /\ git'[r].branch = git[r].branch /\ git'[r].reg = "plan"
      BY <3>1, <1>a DEF Git
    <3> QED
      BY <1>0, <1>b, <1>c, <1>d, <3>2, OneRepository
  <2> QED
    BY <2>1, <2>2
<1>2. CASE GitChecksOut(r)
  <2>1. /\ git'[r].adding = "no" /\ git'[r].dir = "full" /\ git[r].adding = "checkout"
        /\ git'[r].branch = git[r].branch /\ git'[r].reg = git[r].reg
    BY <1>2, <1>a DEF GitChecksOut, Git
  <2> QED
    BY <1>0, <1>b, <1>c, <1>d, <2>1, OneRepository DEF WorktreeInv, GitInv
<1>3. CASE GitFails(r)
  <2>1. git'[r] = [branch |-> TRUE, reg |-> "no", dir |-> "none", adding |-> "no"]
    BY <1>3, <1>a DEF GitFails
  <2>2. git'[r].adding = "no" /\ git'[r].dir = "none"
    BY <2>1
  <2> QED
    BY <1>0, <1>b, <1>c, <1>d, <2>2, OneRepository
<1>4. CASE GitDies(r)
  <2>1. /\ git'[r].adding = "no" /\ git'[r].dir = git[r].dir
        /\ git'[r].branch = git[r].branch /\ git'[r].reg = git[r].reg
    BY <1>4, <1>a DEF GitDies, Git
  <2> QED
    BY <1>0, <1>b, <1>c, <1>d, <2>1, OneRepository DEF WorktreeInv, GitInv
<1> QED
  BY <1>1, <1>2, <1>3, <1>4 DEF GitStep

(* What the user does to a worktree excuses it or mends it.                *)
LEMMA UserKeepsWorktrees ==
  ASSUME WorktreeInv, NEW r \in Repos,
         RemoveWorktree(r) \/ SwitchWorktree(r) \/ SwitchBack(r)
           \/ DeleteBranch(r) \/ Prune(r) \/ ResolveConflict(r)
  PROVE  WorktreeInv'
<1>0. TypeOK /\ TypeOK'
  BY TypeStep DEF WorktreeInv, Next
<1>a. git \in [Repos -> Git]
  BY <1>0 DEF TypeOK
<1>b. UNCHANGED <<rows, job, orphaned>> /\ meddled \subseteq meddled'
  BY DEF RemoveWorktree, SwitchWorktree, SwitchBack, DeleteBranch, Prune, ResolveConflict, UserOnly
<1>c. \A s \in Repos \ {r} : git'[s] = git[s]
  BY <1>a DEF RemoveWorktree, SwitchWorktree, SwitchBack, DeleteBranch, Prune, ResolveConflict
<1>d. /\ git[r].adding # "no" \/ git[r].dir # "none" => git[r].branch
      /\ git[r].adding = "checkout" => git[r].dir # "none"
      /\ git[r].dir # "none" /\ r \notin meddled => git[r].reg = "plan"
  BY DEF WorktreeInv, GitInv
<1>1. CASE RemoveWorktree(r)
  <2>1. /\ git'[r].adding = "no" /\ git'[r].dir = "none" /\ r \in meddled'
    BY <1>1, <1>a DEF RemoveWorktree, Git
  <2> QED
    BY <1>0, <1>b, <1>c, <2>1, OneRepository
<1>2. CASE SwitchWorktree(r)
  <2>1. /\ git'[r].adding = git[r].adding /\ git'[r].dir = git[r].dir
        /\ git'[r].branch = git[r].branch /\ r \in meddled'
    BY <1>2, <1>a DEF SwitchWorktree, Git
  <2> QED
    BY <1>0, <1>b, <1>c, <1>d, <2>1, OneRepository
<1>3. CASE SwitchBack(r)
  <2>1. /\ git'[r].adding = git[r].adding /\ git'[r].dir = git[r].dir
        /\ git'[r].branch = git[r].branch /\ git'[r].reg = "plan"
    BY <1>3, <1>a DEF SwitchBack, Git
  <2> QED
    BY <1>0, <1>b, <1>c, <1>d, <2>1, OneRepository DEF Sound
<1>4. CASE DeleteBranch(r)
  <2>1. /\ git'[r].adding = "no" /\ git'[r].dir = "none" /\ git[r].dir = "none"
    BY <1>4, <1>a DEF DeleteBranch, Git
  <2> QED
    BY <1>0, <1>b, <1>c, <2>1, OneRepository DEF Sound
<1>5. CASE Prune(r)
  <2>1. /\ git'[r].adding = "no" /\ git'[r].dir = "none" /\ git[r].dir = "none"
    BY <1>5, <1>a DEF Prune, Git
  <2> QED
    BY <1>0, <1>b, <1>c, <2>1, OneRepository DEF Sound
<1>6. CASE ResolveConflict(r)
  <2>1. git' = git /\ meddled' = meddled
    BY <1>6 DEF ResolveConflict
  <2> QED
    BY <1>0, <1>b, <1>c, <1>d, <2>1, OneRepository DEF Sound
<1> QED
  BY <1>1, <1>2, <1>3, <1>4, <1>5, <1>6

\* Every step keeps the worktrees and the rows in agreement.
LEMMA WorktreeStep == WorktreeInv /\ [Next]_vars => WorktreeInv'
<1> SUFFICES ASSUME WorktreeInv, [Next]_vars
             PROVE  WorktreeInv'
  OBVIOUS
<1>0. TypeOK /\ TypeOK'
  BY TypeStep DEF WorktreeInv
<1>a. \A c \in Components : RepoOf[c] \in Repos
  BY TargetsAssumption DEF TargetsAssumption
<1>1. CASE Verb
  <2>1. UNCHANGED <<git, job, orphaned>> /\ meddled \subseteq meddled'
    BY <1>1 DEF Verb, AddRequest, RemoveRequest, AddRow, RemoveRow
  <2>2. \A c \in rows' : c \in rows \/ RepoOf[c] \in meddled'
    BY <1>1 DEF Verb, AddRequest, RemoveRequest, AddRow, RemoveRow
  <2> QED
    BY <1>0, <2>1, <2>2 DEF WorktreeInv, GitInv, JobInv, RowsInv, Excused, Sound
<1>2. ASSUME NEW c \in Components, Index(c)
      PROVE  WorktreeInv'
  <2>1. UNCHANGED <<git, rows, job, meddled, orphaned>>
    BY <1>2 DEF Index, UserOnly
  <2> QED
    BY <1>0, <2>1 DEF WorktreeInv, GitInv, JobInv, RowsInv, Excused, Sound
<1>3. CASE UNCHANGED vars
  BY <1>0, <1>3 DEF vars, WorktreeInv, GitInv, JobInv, RowsInv, Excused, Sound
<1> QED
  BY <1>1, <1>2, <1>3, JobKeepsWorktrees, GitKeepsWorktrees, UserKeepsWorktrees DEF Next

(* A row of targets.yaml has its worktree on the plan's branch, however    *)
(* many mounts and gits fail or are killed, but for the repositories the   *)
(* user changed by hand or whose git outlived its caller.                  *)
THEOREM RowsAreMounted == Spec => []RowsHaveWorktrees
<1>1. WorktreeInv => RowsHaveWorktrees
  BY DEF WorktreeInv, RowsInv, Excused, Sound, RowsHaveWorktrees
<1> QED
  BY <1>1, WorktreeInit, WorktreeStep, PTL DEF Spec
-----------------------------------------------------------------------------
(* What a drain and a sync have done when they end                         *)

\* A request that is not to come has its closure in rows or under way; what is
\* the other plan's likewise, and is then to be merged or has been.
CoverInv ==
  /\ job.kind = "none" => job.at = "done"
  /\ job.at = "request" => job.closure = {} /\ job.kind # "sync"
  /\ job.at = "merge" => job.kind = "sync"
  /\ job.kind = "drain" =>
       \A c \in queue : c \in job.todo \/ Closure(c) \subseteq rows \cup job.closure
  /\ job.kind = "sync" =>
       IF job.at = "merge"
       THEN /\ Other \subseteq rows
            /\ \A c \in Other : c \in job.todo \/ RepoOf[c] \in merged \cup conflict
       ELSE Other \subseteq rows \cup job.closure

\* No process, nothing to cover.
LEMMA CoverInit == Init => CoverInv
  BY IdleIsJob DEF Init, CoverInv

\* A process that has ended owes nothing.
LEMMA Ended == ASSUME job' = Idle PROVE CoverInv'
  BY IdleIsJob DEF CoverInv

(* A step that leaves the process alone changes rows, requests or merges   *)
(* only when there is none.                                                *)
LEMMA OthersKeepCover ==
  ASSUME CoverInv, job' = job, Free \/ UNCHANGED <<queue, rows, merged, conflict>>
  PROVE  CoverInv'
  BY DEF CoverInv, Free

(* Each step of the process hands on what it has not done itself.          *)
LEMMA JobKeepsCover ==
  ASSUME TypeOK, CoverInv, JobStep
  PROVE  CoverInv'
<1> USE TargetsAssumption DEF TargetsAssumption
<1>a. job \in Job
  BY DEF TypeOK
<1>1. ASSUME NEW c \in Components, TakeRequest(c)
      PROVE  CoverInv'
  <2>1. UNCHANGED <<queue, rows, merged, conflict>>
    BY <1>1 DEF TakeRequest, JobOnly
  <2>2. CASE Closure(c) \subseteq index
    <3>1. job' = [job EXCEPT !.at = "component", !.todo = @ \ {c}, !.closure = Closure(c)]
      BY <1>1, <2>2 DEF TakeRequest
    <3>2. /\ job'.at = "component" /\ job'.kind = job.kind
          /\ job'.todo = job.todo \ {c} /\ job'.closure = Closure(c)
      BY <3>1, <1>a DEF Job
    <3>3. job.at = "request"
      BY <1>1 DEF TakeRequest
    <3>4. Closure(c)' = Closure(c) /\ \A d : Closure(d)' = Closure(d)
      BY DEF Closure, Graph!Reaches
    <3> QED
      BY <2>1, <3>2, <3>3, <3>4 DEF CoverInv
  <2>3. CASE ~(Closure(c) \subseteq index)
    BY <1>1, <2>3, Ended DEF TakeRequest, Fail
  <2> QED
    BY <2>2, <2>3
<1>2. ASSUME NEW c \in Components, TakeComponent(c)
      PROVE  CoverInv'
  <2>1. UNCHANGED <<queue, rows, merged, conflict>> /\ job.at = "component"
    BY <1>2 DEF TakeComponent, JobOnly
  <2>2. /\ job'.at \in {"component", "worktree"} /\ job'.kind = job.kind
        /\ job'.todo = job.todo
        /\ job'.closure = IF c \in rows THEN job.closure \ {c} ELSE job.closure
    BY <1>2, <1>a DEF TakeComponent, Job
  <2> QED
    BY <2>1, <2>2 DEF CoverInv
<1>3. CASE ClosureDone
  <2>1. /\ UNCHANGED <<queue, rows, merged, conflict>>
        /\ job.at = "component" /\ job.closure = {}
    BY <1>3 DEF ClosureDone, JobOnly
  <2>2. CASE job.kind = "sync"
    <3>1. /\ job'.at = "merge" /\ job'.kind = "sync" /\ job'.todo = rows \cap Other
      BY <1>3, <1>a, <2>2 DEF ClosureDone, Job
    <3> QED
      BY <2>1, <2>2, <3>1 DEF CoverInv
  <2>3. CASE job.kind # "sync"
    <3>1. /\ job'.at = "request" /\ job'.kind = job.kind /\ job'.todo = job.todo
          /\ job'.closure = job.closure
      BY <1>3, <1>a, <2>3 DEF ClosureDone, Job
    <3> QED
      BY <2>1, <2>3, <3>1 DEF CoverInv
  <2> QED
    BY <2>2, <2>3
<1>4. ASSUME NEW r \in Repos, VerifyWorktree(r) \/ WorktreeAdded(r)
      PROVE  CoverInv'
  <2>1. UNCHANGED <<queue, rows, merged, conflict>> /\ job.at \in {"worktree", "git"}
    BY <1>4 DEF VerifyWorktree, WorktreeAdded, JobOnly
  <2>2. CASE job' = Idle
    BY <2>2, Ended
  <2>3. CASE job' # Idle
    <3>1. job' = [job EXCEPT !.at = "row"]
      BY <1>4, <2>3 DEF VerifyWorktree, WorktreeAdded, Fail
    <3>2. /\ job'.at = "row" /\ job'.kind = job.kind /\ job'.todo = job.todo
          /\ job'.closure = job.closure
      BY <3>1, <1>a DEF Job
    <3> QED
      BY <2>1, <3>2 DEF CoverInv
  <2> QED
    BY <2>2, <2>3
<1>5. ASSUME NEW r \in Repos, StartWorktree(r)
      PROVE  CoverInv'
  <2>1. UNCHANGED <<queue, rows, conflict>> /\ job.at = "worktree"
    BY <1>5 DEF StartWorktree
  <2>2. CASE git[r].branch
    BY <1>5, <2>2, Ended DEF StartWorktree, Fail
  <2>3. CASE ~git[r].branch
    <3>1. job' = [job EXCEPT !.at = "git"]
      BY <1>5, <2>3 DEF StartWorktree
    <3>2. /\ job'.at = "git" /\ job'.kind = job.kind /\ job'.todo = job.todo
          /\ job'.closure = job.closure
      BY <3>1, <1>a DEF Job
    <3> QED
      BY <2>1, <3>2 DEF CoverInv
  <2> QED
    BY <2>2, <2>3
<1>6. ASSUME NEW c \in Components, WriteRow(c)
      PROVE  CoverInv'
  <2>1. UNCHANGED <<queue, merged, conflict>> /\ job.at = "row"
    BY <1>6 DEF WriteRow
  <2>2. CASE c \in index
    <3>1. /\ rows' = rows \cup {c}
          /\ job' = [job EXCEPT !.at = "component", !.closure = @ \ {c}, !.comps = {}]
      BY <1>6, <2>2 DEF WriteRow
    <3>2. /\ job'.at = "component" /\ job'.kind = job.kind /\ job'.todo = job.todo
          /\ job'.closure = job.closure \ {c}
      BY <3>1, <1>a DEF Job
    <3> QED
      BY <2>1, <3>1, <3>2 DEF CoverInv
  <2>3. CASE c \notin index
    BY <1>6, <2>3, Ended DEF WriteRow, Fail
  <2> QED
    BY <2>2, <2>3
<1>7. ASSUME NEW c \in Components, NEW clean \in BOOLEAN, Merge(c, clean)
      PROVE  CoverInv'
  <2>1. UNCHANGED <<queue, rows>> /\ job.at = "merge"
    BY <1>7 DEF Merge
  <2>2. CASE job' = Idle
    BY <2>2, Ended
  <2>3. CASE job' # Idle
    <3>1. /\ job' = [job EXCEPT !.todo = @ \ {c}]
          /\ merged' = IF clean THEN merged \cup {RepoOf[c]} ELSE merged
          /\ conflict' = IF clean THEN conflict ELSE conflict \cup {RepoOf[c]}
      BY <1>7, <2>3 DEF Merge, Fail
    <3>2. job'.at = "merge" /\ job'.kind = job.kind /\ job'.todo = job.todo \ {c}
      BY <3>1, <1>a, <2>1 DEF Job
    <3> QED
      BY <2>1, <3>1, <3>2 DEF CoverInv
  <2> QED
    BY <2>2, <2>3
<1>8. CASE Finish
  BY <1>8, Ended DEF Finish
<1> QED
  BY <1>1, <1>2, <1>3, <1>4, <1>5, <1>6, <1>7, <1>8 DEF JobStep

\* A process starts with all there is to do.
LEMMA StartKeepsCover ==
  ASSUME CoverInv, Start
  PROVE  CoverInv'
<1> USE IdleIsJob DEF Job
<1>1. CASE StartDrain
  <2>1. job'.kind = "drain" /\ job'.at = "request" /\ job'.todo = queue /\ job'.closure = {}
    BY <1>1 DEF StartDrain
  <2>2. queue' = queue
    BY <1>1 DEF StartDrain, JobOnly
  <2> QED
    BY <2>1, <2>2 DEF CoverInv
<1>2. CASE StartSync
  <2>1. job'.kind = "sync" /\ job'.at = "component" /\ job'.closure = Other \ rows
    BY <1>2 DEF StartSync
  <2>2. rows' = rows
    BY <1>2 DEF StartSync, JobOnly
  <2> QED
    BY <2>1, <2>2 DEF CoverInv
<1>3. ASSUME NEW c \in Components, StartMount(c)
      PROVE  CoverInv'
  <2>1. job'.kind = "mount" /\ job'.at = "request" /\ job'.closure = {}
    BY <1>3 DEF StartMount
  <2> QED
    BY <2>1 DEF CoverInv
<1> QED
  BY <1>1, <1>2, <1>3 DEF Start
\* Every step keeps what a process still owes.
LEMMA CoverStep ==
  ASSUME ~Agents, TypeOK, CoverInv, [Next]_vars
  PROVE  CoverInv'
<1>1. CASE Verb
  <2>1. Free /\ job' = job
    BY <1>1 DEF Verb, AddRequest, RemoveRequest, AddRow, RemoveRow, VerbMayRun
  <2> QED
    BY <2>1, OthersKeepCover
<1>2. CASE Die
  BY <1>2, Ended DEF Die
<1>3. ASSUME NEW r \in Repos, GitStep(r) \/ GitFails(r) \/ GitDies(r)
      PROVE  CoverInv'
  <2>1. UNCHANGED <<job, queue, rows, merged, conflict>>
    BY <1>3 DEF GitStep, GitRegisters, GitChecksOut, GitFails, GitDies, GitOnly
  <2> QED
    BY <2>1, OthersKeepCover
<1>4. ASSUME NEW c \in Components, Index(c)
      PROVE  CoverInv'
  BY <1>4, OthersKeepCover DEF Index, UserOnly
<1>5. ASSUME NEW r \in Repos,
             RemoveWorktree(r) \/ SwitchWorktree(r) \/ SwitchBack(r)
               \/ DeleteBranch(r) \/ Prune(r) \/ ResolveConflict(r)
      PROVE  CoverInv'
  <2>1. job' = job /\ (Free \/ UNCHANGED <<queue, rows, merged, conflict>>)
    BY <1>5 DEF RemoveWorktree, SwitchWorktree, SwitchBack, DeleteBranch, Prune,
                ResolveConflict, UserOnly
  <2> QED
    BY <2>1, OthersKeepCover
<1>6. CASE UNCHANGED vars
  BY <1>6, OthersKeepCover DEF vars
<1> QED
  BY <1>1, <1>2, <1>3, <1>4, <1>5, <1>6, JobKeepsCover, StartKeepsCover DEF Next

\* A process never loses sight of what it owes.
LEMMA CoverAlways == ~Agents /\ Spec => [](TypeOK /\ CoverInv)
<1> SUFFICES ASSUME ~Agents PROVE Spec => [](TypeOK /\ CoverInv)
  OBVIOUS
<1>1. Init => TypeOK /\ CoverInv
  BY TypeInit, CoverInit
<1>2. (TypeOK /\ CoverInv) /\ [Next]_vars => (TypeOK /\ CoverInv)'
  BY TypeStep, CoverStep
<1> QED
  BY <1>1, <1>2, PTL DEF Spec

(* While no verb runs beside a mount, a drain that deletes the queue has   *)
(* mounted every request in it with its closure, whatever failed or died.  *)
THEOREM RequestsAreKept == ~Agents /\ Spec => RequestsKept
<1> SUFFICES ASSUME ~Agents PROVE Spec => RequestsKept
  OBVIOUS
<1> DEFINE Kept == job.kind = "drain" /\ queue' # queue
                     => \A c \in queue : Closure(c) \subseteq rows
<1>1. TypeOK /\ CoverInv /\ [Next]_vars => [Kept]_vars
  <2> SUFFICES ASSUME TypeOK, CoverInv, Next, job.kind = "drain", queue' # queue
               PROVE  \A c \in queue : Closure(c) \subseteq rows
    OBVIOUS
  <2>1. ~Verb
    BY DEF Verb, AddRequest, RemoveRequest, AddRow, RemoveRow, VerbMayRun, Free
  <2>2. ~Start /\ ~Die
    BY DEF Start, StartDrain, StartSync, StartMount, JobOnly, Die
  <2>3. \A r \in Repos : ~(GitStep(r) \/ GitFails(r) \/ GitDies(r))
    BY DEF GitStep, GitRegisters, GitChecksOut, GitFails, GitDies, GitOnly
  <2>4. \A c \in Components : ~Index(c)
    BY DEF Index, UserOnly
  <2>5. \A r \in Repos :
          ~(RemoveWorktree(r) \/ SwitchWorktree(r) \/ SwitchBack(r)
              \/ DeleteBranch(r) \/ Prune(r) \/ ResolveConflict(r))
    BY DEF RemoveWorktree, SwitchWorktree, SwitchBack, DeleteBranch, Prune,
           ResolveConflict, UserOnly
  <2>6. JobStep
    BY <2>1, <2>2, <2>3, <2>4, <2>5 DEF Next
  <2>7. Finish
    BY <2>6 DEF JobStep, TakeRequest, TakeComponent, ClosureDone, VerifyWorktree,
                StartWorktree, WorktreeAdded, WriteRow, Merge, JobOnly
  <2>8. job.at = "request" /\ job.todo = {}
    BY <2>7 DEF Finish, CoverInv
  <2> QED
    BY <2>8 DEF CoverInv
<1>2. Spec => [][Kept]_vars
  BY <1>1, CoverAlways, PTL DEF Spec
<1> QED
  BY <1>2 DEF RequestsKept

(* While no verb runs beside it, a sync that ends has every target of the  *)
(* other plan, each merged or in conflict, after whatever earlier failures. *)
THEOREM SyncsCover == ~Agents /\ Spec => SyncCovers
<1> SUFFICES ASSUME ~Agents PROVE Spec => SyncCovers
  OBVIOUS
<1> DEFINE Covered ==
      job.kind = "sync" /\ job.at = "merge" /\ job.todo = {}
        /\ job'.kind = "none" /\ faults' = faults
      => /\ Other \subseteq rows
         /\ \A c \in Other : RepoOf[c] \in merged \cup conflict
<1>1. TypeOK /\ CoverInv /\ [Next]_vars => [Covered]_vars
  BY DEF CoverInv
<1>2. Spec => [][Covered]_vars
  BY <1>1, CoverAlways, PTL DEF Spec
<1> QED
  BY <1>2 DEF SyncCovers
================================================================================
