-------------------------------- MODULE Targets --------------------------------
(***************************************************************************)
(* The components a plan has mounted: targets.yaml, the queue the agents   *)
(* leave in target-requests.yaml, and a git worktree per source repository *)
(* on the plan's own branch (src/state/targets, src/state/target_requests).*)
(* One process at a time mounts: the runner draining the queue between two *)
(* phases, "state targets mount", or "sync", which mounts what another     *)
(* plan has and merges its branches (src/sync.rs).  It waits for git,      *)
(* which is a process of its own and goes on when its caller dies.         *)
(***************************************************************************)
EXTENDS Naturals, FiniteSets

CONSTANTS
  Components,  \* <repo>:<component> references
  Repos,       \* the repositories of repos.yaml
  RepoOf,      \* the repository a component is in
  Deps,        \* for each component those its build edges lead to
  Indexed,     \* the components the indexes list at first
  Other,       \* the components the other plan of a sync has mounted
  Agents,      \* agents and operators run verbs while a mount is under way
  Prunes,      \* the user also knows of git worktree prune
  MaxFaults,   \* bound: failures and deaths of git, and deaths of its callers
  Meddling     \* bound: the worktrees the user changes by hand, once

ASSUME TargetsAssumption ==
  /\ RepoOf \in [Components -> Repos]
  /\ Deps \in [Components -> SUBSET Components]
  /\ Indexed \subseteq Components /\ Other \subseteq Components
  /\ Agents \in BOOLEAN /\ Prunes \in BOOLEAN
  /\ MaxFaults \in Nat /\ Meddling \subseteq Repos

VARIABLES
  queue,    \* target-requests.yaml
  rows,     \* targets.yaml
  index,    \* the components the repositories' .atlas/components.yaml list
  git,      \* per repository, what of the plan's worktree there is
  merged,   \* the repositories whose plan branch has all of the other plan's
  conflict, \* the worktrees with an unfinished merge
  job,      \* the process that mounts
  faults,   \* ghost: faults so far
  meddled,  \* ghost: the repositories whose worktree the user has changed
  orphaned  \* ghost: those whose "git worktree add" has outlived its caller

vars == <<queue, rows, index, git, merged, conflict, job, faults, meddled, orphaned>>

Graph == INSTANCE DependencyGraph WITH Ids <- Components

\* expand_build_closure: what the component's build edges lead to, and itself.
Closure(c) == {d \in Components : Graph!Reaches(Deps, c, d)}

\* branch: the plan's branch exists; reg: git's record of the worktree and what
\* it has checked out; dir: the directory, as far as it is checked out; adding:
\* the "git worktree add" that runs, and how far it is.
Git == [branch : BOOLEAN, reg : {"no", "plan", "foreign"},
        dir : {"none", "part", "full"}, adding : {"no", "branch", "checkout"}]

Idle == [kind |-> "none", at |-> "done", todo |-> {}, closure |-> {}, comps |-> {}]
Job == [kind : {"none", "drain", "mount", "sync"},
        at : {"done", "request", "component", "worktree", "git", "row", "merge"},
        todo : SUBSET Components,     \* requests, or rows to merge, still to do
        closure : SUBSET Components,  \* components still to mount
        comps : SUBSET Components]    \* the one being mounted

Init ==
  /\ queue = {} /\ rows = {}
  /\ index = Indexed
  /\ git = [r \in Repos |-> [branch |-> FALSE, reg |-> "no", dir |-> "none", adding |-> "no"]]
  /\ merged = {} /\ conflict = {}
  /\ job = Idle
  /\ faults = 0
  /\ meddled = {} /\ orphaned = {}

-----------------------------------------------------------------------------
(* Verbs on the two files                                                  *)

Free == job.kind = "none"
VerbMayRun == Free \/ Agents

\* target-requests add and remove.
AddRequest(c) ==
  /\ VerbMayRun
  /\ c \notin queue
  /\ queue' = queue \cup {c}
  /\ UNCHANGED <<rows, index, git, merged, conflict, job, faults, meddled, orphaned>>

RemoveRequest(c) ==
  /\ VerbMayRun
  /\ c \in queue
  /\ queue' = queue \ {c}
  /\ UNCHANGED <<rows, index, git, merged, conflict, job, faults, meddled, orphaned>>

\* targets add, a row by hand: no worktree is looked at.
AddRow(c) ==
  /\ VerbMayRun
  /\ c \notin rows
  /\ RepoOf[c] \in Meddling
  /\ rows' = rows \cup {c}
  /\ meddled' = meddled \cup {RepoOf[c]}
  /\ UNCHANGED <<queue, index, git, merged, conflict, job, faults, orphaned>>

\* targets remove: the worktree and its branch stay.
RemoveRow(c) ==
  /\ VerbMayRun
  /\ c \in rows
  /\ rows' = rows \ {c}
  /\ UNCHANGED <<queue, index, git, merged, conflict, job, faults, meddled, orphaned>>

-----------------------------------------------------------------------------
(* The process that mounts                                                 *)

JobOnly == UNCHANGED <<queue, rows, index, git, merged, conflict, faults, meddled, orphaned>>

\* drain_target_requests reads the queue.
StartDrain ==
  /\ Free /\ queue # {}
  /\ job' = [Idle EXCEPT !.kind = "drain", !.at = "request", !.todo = queue]
  /\ JobOnly

StartMount(c) ==
  /\ Free
  /\ job' = [Idle EXCEPT !.kind = "mount", !.at = "request", !.todo = {c}]
  /\ JobOnly

\* Mutant: what is unique to the other plan is told by its repository.
StartSyncByRepo ==
  /\ Free
  /\ job' = [Idle EXCEPT !.kind = "sync", !.at = "component",
                         !.closure = {c \in Other : \A d \in rows : RepoOf[d] # RepoOf[c]}]
  /\ JobOnly

\* run_sync mounts what is unique to the other plan, without its build edges.
StartSync ==
  /\ Free
  /\ job' = [Idle EXCEPT !.kind = "sync", !.at = "component", !.closure = Other \ rows]
  /\ JobOnly

\* An error is propagated; what was done remains.
Fail == job' = Idle

\* Mutant: a request that cannot be mounted is passed over.
TakeRequestDropping(c) ==
  /\ job.at = "request" /\ c \in job.todo
  /\ job' = IF Closure(c) \subseteq index
            THEN [job EXCEPT !.at = "component", !.todo = @ \ {c}, !.closure = Closure(c)]
            ELSE [job EXCEPT !.todo = @ \ {c}]
  /\ JobOnly

\* mount_with_closure: the closure of the next request, if the indexes have all
\* of it.
TakeRequest(c) ==
  /\ job.at = "request" /\ c \in job.todo
  /\ \/ /\ Closure(c) \subseteq index
        /\ job' = [job EXCEPT !.at = "component", !.todo = @ \ {c}, !.closure = Closure(c)]
     \/ /\ ~(Closure(c) \subseteq index)
        /\ Fail
  /\ JobOnly

\* A component with a row is passed over.
TakeComponent(c) ==
  /\ job.at = "component" /\ c \in job.closure
  /\ job' = IF c \in rows
            THEN [job EXCEPT !.closure = @ \ {c}]
            ELSE [job EXCEPT !.at = "worktree", !.comps = {c}]
  /\ JobOnly

\* All are mounted: the next request, or the merges.
ClosureDone ==
  /\ job.at = "component" /\ job.closure = {}
  /\ job' = IF job.kind = "sync"
            THEN [job EXCEPT !.at = "merge", !.todo = rows \cap Other]
            ELSE [job EXCEPT !.at = "request"]
  /\ JobOnly

\* Mutant: a worktree that is there is an error.
VerifyWorktreeRefused(r) ==
  /\ job.at = "worktree" /\ \E c \in job.comps : RepoOf[c] = r
  /\ git[r].dir # "none"
  /\ Fail
  /\ JobOnly

\* mount_target, for a worktree that is there: it must be on the plan's branch.
VerifyWorktree(r) ==
  /\ job.at = "worktree" /\ \E c \in job.comps : RepoOf[c] = r
  /\ git[r].dir # "none"
  /\ IF git[r].reg = "plan" THEN job' = [job EXCEPT !.at = "row"] ELSE Fail
  /\ JobOnly

\* ... and for one that is not: git worktree add -b, refused if the branch is
\* there.  git makes the branch first, at the default branch.
StartWorktree(r) ==
  /\ job.at = "worktree" /\ \E c \in job.comps : RepoOf[c] = r
  /\ git[r].dir = "none"
  /\ IF git[r].branch
     THEN Fail /\ UNCHANGED <<git, merged>>
     ELSE /\ git' = [git EXCEPT ![r].branch = TRUE, ![r].adding = "branch"]
          /\ merged' = merged \ {r}
          /\ job' = [job EXCEPT !.at = "git"]
  /\ UNCHANGED <<queue, rows, index, conflict, faults, meddled, orphaned>>

\* Mutant: the exit status of git is not looked at.
WorktreeAddedAnyhow(r) ==
  /\ job.at = "git" /\ \E c \in job.comps : RepoOf[c] = r
  /\ git[r].adding = "no"
  /\ job' = [job EXCEPT !.at = "row"]
  /\ JobOnly

\* git has exited.
WorktreeAdded(r) ==
  /\ job.at = "git" /\ \E c \in job.comps : RepoOf[c] = r
  /\ git[r].adding = "no"
  /\ IF git[r].dir = "full" THEN job' = [job EXCEPT !.at = "row"] ELSE Fail
  /\ JobOnly

\* resolve_path_segments, and the row.
WriteRow(c) ==
  /\ job.at = "row" /\ c \in job.comps
  /\ IF c \in index
     THEN /\ rows' = rows \cup {c}
          /\ job' = [job EXCEPT !.at = "component", !.closure = @ \ {c}, !.comps = {}]
     ELSE Fail /\ UNCHANGED rows
  /\ UNCHANGED <<queue, index, git, merged, conflict, faults, meddled, orphaned>>

\* merge_one_target: a merge is clean, or left in the worktree to be resolved;
\* an unfinished one is reported as a conflict again.
Merge(c, clean) ==
  /\ job.at = "merge" /\ c \in job.todo
  /\ LET r == RepoOf[c]
     IN IF git[r].dir = "none" \/ git[r].reg # "plan"
        THEN clean /\ Fail /\ UNCHANGED <<merged, conflict>>
        ELSE /\ r \in conflict => ~clean
             /\ r \in merged => clean
             /\ merged' = IF clean THEN merged \cup {r} ELSE merged
             /\ conflict' = IF clean THEN conflict ELSE conflict \cup {r}
             /\ job' = [job EXCEPT !.todo = @ \ {c}]
  /\ UNCHANGED <<queue, rows, index, git, faults, meddled, orphaned>>

\* Nothing is left to do.  A drain deletes the file, whatever it has by now.
Finish ==
  /\ job.at \in {"request", "merge"} /\ job.todo = {}
  /\ job' = Idle
  /\ queue' = IF job.kind = "drain" THEN {} ELSE queue
  /\ UNCHANGED <<rows, index, git, merged, conflict, faults, meddled, orphaned>>

-----------------------------------------------------------------------------
(* git worktree add                                                        *)

GitOnly == UNCHANGED <<queue, rows, index, merged, conflict, job, meddled, orphaned>>

\* A missing worktree that is still registered is refused; the branch stays.
GitRegisters(r) ==
  /\ git[r].adding = "branch"
  /\ git' = [git EXCEPT ![r] =
       IF @.reg # "no" THEN [@ EXCEPT !.adding = "no"]
       ELSE [@ EXCEPT !.reg = "plan", !.dir = "part", !.adding = "checkout"]]
  /\ UNCHANGED faults /\ GitOnly

GitChecksOut(r) ==
  /\ git[r].adding = "checkout"
  /\ git' = [git EXCEPT ![r].dir = "full", ![r].adding = "no"]
  /\ UNCHANGED faults /\ GitOnly

Fault == faults < MaxFaults /\ faults' = faults + 1

\* The checkout fails: git removes the worktree, and keeps the branch.
GitFails(r) ==
  /\ git[r].adding = "checkout" /\ Fault
  /\ git' = [git EXCEPT ![r] = [branch |-> TRUE, reg |-> "no", dir |-> "none", adding |-> "no"]]
  /\ GitOnly

GitDies(r) ==
  /\ git[r].adding # "no" /\ Fault
  /\ git' = [git EXCEPT ![r].adding = "no"]
  /\ GitOnly

\* The process that mounts dies, Ctrl-C among others; git goes on.
Die ==
  /\ ~Free /\ Fault
  /\ job' = Idle
  /\ orphaned' = orphaned \cup {r \in Repos : git[r].adding # "no"}
  /\ UNCHANGED <<queue, rows, index, git, merged, conflict, meddled>>

-----------------------------------------------------------------------------
(* The user                                                                *)

UserOnly == UNCHANGED <<queue, rows, job, faults, orphaned>>

\* atlas index.
Index(c) ==
  /\ c \notin index
  /\ index' = index \cup {c}
  /\ UNCHANGED <<git, merged, conflict, meddled>> /\ UserOnly

\* The worktree, or the plan directory around it, is removed.
RemoveWorktree(r) ==
  /\ Free
  /\ r \in Meddling \ meddled /\ git[r].adding = "no" /\ git[r].dir # "none"
  /\ git' = [git EXCEPT ![r].dir = "none"]
  /\ conflict' = conflict \ {r}
  /\ meddled' = meddled \cup {r}
  /\ UNCHANGED <<index, merged>> /\ UserOnly

\* Another branch is checked out in it, and the plan's again.
SwitchWorktree(r) ==
  /\ Free
  /\ r \in Meddling \ meddled /\ git[r].dir = "full" /\ r \notin conflict
  /\ git' = [git EXCEPT ![r].reg = "foreign"]
  /\ meddled' = meddled \cup {r}
  /\ UNCHANGED <<index, merged, conflict>> /\ UserOnly

SwitchBack(r) ==
  /\ Free
  /\ git[r].reg = "foreign" /\ git[r].dir = "full"
  /\ git' = [git EXCEPT ![r].reg = "plan"]
  /\ UNCHANGED <<index, merged, conflict, meddled>> /\ UserOnly

\* git branch -D, as the error of a mount that finds the branch says.  git
\* refuses while a registered worktree, even a missing one, has it checked out.
DeleteBranch(r) ==
  /\ git[r].branch /\ git[r].dir = "none" /\ git[r].adding = "no" /\ git[r].reg # "plan"
  /\ git' = [git EXCEPT ![r].branch = FALSE]
  /\ UNCHANGED <<index, merged, conflict, meddled>> /\ UserOnly

\* Mutant: a word of another vocabulary.
PruneNone(r) ==
  /\ Prunes
  /\ git[r].reg # "no" /\ git[r].dir = "none" /\ git[r].adding = "no"
  /\ git' = [git EXCEPT ![r].reg = "none"]
  /\ UNCHANGED <<index, merged, conflict, meddled>> /\ UserOnly

Prune(r) ==
  /\ Prunes
  /\ git[r].reg # "no" /\ git[r].dir = "none" /\ git[r].adding = "no"
  /\ git' = [git EXCEPT ![r].reg = "no"]
  /\ UNCHANGED <<index, merged, conflict, meddled>> /\ UserOnly

\* A conflict is resolved and the merge committed.
ResolveConflict(r) ==
  /\ Free
  /\ r \in conflict
  /\ conflict' = conflict \ {r}
  /\ merged' = merged \cup {r}
  /\ UNCHANGED <<index, git, meddled>> /\ UserOnly

-----------------------------------------------------------------------------
Verb ==
  \E c \in Components :
    AddRequest(c) \/ RemoveRequest(c) \/ AddRow(c) \/ RemoveRow(c)

JobStep ==
  \/ \E c \in Components : TakeRequest(c) \/ TakeComponent(c) \/ WriteRow(c)
  \/ \E c \in Components, clean \in BOOLEAN : Merge(c, clean)
  \/ \E r \in Repos : VerifyWorktree(r) \/ StartWorktree(r) \/ WorktreeAdded(r)
  \/ ClosureDone
  \/ Finish

Start == StartDrain \/ StartSync \/ \E c \in Components : StartMount(c)

GitStep(r) == GitRegisters(r) \/ GitChecksOut(r)

Next ==
  \/ Verb \/ Start \/ JobStep \/ Die
  \/ \E r \in Repos : GitStep(r) \/ GitFails(r) \/ GitDies(r)
  \/ \E c \in Components : Index(c)
  \/ \E r \in Repos : RemoveWorktree(r) \/ SwitchWorktree(r) \/ SwitchBack(r)
  \/ \E r \in Repos : DeleteBranch(r) \/ Prune(r) \/ ResolveConflict(r)

Spec == Init /\ [][Next]_vars

\* Processes go on; the plan is run again and again, and after an error the user
\* does what its message says.
FairSpec ==
  /\ Spec
  /\ WF_vars(JobStep) /\ WF_vars(\E r \in Repos : GitStep(r))
  /\ SF_vars(StartDrain)
  /\ WF_vars(\E c \in Components : Index(c))
  /\ SF_vars(\E r \in Repos : DeleteBranch(r) \/ Prune(r) \/ SwitchBack(r))
-----------------------------------------------------------------------------
(* Properties                                                              *)

\* Every variable has its type.
TypeOK ==
  /\ queue \subseteq Components /\ rows \subseteq Components
  /\ index \subseteq Components
  /\ git \in [Repos -> Git]
  /\ merged \subseteq Repos /\ conflict \subseteq Repos
  /\ job \in Job
  /\ faults \in 0..MaxFaults
  /\ meddled \subseteq Repos /\ orphaned \subseteq Repos

\* A row of targets.yaml has its worktree on the plan's branch, whatever failed
\* or died: what commits.yaml and the agents are pointed at is there.  Not so
\* when the user has changed the worktree by hand, or when a mount that was
\* killed left a git behind that goes on and fails after the next mount has
\* found its directory.
RowsHaveWorktrees ==
  \A c \in rows : RepoOf[c] \notin meddled \cup orphaned =>
    /\ git[RepoOf[c]].dir # "none"
    /\ git[RepoOf[c]].branch /\ git[RepoOf[c]].reg = "plan"

\* A drain deletes the queue only when every request in it is mounted with all
\* its build edges lead to: a failed or dead one keeps it.
RequestsKept ==
  [][job.kind = "drain" /\ queue' # queue
       => \A c \in queue : Closure(c) \subseteq rows]_vars

\* A sync that ends well has mounted everything of the other plan, and has each
\* of its worktrees merged or left in conflict, those of an earlier sync that
\* failed half way included.
SyncCovers ==
  [][job.kind = "sync" /\ job.at = "merge" /\ job.todo = {} /\ job'.kind = "none" /\ faults' = faults
       => /\ Other \subseteq rows
          /\ \A c \in Other : RepoOf[c] \in merged \cup conflict]_vars

\* The queue is drained in the end, if the plan is run again and the user does
\* what each error message says: no failure is for ever.
QueueDrained == queue # {} ~> queue = {}
================================================================================
