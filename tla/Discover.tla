------------------------------ MODULE Discover ------------------------------
(***************************************************************************)
(* Discovery of component relations (src/discover): stage 1 analyses each  *)
(* registered repository in a task of its own and caches what it found     *)
(* under the state of the working tree; stage 2 starts a file of proposals *)
(* that an agent appends to with a verb; the proposals are applied to      *)
(* related-components.yaml.  The user edits trees, commits, edits the      *)
(* proposals and the relations, and registers repositories meanwhile.      *)
(*                                                                         *)
(* The contents of a working tree are a version; what an agent writes of   *)
(* it is the version it read.  A kind stands for a kind with its           *)
(* lifecycle, an edge for all edges of that kind between two participants. *)
(***************************************************************************)
EXTENDS Naturals, FiniteSets, SequencesExt

CONSTANTS Repos,        \* the repositories there are, as numbers: slugs are sorted
          Versions,     \* contents of a working tree
          First,        \* the contents of every tree at first
          Directed,     \* kinds of edges with a direction
          Symmetric,    \* kinds without
          Absent,
          Concurrency,  \* permits of the semaphore
          MaxRuns,      \* bound on runs of discover
          MaxActs,      \* bound on what the user does
          MaxLost,    \* bound on failures and deaths
          MaxProposals  \* bound on the proposals in the file

ASSUME ReposAssumption == Repos \subseteq Nat /\ First \in Versions
ASSUME AbsentAssumption == Absent \notin Repos \cup Versions \cup (Versions \X Versions)
ASSUME LimitsAssumption == Concurrency \in Nat \ {0} /\ {MaxRuns, MaxActs, MaxLost, MaxProposals} \subseteq Nat

VARIABLES registry,     \* repos.yaml
          tree,         \* per repository what HEAD and what the working tree hold
          cache,        \* discover-cache/<slug>.yaml, or Absent
          proposals,    \* discover-proposals.yaml, or Absent
          related,      \* related-components.yaml
          task,         \* per repository its task of stage 1
          scan,         \* the run of discover
          agents,       \* the agents of stage 2 that run; 1 of them may be the run's own
          byHand,       \* history: the edges that add-edge put into related
          touched,      \* history: trees changed since their task began to look
          runs, acts, lost

discover_vars == <<registry, tree, cache, proposals, related, task, scan, agents, byHand, touched, runs, acts, lost>>
discover_counters == <<runs, acts, lost>>

-----------------------------------------------------------------------------
(* Data.  A surface remembers the version it describes (saw) beside the    *)
(* state of the tree it is filed under.                                    *)

Trees == [head : Versions, work : Versions]
DirtyHash(t) == IF t.work = t.head THEN Absent ELSE <<t.head, t.work>>
Key(t) == [tree_sha |-> t.head, dirty_hash |-> DirtyHash(t)]
Dirty == {Absent} \cup Versions \X Versions
Keys == [tree_sha : Versions, dirty_hash : Dirty]
Surfaces == [tree_sha : Versions, dirty_hash : Dirty, saw : Versions, steady : BOOLEAN]
KeyOf(s) == [tree_sha |-> s.tree_sha, dirty_hash |-> s.dirty_hash]

Kinds == Directed \cup Symmetric
Edges == [kind : Kinds, participants : Repos \X Repos]
CanonicaliseForKind(kind, p) ==
  IF kind \in Symmetric /\ p[1] > p[2] THEN <<p[2], p[1]>> ELSE p
\* Edge::validate: two participants, sorted when the kind has no direction.
Valid(e) == /\ e.participants[1] # e.participants[2]
            /\ CanonicaliseForKind(e.kind, e.participants) = e.participants
ParticipantsReversed(p, q) == p[1] = q[2] /\ p[2] = q[1]
DirectionalConflict(file, e) ==
  /\ e.kind \in Directed
  /\ \E x \in file : /\ x.kind = e.kind
                     /\ x.participants # e.participants
                     /\ ParticipantsReversed(x.participants, e.participants)

ProposalsFiles == [sources : [Repos -> Keys \cup {Absent}], edges : Seq(Edges),
                   failures : SUBSET Repos, whole : BOOLEAN]
NewProposals(surfaces, failures) ==
  [sources |-> [r \in Repos |-> IF surfaces[r] = Absent THEN Absent ELSE KeyOf(surfaces[r])],
   edges |-> <<>>, failures |-> failures, whole |-> FALSE]

\* What is not there is none of the documents that may be there.
ASSUME NoDocument == Absent \notin Keys /\ Absent \notin Surfaces /\ Absent \notin ProposalsFiles

Options == [project : Repos \cup {Absent}, apply : BOOLEAN]
NoRun == [pc |-> "idle", options |-> [project |-> Absent, apply |-> FALSE],
          known |-> {}, surfaces |-> [r \in Repos |-> Absent], failures |-> {}, skipped |-> FALSE]
NoTask == [pc |-> "none", tree_sha |-> Absent, dirty_hash |-> Absent, surface |-> Absent]
NoTasks == [r \in Repos |-> NoTask]

TaskRecords == [pc : {"none", "queued", "hashing", "analysing", "analysed", "fresh", "cached", "failed"},
                tree_sha : Versions \cup {Absent}, dirty_hash : Dirty, surface : Surfaces \cup {Absent}]
ScanRecords == [pc : {"idle", "stage1", "stage2", "apply"}, options : Options, known : SUBSET Repos,
                surfaces : [Repos -> Surfaces \cup {Absent}], failures : SUBSET Repos, skipped : BOOLEAN]

DiscoverTypeOK ==
  /\ registry \subseteq Repos
  /\ tree \in [Repos -> Trees]
  /\ cache \in [Repos -> Surfaces \cup {Absent}]
  /\ proposals = Absent \/ proposals \in ProposalsFiles
  /\ related \subseteq Edges /\ byHand \subseteq Edges
  /\ task \in [Repos -> TaskRecords] /\ scan \in ScanRecords
  /\ agents \in 0 .. MaxRuns
  /\ touched \subseteq Repos
  /\ runs \in 0 .. MaxRuns /\ acts \in 0 .. MaxActs /\ lost \in 0 .. MaxLost

DiscoverInit ==
  /\ registry = Repos
  /\ tree = [r \in Repos |-> [head |-> First, work |-> First]]
  /\ cache = [r \in Repos |-> Absent]
  /\ proposals = Absent /\ related = {} /\ byHand = {}
  /\ task = NoTasks /\ scan = NoRun /\ agents = 0 /\ touched = {}
  /\ runs = 0 /\ acts = 0 /\ lost = 0

-----------------------------------------------------------------------------
(* Stage 1.                                                                *)

\* One task per repository to analyse, each with the registry of now.
StartDiscovery(o) ==
  /\ scan.pc = "idle" /\ runs < MaxRuns
  /\ registry # {} /\ o.project \in registry \cup {Absent}
  /\ scan' = [NoRun EXCEPT !.pc = "stage1", !.options = o, !.known = registry]
  /\ task' = [r \in Repos |-> IF r \in registry /\ o.project \in {Absent, r}
                              THEN [NoTask EXCEPT !.pc = "queued"] ELSE NoTask]
  /\ runs' = runs + 1
  /\ UNCHANGED <<registry, tree, cache, proposals, related, agents, byHand, touched, acts, lost>>

Working(r) == task[r].pc \in {"hashing", "analysing", "analysed"}

\* A permit, and git rev-parse HEAD:<rel>.
ReadTreeSha(r) ==
  /\ task[r].pc = "queued"
  /\ Cardinality({x \in Repos : Working(x)}) < Concurrency
  /\ task' = [task EXCEPT ![r].pc = "hashing", ![r].tree_sha = tree[r].head]
  /\ touched' = touched \ {r}
  /\ UNCHANGED <<registry, tree, cache, proposals, related, scan, agents, byHand, discover_counters>>

\* Mutant: the cache is looked up by the commit only.
ReadDirtyHashIgnored(r) ==
  LET dirty == DirtyHash(tree[r])
      hit == cache[r] # Absent /\ cache[r].tree_sha = task[r].tree_sha
  IN /\ task[r].pc = "hashing"
     /\ task' = [task EXCEPT ![r].pc = IF hit THEN "cached" ELSE "analysing",
                             ![r].dirty_hash = Absent,
                             ![r].surface = IF hit THEN cache[r] ELSE Absent]
     /\ UNCHANGED <<registry, tree, cache, proposals, related, scan, agents, byHand, touched, discover_counters>>

\* The diff and the untracked files are asked for by commands of their own;
\* with both hashes the cache is looked up.
ReadDirtyHash(r) ==
  LET key == [tree_sha |-> task[r].tree_sha, dirty_hash |-> DirtyHash(tree[r])]
      hit == cache[r] # Absent /\ KeyOf(cache[r]) = key
  IN /\ task[r].pc = "hashing"
     /\ task' = [task EXCEPT ![r].pc = IF hit THEN "cached" ELSE "analysing",
                             ![r].dirty_hash = key.dirty_hash,
                             ![r].surface = IF hit THEN cache[r] ELSE Absent]
     /\ UNCHANGED <<registry, tree, cache, proposals, related, scan, agents, byHand, touched, discover_counters>>

\* The subagent reads the working tree and writes its output file.
Analyse(r) ==
  /\ task[r].pc = "analysing"
  /\ task' = [task EXCEPT ![r].pc = "analysed",
       ![r].surface = [tree_sha |-> task[r].tree_sha, dirty_hash |-> task[r].dirty_hash,
                       saw |-> tree[r].work, steady |-> r \notin touched]]
  /\ UNCHANGED <<registry, tree, cache, proposals, related, scan, agents, byHand, touched, discover_counters>>

SaveSurface(r) ==
  /\ task[r].pc = "analysed"
  /\ cache' = [cache EXCEPT ![r] = task[r].surface]
  /\ task' = [task EXCEPT ![r].pc = "fresh"]
  /\ UNCHANGED <<registry, tree, proposals, related, scan, agents, byHand, touched, discover_counters>>

\* Not a git repository, a cache file that does not parse, a subagent that is
\* not there, fails, takes too long, writes nothing or nonsense.
TaskFails(r) ==
  /\ Working(r) /\ lost < MaxLost
  /\ task' = [task EXCEPT ![r].pc = "failed"]
  /\ lost' = lost + 1
  /\ UNCHANGED <<registry, tree, cache, proposals, related, scan, agents, byHand, touched, runs, acts>>

-----------------------------------------------------------------------------
(* What the outcomes lead to.  With a project filter the other surfaces    *)
(* come from the cache, whatever has become of their trees.                *)

Joined == scan.pc = "stage1" /\ \A r \in Repos : task[r].pc \in {"none", "fresh", "cached", "failed"}
CollectedSurfaces ==
  [r \in Repos |-> CASE task[r].pc \in {"fresh", "cached"} -> task[r].surface
                     [] r \in scan.known /\ task[r].pc = "none" -> cache[r]
                     [] OTHER -> Absent]
\* Mutant: a repository a filter left out and no run looked at goes unmentioned.
CollectedFailuresOfTasks == {r \in scan.known : task[r].pc = "failed"}

CollectedFailures ==
  {r \in scan.known : task[r].pc = "failed" \/ (task[r].pc = "none" /\ cache[r] = Absent)}
NoSurfaces == \A r \in Repos : CollectedSurfaces[r] = Absent

MaySkip == /\ \A r \in Repos : task[r].pc # "fresh"
           /\ CollectedFailures = {} /\ proposals # Absent /\ ~NoSurfaces

SkipStage2 ==
  /\ Joined /\ MaySkip
  /\ scan' = [scan EXCEPT !.pc = "apply", !.surfaces = CollectedSurfaces, !.skipped = TRUE]
  /\ task' = NoTasks
  /\ UNCHANGED <<registry, tree, cache, proposals, related, agents, byHand, touched, discover_counters>>

SaveFailuresOnly ==
  /\ Joined /\ NoSurfaces
  /\ proposals' = NewProposals(CollectedSurfaces, CollectedFailures)
  /\ scan' = [scan EXCEPT !.pc = "apply", !.failures = CollectedFailures]
  /\ task' = NoTasks
  /\ UNCHANGED <<registry, tree, cache, related, agents, byHand, touched, discover_counters>>

\* The file is begun anew, with the failures, and the agent started.
StartStage2 ==
  /\ Joined /\ ~NoSurfaces /\ ~MaySkip
  /\ proposals' = NewProposals(CollectedSurfaces, CollectedFailures)
  /\ scan' = [scan EXCEPT !.pc = "stage2", !.failures = CollectedFailures]
  /\ task' = NoTasks
  /\ agents' = agents + 1
  /\ UNCHANGED <<registry, tree, cache, related, byHand, touched, discover_counters>>

-----------------------------------------------------------------------------
(* Stage 2.                                                                *)

\* state discover-proposals add-proposal, called by an agent of stage 2.
AddProposal(e) ==
  LET new == [e EXCEPT !.participants = CanonicaliseForKind(e.kind, e.participants)]
      file == IF proposals = Absent THEN NewProposals([r \in Repos |-> Absent], {}) ELSE proposals
  IN /\ agents > 0
     /\ e.participants[1] \in registry /\ e.participants[2] \in registry
     /\ Valid(new) /\ ~Contains(file.edges, new) /\ Len(file.edges) < MaxProposals
     /\ proposals' = [file EXCEPT !.edges = Append(@, new)]
     /\ UNCHANGED <<registry, tree, cache, related, task, scan, agents, byHand, touched, discover_counters>>

Stage2Succeeds ==
  /\ scan.pc = "stage2" /\ proposals # Absent
  /\ scan' = [scan EXCEPT !.pc = "apply"]
  /\ proposals' = [proposals EXCEPT !.whole = TRUE]
  /\ agents' = agents - 1
  /\ UNCHANGED <<registry, tree, cache, related, task, byHand, touched, discover_counters>>

\* It exits non-zero, or it is killed at the time limit.
Stage2Fails ==
  /\ scan.pc = "stage2" /\ lost < MaxLost
  /\ scan' = NoRun
  /\ agents' = agents - 1
  /\ lost' = lost + 1
  /\ UNCHANGED <<registry, tree, cache, proposals, related, task, byHand, touched, runs, acts>>

\* The agent of a run that was killed comes to its end.
OrphanEnds ==
  /\ agents > (IF scan.pc = "stage2" THEN 1 ELSE 0)
  /\ agents' = agents - 1
  /\ UNCHANGED <<registry, tree, cache, proposals, related, task, scan, byHand, touched, discover_counters>>

-----------------------------------------------------------------------------
(* Applying.                                                               *)

\* Mutant: what is proposed is taken as it is.
ApplyOneAnyhow(file, p) == file \cup {p}

ApplyOne(file, p) ==
  LET e == [p EXCEPT !.participants = CanonicaliseForKind(p.kind, p.participants)]
  IN IF Valid(e) /\ ~DirectionalConflict(file, e) THEN file \cup {e} ELSE file
ApplyProposals(file) == FoldLeft(ApplyOne, file, proposals.edges)

\* The end of a run, with --apply or without.
EndRun ==
  /\ scan.pc = "apply"
  /\ related' = IF scan.options.apply THEN ApplyProposals(related) ELSE related
  /\ scan' = NoRun
  /\ UNCHANGED <<registry, tree, cache, proposals, task, agents, byHand, touched, discover_counters>>

UserActs == acts < MaxActs /\ acts' = acts + 1

DiscoverApply ==
  /\ UserActs /\ proposals # Absent
  /\ related' = ApplyProposals(related)
  /\ UNCHANGED <<registry, tree, cache, proposals, task, scan, agents, byHand, touched, runs, lost>>

AddEdge(e) ==
  LET new == [e EXCEPT !.participants = CanonicaliseForKind(e.kind, e.participants)]
  IN /\ UserActs
     /\ e.participants[1] \in registry /\ e.participants[2] \in registry
     /\ Valid(new) /\ new \notin related
     /\ related' = related \cup {new} /\ byHand' = byHand \cup {new}
     /\ UNCHANGED <<registry, tree, cache, proposals, task, scan, agents, touched, runs, lost>>

RemoveEdge(e) ==
  LET old == [e EXCEPT !.participants = CanonicaliseForKind(e.kind, e.participants)]
  IN /\ UserActs /\ old \in related
     /\ related' = related \ {old} /\ byHand' = byHand \ {old}
     /\ UNCHANGED <<registry, tree, cache, proposals, task, scan, agents, touched, runs, lost>>

-----------------------------------------------------------------------------
(* The user's editor and git, and the death of a run.                      *)

Change(r, t) ==
  /\ UserActs /\ t # tree[r]
  /\ tree' = [tree EXCEPT ![r] = t]
  /\ touched' = touched \cup {r}
  /\ UNCHANGED <<registry, cache, proposals, related, task, scan, agents, byHand, runs, lost>>
EditTree(r) == \E v \in Versions : Change(r, [tree[r] EXCEPT !.work = v])
Commit(r) == Change(r, [tree[r] EXCEPT !.head = tree[r].work])

\* The review of the proposals: one is written or rewritten with an editor.
EditProposals ==
  /\ UserActs /\ proposals # Absent
  /\ \/ /\ Len(proposals.edges) < MaxProposals
        /\ \E e \in Edges : proposals' = [proposals EXCEPT !.edges = Append(@, e)]
     \/ /\ proposals.edges # <<>>
        /\ proposals' = [proposals EXCEPT !.edges = Tail(@)]
  /\ UNCHANGED <<registry, tree, cache, related, task, scan, agents, byHand, touched, runs, lost>>

RepoRemove(r) ==
  /\ UserActs /\ r \in registry
  /\ registry' = registry \ {r}
  /\ UNCHANGED <<tree, cache, proposals, related, task, scan, agents, byHand, touched, runs, lost>>

RepoAdd(r) ==
  /\ UserActs /\ r \notin registry
  /\ registry' = registry \cup {r}
  /\ UNCHANGED <<tree, cache, proposals, related, task, scan, agents, byHand, touched, runs, lost>>

DiscoveryDies ==
  /\ scan.pc # "idle" /\ lost < MaxLost
  /\ scan' = NoRun /\ task' = NoTasks
  /\ lost' = lost + 1
  /\ UNCHANGED <<registry, tree, cache, proposals, related, agents, byHand, touched, runs, acts>>

-----------------------------------------------------------------------------

Task(r) == ReadTreeSha(r) \/ ReadDirtyHash(r) \/ Analyse(r) \/ SaveSurface(r) \/ TaskFails(r)
Runner == SkipStage2 \/ SaveFailuresOnly \/ StartStage2 \/ Stage2Succeeds \/ Stage2Fails \/ EndRun
User ==
  \/ DiscoverApply \/ EditProposals
  \/ \E e \in Edges : AddEdge(e) \/ RemoveEdge(e)
  \/ \E r \in Repos : EditTree(r) \/ Commit(r) \/ RepoRemove(r) \/ RepoAdd(r)
DiscoverNext ==
  \/ \E o \in Options : StartDiscovery(o)
  \/ \E r \in Repos : Task(r)
  \/ Runner \/ OrphanEnds
  \/ \E e \in Edges : AddProposal(e)
  \/ User \/ DiscoveryDies

DiscoverSpec == DiscoverInit /\ [][DiscoverNext]_discover_vars

-----------------------------------------------------------------------------
(* Properties.                                                             *)

\* A surface in the cache describes the tree it is filed under, unless that
\* tree was changed between the first hash and the analysis.  Every way in
\* which a surface gets into the cache or stays there has to keep this: the
\* two hashes and the subagent look at the tree at three different moments.
Describes(s) == s.saw = (IF s.dirty_hash = Absent THEN s.tree_sha ELSE s.dirty_hash[2])
SurfaceDescribesKey ==
  \A r \in Repos : cache[r] # Absent /\ cache[r].steady => Describes(cache[r])

\* From the start of stage 2 on, and in whatever is appended by its agent or
\* by one a killed run has left, the file accounts for every repository the
\* run knows: its state if it was looked at, a failure if it was not.
EveryRepoAccounted ==
  scan.pc \in {"stage2", "apply"} /\ ~scan.skipped =>
    \A r \in Repos : /\ r \in proposals.failures => proposals.sources[r] = Absent
                     /\ r \in scan.known <=> (r \in proposals.failures \/ proposals.sources[r] # Absent)

\* Whatever is proposed, edited into the proposals and applied, in any order
\* and again and again: a relation without direction is kept once, one with a
\* direction is not there in both, unless add-edge put one of the two in.
RelationsSound ==
  \A e \in related : /\ Valid(e)
                     /\ DirectionalConflict(related, e) =>
                          \E x \in byHand : x.kind = e.kind /\ (x = e \/ ParticipantsReversed(x.participants, e.participants))

\* mod.rs says of a skipped stage 2 that its input is that of the last time
\* and that what it would propose is in the file.
SkipIsFaithful ==
  scan.skipped => /\ proposals.whole
                 /\ proposals.sources = [r \in Repos |-> IF scan.surfaces[r] = Absent THEN Absent ELSE KeyOf(scan.surfaces[r])]

=============================================================================
