---------------------------- MODULE Surveys_proofs ----------------------------
(***************************************************************************)
(* What discovery keeps for any repositories, trees, proposals and number  *)
(* of runs: a cached surface describes the tree its key names, a run that  *)
(* ends has accounted for every repository it was started on, and the      *)
(* relations hold no two opposed edges but those a user put there by hand. *)
(* The last is an induction over the proposals a run applies; the library  *)
(* has the finite sets as a well-founded order, and EveryNumber and        *)
(* EverySubset are drawn from that.  And what the multi-plan mode keeps    *)
(* for any plans: a survey is about the plans it was made of, as they were.*)
(***************************************************************************)
EXTENDS MultiPlan, Discover, FiniteSetTheorems, WellFoundedInduction, TLAPS

-----------------------------------------------------------------------------
(* Induction, from the fact that the finite sets are well-founded.         *)

\* A set of numbers that is not empty has a least one.
LEMMA LeastNumber ==
  ASSUME NEW T \in SUBSET Nat, T # {}
  PROVE  \E n \in T : \A m \in T : n <= m
<1> DEFINE U == {0 .. n : n \in T}
<1>1. U \subseteq FiniteSubsetsOf(Nat)
  <2>1. \A n \in T : 0 .. n \in SUBSET Nat /\ IsFiniteSet(0 .. n) BY FS_Interval
  <2> QED BY <2>1 DEF FiniteSubsetsOf
<1>2. PICK x \in U : \A y \in U : <<y, x>> \notin StrictSubsetOrdering(Nat)
  <2>1. U # {} OBVIOUS
  <2> HIDE DEF U
  <2> QED BY <1>1, <2>1, WFMin, FS_StrictSubsetOrderingWellFounded
<1>3. PICK n \in T : x = 0 .. n OBVIOUS
<1>4. ASSUME NEW m \in T, m < n PROVE FALSE
  <2>1. /\ 0 .. m \subseteq 0 .. n /\ 0 .. m # 0 .. n
        /\ 0 .. m \subseteq Nat /\ 0 .. n \subseteq Nat
        BY <1>4
  <2>2. <<0 .. m, x>> \notin StrictSubsetOrdering(Nat) BY <1>2
  <2> QED BY <1>3, <2>1, <2>2 DEF StrictSubsetOrdering
<1> QED BY <1>4

\* A set of numbers with 0 and, with each number, the next has them all.
LEMMA EveryNumber ==
  ASSUME NEW T \in SUBSET Nat, 0 \in T, \A n \in T : n + 1 \in T
  PROVE  T = Nat
<1> SUFFICES ASSUME Nat \ T # {} PROVE FALSE
    OBVIOUS
<1>1. PICK n \in Nat \ T : \A m \in Nat \ T : n <= m BY LeastNumber
<1>2. n - 1 \in Nat /\ n - 1 \in T BY <1>1
<1> QED BY <1>1, <1>2

\* Max is the greatest number of a set, if it has one.
LEMMA MaxIs ==
  ASSUME NEW s \in SUBSET Nat, NEW m \in s, \A y \in s : y <= m
  PROVE  Max(s) = m
<1>1. \A y \in s : m >= y OBVIOUS
<1>2. \E x \in s : \A y \in s : x >= y BY <1>1
<1>3. Max(s) \in s /\ \A y \in s : Max(s) >= y
  <2> DEFINE c == CHOOSE x : x \in s /\ \A y \in s : x >= y
  <2>1. \E x : x \in s /\ \A y \in s : x >= y BY <1>2
  <2>2. c \in s /\ \A y \in s : c >= y BY <2>1, Zenon
  <2>3. Max(s) = c BY DEF Max
  <2> HIDE DEF c
  <2> QED BY <2>2, <2>3
<1>4. Max(s) \in Nat /\ Max(s) <= m /\ Max(s) >= m BY <1>3
<1> QED BY <1>4

-----------------------------------------------------------------------------
(* What ApplyProposals makes of a file, one proposal after the other.      *)

\* One step of the fold: the greatest index is taken last.
Fold(edges, base, iter, s) ==
  IF s = {} THEN base ELSE ApplyOne(iter[s \ {Max(s)}], edges[Max(s)])

\* The function by which FoldLeft is defined exists.
LEMMA FoldExists ==
  ASSUME NEW edges, NEW base, NEW n \in Nat
  PROVE  \E iter : iter = [s \in SUBSET (1 .. n) |-> Fold(edges, base, iter, s)]
<1> DEFINE Has(k, iter) == iter = [s \in SUBSET (1 .. k) |-> Fold(edges, base, iter, s)]
           T == {k \in Nat : \E iter : Has(k, iter)}
<1>1. 0 \in T
  <2> DEFINE iter == [s \in SUBSET (1 .. 0) |-> base]
  <2>1. SUBSET (1 .. 0) = {{}} OBVIOUS
  <2>2. Has(0, iter) BY <2>1 DEF Fold
  <2> QED BY <2>2
<1>2. ASSUME NEW k \in T PROVE k + 1 \in T
  <2>1. PICK old : Has(k, old) OBVIOUS
  <2> DEFINE new == [s \in SUBSET (1 .. k + 1) |->
                       IF k + 1 \in s THEN ApplyOne(old[s \ {k + 1}], edges[k + 1]) ELSE old[s]]
  <2>2. \A s \in SUBSET (1 .. k) : old[s] = Fold(edges, base, old, s) BY <2>1
  <2> HIDE DEF Has
  <2>3. ASSUME NEW s \in SUBSET (1 .. k + 1)
        PROVE  new[s] = Fold(edges, base, new, s)
    <3>1. CASE k + 1 \in s
      <4>1. Max(s) = k + 1 BY <3>1, MaxIs
      <4>2. s \ {k + 1} \in SUBSET (1 .. k + 1) /\ k + 1 \notin s \ {k + 1} OBVIOUS
      <4>3. new[s \ {k + 1}] = old[s \ {k + 1}] BY <4>2
      <4> QED BY <3>1, <4>1, <4>3 DEF Fold
    <3>2. CASE k + 1 \notin s
      <4>1. s \in SUBSET (1 .. k) BY <3>2
      <4>2. new[s] = Fold(edges, base, old, s) BY <2>2, <3>2, <4>1
      <4>3. new[s \ {Max(s)}] = old[s \ {Max(s)}] BY <3>2
      <4> QED BY <4>2, <4>3 DEF Fold
    <3> QED BY <3>1, <3>2
  <2>4. Has(k + 1, new) 
    <3> HIDE DEF Fold
    <3> QED BY <2>3 DEF Has
  <2> QED BY <2>4
<1>3. T = Nat 
  <2> HIDE DEF Has
  <2>1. T \in SUBSET Nat OBVIOUS
  <2> HIDE DEF T
  <2> QED BY <1>1, <1>2, <2>1, EveryNumber
<1> QED BY <1>3

\* A set of files that no proposal leads out of is not left by any number.
LEMMA ApplyProposalsStays ==
  ASSUME NEW edges \in Seq(Edges), NEW S, NEW base \in S,
         \A f \in S, p \in Edges : ApplyOne(f, p) \in S
  PROVE  FoldLeft(ApplyOne, base, edges) \in S
<1> DEFINE n == Len(edges)
           F == CHOOSE iter : iter = [s \in SUBSET DOMAIN edges |->
                    IF s = {} THEN base ELSE ApplyOne(iter[s \ {Max(s)}], edges[Max(s)])]
           T == {k \in Nat : k <= n => \A s \in SUBSET (1 .. k) : F[s] \in S}
<1>1. DOMAIN edges = 1 .. n /\ n \in Nat OBVIOUS
<1>2. FoldLeft(ApplyOne, base, edges) = F[DOMAIN edges]
      BY DEF FoldLeft, MapThenFoldSet
<1>3. \A s \in SUBSET (1 .. n) :
        F[s] = IF s = {} THEN base ELSE ApplyOne(F[s \ {Max(s)}], edges[Max(s)])
  <2>1. \E iter : iter = [s \in SUBSET DOMAIN edges |->
                           IF s = {} THEN base ELSE ApplyOne(iter[s \ {Max(s)}], edges[Max(s)])]
    <3>1. PICK iter : iter = [s \in SUBSET (1 .. n) |-> Fold(edges, base, iter, s)]
          BY <1>1, FoldExists
    <3> QED BY <1>1, <3>1 DEF Fold
  <2>2. F = [s \in SUBSET DOMAIN edges |->
               IF s = {} THEN base ELSE ApplyOne(F[s \ {Max(s)}], edges[Max(s)])]
        BY <2>1, Zenon
  <2> HIDE DEF F
  <2> QED BY <1>1, <2>2
<1> HIDE DEF F
<1>4. 0 \in T
  <2>1. \A s \in SUBSET (1 .. 0) : s = {} OBVIOUS
  <2> QED BY <1>1, <1>3, <2>1
<1>5. ASSUME NEW k \in T PROVE k + 1 \in T
  <2> SUFFICES ASSUME k + 1 <= n, NEW s \in SUBSET (1 .. k + 1) PROVE F[s] \in S
      OBVIOUS
  <2>1. CASE k + 1 \in s
    <3>1. Max(s) = k + 1 BY <2>1, MaxIs
    <3>2. F[s \ {k + 1}] \in S BY <1>1
    <3>3. edges[k + 1] \in Edges BY <1>1
    <3>4. F[s] = ApplyOne(F[s \ {k + 1}], edges[k + 1]) BY <1>1, <1>3, <2>1, <3>1
    <3> QED BY <3>2, <3>3, <3>4
  <2>2. CASE k + 1 \notin s
    <3>1. s \in SUBSET (1 .. k) BY <2>2
    <3> QED BY <3>1, <1>1
  <2> QED BY <2>1, <2>2
<1>6. T = Nat
  <2>1. T \in SUBSET Nat OBVIOUS
  <2> HIDE DEF T
  <2> QED BY <1>4, <1>5, <2>1, EveryNumber
<1> QED BY <1>1, <1>2, <1>6

-----------------------------------------------------------------------------
(* Discovery.                                                              *)

\* An agent of stage 2 is of a run before; the run's own is among those counted.
AgentsCounted ==
  /\ agents + (IF scan.pc = "stage1" THEN 1 ELSE 0) <= runs
  /\ scan.pc = "stage2" => agents > 0

\* There are tasks in stage 1 only, of repositories the run knows; from stage 2
\* on there is a file of proposals.
TasksOfTheRun ==
  /\ scan.pc # "stage1" => task = NoTasks
  /\ \A r \in Repos : task[r].pc # "none" => r \in scan.known
  /\ scan.pc \in {"stage2", "apply"} => proposals \in ProposalsFiles

\* As long as nobody has touched the tree, a task knows it as it is; what it
\* has found describes what it knows.
KnowsItsTree(r) ==
  LET t == task[r] IN
  /\ t.pc \in {"hashing", "analysing", "analysed"} => t.tree_sha \in Versions
  /\ t.pc = "hashing" /\ r \notin touched => t.tree_sha = tree[r].head
  /\ t.pc = "analysing" /\ r \notin touched => t.tree_sha = tree[r].head /\ t.dirty_hash = DirtyHash(tree[r])
  /\ t.pc \in {"analysed", "fresh", "cached"} => t.surface \in Surfaces
  /\ t.pc = "analysed" /\ t.surface.steady => Describes(t.surface)

DiscoverInv ==
  /\ DiscoverTypeOK /\ AgentsCounted /\ TasksOfTheRun
  /\ \A r \in Repos : KnowsItsTree(r)
  /\ SurfaceDescribesKey /\ EveryRepoAccounted

\* Before the first run nothing is cached and nothing proposed.
LEMMA DiscoverInitInv == DiscoverInit => DiscoverInv
<1> SUFFICES ASSUME DiscoverInit PROVE DiscoverInv
    OBVIOUS
<1> USE DEF DiscoverInit
<1>1. /\ NoTask \in TaskRecords /\ NoRun \in ScanRecords
      /\ \A r \in Repos : tree[r] \in Trees
      BY ReposAssumption DEF NoTask, NoRun, TaskRecords, ScanRecords, Options, Dirty, Trees
<1>2. DiscoverTypeOK BY <1>1, LimitsAssumption DEF DiscoverTypeOK, NoTasks
<1>3. AgentsCounted /\ TasksOfTheRun BY DEF AgentsCounted, TasksOfTheRun, NoRun, NoTasks, NoTask
<1>4. \A r \in Repos : KnowsItsTree(r) BY DEF KnowsItsTree, NoTasks, NoTask
<1>5. SurfaceDescribesKey /\ EveryRepoAccounted BY DEF SurfaceDescribesKey, EveryRepoAccounted, NoRun
<1> QED BY <1>2, <1>3, <1>4, <1>5 DEF DiscoverInv

\* One task takes a step: what has to be shown of it, and what of the cache.
LEMMA OneTaskSteps ==
  ASSUME DiscoverInv, NEW r \in Repos, NEW t \in TaskRecords,
         task' = [task EXCEPT ![r] = t], task[r].pc # "none", KnowsItsTree(r)',
         UNCHANGED <<registry, tree, proposals, related, scan, agents, byHand, runs, acts>>,
         touched' \subseteq touched, \A q \in Repos \ {r} : q \in touched => q \in touched',
         cache' \in [Repos -> Surfaces \cup {Absent}], SurfaceDescribesKey',
         lost' \in 0 .. MaxLost
  PROVE  DiscoverInv'
<1> USE DEF DiscoverInv
<1>1. DiscoverTypeOK' BY DEF DiscoverTypeOK
<1>2. task'[r] = t /\ \A q \in Repos \ {r} : task'[q] = task[q] BY DEF DiscoverTypeOK
<1>3. scan.pc = "stage1" BY DEF TasksOfTheRun, NoTasks, NoTask
<1>4. r \in scan.known BY DEF TasksOfTheRun
<1>5. AgentsCounted' /\ TasksOfTheRun' BY <1>2, <1>3, <1>4 DEF AgentsCounted, TasksOfTheRun
<1>6. \A q \in Repos \ {r} : KnowsItsTree(q)' BY <1>2 DEF KnowsItsTree
<1>7. EveryRepoAccounted' BY <1>3 DEF EveryRepoAccounted
<1> QED BY <1>1, <1>5, <1>6, <1>7

\* A task of Stage 1 writes the surface it made of the tree it read.
LEMMA TaskInv ==
  ASSUME DiscoverInv, NEW r \in Repos, Task(r)
  PROVE  DiscoverInv'
<1> USE DEF DiscoverInv
<1>0. /\ task[r] \in TaskRecords /\ tree[r] \in Trees /\ KnowsItsTree(r)
      /\ cache \in [Repos -> Surfaces \cup {Absent}] /\ lost \in 0 .. MaxLost
      BY DEF DiscoverTypeOK
<1>1. tree[r].head \in Versions /\ tree[r].work \in Versions /\ DirtyHash(tree[r]) \in Dirty
      BY <1>0 DEF Trees, DirtyHash, Dirty
<1>2. ASSUME NEW t, task' = [task EXCEPT ![r] = t] PROVE task'[r] = t
      BY <1>2 DEF DiscoverTypeOK
<1>3. CASE ReadTreeSha(r)
  <2> DEFINE t == [task[r] EXCEPT !.pc = "hashing", !.tree_sha = tree[r].head]
  <2>1. t \in TaskRecords BY <1>0, <1>1 DEF TaskRecords
  <2>2. task' = [task EXCEPT ![r] = t] BY <1>3 DEF ReadTreeSha
  <2>3. KnowsItsTree(r)' BY <1>1, <1>2, <2>1, <2>2, <1>3 DEF ReadTreeSha, KnowsItsTree, TaskRecords
  <2>4. SurfaceDescribesKey' BY <1>3 DEF ReadTreeSha, SurfaceDescribesKey
  <2> HIDE DEF t
  <2> QED BY <1>0, <2>1, <2>2, <2>3, <2>4, <1>3, OneTaskSteps DEF ReadTreeSha, discover_counters
<1>4. CASE ReadDirtyHash(r)
  <2> DEFINE key == [tree_sha |-> task[r].tree_sha, dirty_hash |-> DirtyHash(tree[r])]
             hit == cache[r] # Absent /\ KeyOf(cache[r]) = key
             t == [task[r] EXCEPT !.pc = IF hit THEN "cached" ELSE "analysing",
                                  !.dirty_hash = key.dirty_hash,
                                  !.surface = IF hit THEN cache[r] ELSE Absent]
  <2>1. t \in TaskRecords BY <1>0, <1>1 DEF TaskRecords
  <2>2. task' = [task EXCEPT ![r] = t] BY <1>4 DEF ReadDirtyHash
  <2>3. KnowsItsTree(r)' BY <1>0, <1>2, <2>1, <2>2, <1>4 DEF ReadDirtyHash, KnowsItsTree, TaskRecords
  <2>4. SurfaceDescribesKey' BY <1>4 DEF ReadDirtyHash, SurfaceDescribesKey
  <2> HIDE DEF t
  <2> QED BY <1>0, <2>1, <2>2, <2>3, <2>4, <1>4, OneTaskSteps DEF ReadDirtyHash, discover_counters
<1>5. CASE Analyse(r)
  <2> DEFINE s == [tree_sha |-> task[r].tree_sha, dirty_hash |-> task[r].dirty_hash,
                   saw |-> tree[r].work, steady |-> r \notin touched]
             t == [task[r] EXCEPT !.pc = "analysed", !.surface = s]
  <2>1. s \in Surfaces BY <1>0, <1>1, <1>5 DEF Analyse, KnowsItsTree, Surfaces, TaskRecords
  <2>2. t \in TaskRecords BY <1>0, <2>1 DEF TaskRecords
  <2>3. task' = [task EXCEPT ![r] = t] BY <1>5 DEF Analyse
  <2>4. s.steady => Describes(s)
    <3>1. <<tree[r].head, tree[r].work>> # Absent BY <1>1, AbsentAssumption
    <3>2. s.steady => s.tree_sha = tree[r].head /\ s.dirty_hash = DirtyHash(tree[r])
          BY <1>0, <1>5 DEF Analyse, KnowsItsTree
    <3> QED BY <3>1, <3>2 DEF Describes, DirtyHash
  <2>5. KnowsItsTree(r)' BY <1>0, <1>2, <2>1, <2>2, <2>3, <2>4, <1>5 DEF Analyse, KnowsItsTree, TaskRecords
  <2>6. SurfaceDescribesKey' BY <1>5 DEF Analyse, SurfaceDescribesKey
  <2> HIDE DEF t
  <2> QED BY <1>0, <2>2, <2>3, <2>5, <2>6, <1>5, OneTaskSteps DEF Analyse, discover_counters
<1>6. CASE SaveSurface(r)
  <2> DEFINE t == [task[r] EXCEPT !.pc = "fresh"]
  <2>1. t \in TaskRecords BY <1>0 DEF TaskRecords
  <2>2. task' = [task EXCEPT ![r] = t] BY <1>6 DEF SaveSurface
  <2>3. task[r].surface \in Surfaces /\ (task[r].surface.steady => Describes(task[r].surface))
        BY <1>0, <1>6 DEF SaveSurface, KnowsItsTree
  <2>4. KnowsItsTree(r)' BY <1>2, <2>1, <2>2, <2>3 DEF KnowsItsTree, TaskRecords
  <2>5. cache' \in [Repos -> Surfaces \cup {Absent}] BY <1>0, <1>6, <2>3 DEF SaveSurface
  <2>6. SurfaceDescribesKey' BY <1>0, <1>6, <2>3 DEF SaveSurface, SurfaceDescribesKey
  <2> HIDE DEF t
  <2> QED BY <1>0, <2>1, <2>2, <2>4, <2>5, <2>6, <1>6, OneTaskSteps DEF SaveSurface, discover_counters
<1>7. CASE TaskFails(r)
  <2> DEFINE t == [task[r] EXCEPT !.pc = "failed"]
  <2>1. t \in TaskRecords BY <1>0 DEF TaskRecords
  <2>2. task' = [task EXCEPT ![r] = t] BY <1>7 DEF TaskFails
  <2>3. KnowsItsTree(r)' BY <1>2, <2>1, <2>2 DEF KnowsItsTree, TaskRecords
  <2>4. SurfaceDescribesKey' BY <1>7 DEF TaskFails, SurfaceDescribesKey
  <2>5. lost' \in 0 .. MaxLost BY <1>0, <1>7, LimitsAssumption DEF TaskFails
  <2> HIDE DEF t
  <2> QED BY <1>0, <2>1, <2>2, <2>3, <2>4, <2>5, <1>7, OneTaskSteps DEF TaskFails, Working
<1> QED BY <1>3, <1>4, <1>5, <1>6, <1>7 DEF Task

-----------------------------------------------------------------------------
(* The other steps of discovery.  A step that leaves the tasks, the trees   *)
(* and the caches alone has only the proposals and the run to answer for.   *)

\* What is known of the tasks stays when trees, caches and tasks do.
LEMMA TreesAlone ==
  ASSUME DiscoverInv, UNCHANGED <<tree, cache, task, touched>>
  PROVE  (\A r \in Repos : KnowsItsTree(r)') /\ SurfaceDescribesKey'
BY DEF DiscoverInv, KnowsItsTree, SurfaceDescribesKey

\* There is nothing to know of no task.
LEMMA NoTasksKnow ==
  ASSUME task' = NoTasks, UNCHANGED cache, SurfaceDescribesKey
  PROVE  (\A r \in Repos : KnowsItsTree(r)') /\ SurfaceDescribesKey'
<1>1. \A r \in Repos : task'[r].pc = "none" BY DEF NoTasks, NoTask
<1> QED BY <1>1 DEF KnowsItsTree, SurfaceDescribesKey

\* A run starts with its own list of repositories.
LEMMA StartInv ==
  ASSUME DiscoverInv, NEW o \in Options, StartDiscovery(o)
  PROVE  DiscoverInv'
<1> USE DEF DiscoverInv, StartDiscovery
<1> DEFINE new == [NoRun EXCEPT !.pc = "stage1", !.options = o, !.known = registry]
<1>1. new \in ScanRecords /\ new.pc = "stage1" /\ new.known = registry
      BY DEF ScanRecords, NoRun, DiscoverTypeOK
<1>2. \A r \in Repos : /\ task'[r] \in TaskRecords /\ task'[r].pc \in {"none", "queued"}
                       /\ task'[r].pc # "none" => r \in registry
      BY DEF NoTask, TaskRecords, Dirty
<1>3. task' \in [Repos -> TaskRecords]
  <2>1. task' = [r \in Repos |-> task'[r]] OBVIOUS
  <2> QED BY <1>2, <2>1
<1>4. DiscoverTypeOK'
  <2>1. scan' = new /\ runs' \in 0 .. MaxRuns BY LimitsAssumption DEF DiscoverTypeOK
  <2> HIDE DEF new
  <2> QED BY <1>1, <1>3, <2>1 DEF DiscoverTypeOK
<1>5. AgentsCounted' /\ TasksOfTheRun'
      BY <1>1, <1>2 DEF AgentsCounted, TasksOfTheRun, DiscoverTypeOK
<1>6. \A r \in Repos : KnowsItsTree(r)' BY <1>2 DEF KnowsItsTree
<1>7. SurfaceDescribesKey' /\ EveryRepoAccounted' BY <1>1 DEF SurfaceDescribesKey, EveryRepoAccounted
<1> QED BY <1>4, <1>5, <1>6, <1>7

\* What the tasks came to: a repository the run knows has a surface or a failure.
LEMMA Collected ==
  ASSUME DiscoverInv, Joined
  PROVE  /\ CollectedSurfaces \in [Repos -> Surfaces \cup {Absent}]
         /\ CollectedFailures \in SUBSET Repos
         /\ \A r \in Repos : r \in scan.known => (r \in CollectedFailures <=> CollectedSurfaces[r] = Absent)
         /\ \A r \in Repos \ scan.known : r \notin CollectedFailures /\ CollectedSurfaces[r] = Absent
<1> USE DEF DiscoverInv, Joined
<1>1. scan.known \subseteq Repos BY DEF DiscoverTypeOK, ScanRecords
<1>2. \A r \in Repos : /\ cache[r] \in Surfaces \cup {Absent}
                       /\ task[r].pc \in {"fresh", "cached"} => task[r].surface \in Surfaces
                       /\ task[r].pc # "none" => r \in scan.known
                       /\ task[r].pc \in {"none", "fresh", "cached", "failed"}
      BY DEF DiscoverTypeOK, KnowsItsTree, TasksOfTheRun
<1>3. \A r \in Repos :
        CollectedSurfaces[r] = CASE task[r].pc \in {"fresh", "cached"} -> task[r].surface
                                 [] r \in scan.known /\ task[r].pc = "none" -> cache[r]
                                 [] OTHER -> Absent
      BY DEF CollectedSurfaces
<1>4. ASSUME NEW r \in Repos
      PROVE  /\ CollectedSurfaces[r] \in Surfaces \cup {Absent}
             /\ r \in scan.known => (r \in CollectedFailures <=> CollectedSurfaces[r] = Absent)
             /\ r \notin scan.known => r \notin CollectedFailures /\ CollectedSurfaces[r] = Absent
  <2> USE DEF CollectedFailures
  <2>1. CASE task[r].pc \in {"fresh", "cached"} BY <1>2, <1>3, <2>1, NoDocument
  <2>2. CASE task[r].pc = "none" /\ r \in scan.known BY <1>2, <1>3, <2>2
  <2>3. CASE task[r].pc = "none" /\ r \notin scan.known BY <1>2, <1>3, <2>3
  <2>4. CASE task[r].pc = "failed" BY <1>2, <1>3, <2>4
  <2> QED BY <1>2, <2>1, <2>2, <2>3, <2>4
<1>5. CollectedSurfaces \in [Repos -> Surfaces \cup {Absent}]
  <2>1. CollectedSurfaces = [r \in Repos |-> CollectedSurfaces[r]] BY DEF CollectedSurfaces
  <2> QED BY <1>4, <2>1
<1> QED BY <1>1, <1>4, <1>5 DEF CollectedFailures

\* The file that is begun with them says so.
LEMMA Begun ==
  ASSUME NEW surfaces \in [Repos -> Surfaces \cup {Absent}], NEW failures \in SUBSET Repos
  PROVE  /\ NewProposals(surfaces, failures) \in ProposalsFiles
         /\ NewProposals(surfaces, failures).failures = failures
         /\ \A r \in Repos : NewProposals(surfaces, failures).sources[r] = Absent <=> surfaces[r] = Absent
<1>1. \A r \in Repos : surfaces[r] # Absent => KeyOf(surfaces[r]) \in Keys
      BY DEF KeyOf, Keys, Surfaces
<1>2. [r \in Repos |-> IF surfaces[r] = Absent THEN Absent ELSE KeyOf(surfaces[r])]
        \in [Repos -> Keys \cup {Absent}]
      BY <1>1
<1> QED BY <1>1, <1>2, NoDocument DEF NewProposals, ProposalsFiles

\* The run goes from stage 1 to what follows; the file is begun anew or not.
LEMMA JoinInv ==
  ASSUME DiscoverInv, SkipStage2 \/ SaveFailuresOnly \/ StartStage2
  PROVE  DiscoverInv'
<1> USE DEF DiscoverInv
<1> DEFINE file == NewProposals(CollectedSurfaces, CollectedFailures)
<1>1. /\ Joined /\ task' = NoTasks
      /\ UNCHANGED <<registry, tree, cache, related, byHand, touched, runs, acts, lost>>
      BY DEF SkipStage2, SaveFailuresOnly, StartStage2, discover_counters
<1>2. /\ CollectedSurfaces \in [Repos -> Surfaces \cup {Absent}]
      /\ CollectedFailures \in SUBSET Repos
      /\ \A r \in Repos : r \in scan.known => (r \in CollectedFailures <=> CollectedSurfaces[r] = Absent)
      /\ \A r \in Repos \ scan.known : r \notin CollectedFailures /\ CollectedSurfaces[r] = Absent
      BY <1>1, Collected
<1>3. /\ file \in ProposalsFiles /\ file.failures = CollectedFailures
      /\ \A r \in Repos : file.sources[r] = Absent <=> CollectedSurfaces[r] = Absent
      BY <1>2, Begun
<1>4. scan.pc = "stage1" /\ scan.known \subseteq Repos /\ scan \in ScanRecords
      BY <1>1 DEF Joined, DiscoverTypeOK, ScanRecords
<1>5. NoTask \in TaskRecords /\ \A r \in Repos : task'[r] = NoTask
      BY <1>1 DEF NoTask, NoTasks, TaskRecords, Dirty
<1>6. task' \in [Repos -> TaskRecords] BY <1>1, <1>5 DEF NoTasks
<1>7. (\A r \in Repos : KnowsItsTree(r)') /\ SurfaceDescribesKey' BY <1>1, NoTasksKnow
<1>8. CASE SkipStage2
  <2>1. /\ scan' \in ScanRecords /\ scan'.pc = "apply" /\ scan'.skipped = TRUE
        /\ UNCHANGED <<proposals, agents>> /\ proposals # Absent
        BY <1>2, <1>4, <1>8 DEF SkipStage2, MaySkip, ScanRecords, discover_counters
  <2>2. DiscoverTypeOK' BY <1>1, <1>6, <2>1 DEF DiscoverTypeOK
  <2>3. AgentsCounted' BY <1>1, <1>4, <2>1 DEF AgentsCounted, DiscoverTypeOK
  <2>4. TasksOfTheRun' BY <1>1, <1>5, <2>1 DEF TasksOfTheRun, NoTask, DiscoverTypeOK
  <2>5. EveryRepoAccounted' BY <2>1 DEF EveryRepoAccounted
  <2> QED BY <1>7, <2>2, <2>3, <2>4, <2>5
<1>9. CASE SaveFailuresOnly \/ StartStage2
  <2>1. /\ scan' \in ScanRecords /\ scan'.pc \in {"apply", "stage2"}
        /\ scan'.known = scan.known /\ proposals' = file
        BY <1>2, <1>4, <1>9 DEF SaveFailuresOnly, StartStage2, ScanRecords
  <2>2. \/ agents' = agents /\ scan'.pc = "apply"
        \/ agents' = agents + 1 /\ scan'.pc = "stage2"
        BY <1>4, <1>9 DEF SaveFailuresOnly, StartStage2, ScanRecords, discover_counters
  <2>3. AgentsCounted' /\ agents' \in 0 .. MaxRuns
        BY <1>1, <1>4, <2>1, <2>2, LimitsAssumption DEF AgentsCounted, DiscoverTypeOK
  <2>4. DiscoverTypeOK' BY <1>1, <1>3, <1>6, <2>1, <2>3 DEF DiscoverTypeOK
  <2>5. TasksOfTheRun' BY <1>1, <1>3, <1>5, <2>1 DEF TasksOfTheRun, NoTask
  <2>6. EveryRepoAccounted'
    <3>1. ASSUME NEW r \in Repos
          PROVE  /\ r \in file.failures => file.sources[r] = Absent
                 /\ r \in scan.known <=> (r \in file.failures \/ file.sources[r] # Absent)
          BY <1>2, <1>3
    <3> HIDE DEF file
    <3> QED BY <2>1, <3>1 DEF EveryRepoAccounted
  <2> QED BY <1>7, <2>3, <2>4, <2>5, <2>6
<1> QED BY <1>8, <1>9

\* The run ends, or dies, or its second stage fails: there is no run.
LEMMA NoRunInv ==
  ASSUME DiscoverInv, scan' = NoRun, task' = NoTasks,
         UNCHANGED <<registry, tree, cache, proposals, byHand, touched, runs, acts>>,
         related' \subseteq Edges, agents' \in 0 .. agents, lost' \in 0 .. MaxLost
  PROVE  DiscoverInv'
<1> USE DEF DiscoverInv
<1>1. NoTask \in TaskRecords /\ NoRun \in ScanRecords /\ NoRun.pc = "idle"
      BY DEF NoTask, NoRun, TaskRecords, ScanRecords, Options, Dirty
<1>2. task' \in [Repos -> TaskRecords] BY <1>1 DEF NoTasks
<1>3. DiscoverTypeOK'
  <2>1. agents' \in 0 .. MaxRuns BY LimitsAssumption DEF DiscoverTypeOK
  <2> QED BY <1>1, <1>2, <2>1 DEF DiscoverTypeOK
<1>4. AgentsCounted'
  <2>1. agents' <= runs /\ agents' \in Nat BY LimitsAssumption DEF AgentsCounted, DiscoverTypeOK
  <2> QED BY <1>1, <2>1 DEF AgentsCounted
<1>5. TasksOfTheRun' BY <1>1 DEF TasksOfTheRun, NoTasks, NoTask
<1>6. EveryRepoAccounted' BY <1>1 DEF EveryRepoAccounted
<1> QED BY <1>3, <1>4, <1>5, <1>6, NoTasksKnow

\* A step that touches the proposals, their agents or the relations only.
LEMMA FilesInv ==
  ASSUME DiscoverInv,
         UNCHANGED <<tree, cache, task, touched, runs, lost>>,
         registry' \subseteq Repos, related' \subseteq Edges, byHand' \subseteq Edges,
         acts' \in 0 .. MaxActs,
         proposals' = proposals \/ proposals' \in ProposalsFiles,
         proposals' # Absent /\ proposals # Absent =>
           proposals'.sources = proposals.sources /\ proposals'.failures = proposals.failures,
         scan' \in ScanRecords, scan'.known = scan.known, scan'.skipped = scan.skipped,
         agents' \in Nat, agents' <= agents,
         \/ scan'.pc = scan.pc /\ (scan.pc = "stage2" => agents' > 0)
         \/ scan.pc = "stage2" /\ scan'.pc = "apply"
  PROVE  DiscoverInv'
<1> USE DEF DiscoverInv
<1>1. agents' \in 0 .. MaxRuns BY LimitsAssumption DEF DiscoverTypeOK
<1>2. DiscoverTypeOK' BY <1>1 DEF DiscoverTypeOK
<1>3. AgentsCounted'
  <2>1. agents \in Nat /\ runs \in Nat BY LimitsAssumption DEF DiscoverTypeOK
  <2>2. agents + (IF scan.pc = "stage1" THEN 1 ELSE 0) <= runs /\ (scan.pc = "stage2" => agents > 0)
        BY DEF AgentsCounted
  <2>3. scan'.pc = "stage1" => scan.pc = "stage1" OBVIOUS
  <2>4. agents' + (IF scan'.pc = "stage1" THEN 1 ELSE 0) <= runs
    <3> HIDE DEF DiscoverInv
    <3>1. CASE scan'.pc = "stage1" BY <2>1, <2>2, <2>3, <3>1
    <3>2. CASE scan'.pc # "stage1" /\ scan.pc = "stage1" BY <2>1, <2>2, <3>2
    <3>3. CASE scan'.pc # "stage1" /\ scan.pc # "stage1"
      <4>1. (IF scan.pc = "stage1" THEN 1 ELSE 0) = 0 /\ (IF scan'.pc = "stage1" THEN 1 ELSE 0) = 0 BY <3>3
      <4>2. agents <= runs BY <2>1, <2>2, <4>1
      <4>3. agents' <= runs BY <2>1, <4>2
      <4> QED BY <4>1, <4>3
    <3> QED BY <3>1, <3>2, <3>3
  <2>5. scan'.pc = "stage2" => agents' > 0 OBVIOUS
  <2> QED BY <2>4, <2>5 DEF AgentsCounted
<1>4. TasksOfTheRun' BY DEF TasksOfTheRun
<1>5. EveryRepoAccounted' BY NoDocument DEF EveryRepoAccounted, TasksOfTheRun
<1> QED BY <1>2, <1>3, <1>4, <1>5, TreesAlone

\* A canonical edge is an edge.
LEMMA EdgesStay ==
  ASSUME NEW e \in Edges
  PROVE  [e EXCEPT !.participants = CanonicaliseForKind(e.kind, e.participants)] \in Edges
BY DEF Edges, CanonicaliseForKind

\* The relations stay relations, whatever is proposed.
LEMMA ApplyProposalsTyped ==
  ASSUME DiscoverTypeOK, proposals # Absent
  PROVE  ApplyProposals(related) \in SUBSET Edges
<1>1. proposals.edges \in Seq(Edges) BY DEF DiscoverTypeOK, ProposalsFiles
<1>2. \A f \in SUBSET Edges, p \in Edges : ApplyOne(f, p) \in SUBSET Edges
      BY EdgesStay DEF ApplyOne
<1>3. FoldLeft(ApplyOne, related, proposals.edges) \in SUBSET Edges
      BY <1>1, <1>2, ApplyProposalsStays DEF DiscoverTypeOK
<1> QED BY <1>3 DEF ApplyProposals

\* The steps of the run itself.
LEMMA RunnerInv ==
  ASSUME DiscoverInv, Runner
  PROVE  DiscoverInv'
<1> USE DEF DiscoverInv
<1>1. /\ scan \in ScanRecords /\ agents \in Nat /\ lost \in 0 .. MaxLost /\ acts \in 0 .. MaxActs
      /\ registry \subseteq Repos /\ related \subseteq Edges /\ byHand \subseteq Edges
      BY LimitsAssumption DEF DiscoverTypeOK
<1>2. CASE SkipStage2 \/ SaveFailuresOnly \/ StartStage2 BY <1>2, JoinInv
<1>3. CASE Stage2Succeeds
  <2>1. /\ scan' = [scan EXCEPT !.pc = "apply"] /\ proposals # Absent
        /\ proposals' = [proposals EXCEPT !.whole = TRUE]
        /\ agents' = agents - 1 /\ scan.pc = "stage2"
        /\ UNCHANGED <<registry, tree, cache, related, task, byHand, touched, runs, acts, lost>>
        BY <1>3 DEF Stage2Succeeds, discover_counters
  <2>2. /\ proposals' \in ProposalsFiles
        /\ proposals'.sources = proposals.sources /\ proposals'.failures = proposals.failures
        BY <2>1 DEF DiscoverTypeOK, ProposalsFiles
  <2>3. /\ scan' \in ScanRecords /\ scan'.pc = "apply"
        /\ scan'.known = scan.known /\ scan'.skipped = scan.skipped
        BY <1>1, <2>1 DEF ScanRecords
  <2>4. agents' \in Nat /\ agents' <= agents BY <1>1, <2>1 DEF AgentsCounted
  <2> QED BY <1>1, <2>1, <2>2, <2>3, <2>4, FilesInv
<1>4. CASE Stage2Fails
  <2>1. /\ scan' = NoRun /\ task' = NoTasks /\ agents' \in 0 .. agents
        BY <1>1, <1>4 DEF Stage2Fails, TasksOfTheRun, AgentsCounted
  <2>2. lost' \in 0 .. MaxLost BY <1>1, <1>4, LimitsAssumption DEF Stage2Fails
  <2> QED BY <1>1, <1>4, <2>1, <2>2, NoRunInv DEF Stage2Fails
<1>5. CASE EndRun
  <2>1. proposals # Absent BY <1>5, NoDocument DEF EndRun, TasksOfTheRun
  <2>2. /\ scan' = NoRun /\ task' = NoTasks
        /\ UNCHANGED <<registry, tree, cache, proposals, agents, byHand, touched, runs, acts, lost>>
        BY <1>5 DEF EndRun, TasksOfTheRun, discover_counters
  <2>3. related' \subseteq Edges BY <1>1, <1>5, <2>1, ApplyProposalsTyped DEF EndRun
  <2> QED BY <1>1, <2>2, <2>3, NoRunInv
<1> QED BY <1>2, <1>3, <1>4, <1>5 DEF Runner

\* discover add: one more proposal.
LEMMA AddProposalInv ==
  ASSUME DiscoverInv, NEW e \in Edges, AddProposal(e)
  PROVE  DiscoverInv'
<1> USE DEF DiscoverInv
<1> DEFINE new == [e EXCEPT !.participants = CanonicaliseForKind(e.kind, e.participants)]
           nothing == [r \in Repos |-> Absent]
           file == IF proposals = Absent THEN NewProposals(nothing, {}) ELSE proposals
<1>1. /\ proposals' = [file EXCEPT !.edges = Append(@, new)]
      /\ UNCHANGED <<registry, tree, cache, related, task, scan, agents, byHand, touched, runs, acts, lost>>
      BY DEF AddProposal, discover_counters
<1>2. new \in Edges BY EdgesStay
<1>3. file \in ProposalsFiles BY Begun DEF DiscoverTypeOK
<1>4. proposals' \in ProposalsFiles
  <2> HIDE DEF new, file
  <2>1. file.edges \in Seq(Edges) BY <1>3 DEF ProposalsFiles
  <2>2. Append(file.edges, new) \in Seq(Edges) BY <1>2, <2>1
  <2> QED BY <1>1, <1>3, <2>2 DEF ProposalsFiles
<1>5. proposals # Absent =>
        proposals'.sources = proposals.sources /\ proposals'.failures = proposals.failures
      BY <1>1, <1>3 DEF ProposalsFiles
<1>6. /\ scan \in ScanRecords /\ agents \in Nat /\ acts \in 0 .. MaxActs
      /\ registry \subseteq Repos /\ related \subseteq Edges /\ byHand \subseteq Edges
      BY LimitsAssumption DEF DiscoverTypeOK
<1>7. scan.pc = "stage2" => agents > 0 BY DEF AgentsCounted
<1> QED BY <1>1, <1>4, <1>5, <1>6, <1>7, FilesInv

\* The verbs of the user, and the edits of the repositories.
LEMMA UserInv ==
  ASSUME DiscoverInv, User
  PROVE  DiscoverInv'
<1> USE DEF DiscoverInv
<1>1. /\ scan \in ScanRecords /\ agents \in Nat
      /\ registry \subseteq Repos /\ related \subseteq Edges /\ byHand \subseteq Edges
      /\ scan.pc = "stage2" => agents > 0
      BY LimitsAssumption DEF DiscoverTypeOK, AgentsCounted
<1>2. UserActs => acts' \in 0 .. MaxActs BY LimitsAssumption DEF UserActs, DiscoverTypeOK
<1>3. CASE DiscoverApply
  <2>1. related' \subseteq Edges BY <1>3, ApplyProposalsTyped DEF DiscoverApply
  <2> QED BY <1>1, <1>2, <1>3, <2>1, FilesInv DEF DiscoverApply
<1>4. CASE EditProposals
  <2>1. /\ proposals \in ProposalsFiles
        /\ UNCHANGED <<registry, tree, cache, related, task, scan, agents, byHand, touched, runs, lost>>
        /\ acts' \in 0 .. MaxActs
        BY <1>2, <1>4 DEF EditProposals, DiscoverTypeOK
  <2>2. PICK s \in Seq(Edges) : proposals' = [proposals EXCEPT !.edges = s]
    <3>1. proposals.edges \in Seq(Edges) BY <2>1 DEF ProposalsFiles
    <3>2. ASSUME NEW e \in Edges, proposals' = [proposals EXCEPT !.edges = Append(@, e)]
          PROVE  \E s \in Seq(Edges) : proposals' = [proposals EXCEPT !.edges = s]
      <4>1. Append(proposals.edges, e) \in Seq(Edges) BY <3>1
      <4> QED BY <3>2, <4>1
    <3>3. ASSUME proposals.edges # <<>>, proposals' = [proposals EXCEPT !.edges = Tail(@)]
          PROVE  \E s \in Seq(Edges) : proposals' = [proposals EXCEPT !.edges = s]
      <4>1. Tail(proposals.edges) \in Seq(Edges) BY <3>1, <3>3
      <4> QED BY <3>3, <4>1
    <3> QED BY <1>4, <3>2, <3>3 DEF EditProposals
  <2>3. /\ proposals' \in ProposalsFiles
        /\ proposals'.sources = proposals.sources /\ proposals'.failures = proposals.failures
        BY <2>1, <2>2 DEF ProposalsFiles
  <2> QED BY <1>1, <2>1, <2>3, FilesInv
<1>5. ASSUME NEW e \in Edges, AddEdge(e) \/ RemoveEdge(e) PROVE DiscoverInv'
  <2>1. [e EXCEPT !.participants = CanonicaliseForKind(e.kind, e.participants)] \in Edges BY EdgesStay
  <2>2. related' \subseteq Edges /\ byHand' \subseteq Edges BY <1>1, <1>5, <2>1 DEF AddEdge, RemoveEdge
  <2>3. UNCHANGED <<registry, tree, cache, proposals, task, scan, agents, touched, runs, lost>> /\ UserActs
        BY <1>5 DEF AddEdge, RemoveEdge
  <2> QED BY <1>1, <1>2, <2>2, <2>3, FilesInv
<1>6. ASSUME NEW r \in Repos, EditTree(r) \/ Commit(r) PROVE DiscoverInv'
  <2>0. tree[r] \in Trees BY DEF DiscoverTypeOK
  <2>1. PICK t \in Trees : Change(r, t) BY <1>6, <2>0 DEF EditTree, Commit, Trees
  <2>2. /\ tree' = [tree EXCEPT ![r] = t] /\ touched' = touched \cup {r} /\ acts' \in 0 .. MaxActs
        /\ UNCHANGED <<registry, cache, proposals, related, task, scan, agents, byHand, runs, lost>>
        BY <1>2, <2>1 DEF Change
  <2>3. DiscoverTypeOK' BY <2>2 DEF DiscoverTypeOK
  <2>4. AgentsCounted' /\ TasksOfTheRun' BY <2>2 DEF AgentsCounted, TasksOfTheRun
  <2>5. ASSUME NEW q \in Repos PROVE KnowsItsTree(q)'
    <3>1. q \notin touched' => q \notin touched /\ tree'[q] = tree[q] BY <2>2 DEF DiscoverTypeOK
    <3> QED BY <2>2, <3>1 DEF KnowsItsTree
  <2>6. SurfaceDescribesKey' /\ EveryRepoAccounted' BY <2>2 DEF SurfaceDescribesKey, EveryRepoAccounted
  <2> QED BY <2>3, <2>4, <2>5, <2>6
<1>7. ASSUME NEW r \in Repos, RepoRemove(r) \/ RepoAdd(r) PROVE DiscoverInv'
  <2>1. /\ registry' \subseteq Repos /\ UserActs
        /\ UNCHANGED <<tree, cache, proposals, related, task, scan, agents, byHand, touched, runs, lost>>
        BY <1>1, <1>7 DEF RepoRemove, RepoAdd
  <2> QED BY <1>1, <1>2, <2>1, FilesInv
<1> QED BY <1>3, <1>4, <1>5, <1>6, <1>7 DEF User

\* Every step keeps the invariant of discovery.
LEMMA DiscoverNextInv ==
  ASSUME DiscoverInv, [DiscoverNext]_discover_vars
  PROVE  DiscoverInv'
<1>1. ASSUME NEW o \in Options, StartDiscovery(o) PROVE DiscoverInv' BY <1>1, StartInv
<1>2. ASSUME NEW r \in Repos, Task(r) PROVE DiscoverInv' BY <1>2, TaskInv
<1>3. CASE Runner BY <1>3, RunnerInv
<1>4. ASSUME NEW e \in Edges, AddProposal(e) PROVE DiscoverInv' BY <1>4, AddProposalInv
<1>5. CASE User BY <1>5, UserInv
<1>6. /\ scan \in ScanRecords /\ agents \in Nat /\ lost \in 0 .. MaxLost /\ acts \in 0 .. MaxActs
      /\ registry \subseteq Repos /\ related \subseteq Edges /\ byHand \subseteq Edges
      BY LimitsAssumption DEF DiscoverInv, DiscoverTypeOK
<1>7. CASE OrphanEnds
  <2>1. /\ agents' \in Nat /\ agents' <= agents /\ (scan.pc = "stage2" => agents' > 0)
        /\ UNCHANGED <<registry, tree, cache, proposals, related, task, scan, byHand, touched, runs, acts, lost>>
        BY <1>6, <1>7 DEF OrphanEnds, discover_counters
  <2> QED BY <1>6, <2>1, FilesInv
<1>8. CASE DiscoveryDies
  <2>1. lost' \in 0 .. MaxLost BY <1>6, <1>8, LimitsAssumption DEF DiscoveryDies
  <2> QED BY <1>6, <1>8, <2>1, NoRunInv DEF DiscoveryDies
<1>9. CASE UNCHANGED discover_vars
  <2> USE <1>9 DEF discover_vars, DiscoverInv
  <2>1. DiscoverTypeOK' BY DEF DiscoverTypeOK
  <2>2. AgentsCounted' /\ TasksOfTheRun' BY DEF AgentsCounted, TasksOfTheRun
  <2>3. EveryRepoAccounted' BY DEF EveryRepoAccounted
  <2> QED BY <2>1, <2>2, <2>3, TreesAlone
<1> QED BY <1>1, <1>2, <1>3, <1>4, <1>5, <1>7, <1>8, <1>9 DEF DiscoverNext

\* The types of discovery hold of every number of repositories, contents of
\* trees, runs, failures and acts of the user.
THEOREM DiscoverTyped == DiscoverSpec => []DiscoverTypeOK
<1>1. DiscoverInit => DiscoverInv BY DiscoverInitInv
<1>2. DiscoverInv /\ [DiscoverNext]_discover_vars => DiscoverInv' BY DiscoverNextInv
<1>3. DiscoverInv => DiscoverTypeOK BY DEF DiscoverInv
<1> QED BY <1>1, <1>2, <1>3, PTL DEF DiscoverSpec

\* However the three looks at a tree, the cache and the user's edits
\* interleave, a surface that was analysed undisturbed describes the state of
\* the tree under which it is filed.
THEOREM SurfacesDescribeTheirKeys == DiscoverSpec => []SurfaceDescribesKey
<1>1. DiscoverInit => DiscoverInv BY DiscoverInitInv
<1>2. DiscoverInv /\ [DiscoverNext]_discover_vars => DiscoverInv' BY DiscoverNextInv
<1>3. DiscoverInv => SurfaceDescribesKey BY DEF DiscoverInv
<1> QED BY <1>1, <1>2, <1>3, PTL DEF DiscoverSpec

\* The proposals account for every repository the run knows, with its state or
\* with a failure, whatever agents append to them and however runs die.
THEOREM ReposAreAccounted == DiscoverSpec => []EveryRepoAccounted
<1>1. DiscoverInit => DiscoverInv BY DiscoverInitInv
<1>2. DiscoverInv /\ [DiscoverNext]_discover_vars => DiscoverInv' BY DiscoverNextInv
<1>3. DiscoverInv => EveryRepoAccounted BY DEF DiscoverInv
<1> QED BY <1>1, <1>2, <1>3, PTL DEF DiscoverSpec

-----------------------------------------------------------------------------
(* The relations.                                                          *)

\* The files that are sound when the edges of hand were added by the verb.
SoundFiles(hand) ==
  {f \in SUBSET Edges :
     \A e \in f : /\ Valid(e)
                  /\ DirectionalConflict(f, e) =>
                       \E x \in hand : x.kind = e.kind /\ (x = e \/ ParticipantsReversed(x.participants, e.participants))}

\* A proposal that is applied leaves no relation in both directions.
LEMMA ApplyOneSound ==
  ASSUME NEW hand, NEW f \in SoundFiles(hand), NEW p \in Edges
  PROVE  ApplyOne(f, p) \in SoundFiles(hand)
<1> DEFINE e == [p EXCEPT !.participants = CanonicaliseForKind(p.kind, p.participants)]
<1>1. e \in Edges BY EdgesStay
<1> HIDE DEF e
<1>2. CASE ~(Valid(e) /\ ~DirectionalConflict(f, e)) BY <1>2 DEF ApplyOne, e
<1>3. CASE Valid(e) /\ ~DirectionalConflict(f, e)
  <2>1. ApplyOne(f, p) = f \cup {e} BY <1>3 DEF ApplyOne, e
  <2>2. ~DirectionalConflict(f \cup {e}, e) BY <1>3 DEF DirectionalConflict
  <2>3. ASSUME NEW x \in f, DirectionalConflict(f \cup {e}, x) PROVE DirectionalConflict(f, x)
        BY <1>3, <2>3 DEF DirectionalConflict, ParticipantsReversed
  <2> QED BY <1>1, <1>3, <2>1, <2>2, <2>3 DEF SoundFiles
<1> QED BY <1>2, <1>3

\* Of all of them, in the order of the file.
LEMMA ApplyProposalsSound ==
  ASSUME DiscoverTypeOK, related \in SoundFiles(byHand), proposals # Absent
  PROVE  ApplyProposals(related) \in SoundFiles(byHand)
<1>1. proposals.edges \in Seq(Edges) BY DEF DiscoverTypeOK, ProposalsFiles
<1>2. \A f \in SoundFiles(byHand), p \in Edges : ApplyOne(f, p) \in SoundFiles(byHand) BY ApplyOneSound
<1>3. FoldLeft(ApplyOne, related, proposals.edges) \in SoundFiles(byHand)
      BY <1>1, <1>2, ApplyProposalsStays
<1> QED BY <1>3 DEF ApplyProposals

\* A user may add the reverse of an edge, and is remembered for it.
LEMMA AddEdgeSound ==
  ASSUME DiscoverTypeOK, related \in SoundFiles(byHand), NEW e \in Edges, AddEdge(e)
  PROVE  related' \in SoundFiles(byHand')
<1> DEFINE new == [e EXCEPT !.participants = CanonicaliseForKind(e.kind, e.participants)]
<1>1. new \in Edges BY EdgesStay
<1>2. Valid(new) /\ related' = related \cup {new} /\ byHand' = byHand \cup {new} BY DEF AddEdge
<1> HIDE DEF new
<1>3. ASSUME NEW x \in related, DirectionalConflict(related', x)
      PROVE  \E y \in byHand' : y.kind = x.kind /\ (y = x \/ ParticipantsReversed(y.participants, x.participants))
  <2>1. CASE DirectionalConflict(related, x) BY <1>2, <2>1 DEF SoundFiles
  <2>2. CASE ~DirectionalConflict(related, x)
    <3>1. new.kind = x.kind /\ ParticipantsReversed(new.participants, x.participants)
          BY <1>2, <1>3, <2>2 DEF DirectionalConflict
    <3> QED BY <1>2, <3>1
  <2> QED BY <2>1, <2>2
<1>4. \E y \in byHand' : y.kind = new.kind /\ (y = new \/ ParticipantsReversed(y.participants, new.participants))
      BY <1>2
<1>5. \A x \in related : Valid(x) BY DEF SoundFiles
<1>6. related' \subseteq Edges BY <1>1, <1>2 DEF SoundFiles
<1> QED BY <1>2, <1>3, <1>4, <1>5, <1>6 DEF SoundFiles

\* Removing one of two opposed edges leaves the other unopposed.
LEMMA RemoveEdgeSound ==
  ASSUME DiscoverTypeOK, related \in SoundFiles(byHand), NEW e \in Edges, RemoveEdge(e)
  PROVE  related' \in SoundFiles(byHand')
<1> DEFINE old == [e EXCEPT !.participants = CanonicaliseForKind(e.kind, e.participants)]
<1>1. old \in Edges BY EdgesStay
<1>2. related' = related \ {old} /\ byHand' = byHand \ {old} BY DEF RemoveEdge
<1>3. related \subseteq Edges /\ byHand \subseteq Edges BY DEF DiscoverTypeOK
<1> HIDE DEF old
<1>4. ASSUME NEW x \in related', DirectionalConflict(related', x)
      PROVE  \E y \in byHand' : y.kind = x.kind /\ (y = x \/ ParticipantsReversed(y.participants, x.participants))
  <2>1. PICK z \in related' : z.kind = x.kind /\ ParticipantsReversed(z.participants, x.participants)
        BY <1>4 DEF DirectionalConflict
  <2>2. DirectionalConflict(related, x) BY <1>2, <1>4 DEF DirectionalConflict
  <2>3. PICK y \in byHand : y.kind = x.kind /\ (y = x \/ ParticipantsReversed(y.participants, x.participants))
        BY <1>2, <2>2 DEF SoundFiles
  <2>4. ASSUME y = old, y # x PROVE FALSE
    <3>1. ParticipantsReversed(y.participants, x.participants) BY <2>3, <2>4
    <3>2. y.participants \in Repos \X Repos /\ z.participants \in Repos \X Repos
          BY <1>1, <1>2, <1>3, <2>4 DEF Edges
    <3>3. y.participants = z.participants BY <2>1, <3>1, <3>2 DEF ParticipantsReversed
    <3>4. y = z BY <1>1, <1>2, <1>3, <2>1, <2>3, <2>4, <3>3 DEF Edges
    <3> QED BY <1>2, <2>4, <3>4
  <2> QED BY <1>2, <2>3, <2>4
<1>5. \A x \in related : Valid(x) BY DEF SoundFiles
<1> QED BY <1>2, <1>3, <1>4, <1>5 DEF SoundFiles

\* Every step keeps the relations sound.
LEMMA RelationsStep ==
  ASSUME DiscoverInv, related \in SoundFiles(byHand), [DiscoverNext]_discover_vars
  PROVE  related' \in SoundFiles(byHand')
<1>1. DiscoverTypeOK BY DEF DiscoverInv
<1>2. CASE UNCHANGED <<related, byHand>> BY <1>2
<1>3. ASSUME NEW o \in Options, StartDiscovery(o) PROVE UNCHANGED <<related, byHand>> BY <1>3 DEF StartDiscovery
<1>4. ASSUME NEW r \in Repos, Task(r) PROVE UNCHANGED <<related, byHand>>
      BY <1>4 DEF Task, ReadTreeSha, ReadDirtyHash, Analyse, SaveSurface, TaskFails
<1>5. CASE Runner
  <2>1. CASE EndRun
    <3>1. proposals # Absent BY <2>1, NoDocument DEF EndRun, TasksOfTheRun, DiscoverInv
    <3> QED BY <1>1, <2>1, <3>1, ApplyProposalsSound DEF EndRun
  <2>2. CASE ~EndRun
        BY <1>5, <2>2 DEF Runner, SkipStage2, SaveFailuresOnly, StartStage2, Stage2Succeeds, Stage2Fails
  <2> QED BY <2>1, <2>2
<1>6. ASSUME NEW e \in Edges, AddProposal(e) PROVE UNCHANGED <<related, byHand>> BY <1>6 DEF AddProposal
<1>7. CASE User
  <2>1. CASE DiscoverApply BY <1>1, <2>1, ApplyProposalsSound DEF DiscoverApply
  <2>2. CASE EditProposals BY <2>2 DEF EditProposals
  <2>3. ASSUME NEW e \in Edges, AddEdge(e) \/ RemoveEdge(e) PROVE related' \in SoundFiles(byHand')
        BY <1>1, <2>3, AddEdgeSound, RemoveEdgeSound
  <2>4. ASSUME NEW r \in Repos, EditTree(r) \/ Commit(r) \/ RepoRemove(r) \/ RepoAdd(r)
        PROVE  UNCHANGED <<related, byHand>>
        BY <2>4 DEF EditTree, Commit, Change, RepoRemove, RepoAdd
  <2> QED BY <1>7, <2>1, <2>2, <2>3, <2>4 DEF User
<1>8. CASE OrphanEnds \/ DiscoveryDies BY <1>8 DEF OrphanEnds, DiscoveryDies
<1>9. CASE UNCHANGED discover_vars BY <1>9 DEF discover_vars
<1> QED BY <1>2, <1>3, <1>4, <1>5, <1>6, <1>7, <1>8, <1>9 DEF DiscoverNext

\* For any proposals, applied in any order and again and again between verbs
\* and edits: what has no direction is kept once, and what has one is there in
\* both only where add-edge put one of the two.
THEOREM RelationsAreSound == DiscoverSpec => []RelationsSound
<1> DEFINE Sound == related \in SoundFiles(byHand)
<1>1. DiscoverInit => DiscoverInv /\ Sound
  <2>1. DiscoverInit => Sound BY DEF DiscoverInit, SoundFiles
  <2> QED BY <2>1, DiscoverInitInv
<1>2. DiscoverInv /\ Sound /\ [DiscoverNext]_discover_vars => DiscoverInv' /\ Sound'
      BY DiscoverNextInv, RelationsStep
<1>3. Sound => RelationsSound BY DEF SoundFiles, RelationsSound
<1> QED BY <1>1, <1>2, <1>3, PTL DEF DiscoverSpec

-----------------------------------------------------------------------------
(* The survey of plans.                                                    *)

\* There are n numbers from 1 to n.
LEMMA CountTo ==
  ASSUME NEW n \in Nat
  PROVE  IsFiniteSet(1 .. n) /\ Cardinality(1 .. n) = n
<1>1. IsFiniteSet(1 .. n) /\ Cardinality(1 .. n) = IF 1 > n THEN 0 ELSE n - 1 + 1 BY FS_Interval
<1>2. (IF 1 > n THEN 0 ELSE n - 1 + 1) = n OBVIOUS
<1> QED BY <1>1, <1>2

\* Sorting by keys puts every row in one place: the number of rows that do not
\* come after it is that place.
LEMMA SortedFacts ==
  ASSUME NEW S, NEW rows \in Seq(S), \A i \in DOMAIN rows : rows[i].key \in Nat
  PROVE  /\ Sorted(rows) \in Seq(S) /\ DOMAIN Sorted(rows) = DOMAIN rows
         /\ \E f \in [DOMAIN rows -> DOMAIN rows] :
              /\ \A a, b \in DOMAIN rows : f[a] = f[b] => a = b
              /\ \A k \in DOMAIN rows : \E m \in DOMAIN rows : f[m] = k
              /\ \A m \in DOMAIN rows : Sorted(rows)[m] = rows[f[m]]
<1> DEFINE n == Len(rows)
           D == DOMAIN rows
           below(i) == {j \in D : Before(rows, j, i)}
           place == [i \in D |-> Cardinality(below(i))]
           Nth(m) == CHOOSE i \in D : place[i] = m
           sorted == [m \in D |-> rows[Nth(m)]]
<1>1. D = 1 .. n /\ n \in Nat OBVIOUS
<1>2. IsFiniteSet(D) /\ Cardinality(D) = n BY <1>1, CountTo
<1>3. /\ \A a \in D : Before(rows, a, a)
      /\ \A a, b \in D : a # b /\ Before(rows, a, b) => ~Before(rows, b, a)
      /\ \A a, b \in D : a # b => Before(rows, a, b) \/ Before(rows, b, a)
      /\ \A a, b, c \in D : Before(rows, a, b) /\ Before(rows, b, c) => Before(rows, a, c)
  <2>1. \A a \in D : rows[a].key \in Nat /\ a \in Nat BY <1>1
  <2> HIDE DEF D
  <2> QED BY <2>1 DEF Before
<1>4. \A i \in D : below(i) \in SUBSET D /\ i \in below(i) BY <1>3
<1> HIDE DEF n, D
<1>5. \A i \in D : IsFiniteSet(below(i)) /\ Cardinality(below(i)) \in 1 .. n
  <2> SUFFICES ASSUME NEW i \in D PROVE IsFiniteSet(below(i)) /\ Cardinality(below(i)) \in 1 .. n
      OBVIOUS
  <2>1. below(i) \in SUBSET D /\ i \in below(i) BY <1>4
  <2> HIDE DEF below
  <2>2. IsFiniteSet(below(i)) /\ Cardinality(below(i)) <= n BY <1>2, <2>1, FS_Subset
  <2>3. Cardinality(below(i)) \in Nat /\ Cardinality(below(i)) # 0
        BY <2>1, <2>2, FS_CardinalityType, FS_EmptySet
  <2> QED BY <1>1, <2>2, <2>3
<1>6. \A a, b \in D : a # b /\ Before(rows, a, b) => Cardinality(below(a)) # Cardinality(below(b))
  <2> SUFFICES ASSUME NEW a \in D, NEW b \in D, a # b, Before(rows, a, b),
                      Cardinality(below(a)) = Cardinality(below(b))
               PROVE  FALSE
      OBVIOUS
  <2>1. below(a) \in SUBSET below(b) /\ b \in below(b) /\ b \notin below(a)
    <3>1. \A j \in D : Before(rows, j, a) => Before(rows, j, b) BY <1>3
    <3>2. Before(rows, b, b) /\ ~Before(rows, b, a) BY <1>3
    <3> QED BY <3>1, <3>2
  <2>2. IsFiniteSet(below(b)) BY <1>5
  <2> HIDE DEF below
  <2>3. below(a) = below(b) BY <2>1, <2>2, FS_Subset
  <2> QED BY <2>1, <2>3
<1>7. place \in Surjection(D, 1 .. n) /\ place \in Injection(D, 1 .. n)
  <2>1. place \in [D -> 1 .. n] BY <1>5
  <2>2. \A a, b \in D : place[a] = place[b] => a = b BY <1>3, <1>6
  <2> HIDE DEF place, below
  <2>3. place \in Injection(D, 1 .. n) BY <2>1, <2>2 DEF Injection, IsInjective
  <2>4. IsFiniteSet(1 .. n) /\ Cardinality(1 .. n) = n BY <1>1, <1>2
  <2> QED BY <1>2, <2>3, <2>4, FS_Injection
<1>8. /\ \A k \in D : place[k] \in D
      /\ \A a, b \in D : place[a] = place[b] => a = b
      /\ \A m \in D : \E k \in D : place[k] = m
  <2> HIDE DEF place
  <2> QED BY <1>1, <1>7 DEF Injection, Surjection, IsInjective
<1>9. \A m \in D : Nth(m) \in D /\ place[Nth(m)] = m
  <2> SUFFICES ASSUME NEW m \in D PROVE Nth(m) \in D /\ place[Nth(m)] = m
      OBVIOUS
  <2>1. \E k \in D : place[k] = m BY <1>8
  <2> HIDE DEF place
  <2> QED BY <2>1
<1>10. Sorted(rows) = sorted BY DEF Sorted, D
<1> HIDE DEF place, below, Nth
<1>11. sorted \in Seq(S) /\ DOMAIN sorted = D
  <2>1. \A m \in D : rows[Nth(m)] \in S BY <1>9 DEF D
  <2>2. sorted \in [1 .. n -> S] BY <1>1, <2>1
  <2> QED BY <1>1, <2>2
<1> DEFINE f == [m \in D |-> Nth(m)]
<1>12. /\ f \in [D -> D]
       /\ \A a, b \in D : f[a] = f[b] => a = b
       /\ \A k \in D : \E m \in D : f[m] = k
       /\ \A m \in D : sorted[m] = rows[f[m]]
  <2>1. \A a, b \in D : Nth(a) = Nth(b) => a = b BY <1>9
  <2>2. \A k \in D : Nth(place[k]) = k BY <1>8, <1>9
  <2> QED BY <1>8, <1>9, <2>1, <2>2
<1> HIDE DEF f, sorted
<1> QED BY <1>10, <1>11, <1>12 DEF D

-----------------------------------------------------------------------------
(* SurveyInv: the invariant that makes a survey current.  It is kept by    *)
(* every step because a row says what its plan's files were when its notes *)
(* were written, so that an equal hash carries a right row forward.        *)

\* What is said of a plan, and what of it the plan's files decide.
Saying(survey) ==
  /\ survey \in Surveys
  /\ \A i \in DOMAIN survey.rows :
       LET row == survey.rows[i] IN
         /\ row.notes \in Files
         /\ row.input_hash = InputHash(row.notes)
         /\ row.counts = TaskCounts(row.notes)
         /\ \A j \in DOMAIN survey.rows : survey.rows[j].key = row.key => survey.rows[j].notes = row.notes

\* The rows are about plans that were read, and about what was read.
AboutWhatWasRead(survey, snap) ==
  /\ survey \in Surveys
  /\ \A i \in DOMAIN survey.rows :
       LET row == survey.rows[i] IN
         /\ row.key \in DOMAIN snap
         /\ row.input_hash = InputHash(snap[row.key])
         /\ row.notes = snap[row.key]
         /\ row.counts = TaskCounts(snap[row.key])

Snaps == UNION {[D -> Files] : D \in SUBSET Plans}
Runs == [pc : {"idle", "load", "prior", "ask", "write", "select", "dispatch"},
         dirs : SUBSET Plans, snap : Snaps, prior : Surveys \cup {None},
         response : Surveys \cup {None}, attempts : Nat, selected : Plans \cup {None}]

SurveyInv ==
  /\ plan \in [Plans -> Files]
  /\ run \in Runs
  /\ surveyFile = None \/ surveyFile = Torn \/ Saying(surveyFile)
  /\ run.prior = None \/ Saying(run.prior)
  /\ DOMAIN run.snap \subseteq run.dirs /\ IsFiniteSet(DOMAIN run.snap)
  /\ run.pc \in {"prior", "ask", "write"} => DOMAIN run.snap = run.dirs
  /\ run.pc = "prior" => run.prior # None
  /\ run.pc = "write" =>
       /\ AboutWhatWasRead(run.response, run.snap)
       /\ run.prior # None =>
            \A p \in run.dirs :
              /\ RowsOf(run.response, p) # {}
              /\ \A i, j \in RowsOf(run.response, p) : i = j \/ IsNoop(run.prior, run.snap)

\* What a run has read: files of plans.
LEMMA SnapsAre ==
  ASSUME NEW snap \in Snaps
  PROVE  DOMAIN snap \subseteq Plans /\ \A p \in DOMAIN snap : snap[p] \in Files
BY DEF Snaps

\* What was read of the plans is said of them.
LEMMA ReadIsSaid ==
  ASSUME NEW snap \in Snaps, NEW survey, AboutWhatWasRead(survey, snap)
  PROVE  Saying(survey)
<1>1. \A i \in DOMAIN survey.rows : survey.rows[i].key \in DOMAIN snap /\ snap[survey.rows[i].key] \in Files
      BY SnapsAre DEF AboutWhatWasRead
<1> QED BY <1>1 DEF AboutWhatWasRead, Saying

\* A hash tells the files apart.
LEMMA HashesTell ==
  ASSUME NEW f \in Files, NEW g \in Files, InputHash(f) = InputHash(g)
  PROVE  f = g
<1>1. f.phase = g.phase /\ f.backlog = g.backlog BY DEF InputHash
<1> QED BY <1>1 DEF Files

\* A row of a plan that has one is the last of them.
LEMMA PriorRowIs ==
  ASSUME NEW prior \in Surveys, NEW p \in KeysOf(prior.rows)
  PROVE  \E k \in DOMAIN prior.rows : prior.rows[k].key = p /\ PriorRow(prior, p) = prior.rows[k]
<1> DEFINE T == {i \in DOMAIN prior.rows : prior.rows[i].key = p}
           n == Len(prior.rows)
           U == {n - i : i \in T}
<1>1. DOMAIN prior.rows = 1 .. n /\ n \in Nat BY DEF Surveys
<1>2. T # {} BY DEF KeysOf
<1>3. U \in SUBSET Nat /\ U # {}
  <2>1. \A i \in T : n - i \in Nat BY <1>1
  <2> HIDE DEF T
  <2> QED BY <1>2, <2>1
<1> HIDE DEF U
<1>4. PICK u \in U : \A v \in U : u <= v BY <1>3, LeastNumber
<1>5. PICK k \in T : u = n - k BY <1>4 DEF U
<1>6. \A i \in T : i <= k
  <2> SUFFICES ASSUME NEW i \in T PROVE i <= k
      OBVIOUS
  <2>1. n - i \in U BY DEF U
  <2>2. n - k <= n - i BY <1>4, <1>5, <2>1
  <2>3. i \in Nat /\ k \in Nat BY <1>1
  <2> QED BY <1>1, <2>2, <2>3
<1>7. T \in SUBSET Nat BY <1>1
<1>8. Max(T) = k
  <2> HIDE DEF T
  <2> QED BY <1>5, <1>6, <1>7, MaxIs
<1> QED BY <1>5, <1>8 DEF PriorRow

\* A plan whose row is carried forward is as the row says.
LEMMA UnchangedIsSaid ==
  ASSUME NEW snap \in Snaps, NEW prior, Saying(prior), NEW p \in Unchanged(prior, snap)
  PROVE  \E k \in DOMAIN prior.rows :
           /\ PriorRow(prior, p) = prior.rows[k]
           /\ prior.rows[k].key = p
           /\ prior.rows[k].notes = snap[p]
           /\ prior.rows[k].input_hash = InputHash(snap[p])
           /\ prior.rows[k].counts = TaskCounts(snap[p])
<1>1. p \in DOMAIN snap /\ p \in KeysOf(prior.rows) /\ PriorRow(prior, p).input_hash = InputHash(snap[p])
      BY DEF Unchanged
<1>2. PICK k \in DOMAIN prior.rows : prior.rows[k].key = p /\ PriorRow(prior, p) = prior.rows[k]
      BY <1>1, PriorRowIs DEF Saying
<1>3. snap[p] \in Files BY <1>1, SnapsAre
<1>4. /\ prior.rows[k].notes \in Files
      /\ prior.rows[k].input_hash = InputHash(prior.rows[k].notes)
      /\ prior.rows[k].counts = TaskCounts(prior.rows[k].notes)
      BY <1>2 DEF Saying
<1>5. prior.rows[k].notes = snap[p] BY <1>1, <1>2, <1>3, <1>4, HashesTell
<1> QED BY <1>1, <1>2, <1>4, <1>5

\* The counts of a row are those of the plan's files, or none when it has none.
LEMMA WithCountsIs ==
  ASSUME NEW snap \in Snaps, NEW row \in Rows, row.key \in DOMAIN snap,
         row.counts = None \/ row.counts = TaskCounts(snap[row.key])
  PROVE  /\ WithCounts(row, snap) \in Rows
         /\ WithCounts(row, snap).key = row.key
         /\ WithCounts(row, snap).input_hash = row.input_hash
         /\ WithCounts(row, snap).notes = row.notes
         /\ WithCounts(row, snap).counts = TaskCounts(snap[row.key])
<1>1. TaskCounts(snap[row.key]) \in Backlogs \cup {None} BY SnapsAre DEF TaskCounts, Files
<1>2. CASE TaskCounts(snap[row.key]) # None
  <2>1. WithCounts(row, snap) = [row EXCEPT !.counts = TaskCounts(snap[row.key])] BY <1>2 DEF WithCounts
  <2> DEFINE counts == TaskCounts(snap[row.key])
  <2> HIDE DEF counts
  <2>2. WithCounts(row, snap) = [row EXCEPT !.counts = counts] /\ counts \in Backlogs \cup {None}
        BY <1>1, <2>1 DEF counts
  <2>3. /\ WithCounts(row, snap) \in Rows
        /\ WithCounts(row, snap).key = row.key
        /\ WithCounts(row, snap).input_hash = row.input_hash
        /\ WithCounts(row, snap).notes = row.notes
        /\ WithCounts(row, snap).counts = counts
        BY <2>2 DEF Rows
  <2> QED BY <2>3 DEF counts
<1>3. CASE TaskCounts(snap[row.key]) = None
  <2>1. WithCounts(row, snap) = row BY <1>3 DEF WithCounts
  <2> QED BY <1>3, <2>1
<1> QED BY <1>2, <1>3

\* The counts, put into rows that are about what was read, are the counts of that.
LEMMA InjectCountsIs ==
  ASSUME NEW snap \in Snaps, NEW survey \in Surveys,
         \A i \in DOMAIN survey.rows :
           LET row == survey.rows[i] IN
             /\ row.key \in DOMAIN snap
             /\ row.input_hash = InputHash(snap[row.key])
             /\ row.notes = snap[row.key]
             /\ row.counts = None \/ row.counts = TaskCounts(snap[row.key])
  PROVE  /\ AboutWhatWasRead(InjectCounts(survey, snap), snap)
         /\ DOMAIN InjectCounts(survey, snap).rows = DOMAIN survey.rows
         /\ \A i \in DOMAIN survey.rows : InjectCounts(survey, snap).rows[i].key = survey.rows[i].key
<1> DEFINE rows == [i \in DOMAIN survey.rows |-> WithCounts(survey.rows[i], snap)]
<1>1. survey.rows \in Seq(Rows) /\ survey.order \in Seq(Plans \cup Strangers) BY DEF Surveys
<1>2. DOMAIN survey.rows = 1 .. Len(survey.rows) /\ Len(survey.rows) \in Nat
      /\ \A i \in DOMAIN survey.rows : survey.rows[i] \in Rows
      BY <1>1
<1>3. ASSUME NEW i \in DOMAIN survey.rows
      PROVE  /\ rows[i] \in Rows
             /\ rows[i].key = survey.rows[i].key
             /\ rows[i].input_hash = survey.rows[i].input_hash
             /\ rows[i].notes = survey.rows[i].notes
             /\ rows[i].counts = TaskCounts(snap[survey.rows[i].key])
  <2> DEFINE row == survey.rows[i]
  <2>1. row \in Rows /\ row.key \in DOMAIN snap
        /\ (row.counts = None \/ row.counts = TaskCounts(snap[row.key]))
        BY <1>2
  <2>2. rows[i] = WithCounts(row, snap) OBVIOUS
  <2> HIDE DEF row, rows
  <2>3. /\ rows[i] \in Rows
        /\ rows[i].key = row.key
        /\ rows[i].input_hash = row.input_hash
        /\ rows[i].notes = row.notes
        /\ rows[i].counts = TaskCounts(snap[row.key])
        BY <2>1, <2>2, WithCountsIs
  <2> QED BY <2>3 DEF row
<1>4. InjectCounts(survey, snap) = [survey EXCEPT !.rows = rows] BY DEF InjectCounts
<1>5. DOMAIN rows = DOMAIN survey.rows OBVIOUS
<1> HIDE DEF rows
<1>6. rows \in Seq(Rows)
  <2>1. \E n \in Nat : DOMAIN rows = 1 .. n BY <1>2, <1>5
  <2>2. rows \in [DOMAIN rows -> Rows]
    <3>1. rows = [i \in DOMAIN rows |-> rows[i]]
      <4>1. [i \in DOMAIN survey.rows |-> WithCounts(survey.rows[i], snap)]
              = [i \in DOMAIN rows |-> [j \in DOMAIN survey.rows |-> WithCounts(survey.rows[j], snap)][i]]
            BY <1>5
      <4> QED BY <4>1 DEF rows
    <3> QED BY <1>3, <1>5, <3>1
  <2> QED BY <2>1, <2>2
<1>7. InjectCounts(survey, snap) \in Surveys /\ InjectCounts(survey, snap).rows = rows
      BY <1>1, <1>4, <1>6 DEF Surveys
<1> QED BY <1>3, <1>5, <1>7 DEF AboutWhatWasRead

\* When nothing has changed, every row of the survey before is still right.
LEMMA CarriedIsRead ==
  ASSUME NEW snap \in Snaps, NEW prior, Saying(prior), IsNoop(prior, snap)
  PROVE  /\ AboutWhatWasRead(InjectCounts(prior, snap), snap)
         /\ \A p \in DOMAIN snap : RowsOf(InjectCounts(prior, snap), p) # {}
<1>1. prior \in Surveys BY DEF Saying
<1>2. /\ \A i \in DOMAIN prior.rows : prior.rows[i].key \in KeysOf(prior.rows)
      /\ \A p \in KeysOf(prior.rows) : \E i \in DOMAIN prior.rows : prior.rows[i].key = p
      BY DEF KeysOf
<1>3. DOMAIN snap \subseteq KeysOf(prior.rows) /\ KeysOf(prior.rows) \subseteq Unchanged(prior, snap)
      BY DEF IsNoop, ToAnalyse, Added, Changed, Removed
<1>4. ASSUME NEW i \in DOMAIN prior.rows
      PROVE  /\ prior.rows[i].key \in DOMAIN snap
             /\ prior.rows[i].input_hash = InputHash(snap[prior.rows[i].key])
             /\ prior.rows[i].notes = snap[prior.rows[i].key]
             /\ prior.rows[i].counts = TaskCounts(snap[prior.rows[i].key])
  <2> DEFINE p == prior.rows[i].key
  <2>1. p \in Unchanged(prior, snap) BY <1>2, <1>3
  <2>2. p \in DOMAIN snap BY <2>1 DEF Unchanged
  <2> HIDE DEF p
  <2>3. PICK k \in DOMAIN prior.rows : prior.rows[k].key = p /\ prior.rows[k].notes = snap[p]
        BY <2>1, UnchangedIsSaid
  <2>4. prior.rows[k].key = prior.rows[i].key BY <2>3 DEF p
  <2>5. prior.rows[i].notes = prior.rows[k].notes BY <2>4 DEF Saying
  <2>6. prior.rows[i].notes = snap[p] BY <2>3, <2>5
  <2>7. /\ prior.rows[i].input_hash = InputHash(prior.rows[i].notes)
        /\ prior.rows[i].counts = TaskCounts(prior.rows[i].notes)
        BY DEF Saying
  <2> QED BY <2>2, <2>6, <2>7 DEF p
<1>5. /\ AboutWhatWasRead(InjectCounts(prior, snap), snap)
      /\ DOMAIN InjectCounts(prior, snap).rows = DOMAIN prior.rows
      /\ \A i \in DOMAIN prior.rows : InjectCounts(prior, snap).rows[i].key = prior.rows[i].key
      BY <1>1, <1>4, InjectCountsIs
<1>6. \A p \in DOMAIN snap : RowsOf(InjectCounts(prior, snap), p) # {}
      BY <1>2, <1>3, <1>5 DEF RowsOf
<1> QED BY <1>5, <1>6

\* The answer's rows, hashed and counted, are about what the model was shown.
LEMMA DeltaIsRead ==
  ASSUME NEW asked \in Snaps, NEW keys \in Seq(Plans \cup Strangers),
         NEW order \in Seq(Plans \cup Strangers), MayInjectHashes(Answer(keys, order, asked), asked)
  PROVE  LET delta == InjectCounts(InjectInputHashes(Answer(keys, order, asked), asked), asked)
         IN  /\ AboutWhatWasRead(delta, asked)
             /\ DOMAIN delta.rows = DOMAIN keys
             /\ \A i \in DOMAIN keys : delta.rows[i].key = keys[i]
<1> DEFINE answer == Answer(keys, order, asked)
           hashed == InjectInputHashes(answer, asked)
           rows == [i \in DOMAIN keys |-> WithHash(ModelRow(keys[i], asked), asked)]
<1>1. DOMAIN keys = 1 .. Len(keys) /\ Len(keys) \in Nat
      /\ \A i \in DOMAIN keys : keys[i] \in Plans \cup Strangers
      OBVIOUS
<1>2. /\ answer.rows = [i \in DOMAIN keys |-> ModelRow(keys[i], asked)]
      /\ answer.order = order
      /\ answer = [rows |-> answer.rows, order |-> answer.order]
      BY DEF Answer
<1>3. \A i \in DOMAIN keys : keys[i] \in DOMAIN asked
  <2>1. \A i \in DOMAIN keys : answer.rows[i].key = keys[i] BY <1>2 DEF ModelRow
  <2>2. DOMAIN answer.rows = DOMAIN keys BY <1>2
  <2> HIDE DEF answer
  <2>3. KeysOf(answer.rows) \subseteq DOMAIN asked BY DEF MayInjectHashes, answer
  <2> QED BY <2>1, <2>2, <2>3 DEF KeysOf
<1>4. hashed = [rows |-> rows, order |-> order]
  <2> HIDE DEF answer
  <2>1. hashed = [rows |-> [i \in DOMAIN answer.rows |-> WithHash(answer.rows[i], asked)], order |-> order]
        BY <1>2 DEF InjectInputHashes
  <2>2. DOMAIN answer.rows = DOMAIN keys /\ \A i \in DOMAIN keys : answer.rows[i] = ModelRow(keys[i], asked)
        BY <1>2
  <2> QED BY <2>1, <2>2
<1>5. ASSUME NEW i \in DOMAIN keys
      PROVE  /\ rows[i] \in Rows /\ rows[i].key = keys[i] /\ rows[i].counts = None
             /\ rows[i].input_hash = InputHash(asked[keys[i]]) /\ rows[i].notes = asked[keys[i]]
  <2> DEFINE p == keys[i]
  <2>1. p \in DOMAIN asked /\ p \in Plans \cup Strangers /\ asked[p] \in Files BY <1>1, <1>3, SnapsAre
  <2>2. rows[i] = WithHash(ModelRow(p, asked), asked) OBVIOUS
  <2> HIDE DEF p, rows
  <2>3. rows[i] = [key |-> p, input_hash |-> InputHash(asked[p]), notes |-> asked[p], counts |-> None]
        BY <2>1, <2>2 DEF WithHash, ModelRow
  <2>4. InputHash(asked[p]) \in Phases \X (Backlogs \cup {None}) BY <2>1 DEF InputHash, Files
  <2> QED BY <2>1, <2>3, <2>4 DEF Rows, p
<1>6. rows \in Seq(Rows) /\ DOMAIN rows = DOMAIN keys
  <2>1. rows \in [1 .. Len(keys) -> Rows]
    <3>1. \A i \in 1 .. Len(keys) : WithHash(ModelRow(keys[i], asked), asked) \in Rows BY <1>1, <1>5
    <3> QED BY <1>1, <3>1
  <2> QED BY <1>1, <2>1
<1> HIDE DEF rows, answer
<1>7. hashed \in Surveys /\ hashed.rows = rows BY <1>4, <1>6 DEF Surveys
<1> HIDE DEF hashed
<1>8. \A i \in DOMAIN hashed.rows :
        LET row == hashed.rows[i] IN
          /\ row.key \in DOMAIN asked
          /\ row.input_hash = InputHash(asked[row.key])
          /\ row.notes = asked[row.key]
          /\ row.counts = None \/ row.counts = TaskCounts(asked[row.key])
      BY <1>3, <1>5, <1>6, <1>7
<1>9. /\ AboutWhatWasRead(InjectCounts(hashed, asked), asked)
      /\ DOMAIN InjectCounts(hashed, asked).rows = DOMAIN hashed.rows
      /\ \A i \in DOMAIN hashed.rows : InjectCounts(hashed, asked).rows[i].key = hashed.rows[i].key
      BY <1>7, <1>8, InjectCountsIs
<1>10. /\ AboutWhatWasRead(InjectCounts(hashed, asked), asked)
       /\ DOMAIN InjectCounts(hashed, asked).rows = DOMAIN keys
       /\ \A i \in DOMAIN keys : InjectCounts(hashed, asked).rows[i].key = keys[i]
       BY <1>5, <1>6, <1>7, <1>9
<1> QED BY <1>10 DEF hashed, answer

\* The elements of a finite set, each in one place.
LEMMA ListOfSet ==
  ASSUME NEW S, IsFiniteSet(S)
  PROVE  /\ SetToSeq(S) \in Seq(S) /\ DOMAIN SetToSeq(S) = 1 .. Cardinality(S)
         /\ \A a, b \in DOMAIN SetToSeq(S) : SetToSeq(S)[a] = SetToSeq(S)[b] => a = b
         /\ \A x \in S : \E a \in DOMAIN SetToSeq(S) : SetToSeq(S)[a] = x
<1> DEFINE q == SetToSeq(S)
           n == Cardinality(S)
<1>1. n \in Nat /\ ExistsBijection(1 .. n, S) BY FS_CardinalityType
<1>2. q \in [1 .. n -> S] /\ IsInjective(q)
  <2>1. PICK f \in Bijection(1 .. n, S) : TRUE BY <1>1 DEF ExistsBijection
  <2>2. f \in [1 .. n -> S] /\ IsInjective(f) BY <2>1 DEF Bijection, Injection
  <2> QED BY <2>2 DEF SetToSeq
<1> HIDE DEF q
<1>3. q \in Surjection(1 .. n, S)
  <2>1. q \in Injection(1 .. n, S) BY <1>2 DEF Injection
  <2>2. IsFiniteSet(1 .. n) /\ Cardinality(1 .. n) = n BY <1>1, CountTo
  <2>3. Cardinality(S) = n OBVIOUS
  <2> HIDE DEF n
  <2>4. q \in Surjection(1 .. n, S) <=> Cardinality(1 .. n) = Cardinality(S) BY <2>1, <2>2, FS_Injection
  <2> QED BY <2>2, <2>3, <2>4
<1>4. q \in Seq(S) /\ DOMAIN q = 1 .. n BY <1>1, <1>2
<1>5. \A a, b \in DOMAIN q : q[a] = q[b] => a = b BY <1>2 DEF IsInjective
<1>6. \A x \in S : \E a \in DOMAIN q : q[a] = x BY <1>3, <1>4 DEF Surjection
<1> QED BY <1>4, <1>5, <1>6 DEF q

\* As many rows as plans, and a row for each: no plan has two.
LEMMA OneRowEach ==
  ASSUME NEW rows, NEW n \in Nat, DOMAIN rows = 1 .. n, IsFiniteSet(KeysOf(rows)),
         n = Cardinality(KeysOf(rows))
  PROVE  \A a, b \in DOMAIN rows : rows[a].key = rows[b].key => a = b
<1> DEFINE K == KeysOf(rows)
           f == [i \in 1 .. n |-> rows[i].key]
<1>1. f \in [1 .. n -> K] BY DEF KeysOf
<1>2. \A k \in K : \E i \in 1 .. n : f[i] = k BY DEF KeysOf
<1>3. IsFiniteSet(1 .. n) /\ Cardinality(1 .. n) = n BY CountTo
<1>4. IsFiniteSet(K) /\ Cardinality(K) = n OBVIOUS
<1>5. \A i \in 1 .. n : f[i] = rows[i].key OBVIOUS
<1> HIDE DEF f, K
<1>6. f \in Surjection(1 .. n, K) BY <1>1, <1>2 DEF Surjection
<1>7. f \in Injection(1 .. n, K)
  <2>1. Cardinality(K) = Cardinality(1 .. n) <=> f \in Injection(1 .. n, K) BY <1>3, <1>6, FS_Surjection
  <2> QED BY <1>3, <1>4, <2>1
<1> QED BY <1>5, <1>7 DEF Injection, IsInjective

\* Two lists of rows, one behind the other.
LEMMA RowsJoined ==
  ASSUME NEW s \in Seq(Rows), NEW t \in Seq(Rows)
  PROVE  /\ s \o t \in Seq(Rows) /\ DOMAIN (s \o t) = 1 .. Len(s) + Len(t)
         /\ Len(s) \in Nat /\ Len(t) \in Nat /\ DOMAIN s = 1 .. Len(s) /\ DOMAIN t = 1 .. Len(t)
         /\ \A k \in 1 .. Len(s) : (s \o t)[k] = s[k]
         /\ \A k \in 1 .. Len(t) : (s \o t)[Len(s) + k] = t[k]
OBVIOUS

\* The merge has a row of every plan that was read, and one only: those whose
\* files are as they were from the prior, the others from the answer.
LEMMA MergedIsRead ==
  ASSUME NEW snap \in Snaps, IsFiniteSet(DOMAIN snap), NEW prior, Saying(prior), NEW delta,
         AboutWhatWasRead(delta, Restrict(snap, ToAnalyse(prior, snap))),
         KeysOf(delta.rows) = ToAnalyse(prior, snap),
         Len(delta.rows) = Cardinality(ToAnalyse(prior, snap))
  PROVE  LET merged == MergeDelta(delta, prior, snap)
         IN  /\ AboutWhatWasRead(merged, snap)
             /\ \A p \in DOMAIN snap : RowsOf(merged, p) # {}
             /\ \A i, j \in DOMAIN merged.rows : merged.rows[i].key = merged.rows[j].key => i = j
<1> DEFINE U == Unchanged(prior, snap)
           T == ToAnalyse(prior, snap)
           u == SetToSeq(U)
           kept == [i \in DOMAIN u |-> PriorRow(prior, u[i])]
           all == kept \o delta.rows
<1>1. U \subseteq DOMAIN snap /\ T \subseteq DOMAIN snap /\ U \cap T = {} /\ DOMAIN snap \subseteq U \cup T
      BY DEF Unchanged, ToAnalyse, Changed, Added
<1>2. IsFiniteSet(U) /\ IsFiniteSet(T) BY <1>1, FS_Subset
<1>3. /\ u \in Seq(U) /\ DOMAIN u = 1 .. Cardinality(U) /\ Cardinality(U) \in Nat
      /\ \A a, b \in DOMAIN u : u[a] = u[b] => a = b
      /\ \A x \in U : \E a \in DOMAIN u : u[a] = x
      /\ \A a \in DOMAIN u : u[a] \in U
      BY <1>2, ListOfSet, FS_CardinalityType
<1>4. delta \in Surveys /\ delta.rows \in Seq(Rows) /\ delta.order \in Seq(Plans \cup Strangers)
      BY DEF AboutWhatWasRead, Surveys
<1>5. DOMAIN delta.rows = 1 .. Len(delta.rows) /\ Len(delta.rows) \in Nat BY <1>4
<1>6. \A a, b \in DOMAIN delta.rows : delta.rows[a].key = delta.rows[b].key => a = b
      BY <1>2, <1>5, OneRowEach
<1>7. \A p \in U : /\ PriorRow(prior, p) \in Rows
                   /\ PriorRow(prior, p).key = p
                   /\ PriorRow(prior, p).notes = snap[p]
                   /\ PriorRow(prior, p).input_hash = InputHash(snap[p])
                   /\ PriorRow(prior, p).counts = TaskCounts(snap[p])
  <2> SUFFICES ASSUME NEW p \in U
               PROVE  /\ PriorRow(prior, p) \in Rows
                      /\ PriorRow(prior, p).key = p
                      /\ PriorRow(prior, p).notes = snap[p]
                      /\ PriorRow(prior, p).input_hash = InputHash(snap[p])
                      /\ PriorRow(prior, p).counts = TaskCounts(snap[p])
      OBVIOUS
  <2>1. PICK k \in DOMAIN prior.rows :
          /\ PriorRow(prior, p) = prior.rows[k]
          /\ prior.rows[k].key = p
          /\ prior.rows[k].notes = snap[p]
          /\ prior.rows[k].input_hash = InputHash(snap[p])
          /\ prior.rows[k].counts = TaskCounts(snap[p])
        BY UnchangedIsSaid
  <2>2. prior.rows \in Seq(Rows) BY DEF Saying, Surveys
  <2>3. prior.rows[k] \in Rows BY <2>2
  <2> QED BY <2>1, <2>3
<1> DEFINE Right(row) == /\ row.key \in DOMAIN snap
                         /\ row.input_hash = InputHash(snap[row.key])
                         /\ row.notes = snap[row.key]
                         /\ row.counts = TaskCounts(snap[row.key])
<1>8. \A i \in DOMAIN delta.rows : Right(delta.rows[i]) /\ delta.rows[i].key \in T
  <2>1. \A p \in DOMAIN Restrict(snap, T) : p \in T /\ Restrict(snap, T)[p] = snap[p] BY DEF Restrict
  <2>2. \A i \in DOMAIN delta.rows :
          LET row == delta.rows[i] IN
            /\ row.key \in DOMAIN Restrict(snap, T)
            /\ row.input_hash = InputHash(Restrict(snap, T)[row.key])
            /\ row.notes = Restrict(snap, T)[row.key]
            /\ row.counts = TaskCounts(Restrict(snap, T)[row.key])
        BY DEF AboutWhatWasRead
  <2> HIDE DEF T
  <2> QED BY <1>1, <2>1, <2>2
<1>9. \A p \in T : \E i \in DOMAIN delta.rows : delta.rows[i].key = p BY DEF KeysOf
<1> HIDE DEF U, T, u
<1>10. /\ kept \in Seq(Rows) /\ DOMAIN kept = DOMAIN u /\ Len(kept) = Cardinality(U)
       /\ \A i \in DOMAIN u : kept[i].key = u[i] /\ Right(kept[i])
  <2>1. kept \in [1 .. Cardinality(U) -> Rows] BY <1>3, <1>7
  <2>2. \A i \in DOMAIN u : kept[i] = PriorRow(prior, u[i]) OBVIOUS
  <2>3. \A i \in DOMAIN u : kept[i].key = u[i] /\ Right(kept[i])
    <3> HIDE DEF kept
    <3> QED BY <1>1, <1>3, <1>7, <2>2
  <2> QED BY <1>3, <2>1, <2>3
<1> HIDE DEF kept, Right
<1> DEFINE m == Len(kept)
           n == Len(delta.rows)
<1>11. /\ all \in Seq(Rows) /\ DOMAIN all = 1 .. m + n /\ m \in Nat /\ n \in Nat
       /\ DOMAIN kept = 1 .. m /\ DOMAIN delta.rows = 1 .. n
       /\ \A k \in 1 .. m : all[k] = kept[k]
       /\ \A k \in 1 .. n : all[m + k] = delta.rows[k]
       BY <1>4, <1>10, RowsJoined
<1> HIDE DEF all, m, n
<1>12. \A k \in DOMAIN all : (k \in 1 .. m \/ \E l \in 1 .. n : k = m + l)
  <2> SUFFICES ASSUME NEW k \in 1 .. m + n, k \notin 1 .. m PROVE \E l \in 1 .. n : k = m + l
      BY <1>11
  <2>1. k - m \in 1 .. n /\ k = m + (k - m) BY <1>11
  <2> QED BY <2>1
<1>13. \A k \in DOMAIN all : Right(all[k]) BY <1>8, <1>10, <1>11, <1>12
<1>14. \A a, b \in DOMAIN all : all[a].key = all[b].key => a = b
  <2> DEFINE M == 1 .. m
  <2>5. DOMAIN u = M /\ (\A k \in M : all[k] = kept[k]) /\ \A k \in M : kept[k].key = u[k]
        BY <1>10, <1>11
  <2>6. (\A k \in M : u[k] \in U) /\ \A a, b \in M : u[a] = u[b] => a = b BY <1>3, <2>5
  <2> HIDE DEF M
  <2>7. \A k \in M : all[k].key = u[k] BY <2>5
  <2>1. \A k \in M : all[k].key \in U BY <2>6, <2>7
  <2>2. \A l \in 1 .. n : all[m + l].key \in T BY <1>8, <1>11
  <2>3. \A a, b \in M : all[a].key = all[b].key => a = b BY <2>6, <2>7
  <2>4. \A a, b \in 1 .. n : all[m + a].key = all[m + b].key => a = b BY <1>6, <1>11
  <2> QED BY <1>1, <1>12, <2>1, <2>2, <2>3, <2>4 DEF M
<1>15. \A p \in DOMAIN snap : \E k \in DOMAIN all : all[k].key = p
  <2> SUFFICES ASSUME NEW p \in DOMAIN snap PROVE \E k \in DOMAIN all : all[k].key = p
      OBVIOUS
  <2>1. CASE p \in U
    <3>1. PICK a \in DOMAIN u : u[a] = p BY <1>3, <2>1
    <3>2. all[a].key = p /\ a \in 1 .. m + n BY <1>10, <1>11, <3>1
    <3> QED BY <1>11, <3>2
  <2>2. CASE p \in T
    <3>1. PICK l \in 1 .. n : delta.rows[l].key = p BY <1>9, <1>11, <2>2
    <3>2. all[m + l].key = p /\ m + l \in 1 .. m + n BY <1>11, <3>1
    <3> QED BY <1>11, <3>2
  <2> QED BY <1>1, <2>1, <2>2
<1>16. \A k \in DOMAIN all : all[k].key \in Nat
  <2>1. \A k \in DOMAIN all : all[k] \in Rows BY <1>11
  <2> QED BY <2>1, KeysAssumption DEF Rows
<1>17. /\ Sorted(all) \in Seq(Rows) /\ DOMAIN Sorted(all) = DOMAIN all
       /\ \E f \in [DOMAIN all -> DOMAIN all] :
            /\ \A a, b \in DOMAIN all : f[a] = f[b] => a = b
            /\ \A k \in DOMAIN all : \E l \in DOMAIN all : f[l] = k
            /\ \A l \in DOMAIN all : Sorted(all)[l] = all[f[l]]
       BY <1>11, <1>16, SortedFacts
<1>18. PICK f \in [DOMAIN all -> DOMAIN all] :
            /\ \A a, b \in DOMAIN all : f[a] = f[b] => a = b
            /\ \A k \in DOMAIN all : \E l \in DOMAIN all : f[l] = k
            /\ \A l \in DOMAIN all : Sorted(all)[l] = all[f[l]]
       BY <1>17
<1>19. MergeDelta(delta, prior, snap) = [rows |-> Sorted(all), order |-> delta.order]
       BY DEF MergeDelta, all, kept, u, U
<1> DEFINE merged == MergeDelta(delta, prior, snap)
<1>20. merged \in Surveys /\ merged.rows = Sorted(all) BY <1>4, <1>17, <1>19 DEF Surveys
<1> HIDE DEF merged
<1>21. \A i \in DOMAIN merged.rows : Right(merged.rows[i]) BY <1>13, <1>17, <1>18, <1>20
<1>22. \A i, j \in DOMAIN merged.rows : merged.rows[i].key = merged.rows[j].key => i = j
  <2> SUFFICES ASSUME NEW i \in DOMAIN all, NEW j \in DOMAIN all, Sorted(all)[i].key = Sorted(all)[j].key
               PROVE  i = j
      BY <1>17, <1>20
  <2>1. f[i] \in DOMAIN all /\ f[j] \in DOMAIN all OBVIOUS
  <2>2. all[f[i]].key = all[f[j]].key BY <1>18
  <2>3. f[i] = f[j] BY <1>14, <2>1, <2>2
  <2> QED BY <1>18, <2>3
<1>23. \A p \in DOMAIN snap : RowsOf(merged, p) # {}
  <2> SUFFICES ASSUME NEW p \in DOMAIN snap PROVE \E i \in DOMAIN merged.rows : merged.rows[i].key = p
      BY DEF RowsOf
  <2>1. PICK k \in DOMAIN all : all[k].key = p BY <1>15
  <2>2. PICK l \in DOMAIN all : f[l] = k BY <1>18
  <2>3. Sorted(all)[l] = all[k] BY <1>18, <2>2
  <2> QED BY <1>17, <1>20, <2>1, <2>3
<1> QED BY <1>20, <1>21, <1>22, <1>23 DEF AboutWhatWasRead, Right, merged

-----------------------------------------------------------------------------
(* Every step keeps SurveyInv.                                             *)

\* No run, and a run that has read nothing.
LEMMA IdleIsARun ==
  /\ Idle \in Runs /\ DOMAIN Idle.snap = {} /\ Idle.snap \in Snaps
  /\ \A dirs \in SUBSET Plans : [Idle EXCEPT !.pc = "load", !.dirs = dirs] \in Runs
<1>1. DOMAIN << >> = {} OBVIOUS
<1>2. << >> \in [{} -> Files] OBVIOUS
<1>3. << >> \in Snaps BY <1>2 DEF Snaps
<1> QED BY <1>1, <1>3 DEF Idle, Runs

\* At first there is neither a survey nor a run.
LEMMA SurveyInvInit == Init => SurveyInv
<1> SUFFICES ASSUME Init PROVE SurveyInv
    OBVIOUS
<1>1. plan \in [Plans -> Files] BY DEF Init
<1>2. run = Idle /\ surveyFile = None BY DEF Init
<1>3. Idle \in Runs /\ DOMAIN Idle.snap = {} BY IdleIsARun
<1>4. Idle.prior = None /\ Idle.pc = "idle" BY DEF Idle
<1>5. IsFiniteSet({}) BY FS_EmptySet
<1> QED BY <1>1, <1>2, <1>3, <1>4, <1>5 DEF SurveyInv

\* The least of the plans that were not read.
LEMMA OneMoreRead ==
  ASSUME SurveyInv, NEW p, LoadPlan(p)
  PROVE  p \in run.dirs
<1> DEFINE left == run.dirs \ DOMAIN run.snap
<1>1. left \in SUBSET Nat /\ left # {} BY KeysAssumption DEF SurveyInv, Runs, LoadPlan
<1>2. p = Min(left) BY DEF LoadPlan
<1> HIDE DEF left
<1>3. PICK n \in left : \A m \in left : n <= m BY <1>1, LeastNumber
<1>4. \E x \in left : \A y \in left : x <= y BY <1>3
<1>5. p \in left BY <1>2, <1>4 DEF Min
<1> QED BY <1>5 DEF left

\* A plan is read: a snapshot of one more plan of the run.
LEMMA LoadPlanKeeps == ASSUME SurveyInv, NEW p, LoadPlan(p) PROVE SurveyInv'
<1>1. p \in run.dirs BY OneMoreRead
<1>2. p \in Plans /\ plan[p] \in Files BY <1>1 DEF SurveyInv, Runs
<1> DEFINE snap == [q \in DOMAIN run.snap \cup {p} |-> IF q = p THEN plan[p] ELSE run.snap[q]]
<1>3. run' = [run EXCEPT !.snap = snap] /\ UNCHANGED <<plan, surveyFile>> BY DEF LoadPlan
<1>4. run.pc = "load" BY DEF LoadPlan
<1>5. DOMAIN snap = DOMAIN run.snap \cup {p} OBVIOUS
<1>6. run.snap \in Snaps /\ DOMAIN run.snap \subseteq Plans /\ \A q \in DOMAIN run.snap : run.snap[q] \in Files
      BY SnapsAre DEF SurveyInv, Runs
<1>7. snap \in [DOMAIN run.snap \cup {p} -> Files] BY <1>2, <1>6
<1>8. snap \in Snaps BY <1>2, <1>6, <1>7 DEF Snaps
<1>9. IsFiniteSet(DOMAIN snap) BY <1>5, FS_AddElement DEF SurveyInv
<1> HIDE DEF snap
<1>10. run' \in Runs /\ run'.snap = snap /\ run'.pc = "load" /\ run'.prior = run.prior /\ run'.dirs = run.dirs
       BY <1>3, <1>4, <1>8 DEF SurveyInv, Runs
<1>11. DOMAIN run'.snap \subseteq run'.dirs BY <1>1, <1>5, <1>10 DEF SurveyInv
<1> QED BY <1>3, <1>9, <1>10, <1>11 DEF SurveyInv

\* A run that has read nothing yet.
LEMMA FreshRun ==
  ASSUME NEW dirs \in SUBSET Plans, run' = [Idle EXCEPT !.pc = "load", !.dirs = dirs],
         plan' \in [Plans -> Files] \/ (SurveyInv /\ UNCHANGED plan),
         (surveyFile' = None \/ surveyFile' = Torn \/ Saying(surveyFile')) \/ (SurveyInv /\ UNCHANGED surveyFile)
  PROVE  SurveyInv'
<1>1. run' \in Runs BY IdleIsARun
<1>2. run'.pc = "load" /\ run'.prior = None /\ run'.snap = << >> BY DEF Idle
<1>3. DOMAIN run'.snap = {} /\ IsFiniteSet({}) BY <1>2, FS_EmptySet
<1>4. plan' \in [Plans -> Files] BY DEF SurveyInv
<1>5. surveyFile' = None \/ surveyFile' = Torn \/ Saying(surveyFile') BY DEF SurveyInv
<1> QED BY <1>1, <1>2, <1>3, <1>4, <1>5 DEF SurveyInv

\* No run.
LEMMA OverRun ==
  ASSUME run' = Idle,
         plan' \in [Plans -> Files] \/ (SurveyInv /\ UNCHANGED plan),
         (surveyFile' = None \/ surveyFile' = Torn \/ Saying(surveyFile')) \/ (SurveyInv /\ UNCHANGED surveyFile)
  PROVE  SurveyInv'
<1>1. run' \in Runs BY IdleIsARun
<1>2. run'.pc = "idle" /\ run'.prior = None /\ run'.snap = << >> BY DEF Idle
<1>3. DOMAIN run'.snap = {} /\ IsFiniteSet({}) BY <1>2, FS_EmptySet
<1>4. plan' \in [Plans -> Files] BY DEF SurveyInv
<1>5. surveyFile' = None \/ surveyFile' = Torn \/ Saying(surveyFile') BY DEF SurveyInv
<1> QED BY <1>1, <1>2, <1>3, <1>4, <1>5 DEF SurveyInv

\* A run over several plans starts.
LEMMA StartRunKeeps == ASSUME SurveyInv, NEW dirs \in SeveralPlans, StartRun(dirs) PROVE SurveyInv'
<1>1. run' = [Idle EXCEPT !.pc = "load", !.dirs = dirs] /\ UNCHANGED <<plan, surveyFile>> BY DEF StartRun
<1>2. dirs \in SUBSET Plans BY DEF SeveralPlans
<1> QED BY <1>1, <1>2, FreshRun

\* The survey before is read: it says what it said when it was written.
LEMMA LoadPriorKeeps == ASSUME SurveyInv, LoadPrior PROVE SurveyInv'
<1> DEFINE pc == IF surveyFile = None THEN "ask" ELSE "prior"
<1>1. run' = [run EXCEPT !.pc = pc, !.prior = surveyFile] /\ UNCHANGED <<plan, surveyFile>> BY DEF LoadPrior
<1>2. DOMAIN run.snap = run.dirs /\ (surveyFile = None \/ Saying(surveyFile)) BY DEF LoadPrior, SurveyInv
<1>3. surveyFile \in Surveys \cup {None} BY <1>2 DEF Saying
<1>4. pc \in {"ask", "prior"} /\ (pc = "prior" => surveyFile # None) OBVIOUS
<1> HIDE DEF pc
<1>5. /\ run' \in Runs /\ run'.pc = pc /\ run'.prior = surveyFile
      /\ run'.snap = run.snap /\ run'.dirs = run.dirs
      BY <1>1, <1>3, <1>4 DEF SurveyInv, Runs
<1> QED BY <1>1, <1>2, <1>4, <1>5 DEF SurveyInv

\* Something has changed: the model is asked.
LEMMA AskIncrementalKeeps == ASSUME SurveyInv, AskIncremental PROVE SurveyInv'
<1>1. run' = [run EXCEPT !.pc = "ask"] /\ UNCHANGED <<plan, surveyFile>> /\ run.pc = "prior"
      BY DEF AskIncremental
<1>2. /\ run' \in Runs /\ run'.pc = "ask" /\ run'.prior = run.prior
      /\ run'.snap = run.snap /\ run'.dirs = run.dirs
      BY <1>1 DEF SurveyInv, Runs
<1> QED BY <1>1, <1>2 DEF SurveyInv

\* Nothing has changed: the survey before is right as it is.
LEMMA CarryForwardKeeps == ASSUME SurveyInv, CarryForward PROVE SurveyInv'
<1> DEFINE response == InjectCounts(run.prior, run.snap)
<1>1. /\ run' = [run EXCEPT !.pc = "write", !.response = response]
      /\ UNCHANGED <<plan, surveyFile>> /\ run.pc = "prior" /\ IsNoop(run.prior, run.snap)
      BY DEF CarryForward
<1>2. run.snap \in Snaps /\ Saying(run.prior) /\ DOMAIN run.snap = run.dirs BY <1>1 DEF SurveyInv, Runs
<1>3. AboutWhatWasRead(response, run.snap) /\ \A p \in run.dirs : RowsOf(response, p) # {}
      BY <1>1, <1>2, CarriedIsRead
<1> HIDE DEF response
<1>4. response \in Surveys BY <1>3 DEF AboutWhatWasRead
<1>5. /\ run' \in Runs /\ run'.pc = "write" /\ run'.prior = run.prior /\ run'.response = response
      /\ run'.snap = run.snap /\ run'.dirs = run.dirs
      BY <1>1, <1>4 DEF SurveyInv, Runs
<1> QED BY <1>1, <1>2, <1>3, <1>5 DEF SurveyInv

\* What was read of the plans is what the next survey starts from.
LEMMA WriteSurveyKeeps == ASSUME SurveyInv, WriteSurvey PROVE SurveyInv'
<1>1. /\ run' = [Idle EXCEPT !.pc = "select", !.dirs = run.dirs, !.response = run.response]
      /\ UNCHANGED plan /\ run.pc = "write" /\ surveyFile' = run.response
      BY DEF WriteSurvey
<1>2. Saying(surveyFile') BY <1>1, ReadIsSaid DEF SurveyInv, Runs
<1>3. run.dirs \in SUBSET Plans /\ run.response \in Surveys \cup {None} BY DEF SurveyInv, Runs
<1>4. run' \in Runs /\ run'.pc = "select" /\ run'.prior = None /\ run'.snap = << >>
      BY <1>1, <1>3, IdleIsARun DEF Idle, Runs
<1>5. DOMAIN run'.snap = {} /\ IsFiniteSet({}) BY <1>4, FS_EmptySet
<1>6. plan' \in [Plans -> Files] BY <1>1 DEF SurveyInv
<1> QED BY <1>2, <1>4, <1>5, <1>6 DEF SurveyInv

\* A step after the survey: the run goes on with it, or is over.
LEMMA SelectingKeeps == ASSUME SurveyInv, Selecting PROVE SurveyInv'
<1>1. UNCHANGED <<plan, surveyFile>> /\ run.pc = "select"
      BY DEF Selecting, Quit, InvalidInput, OrderUnknown, Select, MaySelect
<1>2. \/ run' = Idle
      \/ run' = [run EXCEPT !.attempts = @ + 1]
      \/ \E p \in Plans : run' = [run EXCEPT !.pc = "dispatch", !.selected = p, !.response = None, !.attempts = 0]
      BY Zenon DEF Selecting, Quit, InvalidInput, OrderUnknown, Select
<1>3. CASE run' = Idle BY <1>1, <1>3, OverRun
<1>4. CASE run' # Idle
  <2>1. /\ run' \in Runs /\ run'.pc \in {"select", "dispatch"} /\ run'.prior = run.prior
        /\ run'.snap = run.snap /\ run'.dirs = run.dirs
    <3>1. run \in Runs BY DEF SurveyInv
    <3>2. CASE run' = [run EXCEPT !.attempts = @ + 1] BY <1>1, <3>1, <3>2 DEF Runs
    <3>3. ASSUME NEW p \in Plans,
                 run' = [run EXCEPT !.pc = "dispatch", !.selected = p, !.response = None, !.attempts = 0]
          PROVE  /\ run' \in Runs /\ run'.pc = "dispatch" /\ run'.prior = run.prior
                 /\ run'.snap = run.snap /\ run'.dirs = run.dirs
          BY <3>1, <3>3 DEF Runs
    <3> QED BY <1>2, <1>4, <3>2, <3>3
  <2> QED BY <1>1, <2>1 DEF SurveyInv
<1> QED BY <1>3, <1>4

\* A cycle of a plan leaves the survey behind its files, and the next one starts.
LEMMA CycleKeeps ==
  ASSUME SurveyInv, NEW f \in Files, CycleEnds(f) \/ CycleFails(f)
  PROVE  SurveyInv'
<1>1. plan' = [plan EXCEPT ![run.selected] = f] /\ UNCHANGED surveyFile BY DEF CycleEnds, CycleFails
<1>2. plan' \in [Plans -> Files] BY <1>1 DEF SurveyInv
<1>3. run.dirs \in SUBSET Plans BY DEF SurveyInv, Runs
<1>4. run' = Idle \/ run' = [Idle EXCEPT !.pc = "load", !.dirs = run.dirs]
      BY DEF CycleEnds, CycleFails
<1> QED BY <1>1, <1>2, <1>3, <1>4, FreshRun, OverRun

\* Others change a plan: nothing that was read or written is touched.
LEMMA PlanChangesKeeps ==
  ASSUME SurveyInv, NEW p \in Plans, NEW f \in Files, PlanChanges(p, f)
  PROVE  SurveyInv'
<1>1. plan' = [plan EXCEPT ![p] = f] /\ UNCHANGED <<surveyFile, run>> BY DEF PlanChanges
<1>2. plan' \in [Plans -> Files] BY <1>1 DEF SurveyInv
<1> QED BY <1>1, <1>2 DEF SurveyInv

\* A run dies: the survey file is as it was, or torn.
LEMMA DieKeeps == ASSUME SurveyInv, Die PROVE SurveyInv'
<1>1. run' = Idle /\ UNCHANGED plan /\ (surveyFile' = surveyFile \/ surveyFile' = Torn) BY DEF Die
<1>2. plan' \in [Plans -> Files] /\ (surveyFile' = None \/ surveyFile' = Torn \/ Saying(surveyFile'))
      BY <1>1 DEF SurveyInv
<1> QED BY <1>1, <1>2, OverRun

\* A run ends without a survey, or with a torn one that the user deletes.
LEMMA NoAnswerKeeps == ASSUME SurveyInv, (NoAnswer \/ PriorTorn) PROVE SurveyInv'
<1>1. run' = Idle /\ UNCHANGED plan /\ (surveyFile' = surveyFile \/ surveyFile' = None) BY DEF NoAnswer, PriorTorn
<1>2. plan' \in [Plans -> Files] /\ (surveyFile' = None \/ surveyFile' = Torn \/ Saying(surveyFile'))
      BY <1>1 DEF SurveyInv
<1> QED BY <1>1, <1>2, OverRun

\* What is read of some of the plans.
LEMMA PartOfASnap ==
  ASSUME NEW snap \in Snaps, NEW T, T \subseteq DOMAIN snap
  PROVE  Restrict(snap, T) \in Snaps /\ DOMAIN Restrict(snap, T) = T
<1> DEFINE part == [x \in T |-> snap[x]]
<1>1. T \in SUBSET Plans /\ \A x \in T : snap[x] \in Files BY SnapsAre
<1>2. part \in [T -> Files] BY <1>1
<1>3. part \in Snaps BY <1>1, <1>2 DEF Snaps
<1> QED BY <1>3 DEF Restrict

\* An answer that fits, completed, and merged when there was a survey before.
LEMMA AnsweredKeeps ==
  ASSUME SurveyInv, NEW keys \in Seq(Plans \cup Strangers), NEW order \in Seq(Plans \cup Strangers),
         Answered(keys, order)
  PROVE  SurveyInv'
<1> DEFINE answer == Answer(keys, order, Asked)
           delta == InjectCounts(InjectInputHashes(answer, Asked), Asked)
           T == ToAnalyse(run.prior, run.snap)
           response == IF run.prior = None THEN delta ELSE MergeDelta(delta, run.prior, run.snap)
<1>1. UNCHANGED <<plan, surveyFile>> /\ run.pc = "ask" BY DEF Answered
<1>2. CASE run' = Idle BY <1>1, <1>2, OverRun
<1>3. CASE run' # Idle
  <2>1. /\ MayInjectHashes(answer, Asked)
        /\ run.prior # None => MayMerge(answer, run.prior, run.snap)
        /\ run' = [run EXCEPT !.pc = "write", !.response = response]
        BY <1>3 DEF Answered
  <2>2. run.snap \in Snaps /\ DOMAIN run.snap = run.dirs /\ IsFiniteSet(DOMAIN run.snap)
        BY <1>1 DEF SurveyInv, Runs
  <2>3. T \subseteq DOMAIN run.snap BY DEF ToAnalyse, Changed, Added
  <2>4. Asked \in Snaps /\ (run.prior # None => DOMAIN Asked = T /\ Asked = Restrict(run.snap, T))
        BY <2>2, <2>3, PartOfASnap DEF Asked
  <2>5. /\ AboutWhatWasRead(delta, Asked)
        /\ DOMAIN delta.rows = DOMAIN keys
        /\ \A i \in DOMAIN keys : delta.rows[i].key = keys[i]
        BY <2>1, <2>4, DeltaIsRead
  <2>6. KeysOf(answer.rows) = {keys[i] : i \in DOMAIN keys} /\ Len(answer.rows) = Len(keys)
    <3>1. answer.rows = [i \in DOMAIN keys |-> ModelRow(keys[i], Asked)] BY DEF Answer
    <3>2. DOMAIN answer.rows = DOMAIN keys /\ \A i \in DOMAIN keys : answer.rows[i].key = keys[i]
          BY <3>1 DEF ModelRow
    <3>3. DOMAIN keys = 1 .. Len(keys) /\ Len(keys) \in Nat OBVIOUS
    <3> HIDE DEF answer
    <3>4. Len(answer.rows) = Len(keys) BY <3>2, <3>3
    <3> QED BY <3>2, <3>4 DEF KeysOf
  <2> HIDE DEF answer, delta
  <2>7. delta.rows \in Seq(Rows) BY <2>5 DEF AboutWhatWasRead, Surveys
  <2>8. KeysOf(delta.rows) = {keys[i] : i \in DOMAIN keys} /\ Len(delta.rows) = Len(keys)
    <3>1. DOMAIN keys = 1 .. Len(keys) /\ Len(keys) \in Nat OBVIOUS
    <3>2. DOMAIN delta.rows = 1 .. Len(delta.rows) /\ Len(delta.rows) \in Nat BY <2>7
    <3>3. Len(delta.rows) = Len(keys) BY <2>5, <3>1, <3>2
    <3> QED BY <2>5, <3>3 DEF KeysOf
  <2>9. AboutWhatWasRead(response, run.snap)
        /\ (run.prior # None =>
              \A p \in run.dirs :
                /\ RowsOf(response, p) # {}
                /\ \A i, j \in RowsOf(response, p) : i = j)
    <3>1. CASE run.prior = None BY <2>5, <3>1 DEF Asked
    <3>2. CASE run.prior # None
      <4>1. Saying(run.prior) BY <3>2 DEF SurveyInv
      <4>2. KeysOf(delta.rows) = T /\ Len(delta.rows) = Cardinality(T)
            BY <2>1, <2>4, <2>6, <2>8, <3>2 DEF MayMerge, MayInjectHashes
      <4>3. AboutWhatWasRead(delta, Restrict(run.snap, T)) BY <2>4, <2>5, <3>2
      <4>4. response = MergeDelta(delta, run.prior, run.snap) BY <3>2
      <4> HIDE DEF response
      <4>5. /\ AboutWhatWasRead(response, run.snap)
            /\ \A p \in DOMAIN run.snap : RowsOf(response, p) # {}
            /\ \A i, j \in DOMAIN response.rows : response.rows[i].key = response.rows[j].key => i = j
            BY <2>2, <4>1, <4>2, <4>3, <4>4, MergedIsRead
      <4> QED BY <2>2, <4>5 DEF RowsOf
    <3> QED BY <3>1, <3>2
  <2> HIDE DEF response
  <2>10. response \in Surveys BY <2>9 DEF AboutWhatWasRead
  <2>11. /\ run' \in Runs /\ run'.pc = "write" /\ run'.prior = run.prior /\ run'.response = response
         /\ run'.snap = run.snap /\ run'.dirs = run.dirs
    <3>1. run \in Runs BY DEF SurveyInv
    <3> QED BY <2>1, <2>10, <3>1 DEF Runs
  <2> QED BY <1>1, <2>2, <2>9, <2>11 DEF SurveyInv
<1> QED BY <1>2, <1>3

\* The answers the runs try are sequences.
LEMMA BoundedIsSeq ==
  ASSUME NEW S, NEW n, NEW q \in BoundedSeq(S, n)
  PROVE  q \in Seq(S)
<1>1. PICK m \in 0 .. n : q \in [1 .. m -> S] BY DEF BoundedSeq, SeqOf
<1>2. m \in Nat OBVIOUS
<1> QED BY <1>1, <1>2

\* Every step keeps SurveyInv.
LEMMA SurveyInvNext == ASSUME SurveyInv, [Next]_vars PROVE SurveyInv'
<1>1. CASE UNCHANGED vars
  <2>1. UNCHANGED <<plan, surveyFile, run>> BY <1>1 DEF vars
  <2> QED BY <2>1 DEF SurveyInv
<1>2. CASE Next
  <2>1. CASE \E dirs \in SeveralPlans : StartRun(dirs) BY <2>1, StartRunKeeps
  <2>2. CASE \E p \in Plans : LoadPlan(p) BY <2>2, LoadPlanKeeps
  <2>3. CASE LoadPrior BY <2>3, LoadPriorKeeps
  <2>4. CASE NoAnswer \/ PriorTorn BY <2>4, NoAnswerKeeps
  <2>5. CASE CarryForward BY <2>5, CarryForwardKeeps
  <2>6. CASE AskIncremental BY <2>6, AskIncrementalKeeps
  <2>7. ASSUME NEW keys \in AnswerRows, NEW order \in AnswerOrders, Answered(keys, order) PROVE SurveyInv'
    <3>1. keys \in BoundedSeq(Plans \cup Strangers, Cardinality(Plans))
          /\ order \in BoundedSeq(Plans \cup Strangers, 1)
          BY DEF AnswerRows, AnswerOrders
    <3>2. keys \in Seq(Plans \cup Strangers) /\ order \in Seq(Plans \cup Strangers)
          BY <3>1, BoundedIsSeq
    <3> QED BY <2>7, <3>2, AnsweredKeeps
  <2>8. CASE WriteSurvey BY <2>8, WriteSurveyKeeps
  <2>9. CASE Selecting BY <2>9, SelectingKeeps
  <2>10. CASE \E f \in Files : CycleEnds(f) \/ CycleFails(f) BY <2>10, CycleKeeps
  <2>11. CASE \E p \in Plans, f \in Files : PlanChanges(p, f) BY <2>11, PlanChangesKeeps
  <2>12. CASE Die BY <2>12, DieKeeps
  <2> QED BY <1>2, <2>1, <2>2, <2>3, <2>4, <2>5, <2>6, <2>7, <2>8, <2>9, <2>10, <2>11, <2>12 DEF Next
<1> QED BY <1>1, <1>2

\* A set of which no two elements differ has at most one.
LEMMA AtMostOne ==
  ASSUME NEW S, \A i, j \in S : i = j
  PROVE  Cardinality(S) \in {0, 1}
<1>1. CASE S = {} BY <1>1, FS_EmptySet
<1>2. CASE S # {}
  <2>1. PICK x \in S : TRUE BY <1>2
  <2>2. S = {x} BY <2>1
  <2>3. Cardinality({x}) = 1 BY FS_Singleton
  <2> QED BY <2>2, <2>3
<1> QED BY <1>1, <1>2

\* The survey that is written is one that SurveyInv is about.
LEMMA SurveyInvIsCurrent == SurveyInv => SurveyIsCurrent
<1> SUFFICES ASSUME SurveyInv, run.pc = "write" PROVE SurveyIsCurrent
    BY DEF SurveyIsCurrent, RowsCurrent, PriorRepaired
<1>1. DOMAIN run.snap = run.dirs /\ AboutWhatWasRead(run.response, run.snap) BY DEF SurveyInv
<1>2. RowsCurrent BY <1>1 DEF RowsCurrent, AboutWhatWasRead
<1>3. ASSUME run.prior # None, NEW p \in run.dirs
      PROVE  /\ RowsOf(run.response, p) # {}
             /\ Cardinality(RowsOf(run.response, p)) > 1 => IsNoop(run.prior, run.snap)
  <2> DEFINE S == RowsOf(run.response, p)
  <2>1. S # {} /\ \A i, j \in S : i = j \/ IsNoop(run.prior, run.snap) BY <1>3 DEF SurveyInv
  <2> HIDE DEF S
  <2>2. ~IsNoop(run.prior, run.snap) => Cardinality(S) \in {0, 1} BY <2>1, AtMostOne
  <2>3. ~IsNoop(run.prior, run.snap) => ~(Cardinality(S) > 1) BY <2>2
  <2> QED BY <2>1, <2>3 DEF S
<1>4. PriorRepaired BY <1>3 DEF PriorRepaired
<1> QED BY <1>2, <1>4 DEF SurveyIsCurrent

\* However many surveys the rows went through, of this run and of others over
\* other plans, with plans changed in between, answers that do not fit and
\* deaths while the file was written: a survey that is about to be written
\* describes its plans as they were read for it (src/survey/delta.rs,
\* src/survey/invoke.rs), and one that starts from another has each plan, once
\* when something had changed.
THEOREM SurveysAreCurrent == Spec => []SurveyIsCurrent
<1>1. Spec => []SurveyInv BY SurveyInvInit, SurveyInvNext, PTL DEF Spec
<1> QED BY <1>1, SurveyInvIsCurrent, PTL
=============================================================================
