----------------------------- MODULE Plans_proofs -----------------------------
(***************************************************************************)
(* The files a plan and a context are made of.                             *)
(*                                                                         *)
(* A state file is the atomic file of AtomicFile as long as no run starts  *)
(* before another has ended, for any number of runs that fail or are       *)
(* killed anywhere.  A plan directory is written by the one job that made  *)
(* it, and a create or migrate that reports success leaves it whole, for   *)
(* any number of jobs, any plan of version 1 and any proposal.  What a     *)
(* user configured in a directory of version 1 is what every command goes  *)
(* by, for any directory and any number of kills.  A record keeps its id,  *)
(* its anchors and a settled status through any verbs on a plan's files.   *)
(***************************************************************************)
EXTENDS StateFile, Records, KnowledgeStore, PlanSetup, ContextConfig,
  FiniteSetTheorems, SequenceTheorems, WellFoundedInduction, TLAPS

-----------------------------------------------------------------------------
(* A state file                                                            *)

\* A run that has read the file is alone with it: it knows what the file
\* holds, and .tmp is its own.
Alone(v) ==
  /\ \A w \in Verbs : pc[w] \in Busy => w = v
  /\ seen[v] = inode[file].holds
  /\ pc[v] \in {"open", "written"} => tmp # None /\ handle[v] = tmp
  /\ pc[v] = "open" => inode[tmp] = Empty
  /\ pc[v] = "written" => inode[tmp] = [whole |-> TRUE, holds |-> Written(v)]

IInv ==
  /\ TypeOK
  /\ NeverTruncated
  /\ tmp # file
  /\ \A v \in Verbs : pc[v] \in {"idle", "seen"} => v # file /\ v # tmp
  /\ \A v \in Verbs : pc[v] \in Busy => Alone(v)

\* Before any run the file is whole and nobody is at work.
LEMMA InitIInv == Init => IInv
<1> SUFFICES ASSUME Init PROVE IInv
    OBVIOUS
<1>1. TypeOK BY DEF Init, TypeOK, Inodes, Content, Empty
<1>2. NeverTruncated BY DEF Init, NeverTruncated, Inodes
<1>3. \A v \in Verbs : v # First /\ v # None /\ First # None
      BY NameAssumption DEF Inodes
<1>4. tmp # file BY NameAssumption DEF Init, Inodes
<1> QED BY <1>1, <1>2, <1>3, <1>4 DEF Init, IInv, Busy

\* A run that may start is alone.
LEMMA ReadIInv ==
  ASSUME IInv, Concurrent = FALSE, NEW v \in Verbs, Read(v)
  PROVE  IInv'
<1> USE DEF IInv, TypeOK, Goto
<1>1. /\ pc' = [pc EXCEPT ![v] = "seen"]
      /\ seen' = [seen EXCEPT ![v] = inode[file].holds]
      /\ UNCHANGED <<inode, file, tmp, handle>>
      BY DEF Read, NeverTruncated
<1>2. \A w \in Verbs : pc[w] \notin Busy BY DEF Read
<1>3. inode[file].holds \in SUBSET Verbs BY DEF Content
<1>4. TypeOK' BY <1>1, <1>3 DEF Busy
<1>5. NeverTruncated' BY <1>1 DEF NeverTruncated
<1>6. Alone(v)' BY <1>1, <1>2 DEF Alone, Busy
<1>7. \A w \in Verbs : pc'[w] \in Busy => w = v BY <1>1, <1>2
<1> QED BY <1>1, <1>4, <1>5, <1>6, <1>7 DEF Read

\* fs::write makes .tmp or empties the one a killed run left.
LEMMA OpenIInv == ASSUME IInv, NEW v \in Verbs, Open(v) PROVE IInv'
<1> USE DEF IInv, TypeOK, Goto
<1> DEFINE n == IF tmp = None THEN v ELSE tmp
<1>1. /\ tmp' = n
      /\ handle' = [handle EXCEPT ![v] = n]
      /\ inode' = [inode EXCEPT ![n] = Empty]
      /\ pc' = [pc EXCEPT ![v] = "open"]
      /\ UNCHANGED <<file, seen>>
      /\ pc[v] = "seen"
      BY DEF Open
<1>2. n \in Inodes /\ n # None /\ n # file
      BY <1>1, NameAssumption DEF Inodes
<1> HIDE DEF n
<1>3. Empty \in Content BY DEF Empty, Content
<1>4. TypeOK' BY <1>1, <1>2, <1>3 DEF Busy
<1>5. inode'[file] = inode[file] /\ inode'[n] = Empty BY <1>1, <1>2
<1>6. NeverTruncated' BY <1>1, <1>5 DEF NeverTruncated
<1>7. Alone(v) BY <1>1 DEF Busy
<1>8. Alone(v)'
  <2>1. \A w \in Verbs : pc'[w] \in Busy => w = v BY <1>1, <1>7 DEF Alone
  <2>2. pc'[v] = "open" /\ handle'[v] = tmp' /\ inode'[tmp'] = Empty
        BY <1>1, <1>5
  <2> QED BY <1>1, <1>2, <1>5, <1>7, <2>1, <2>2 DEF Alone
<1>9. \A w \in Verbs : pc'[w] \in Busy => w = v BY <1>8 DEF Alone
<1>10. \A w \in Verbs : pc'[w] \in {"idle", "seen"} => w # file' /\ w # tmp'
  <2> SUFFICES ASSUME NEW w \in Verbs, pc'[w] \in {"idle", "seen"}
               PROVE  w # file' /\ w # tmp'
      OBVIOUS
  <2>1. w # v /\ pc[w] = pc'[w] BY <1>1
  <2>2. w # file /\ w # tmp BY <2>1
  <2> QED BY <1>1, <2>1, <2>2 DEF n
<1> QED BY <1>1, <1>2, <1>4, <1>6, <1>8, <1>9, <1>10

\* The body goes to .tmp.
LEMMA WriteIInv == ASSUME IInv, NEW v \in Verbs, Write(v) PROVE IInv'
<1> USE DEF IInv, TypeOK, Goto
<1>1. pc[v] = "open" /\ Alone(v) BY DEF Write, Busy
<1>2. tmp \in Inodes /\ tmp # file /\ handle[v] = tmp /\ inode[tmp] = Empty
      BY <1>1 DEF Alone
<1> DEFINE text == [whole |-> TRUE, holds |-> Written(v)]
<1>3. /\ inode' = [inode EXCEPT ![tmp] = text]
      /\ pc' = [pc EXCEPT ![v] = "written"]
      /\ UNCHANGED <<file, tmp, seen, handle>>
      BY <1>2 DEF Write
<1>4. text \in Content BY DEF Content, Written
<1>5. Written(v)' = Written(v) BY <1>3 DEF Written
<1> HIDE DEF text
<1>6. TypeOK' BY <1>2, <1>3, <1>4 DEF Busy
<1>7. inode'[file] = inode[file] /\ inode'[tmp] = text BY <1>2, <1>3
<1>8. NeverTruncated' BY <1>3, <1>7 DEF NeverTruncated
<1>9. Alone(v)'
  <2>1. \A w \in Verbs : pc'[w] \in Busy => w = v BY <1>1, <1>3 DEF Alone
  <2>2. pc'[v] = "written" BY <1>3
  <2> QED BY <1>1, <1>2, <1>3, <1>5, <1>7, <2>1, <2>2 DEF Alone, text
<1>10. \A w \in Verbs : pc'[w] \in Busy => w = v BY <1>9 DEF Alone
<1>11. \A w \in Verbs : pc'[w] \in {"idle", "seen"} => pc[w] = pc'[w] BY <1>3
<1> QED BY <1>2, <1>3, <1>6, <1>8, <1>9, <1>10, <1>11

\* A run that ends without the rename leaves the file as it was.
LEMMA EndIInv ==
  ASSUME IInv, NEW v \in Verbs, pc[v] \in Busy, NEW end \in {"error", "dead"},
         Goto(v, end), UNCHANGED <<inode, file, tmp, seen, handle>>
  PROVE  IInv'
<1> USE DEF IInv, TypeOK, Goto
<1>1. Alone(v) OBVIOUS
<1>2. \A w \in Verbs : pc'[w] \notin Busy BY <1>1 DEF Alone, Busy
<1>3. TypeOK' BY DEF Busy
<1>4. NeverTruncated' BY DEF NeverTruncated
<1>5. \A w \in Verbs : pc'[w] \in {"idle", "seen"} => pc[w] = pc'[w] OBVIOUS
<1> QED BY <1>2, <1>3, <1>4, <1>5

\* The file is replaced by a whole one.
LEMMA RenameIInv ==
  ASSUME IInv, NEW v \in Verbs, Rename(v)
  PROVE  /\ IInv'
         /\ pc' = [pc EXCEPT ![v] = "ok"]
         /\ inode'[file'].holds = inode[file].holds \cup {v}
<1> USE DEF IInv, TypeOK, Goto
<1>1. pc[v] = "written" /\ Alone(v) BY DEF Rename, Busy
<1>2. /\ tmp # None /\ tmp \in Inodes
      /\ inode[tmp] = [whole |-> TRUE, holds |-> Written(v)]
      BY <1>1 DEF Alone
<1>3. /\ file' = tmp /\ tmp' = None
      /\ pc' = [pc EXCEPT ![v] = "ok"]
      /\ UNCHANGED <<inode, seen, handle>>
      BY <1>2 DEF Rename
<1>4. TypeOK' BY <1>2, <1>3 DEF Busy
<1>5. NeverTruncated' BY <1>2, <1>3 DEF NeverTruncated
<1>6. \A w \in Verbs : pc'[w] \notin Busy BY <1>1, <1>3 DEF Alone, Busy
<1>7. \A w \in Verbs : pc'[w] \in {"idle", "seen"} => w # file' /\ w # tmp'
  <2>1. \A w \in Verbs : w # None BY NameAssumption DEF Inodes
  <2>2. \A w \in Verbs : pc'[w] \in {"idle", "seen"} => pc[w] = pc'[w] BY <1>3
  <2> QED BY <1>3, <2>1, <2>2
<1>8. IInv' BY <1>2, <1>3, <1>4, <1>5, <1>6, <1>7
<1>9. inode'[file'].holds = inode[file].holds \cup {v}
      BY <1>1, <1>2, <1>3 DEF Alone, Written
<1> QED BY <1>3, <1>8, <1>9

\* Every step of a run keeps the invariant.
LEMMA NextIInv == Concurrent = FALSE /\ IInv /\ [Next]_vars => IInv'
<1> SUFFICES ASSUME Concurrent = FALSE, IInv, [Next]_vars PROVE IInv'
    OBVIOUS
<1>1. ASSUME NEW v \in Verbs, Read(v) PROVE IInv' BY <1>1, ReadIInv
<1>2. ASSUME NEW v \in Verbs, Open(v) PROVE IInv' BY <1>2, OpenIInv
<1>3. ASSUME NEW v \in Verbs, Write(v) PROVE IInv' BY <1>3, WriteIInv
<1>4. ASSUME NEW v \in Verbs, Fail(v) PROVE IInv' BY <1>4, EndIInv DEF Fail
<1>5. ASSUME NEW v \in Verbs, Rename(v) PROVE IInv' BY <1>5, RenameIInv
<1>6. ASSUME NEW v \in Verbs, Die(v) PROVE IInv' BY <1>6, EndIInv DEF Die
<1>7. CASE UNCHANGED vars
      BY <1>7 DEF vars, IInv, TypeOK, NeverTruncated, Alone, Written
<1> QED BY <1>1, <1>2, <1>3, <1>4, <1>5, <1>6, <1>7 DEF Next

\* How the runs have ended, as AtomicFile sees it.
Told == [v \in Verbs |-> IF pc[v] = "ok" THEN "ok"
                         ELSE IF pc[v] \in {"error", "dead"} THEN "error" ELSE "pending"]

\* A step of one run, as told.
LEMMA ToldStep ==
  ASSUME TypeOK, NEW v \in Verbs, NEW label, pc' = [pc EXCEPT ![v] = label]
  PROVE  /\ label = "ok" => Told' = [Told EXCEPT ![v] = "ok"]
         /\ label \in {"error", "dead"} => Told' = [Told EXCEPT ![v] = "error"]
         /\ label \in Busy /\ pc[v] \in Busy \cup {"idle"} => Told' = Told
BY DEF Told, TypeOK, Busy

\* A rename is an atomic write, every other step a stutter.
LEMMA StepImplements ==
  Concurrent = FALSE /\ IInv /\ [Next]_vars => [Abstract!Next]_(Abstract!vars)
<1> SUFFICES ASSUME Concurrent = FALSE, IInv, [Next]_vars
             PROVE  [Abstract!Next]_(Abstract!vars)
    OBVIOUS
<1> USE DEF Goto
<1>0. /\ TypeOK
      /\ \A v \in Verbs : pc[v] \in Busy => Told[v] = "pending"
      BY DEF IInv, Told, Busy
<1>1. ASSUME NEW v \in Verbs, Read(v) PROVE UNCHANGED Abstract!vars
  <2>1. pc[v] = "idle" /\ pc' = [pc EXCEPT ![v] = "seen"] /\ UNCHANGED <<inode, file>>
        BY <1>1 DEF Read, IInv, NeverTruncated
  <2>2. Told' = Told BY <1>0, <2>1, ToldStep DEF Busy
  <2> QED BY <2>1, <2>2 DEF Abstract!vars, Told
<1>2. ASSUME NEW v \in Verbs, Open(v) PROVE UNCHANGED Abstract!vars
  <2>1. pc[v] = "seen" /\ pc' = [pc EXCEPT ![v] = "open"] /\ file' = file
        BY <1>2 DEF Open
  <2>2. inode'[file] = inode[file]
        BY <1>2, NameAssumption DEF Open, IInv, TypeOK, Inodes
  <2>3. Told' = Told BY <1>0, <2>1, ToldStep DEF Busy
  <2> QED BY <2>1, <2>2, <2>3 DEF Abstract!vars, Told
<1>3. ASSUME NEW v \in Verbs, Write(v) PROVE UNCHANGED Abstract!vars
  <2>1. pc[v] = "open" /\ pc' = [pc EXCEPT ![v] = "written"] /\ file' = file
        BY <1>3 DEF Write
  <2>2. Alone(v) BY <2>1 DEF IInv, Busy
  <2>3. handle[v] = tmp /\ tmp # file BY <2>1, <2>2 DEF Alone, IInv
  <2>4. inode'[file] = inode[file] BY <1>3, <2>3 DEF Write, IInv, TypeOK
  <2>5. Told' = Told BY <1>0, <2>1, ToldStep DEF Busy
  <2> QED BY <2>1, <2>4, <2>5 DEF Abstract!vars, Told
<1>4. ASSUME NEW v \in Verbs, NEW end \in {"error", "dead"}, pc[v] \in Busy,
             Goto(v, end), UNCHANGED <<inode, file>>
      PROVE  Abstract!Next
  <2>1. Told' = [Told EXCEPT ![v] = "error"] BY <1>0, <1>4, ToldStep
  <2>2. Abstract!Fail(v) BY <1>0, <1>4, <2>1 DEF Abstract!Fail, Told
  <2> QED BY <2>2 DEF Abstract!Next
<1>5. ASSUME NEW v \in Verbs, Rename(v) PROVE Abstract!Next
  <2>1. pc[v] = "written" /\ pc' = [pc EXCEPT ![v] = "ok"]
        /\ inode'[file'].holds = inode[file].holds \cup {v}
        BY <1>5, RenameIInv DEF Rename
  <2>2. Told' = [Told EXCEPT ![v] = "ok"] BY <1>0, <2>1, ToldStep
  <2>3. Abstract!Succeed(v) BY <1>0, <2>1, <2>2 DEF Abstract!Succeed, Told, Busy
  <2> QED BY <2>3 DEF Abstract!Next
<1>6. ASSUME NEW v \in Verbs, Fail(v) PROVE Abstract!Next BY <1>4, <1>6 DEF Fail
<1>7. ASSUME NEW v \in Verbs, Die(v) PROVE Abstract!Next BY <1>4, <1>7 DEF Die
<1>8. CASE UNCHANGED vars BY <1>8 DEF vars, Abstract!vars
<1> QED BY <1>1, <1>2, <1>3, <1>5, <1>6, <1>7, <1>8 DEF Next

\* With one run at a time, no reader ever sees a truncated file, although runs
\* fail and are killed between any two system calls.
THEOREM NoTruncationAlone ==
  ASSUME Concurrent = FALSE
  PROVE  Spec => []NeverTruncated
<1>1. IInv => NeverTruncated BY DEF IInv
<1>2. IInv /\ [Next]_vars => IInv' BY NextIInv
<1> QED BY <1>1, <1>2, InitIInv, PTL DEF Spec

\* With one run at a time the file is the atomic file: changes are made as a
\* whole, none is lost, and a run that reports an error made none.
THEOREM AtomicAlone ==
  ASSUME Concurrent = FALSE
  PROVE  Spec => ImplementsAtomicFile
<1>1. Init => Abstract!Init
  <2> SUFFICES ASSUME Init PROVE Abstract!Init
      OBVIOUS
  <2>1. inode[file].holds = {} BY DEF Init, Inodes
  <2> QED BY <2>1 DEF Init, Abstract!Init
<1>2. IInv /\ [Next]_vars => IInv' BY NextIInv
<1>3. IInv /\ [Next]_vars => [Abstract!Next]_(Abstract!vars) BY StepImplements
<1> QED BY <1>1, <1>2, <1>3, InitIInv, PTL
       DEF Spec, ImplementsAtomicFile, Abstract!Spec

-----------------------------------------------------------------------------
(* Creation and migration of a plan                                        *)

\* The steps at which the directory is the job's.
Working == {"phase", "backlog", "intents", "memory", "seed", "spawn", "verify", "created",
            "warned", "reshape", "reshape-memory", "intent", "write-intents", "attribute",
            "targets", "backfill", "done"}

\* The directory is there exactly if a job has made it, and a job that writes
\* in it is that job; a migration that is about to copy is alone.
OneOwner ==
  /\ owner = Absent <=> plan = Absent
  /\ \A j \in Jobs :
       /\ job[j].at \in Working => owner = j
       /\ job[j].at = "copy" =>
            /\ job[j].verb = "migrate" /\ plan = Absent
            /\ \A k \in Jobs \ {j} : Ended(k)

\* A step of job j changes job j's record alone.
LEMMA JobStep ==
  ASSUME SetupTypeOK, NEW j \in Jobs, NEW at \in JobSteps, Step(j, at)
  PROVE  /\ job' \in [Jobs -> Job]
         /\ job'[j].at = at /\ job'[j].verb = job[j].verb /\ job'[j].proposal = job[j].proposal
         /\ \A k \in Jobs \ {j} : job'[k] = job[k]
<1>1. job \in [Jobs -> Job] /\ job[j] \in Job
  BY DEF SetupTypeOK
<1> DEFINE r == [job[j] EXCEPT !.at = at]
<1>2. job' = [job EXCEPT ![j] = r]
  BY DEF Step
<1>3. r \in Job /\ r.at = at /\ r.verb = job[j].verb /\ r.proposal = job[j].proposal
  BY <1>1 DEF Job
<1> HIDE DEF r
<1> QED
  BY <1>1, <1>2, <1>3

\* A file written is a file of the plan; the others stay.
LEMMA WroteFile ==
  ASSUME plan \in PlanFiles, NEW f \in DOMAIN NoFiles, NEW content, Wrote(f, content),
         f = "phase" => content \in {"triage", "copied"},
         f = "backlog" => content \in Documents(OldTasks) \cup Documents(ItemV2),
         f = "intents" => content \in Documents(Intents),
         f = "memory" => content \in Documents(MemoryEntry),
         f = "requests" => content \in {{}, {"target"}}
  PROVE  plan' \in PlanFiles /\ plan'[f] = content
         /\ \A g \in DOMAIN NoFiles \ {f} : plan'[g] = plan[g]
<1>1. f \in {"phase", "backlog", "intents", "memory", "requests"}
  BY DEF NoFiles
<1>2. plan' = [plan EXCEPT ![f] = content]
  BY DEF Wrote
<1> HIDE DEF Wrote, Documents
<1>3. DOMAIN NoFiles = {"phase", "backlog", "intents", "memory", "requests"}
  BY DEF NoFiles
<1> DEFINE B == {Absent} \cup Documents(OldTasks) \cup Documents(ItemV2)
           N == {Absent} \cup Documents(Intents)
           M == {Absent} \cup Documents(MemoryEntry)
<1>4. PlanFiles = [phase : {Absent, "triage", "copied"}, backlog : B, intents : N, memory : M,
                   requests : {{}, {"target"}}]
  BY DEF PlanFiles
<1>5. f = "backlog" => content \in B
  OBVIOUS
<1>6. f = "intents" => content \in N
  OBVIOUS
<1>7. f = "memory" => content \in M
  OBVIOUS
<1> HIDE DEF B, N, M
<1> QED
  BY <1>1, <1>2, <1>3, <1>4, <1>5, <1>6, <1>7

\* The backlog as it is reshaped, and as the proposal leaves it.
Reshapes == [i \in DOMAIN old.tasks |-> Reshaped(old.tasks[i])]
Applied(p) == Attributed(Reshapes, p.serves)

\* The steps of create and of migrate after which a file has been written.
AfterPhase == {"backlog", "intents", "memory", "seed", "spawn", "verify", "created", "warned"}
AfterReshape == {"reshape-memory", "intent", "write-intents", "attribute"}
AfterAttribution == {"targets", "backfill", "done"}
AfterProposal == {"write-intents", "attribute", "targets", "backfill", "done"}

\* What a job that creates has written by its next step.
Scaffolded(j) ==
  LET at == job[j].at
  IN /\ at \in AfterPhase => plan.phase = "triage"
     /\ at \in AfterPhase \ {"backlog"} => plan.backlog = V2(<<>>)
     /\ at \in AfterPhase \ {"backlog", "intents"} =>
          plan.intents \in Documents(Intents) /\ plan.intents.version = 2
     /\ at \in AfterPhase \ {"backlog", "intents", "memory"} => plan.memory = V2(<<>>)
     /\ at = "created" => plan.intents.body # <<>>
     /\ at = "warned" => plan.intents.body = <<>>

\* What a job that migrates has written by its next step.
Migrated(j) ==
  LET at == job[j].at
      p == job[j].proposal
  IN /\ at \in {"reshape"} \cup AfterReshape \cup AfterAttribution => plan.phase = "copied"
     /\ at = "reshape" => (plan.memory = Absent <=> old.memory = Absent)
     /\ at = "reshape-memory" => old.memory # Absent
     /\ at \in AfterReshape => plan.backlog = V2(Reshapes)
     /\ at \in AfterProposal => p \in Proposals
     /\ at \in AfterAttribution => plan.backlog = V2(Applied(p))
     /\ at \in {"attribute"} \cup AfterAttribution => plan.intents = V2(p.intents)
     /\ at \in {"intent", "write-intents", "attribute", "targets", "backfill"} =>
          plan.memory = IF old.memory = Absent THEN Absent ELSE V2(Entries)
     /\ at = "done" =>
          /\ old.memory # Absent
          /\ plan.memory \in Documents(MemoryEntry) /\ plan.memory.version = 2
          /\ [i \in DOMAIN plan.memory.body |-> plan.memory.body[i].id] = old.memory

SetupInv ==
  /\ SetupTypeOK
  /\ OneOwner
  /\ \A j \in Jobs : Scaffolded(j) /\ Migrated(j)

\* Two steps that leave the plan and a job's record alone leave what the job
\* has written alone.
LEMMA WrittenStays ==
  ASSUME NEW k \in Jobs, Scaffolded(k), Migrated(k), job'[k] = job[k], UNCHANGED <<old, plan>>
  PROVE  Scaffolded(k)' /\ Migrated(k)'
  BY DEF Scaffolded, Migrated, Reshapes, Applied, Entries

\* A job that is not at work in the directory has nothing to answer for.
LEMMA NotWorking ==
  ASSUME NEW k \in Jobs, job'[k].at \notin Working
  PROVE  Scaffolded(k)' /\ Migrated(k)'
  BY DEF Scaffolded, Migrated, Working, AfterPhase, AfterReshape, AfterAttribution, AfterProposal

\* The job the directory belongs to, or that makes it, takes a step in it.
LEMMA OwnerAdvances ==
  ASSUME SetupInv, NEW j \in Jobs,
         old' = old, plan' \in PlanFiles, owner' = j,
         \/ owner = j
         \/ plan = Absent /\ \A k \in Jobs \ {j} : job[k].at # "copy",
         job' \in [Jobs -> Job], \A k \in Jobs \ {j} : job'[k] = job[k],
         job'[j].at # "copy",
         Scaffolded(j)', Migrated(j)'
  PROVE  SetupInv'
<1>1. SetupTypeOK /\ OneOwner
  BY DEF SetupInv
<1>2. SetupTypeOK'
  BY <1>1 DEF SetupTypeOK
<1>3. plan' # Absent /\ j # Absent
  BY AbsentAssumption
<1>4. \A k \in Jobs \ {j} : job'[k].at \notin Working /\ job'[k].at # "copy"
  BY <1>1, <1>3, AbsentAssumption DEF OneOwner
<1>5. OneOwner'
  BY <1>3, <1>4 DEF OneOwner
<1>6. \A k \in Jobs \ {j} : Scaffolded(k)' /\ Migrated(k)'
  BY <1>4, NotWorking
<1> QED
  BY <1>2, <1>5, <1>6 DEF SetupInv

\* A job steps outside the directory.
LEMMA OutsideStep ==
  ASSUME SetupInv, NEW j \in Jobs,
         UNCHANGED <<old, plan, owner>>,
         job' \in [Jobs -> Job], \A k \in Jobs \ {j} : job'[k] = job[k],
         job'[j].at \notin Working,
         job'[j].at = "copy" =>
           job'[j].verb = "migrate" /\ plan = Absent /\ \A k \in Jobs : Ended(k),
         \/ job'[j].at \in {"error", "dead"}
         \/ \A k \in Jobs \ {j} : job[k].at # "copy"
  PROVE  SetupInv'
<1>1. SetupTypeOK /\ OneOwner /\ \A k \in Jobs : Scaffolded(k) /\ Migrated(k)
  BY DEF SetupInv
<1>2. SetupTypeOK'
  BY <1>1 DEF SetupTypeOK
<1>3. OneOwner'
  BY <1>1 DEF OneOwner, Ended
<1>4. \A k \in Jobs \ {j} : Scaffolded(k)' /\ Migrated(k)'
  BY <1>1, WrittenStays
<1>5. Scaffolded(j)' /\ Migrated(j)'
  BY NotWorking
<1> QED
  BY <1>2, <1>3, <1>4, <1>5 DEF SetupInv

\* The bodies of documents of version 2.
LEMMA ReshapesType ==
  ASSUME SetupTypeOK
  PROVE  /\ Reshapes \in Seq(ItemV2) /\ Len(Reshapes) = Len(old.tasks)
         /\ DOMAIN Reshapes = DOMAIN old.tasks
         /\ \A i \in DOMAIN old.tasks : Reshapes[i] = Reshaped(old.tasks[i])
<1>1. old.tasks \in Seq(OldTasks)
  BY OldPlansAssumption DEF SetupTypeOK
<1>2. \A t \in OldTasks : Reshaped(t) \in ItemV2
  BY DEF Reshaped, ItemV2, MapStatus
<1>3. \A i \in 1 .. Len(old.tasks) : Reshaped(old.tasks[i]) \in ItemV2
  BY <1>1, <1>2
<1>4. DOMAIN old.tasks = 1 .. Len(old.tasks) /\ Len(old.tasks) \in Nat
  BY <1>1
<1>5. Reshapes = [i \in 1 .. Len(old.tasks) |-> Reshaped(old.tasks[i])]
  BY <1>4 DEF Reshapes
<1>6. Reshapes \in [1 .. Len(old.tasks) -> ItemV2]
  BY <1>3, <1>5
<1>7. Reshapes \in Seq(ItemV2)
  BY <1>4, <1>6
<1>8. Len(Reshapes) = Len(old.tasks)
  BY <1>4, <1>6, <1>7
<1> QED
  BY <1>4, <1>5, <1>7, <1>8

\* A confirmed proposal leaves the backlog as long as it was.
LEMMA AppliedType ==
  ASSUME SetupTypeOK, NEW p \in Proposals
  PROVE  /\ Applied(p) \in Seq(ItemV2) /\ Len(Applied(p)) = Len(old.tasks)
         /\ DOMAIN Applied(p) = DOMAIN old.tasks
<1> DEFINE mine(i) == {s[2] : s \in {s \in p.serves : s[1] = Reshapes[i].id}}
           item(i) == [Reshapes[i] EXCEPT !.legacy = "legacy" \in mine(i),
                         !.why = @ \cup {<<"serves", n>> : n \in mine(i) \ {"legacy"}}]
<1>1. /\ Reshapes \in Seq(ItemV2) /\ Len(Reshapes) = Len(old.tasks)
      /\ DOMAIN Reshapes = 1 .. Len(old.tasks) /\ Len(old.tasks) \in Nat
      /\ DOMAIN old.tasks = 1 .. Len(old.tasks)
  <2>1. old.tasks \in Seq(OldTasks)
    BY OldPlansAssumption DEF SetupTypeOK
  <2> QED
    BY <2>1, ReshapesType
<1>2. \A i : mine(i) \subseteq Served
  BY DEF Served
<1>3. ASSUME NEW i \in 1 .. Len(old.tasks)
      PROVE  item(i) \in ItemV2
  <2> DEFINE W == SUBSET ({<<"rationale">>} \cup {<<"serves", n>> : n \in Served})
             new == Reshapes[i].why \cup {<<"serves", n>> : n \in mine(i) \ {"legacy"}}
  <2>1. Reshapes[i] \in ItemV2
    BY <1>1
  <2>2. Reshapes[i].why \in W
    BY <2>1 DEF ItemV2
  <2>3. new \in W
    BY <1>2, <2>2
  <2>4. item(i) = [Reshapes[i] EXCEPT !.legacy = "legacy" \in mine(i), !.why = new]
    BY <2>1 DEF ItemV2
  <2>5. ("legacy" \in mine(i)) \in BOOLEAN
    OBVIOUS
  <2>6. ItemV2 = [id : {t.id : t \in OldTasks},
                  status : {"active", "done", "blocked", "defeated", "superseded", "unknown"},
                  deps : {t.deps : t \in OldTasks}, why : W, legacy : BOOLEAN]
    BY DEF ItemV2
  <2> HIDE DEF W, new, mine, item
  <2> QED
    BY <2>1, <2>3, <2>4, <2>5, <2>6
<1>4. Applied(p) = [i \in 1 .. Len(old.tasks) |-> item(i)]
  BY <1>1 DEF Applied, Attributed
<1> HIDE DEF item
<1>5. Applied(p) \in [1 .. Len(old.tasks) -> ItemV2]
  BY <1>3, <1>4
<1> QED
  BY <1>1, <1>5

\* A migrated memory has an entry for each of the old one.
LEMMA EntriesType ==
  ASSUME SetupTypeOK, old.memory # Absent
  PROVE  /\ Entries \in Seq(MemoryEntry) /\ DOMAIN Entries = DOMAIN old.memory
         /\ old.memory \in Seq(MemoryIds)
         /\ \A i \in DOMAIN old.memory : Entries[i].id = old.memory[i]
<1>1. old.memory \in Seq(MemoryIds)
  BY OldPlansAssumption DEF SetupTypeOK
<1>2. DOMAIN old.memory = 1 .. Len(old.memory) /\ Len(old.memory) \in Nat
  BY <1>1
<1>3. \A i \in 1 .. Len(old.memory) : [id |-> old.memory[i], mark |-> "active"] \in MemoryEntry
  BY <1>1 DEF MemoryEntry
<1>4. Entries \in [1 .. Len(old.memory) -> MemoryEntry]
  BY <1>2, <1>3 DEF Entries
<1> QED
  BY <1>1, <1>2, <1>4 DEF Entries

\* SetupInv read off for one job, with the sets its clauses mention.
LEMMA JobFacts ==
  ASSUME SetupInv, NEW j \in Jobs
  PROVE  /\ SetupTypeOK /\ OneOwner /\ Scaffolded(j) /\ Migrated(j)
         /\ job \in [Jobs -> Job] /\ job[j] \in Job
         /\ job[j].at \in Working => owner = j /\ plan \in PlanFiles
  BY AbsentAssumption DEF SetupInv, SetupTypeOK, OneOwner

\* An empty document, and one of what is of its type, is a document.
LEMMA DocumentType ==
  ASSUME NEW S, NEW body \in Seq(S)
  PROVE  V2(body) \in Documents(S) /\ V2(body).version = 2 /\ V2(body).body = body
  BY DEF V2, Documents

\* A creation reserves the name and makes the directory.
LEMMA ReserveInv ==
  ASSUME SetupInv, NEW j \in Jobs,
         ResolvePlanDir(j) \/ CreateDir(j) \/ ValidateInputs(j) \/ JobKilled(j)
  PROVE  SetupInv'
<1>0. /\ SetupTypeOK /\ OneOwner /\ job \in [Jobs -> Job] /\ job[j] \in Job
  BY JobFacts
<1>1. CASE ResolvePlanDir(j)
  <2> DEFINE at == IF plan = Absent THEN "create-dir" ELSE "error"
             r == [job[j] EXCEPT !.verb = "create", !.at = at]
  <2>1. job' = [job EXCEPT ![j] = r] /\ UNCHANGED <<old, plan, owner>>
        /\ \A k \in Jobs : Ended(k) \/ job[k].verb = "create"
    BY <1>1 DEF ResolvePlanDir
  <2>2. r \in Job /\ r.at = at
    BY <1>0 DEF Job, JobSteps
  <2>3. \A k \in Jobs : job[k].at # "copy"
    BY <1>0, <2>1 DEF Ended, OneOwner
  <2>4. at \in {"create-dir", "error"}
    OBVIOUS
  <2> HIDE DEF r, at
  <2>5. job' \in [Jobs -> Job] /\ job'[j].at = at /\ \A k \in Jobs \ {j} : job'[k] = job[k]
    BY <1>0, <2>1, <2>2
  <2> QED
    BY <2>1, <2>3, <2>4, <2>5, OutsideStep DEF Working
<1>2. CASE ValidateInputs(j)
  <2> DEFINE at == IF /\ old.facts = {"phase", "backlog", "registered", "atlas"}
                      /\ plan = Absent THEN "copy" ELSE "error"
             r == [job[j] EXCEPT !.verb = "migrate", !.at = at]
  <2>1. job' = [job EXCEPT ![j] = r] /\ UNCHANGED <<old, plan, owner>>
        /\ \A k \in Jobs : Ended(k)
    BY <1>2 DEF ValidateInputs
  <2>2. r \in Job /\ r.at = at /\ r.verb = "migrate"
    BY <1>0 DEF Job, JobSteps
  <2>3. \A k \in Jobs : job[k].at # "copy"
    BY <2>1 DEF Ended
  <2>4. at \in {"copy", "error"} /\ (at = "copy" => plan = Absent)
    OBVIOUS
  <2> HIDE DEF r, at
  <2>5. /\ job' \in [Jobs -> Job] /\ job'[j].at = at /\ job'[j].verb = "migrate"
        /\ \A k \in Jobs \ {j} : job'[k] = job[k]
    BY <1>0, <2>1, <2>2
  <2> QED
    BY <2>1, <2>3, <2>4, <2>5, OutsideStep DEF Working
<1>3. CASE JobKilled(j)
  <2>1. Step(j, "dead") /\ UNCHANGED <<old, plan, owner>>
    BY <1>3 DEF JobKilled
  <2>2. job' \in [Jobs -> Job] /\ job'[j].at = "dead" /\ \A k \in Jobs \ {j} : job'[k] = job[k]
    BY <1>0, <2>1, JobStep DEF JobSteps
  <2> QED
    BY <2>1, <2>2, OutsideStep DEF Working
<1>4. CASE CreateDir(j) /\ plan # Absent
  <2>1. Step(j, "error") /\ UNCHANGED <<old, plan, owner>>
    BY <1>4 DEF CreateDir
  <2>2. job' \in [Jobs -> Job] /\ job'[j].at = "error" /\ \A k \in Jobs \ {j} : job'[k] = job[k]
    BY <1>0, <2>1, JobStep DEF JobSteps
  <2> QED
    BY <2>1, <2>2, OutsideStep DEF Working
<1>5. CASE CreateDir(j) /\ plan = Absent
  <2>1. /\ Step(j, "phase") /\ plan' = NoFiles /\ owner' = j /\ old' = old
        /\ job[j].at = "create-dir"
    BY <1>5 DEF CreateDir, At
  <2>2. job' \in [Jobs -> Job] /\ job'[j].at = "phase" /\ \A k \in Jobs \ {j} : job'[k] = job[k]
    BY <1>0, <2>1, JobStep DEF JobSteps
  <2>3. \A k \in Jobs \ {j} : job[k].at # "copy"
    BY <1>0, <2>1 DEF OneOwner, Ended
  <2>4. plan' \in PlanFiles
    BY <2>1 DEF NoFiles, PlanFiles
  <2>5. Scaffolded(j)' /\ Migrated(j)'
    BY <2>2 DEF Scaffolded, Migrated, AfterPhase, AfterReshape, AfterAttribution, AfterProposal
  <2> QED
    BY <1>5, <2>1, <2>2, <2>3, <2>4, <2>5, OwnerAdvances
<1> QED
  BY <1>1, <1>2, <1>3, <1>4, <1>5

\* A creation writes its files, each in its turn.
LEMMA CreateInv ==
  ASSUME SetupInv, NEW j \in Jobs,
         Scaffold(j) \/ SeedTargetRequests(j) \/ DraftIntents(j) \/ Verify(j)
  PROVE  SetupInv'
<1> USE DEF At
<1>0. job[j].at \in {"phase", "backlog", "intents", "memory", "seed", "spawn", "verify"}
  BY DEF Scaffold, SeedTargetRequests, DraftIntents, Verify
<1>1. /\ SetupTypeOK /\ OneOwner /\ Scaffolded(j) /\ owner = j /\ plan \in PlanFiles
      /\ job[j].at \in Working
  BY <1>0, JobFacts DEF Working
<1>2. /\ UNCHANGED <<old, owner>>
  BY DEF Scaffold, SeedTargetRequests, DraftIntents, Verify
<1>3. ASSUME NEW at \in AfterPhase, Step(j, at), plan' \in PlanFiles, Scaffolded(j)'
      PROVE  SetupInv'
  <2>1. /\ job' \in [Jobs -> Job] /\ job'[j].at = at /\ \A k \in Jobs \ {j} : job'[k] = job[k]
    BY <1>1, <1>3, JobStep DEF JobSteps, AfterPhase
  <2>2. Migrated(j)'
    BY <2>1 DEF Migrated, AfterPhase, AfterReshape, AfterAttribution, AfterProposal
  <2>3. job'[j].at # "copy"
    BY <2>1 DEF AfterPhase
  <2> QED
    BY <1>1, <1>2, <1>3, <2>1, <2>2, <2>3, OwnerAdvances
<1>4. ASSUME NEW at \in AfterPhase \cup {"error"}, Step(j, at)
      PROVE  job'[j].at = at
  BY <1>1, <1>4, JobStep DEF JobSteps, AfterPhase
<1>5. /\ V2(<<>>) \in Documents(ItemV2) /\ V2(<<>>) \in Documents(Intents)
      /\ V2(<<>>) \in Documents(MemoryEntry) /\ V2(<<>>).version = 2
  BY DEF V2, Documents
<1>6. CASE job[j].at = "phase"
  <2>1. Wrote("phase", "triage") /\ Step(j, "backlog")
    BY <1>6 DEF Scaffold, SeedTargetRequests, DraftIntents, Verify
  <2>2. plan' \in PlanFiles /\ plan'.phase = "triage"
    BY <1>1, <2>1, WroteFile DEF NoFiles
  <2>3. Scaffolded(j)'
    BY <1>4, <2>1, <2>2 DEF Scaffolded, AfterPhase
  <2> QED
    BY <1>3, <2>1, <2>2, <2>3 DEF AfterPhase
<1>7. CASE job[j].at = "backlog"
  <2>1. Wrote("backlog", V2(<<>>)) /\ Step(j, "intents")
    BY <1>7 DEF Scaffold, SeedTargetRequests, DraftIntents, Verify
  <2>2. plan' \in PlanFiles /\ plan'.backlog = V2(<<>>) /\ plan'.phase = plan.phase
    BY <1>1, <1>5, <2>1, WroteFile DEF NoFiles
  <2>3. Scaffolded(j)'
    BY <1>1, <1>4, <1>7, <2>1, <2>2 DEF Scaffolded, AfterPhase
  <2> QED
    BY <1>3, <2>1, <2>2, <2>3 DEF AfterPhase
<1>8. CASE job[j].at = "intents"
  <2>1. Wrote("intents", V2(<<>>)) /\ Step(j, "memory")
    BY <1>8 DEF Scaffold, SeedTargetRequests, DraftIntents, Verify
  <2>2. /\ plan' \in PlanFiles /\ plan'.intents = V2(<<>>) /\ plan'.phase = plan.phase
        /\ plan'.backlog = plan.backlog
    BY <1>1, <1>5, <2>1, WroteFile DEF NoFiles
  <2>3. Scaffolded(j)'
    BY <1>1, <1>4, <1>5, <1>8, <2>1, <2>2 DEF Scaffolded, AfterPhase
  <2> QED
    BY <1>3, <2>1, <2>2, <2>3 DEF AfterPhase
<1>9. CASE job[j].at = "memory"
  <2>1. Wrote("memory", V2(<<>>)) /\ Step(j, "seed")
    BY <1>9 DEF Scaffold, SeedTargetRequests, DraftIntents, Verify
  <2>2. /\ plan' \in PlanFiles /\ plan'.memory = V2(<<>>) /\ plan'.phase = plan.phase
        /\ plan'.backlog = plan.backlog /\ plan'.intents = plan.intents
    BY <1>1, <1>5, <2>1, WroteFile DEF NoFiles
  <2>3. Scaffolded(j)'
    BY <1>1, <1>4, <1>9, <2>1, <2>2 DEF Scaffolded, AfterPhase
  <2> QED
    BY <1>3, <2>1, <2>2, <2>3 DEF AfterPhase
<1>10. CASE job[j].at = "seed"
  <2>1. PICK requests \in {{}, {"target"}} : Wrote("requests", requests) /\ Step(j, "spawn")
    BY <1>10 DEF Scaffold, SeedTargetRequests, DraftIntents, Verify
  <2>2. /\ plan' \in PlanFiles /\ plan'.memory = plan.memory /\ plan'.phase = plan.phase
        /\ plan'.backlog = plan.backlog /\ plan'.intents = plan.intents
    BY <1>1, <2>1, WroteFile DEF NoFiles
  <2>3. Scaffolded(j)'
    BY <1>1, <1>4, <1>10, <2>1, <2>2 DEF Scaffolded, AfterPhase
  <2> QED
    BY <1>3, <2>1, <2>2, <2>3 DEF AfterPhase
<1>11. CASE job[j].at = "spawn"
  <2>1. plan.intents \in Documents(Intents) /\ plan.intents.version = 2
    BY <1>1, <1>11 DEF Scaffolded, AfterPhase
  <2>2. PICK n \in 0 .. 1 :
          plan' = [plan EXCEPT !.intents.body = @ \o [i \in 1 .. n |-> "drafted"]]
    BY <1>11 DEF Scaffold, SeedTargetRequests, DraftIntents, Verify
  <2>3. PICK end \in {"verify", "error"} : Step(j, end)
    BY <1>11 DEF Scaffold, SeedTargetRequests, DraftIntents, Verify
  <2> DEFINE drafts == [i \in 1 .. n |-> "drafted"]
             text == [plan.intents EXCEPT !.body = @ \o drafts]
  <2>4. drafts \in Seq(Intents)
    BY DEF Intents
  <2>5. text \in Documents(Intents) /\ text.version = 2
    <3> HIDE DEF drafts
    <3>1. plan.intents.body \o drafts \in Seq(Intents)
      BY <2>1, <2>4 DEF Documents
    <3> QED
      BY <2>1, <3>1 DEF Documents
  <2>6. plan' = [plan EXCEPT !.intents = text]
    BY <1>1, <2>2 DEF PlanFiles
  <2> HIDE DEF text, drafts
  <2>7. Wrote("intents", text)
    BY <2>6 DEF Wrote
  <2>8. /\ plan' \in PlanFiles /\ plan'.intents = text /\ plan'.phase = plan.phase
        /\ plan'.backlog = plan.backlog /\ plan'.memory = plan.memory
    BY <1>1, <2>5, <2>7, WroteFile DEF NoFiles
  <2>9. CASE end = "verify"
    <3>1. Scaffolded(j)'
      BY <1>1, <1>4, <1>11, <2>3, <2>5, <2>8, <2>9 DEF Scaffolded, AfterPhase
    <3> QED
      BY <1>3, <2>3, <2>8, <2>9, <3>1 DEF AfterPhase
  <2>10. CASE end = "error"
    <3>1. /\ job' \in [Jobs -> Job] /\ job'[j].at = "error"
          /\ \A k \in Jobs \ {j} : job'[k] = job[k]
      BY <1>1, <2>3, <2>10, JobStep DEF JobSteps
    <3>2. Scaffolded(j)' /\ Migrated(j)'
      BY <3>1, NotWorking DEF Working
    <3> QED
      BY <1>1, <1>2, <2>8, <3>1, <3>2, OwnerAdvances
  <2> QED
    BY <2>3, <2>9, <2>10
<1>12. CASE job[j].at = "verify"
  <2>1. /\ Step(j, IF plan.intents.body = <<>> THEN "warned" ELSE "created")
        /\ plan' = plan
    BY <1>12 DEF Scaffold, SeedTargetRequests, DraftIntents, Verify
  <2>2. CASE plan.intents.body = <<>>
    <3>1. Step(j, "warned")
      BY <2>1, <2>2
    <3>2. Scaffolded(j)'
      BY <1>1, <1>4, <1>12, <2>1, <2>2, <3>1 DEF Scaffolded, AfterPhase
    <3> QED
      BY <1>1, <1>3, <2>1, <3>1, <3>2 DEF AfterPhase
  <2>3. CASE plan.intents.body # <<>>
    <3>1. Step(j, "created")
      BY <2>1, <2>3
    <3>2. Scaffolded(j)'
      BY <1>1, <1>4, <1>12, <2>1, <2>3, <3>1 DEF Scaffolded, AfterPhase
    <3> QED
      BY <1>1, <1>3, <2>1, <3>1, <3>2 DEF AfterPhase
  <2> QED
    BY <2>2, <2>3
<1> QED
  BY <1>0, <1>6, <1>7, <1>8, <1>9, <1>10, <1>11, <1>12

\* A migration writes its files, each in its turn.
LEMMA MigrateInv ==
  ASSUME SetupInv, NEW j \in Jobs,
         \/ CopyPlanState(j) \/ TransformBacklog(j) \/ TransformMemory(j) \/ ProposeIntents(j)
         \/ WriteIntents(j) \/ AttributeItems(j) \/ ApplyTargets(j) \/ ApplyMemory(j)
  PROVE  SetupInv'
<1> USE DEF At
<1> DEFINE Later == {"reshape"} \cup AfterReshape \cup AfterAttribution
           p == job[j].proposal
<1>1. /\ SetupTypeOK /\ OneOwner /\ Migrated(j) /\ job \in [Jobs -> Job] /\ job[j] \in Job
      /\ \A k \in Jobs \ {j} : owner = j => job[k].at # "copy"
  BY JobFacts, AbsentAssumption DEF OneOwner
<1>2. ASSUME NEW at \in Later \cup {"error"}, Step(j, at)
      PROVE  /\ job' \in [Jobs -> Job] /\ \A k \in Jobs \ {j} : job'[k] = job[k]
             /\ job'[j].at = at /\ job'[j].proposal = p
             /\ at = "error" => Migrated(j)'
  <2>1. at \in JobSteps
    BY DEF JobSteps, AfterReshape, AfterAttribution
  <2>2. /\ job' \in [Jobs -> Job] /\ \A k \in Jobs \ {j} : job'[k] = job[k]
        /\ job'[j].at = at /\ job'[j].proposal = p
    BY <1>1, <1>2, <2>1, JobStep
  <2>3. at = "error" => Migrated(j)'
    BY <2>2, NotWorking DEF Working
  <2> QED
    BY <2>2, <2>3
<1>3. ASSUME NEW at \in Later \cup {"error"}, Step(j, at), old' = old, plan' \in PlanFiles, owner' = j,
             owner = j \/ (plan = Absent /\ \A k \in Jobs \ {j} : job[k].at # "copy"),
             at # "error" => Migrated(j)'
      PROVE  SetupInv'
  <2>1. Scaffolded(j)'
    BY <1>2, <1>3 DEF Scaffolded, AfterPhase, AfterReshape, AfterAttribution
  <2>2. job'[j].at # "copy"
    BY <1>2, <1>3 DEF AfterReshape, AfterAttribution
  <2> QED
    BY <1>2, <1>3, <2>1, <2>2, OwnerAdvances
<1> HIDE DEF p
<1>4. ASSUME job[j].at \in Working
      PROVE  owner = j /\ plan \in PlanFiles
  BY <1>4, JobFacts
<1>5. old.memory # Absent => Entries \in Seq(MemoryEntry) /\ V2(Entries) \in Documents(MemoryEntry)
  BY <1>1, EntriesType, DocumentType
<1>6. CASE CopyPlanState(j)
  <2> DEFINE end == IF plan'.backlog # Absent /\ (plan'.memory = Absent) = (old.memory = Absent)
                      THEN "reshape" ELSE "error"
             backlog == V1(old.tasks)
             memory == IF old.memory = Absent THEN Absent ELSE V1(Entries)
  <2>1. /\ job[j].at = "copy" /\ owner' = j /\ old' = old /\ Step(j, end)
        /\ plan' \in { NoFiles, [NoFiles EXCEPT !.phase = "copied"],
                       [NoFiles EXCEPT !.phase = "copied", !.backlog = backlog],
                       [NoFiles EXCEPT !.phase = "copied", !.backlog = backlog, !.memory = memory] }
    BY <1>6 DEF CopyPlanState
  <2>2. plan = Absent /\ \A k \in Jobs \ {j} : job[k].at # "copy"
    BY <1>1, <2>1 DEF OneOwner, Ended
  <2>3. backlog \in Documents(OldTasks)
    <3>1. old.tasks \in Seq(OldTasks)
      BY <1>1, OldPlansAssumption DEF SetupTypeOK
    <3> QED
      BY <3>1 DEF V1, Documents
  <2>4. memory \in {Absent} \cup Documents(MemoryEntry)
    BY <1>5 DEF V1, Documents
  <2> HIDE DEF backlog, memory, Documents
  <2>5. plan' \in PlanFiles /\ (plan'.backlog # Absent => plan'.phase = "copied")
    <3> DEFINE B == {Absent} \cup Documents(OldTasks) \cup Documents(ItemV2)
               N == {Absent} \cup Documents(Intents)
               M == {Absent} \cup Documents(MemoryEntry)
               Copied(a, b, m) == [phase |-> a, backlog |-> b, intents |-> Absent, memory |-> m,
                                   requests |-> {}]
    <3>1. backlog \in B /\ memory \in M /\ Absent \in B /\ Absent \in N /\ Absent \in M
      BY <2>3, <2>4
    <3>2. PlanFiles = [phase : {Absent, "triage", "copied"}, backlog : B, intents : N,
                       memory : M, requests : {{}, {"target"}}]
      BY DEF PlanFiles
    <3> HIDE DEF B, N, M
    <3>3. \/ plan' = Copied(Absent, Absent, Absent) \/ plan' = Copied("copied", Absent, Absent)
          \/ plan' = Copied("copied", backlog, Absent) \/ plan' = Copied("copied", backlog, memory)
      BY <2>1 DEF NoFiles
    <3> QED
      BY <3>1, <3>2, <3>3
  <2>6. end \in {"reshape", "error"}
        /\ (end = "reshape" => plan'.backlog # Absent /\ ((plan'.memory = Absent) <=> (old.memory = Absent)))
    OBVIOUS
  <2> HIDE DEF end
  <2>7. end = "reshape" => Migrated(j)'
    BY <1>2, <2>1, <2>5, <2>6 DEF Migrated, AfterReshape, AfterAttribution, AfterProposal
  <2>8. Step(j, end) /\ old' = old /\ owner' = j
    BY <2>1
  <2>9. end \in Later \cup {"error"}
    BY <2>6
  <2> HIDE DEF Later
  <2> QED
    BY <1>3, <2>2, <2>5, <2>6, <2>7, <2>8, <2>9
<1>7. CASE TransformBacklog(j)
  <2>1. job[j].at = "reshape" /\ UNCHANGED <<old, owner>>
    BY <1>7 DEF TransformBacklog
  <2>2. owner = j /\ plan \in PlanFiles
    BY <1>4, <2>1 DEF Working
  <2>3. plan.phase = "copied" /\ (plan.memory = Absent <=> old.memory = Absent)
    BY <1>1, <2>1 DEF Migrated
  <2>4. CASE Step(j, "error") /\ plan' = plan
    BY <1>3, <2>1, <2>2, <2>4
  <2>5. CASE /\ Wrote("backlog", V2(Reshapes))
             /\ Step(j, IF plan.memory = Absent THEN "intent" ELSE "reshape-memory")
    <3>1. V2(Reshapes) \in Documents(ItemV2)
      BY <1>1, ReshapesType, DocumentType
    <3>2. /\ plan' \in PlanFiles /\ plan'.backlog = V2(Reshapes) /\ plan'.phase = "copied"
          /\ plan'.memory = plan.memory
      BY <2>2, <2>3, <2>5, <3>1, WroteFile DEF NoFiles
    <3>3. Reshapes' = Reshapes
      BY <2>1 DEF Reshapes
    <3>4. CASE plan.memory = Absent
      <4>1. Step(j, "intent")
        BY <2>5, <3>4
      <4>2. Migrated(j)'
        BY <1>2, <2>1, <2>3, <3>2, <3>3, <3>4, <4>1
           DEF Migrated, AfterReshape, AfterAttribution, AfterProposal
      <4> QED
        BY <1>3, <2>1, <2>2, <3>2, <4>1, <4>2 DEF AfterReshape
    <3>5. CASE plan.memory # Absent
      <4>1. Step(j, "reshape-memory")
        BY <2>5, <3>5
      <4>2. Migrated(j)'
        BY <1>2, <2>1, <2>3, <3>2, <3>3, <3>5, <4>1
           DEF Migrated, AfterReshape, AfterAttribution, AfterProposal
      <4> QED
        BY <1>3, <2>1, <2>2, <3>2, <4>1, <4>2 DEF AfterReshape
    <3> QED
      BY <3>4, <3>5
  <2> QED
    BY <1>7, <2>4, <2>5 DEF TransformBacklog, Reshapes
<1>8. CASE TransformMemory(j)
  <2>1. /\ job[j].at = "reshape-memory" /\ UNCHANGED <<old, owner>> /\ Wrote("memory", V2(Entries))
        /\ Step(j, "intent")
    BY <1>8 DEF TransformMemory
  <2>2. owner = j /\ plan \in PlanFiles
    BY <1>4, <2>1 DEF Working
  <2>3. plan.phase = "copied" /\ old.memory # Absent /\ plan.backlog = V2(Reshapes)
    BY <1>1, <2>1 DEF Migrated, AfterReshape
  <2>4. /\ plan' \in PlanFiles /\ plan'.memory = V2(Entries) /\ plan'.phase = "copied"
        /\ plan'.backlog = V2(Reshapes)
    BY <1>5, <2>1, <2>2, <2>3, WroteFile DEF NoFiles
  <2>5. Reshapes' = Reshapes /\ Entries' = Entries
    BY <2>1 DEF Reshapes, Entries
  <2>6. Migrated(j)'
    BY <1>2, <2>1, <2>3, <2>4, <2>5
       DEF Migrated, AfterReshape, AfterAttribution, AfterProposal
  <2> QED
    BY <1>3, <2>1, <2>2, <2>4, <2>6 DEF AfterReshape
<1>9. CASE ProposeIntents(j)
  <2>1. job[j].at = "intent" /\ UNCHANGED <<old, plan, owner>>
    BY <1>9 DEF ProposeIntents
  <2>2. owner = j /\ plan \in PlanFiles
    BY <1>4, <2>1 DEF Working
  <2>3. PICK q \in Proposals \cup {Absent} :
          job' = [job EXCEPT ![j].proposal = q,
                             ![j].at = IF q = Absent THEN "error" ELSE "write-intents"]
    BY <1>9 DEF ProposeIntents
  <2> DEFINE at == IF q = Absent THEN "error" ELSE "write-intents"
             r == [job[j] EXCEPT !.proposal = q, !.at = at]
  <2>4. job' = [job EXCEPT ![j] = r]
    BY <1>1, <2>3
  <2>5. r \in Job /\ r.at = at /\ r.proposal = q
    BY <1>1 DEF Job, JobSteps
  <2> HIDE DEF r
  <2>6. /\ job' \in [Jobs -> Job] /\ job'[j].at = at /\ job'[j].proposal = q
        /\ \A k \in Jobs \ {j} : job'[k] = job[k]
    BY <1>1, <2>4, <2>5
  <2>7. Scaffolded(j)' /\ job'[j].at # "copy"
    BY <2>6 DEF Scaffolded, AfterPhase
  <2>8. Reshapes' = Reshapes /\ Entries' = Entries
    BY <2>1 DEF Reshapes, Entries
  <2>9. Migrated(j)'
    <3>1. CASE q = Absent
      BY <2>6, <3>1, NotWorking DEF Working
    <3>2. CASE q # Absent
      BY <1>1, <2>1, <2>6, <2>8, <3>2
         DEF Migrated, AfterReshape, AfterAttribution, AfterProposal
    <3> QED
      BY <3>1, <3>2
  <2> QED
    BY <2>1, <2>2, <2>6, <2>7, <2>9, OwnerAdvances
<1>10. CASE WriteIntents(j)
  <2>1. /\ job[j].at = "write-intents" /\ UNCHANGED <<old, owner>>
        /\ Wrote("intents", V2(p.intents)) /\ Step(j, "attribute")
    BY <1>10 DEF WriteIntents, p
  <2>2. owner = j /\ plan \in PlanFiles
    BY <1>4, <2>1 DEF Working
  <2>3. /\ plan.phase = "copied" /\ plan.backlog = V2(Reshapes) /\ p \in Proposals
        /\ plan.memory = IF old.memory = Absent THEN Absent ELSE V2(Entries)
    BY <1>1, <2>1 DEF Migrated, AfterReshape, AfterProposal, p
  <2>4. V2(p.intents) \in Documents(Intents)
    BY <2>3, ProposalsAssumption, DocumentType
  <2>5. /\ plan' \in PlanFiles /\ plan'.intents = V2(p.intents) /\ plan'.phase = "copied"
        /\ plan'.backlog = V2(Reshapes) /\ plan'.memory = plan.memory
    BY <2>1, <2>2, <2>3, <2>4, WroteFile DEF NoFiles
  <2>6. Reshapes' = Reshapes /\ Entries' = Entries
    BY <2>1 DEF Reshapes, Entries
  <2>7. Migrated(j)'
    BY <1>2, <2>1, <2>3, <2>5, <2>6
       DEF Migrated, AfterReshape, AfterAttribution, AfterProposal
  <2> QED
    BY <1>3, <2>1, <2>2, <2>5, <2>7 DEF AfterReshape
<1>11. CASE AttributeItems(j)
  <2>1. job[j].at = "attribute" /\ UNCHANGED <<old, owner>>
    BY <1>11 DEF AttributeItems
  <2>2. owner = j /\ plan \in PlanFiles
    BY <1>4, <2>1 DEF Working
  <2>3. /\ plan.phase = "copied" /\ plan.backlog = V2(Reshapes) /\ p \in Proposals
        /\ plan.intents = V2(p.intents)
        /\ plan.memory = IF old.memory = Absent THEN Absent ELSE V2(Entries)
    BY <1>1, <2>1 DEF Migrated, AfterReshape, AfterProposal, p
  <2>4. plan.backlog.body = Reshapes
    BY <1>1, <2>3, ReshapesType, DocumentType
  <2>5. CASE Step(j, "error") /\ plan' = plan
    BY <1>3, <2>1, <2>2, <2>5
  <2>6. CASE Wrote("backlog", V2(Applied(p))) /\ Step(j, "targets")
    <3>1. V2(Applied(p)) \in Documents(ItemV2)
      BY <1>1, <2>3, AppliedType, DocumentType
    <3>2. /\ plan' \in PlanFiles /\ plan'.backlog = V2(Applied(p)) /\ plan'.phase = "copied"
          /\ plan'.intents = plan.intents /\ plan'.memory = plan.memory
      BY <2>2, <2>3, <2>6, <3>1, WroteFile DEF NoFiles
    <3>4. Reshapes' = Reshapes /\ Entries' = Entries
      BY <2>1 DEF Reshapes, Entries
    <3>5. Migrated(j)'
      BY <1>2, <2>1, <2>3, <2>6, <3>2, <3>4
         DEF Migrated, AfterReshape, AfterAttribution, AfterProposal, Applied
    <3> QED
      BY <1>3, <2>1, <2>2, <2>6, <3>2, <3>5 DEF AfterAttribution
  <2> QED
    BY <1>11, <2>4, <2>5, <2>6 DEF AttributeItems, Applied, p
<1>12. CASE ApplyTargets(j)
  <2>1. job[j].at = "targets" /\ UNCHANGED <<old, plan, owner>>
    BY <1>12 DEF ApplyTargets
  <2>2. owner = j /\ plan \in PlanFiles
    BY <1>4, <2>1 DEF Working
  <2>3. PICK end \in {"backfill", "error"} : Step(j, end)
    BY <1>12 DEF ApplyTargets
  <2>4. Reshapes' = Reshapes /\ Entries' = Entries
    BY <2>1 DEF Reshapes, Entries
  <2>5. end = "backfill" => Migrated(j)'
    BY <1>1, <1>2, <2>1, <2>3, <2>4
       DEF Migrated, AfterReshape, AfterAttribution, AfterProposal, Applied, p
  <2> QED
    BY <1>3, <2>1, <2>2, <2>3, <2>5 DEF AfterAttribution
<1>13. CASE ApplyMemory(j)
  <2>1. job[j].at = "backfill" /\ UNCHANGED <<old, owner>>
    BY <1>13 DEF ApplyMemory
  <2>2. owner = j /\ plan \in PlanFiles
    BY <1>4, <2>1 DEF Working
  <2>3. /\ plan.phase = "copied" /\ plan.backlog = V2(Applied(p)) /\ p \in Proposals
        /\ plan.intents = V2(p.intents)
        /\ plan.memory = IF old.memory = Absent THEN Absent ELSE V2(Entries)
    BY <1>1, <2>1 DEF Migrated, AfterAttribution, AfterProposal, p
  <2>4. CASE plan.memory = Absent
    <3>1. Step(j, "error") /\ plan' = plan
      BY <1>13, <2>4 DEF ApplyMemory
    <3> QED
      BY <1>3, <2>1, <2>2, <3>1
  <2>5. CASE plan.memory # Absent
    <3>1. PICK marks \in [DOMAIN plan.memory.body -> {"active", "attributed", "legacy"}] :
            /\ Wrote("memory", V2([i \in DOMAIN marks |-> [plan.memory.body[i] EXCEPT !.mark = marks[i]]]))
            /\ Step(j, "done")
      BY <1>13, <2>5 DEF ApplyMemory
    <3>2. old.memory # Absent /\ plan.memory = V2(Entries)
      BY <2>3, <2>5
    <3>3. plan.memory.body = Entries
      BY <3>2 DEF V2
    <3> DEFINE body == [i \in DOMAIN Entries |-> [Entries[i] EXCEPT !.mark = marks[i]]]
    <3>4. marks \in [DOMAIN Entries -> {"active", "attributed", "legacy"}]
          /\ Wrote("memory", V2(body))
      BY <3>1, <3>3
    <3>5. /\ Entries \in Seq(MemoryEntry) /\ DOMAIN Entries = DOMAIN old.memory
          /\ old.memory \in Seq(MemoryIds)
          /\ \A i \in DOMAIN old.memory : Entries[i].id = old.memory[i]
      BY <1>1, <3>2, EntriesType
    <3>6. body \in Seq(MemoryEntry) /\ [i \in DOMAIN body |-> body[i].id] = old.memory
      <4>1. DOMAIN old.memory = 1 .. Len(old.memory) /\ Len(old.memory) \in Nat
        BY <3>5
      <4>2. \A i \in 1 .. Len(old.memory) :
              Entries[i] \in MemoryEntry /\ marks[i] \in {"active", "attributed", "legacy"}
        BY <3>4, <3>5, <4>1
      <4>3. \A i \in 1 .. Len(old.memory) : /\ [Entries[i] EXCEPT !.mark = marks[i]] \in MemoryEntry
                                            /\ [Entries[i] EXCEPT !.mark = marks[i]].id = old.memory[i]
        BY <3>5, <4>1, <4>2 DEF MemoryEntry
      <4>4. body = [i \in 1 .. Len(old.memory) |-> [Entries[i] EXCEPT !.mark = marks[i]]]
        BY <3>5, <4>1
      <4>5. body \in [1 .. Len(old.memory) -> MemoryEntry]
            /\ \A i \in 1 .. Len(old.memory) : body[i].id = old.memory[i]
        BY <4>3, <4>4
      <4> HIDE DEF body
      <4>6. body \in Seq(MemoryEntry)
        BY <4>1, <4>5
      <4>7. DOMAIN body = 1 .. Len(old.memory)
        BY <4>5
      <4>8. old.memory = [i \in 1 .. Len(old.memory) |-> old.memory[i]]
        BY <3>5, <4>1
      <4> QED
        BY <4>5, <4>6, <4>7, <4>8
    <3> HIDE DEF body
    <3>7. V2(body) \in Documents(MemoryEntry) /\ V2(body).version = 2 /\ V2(body).body = body
      BY <3>6, DocumentType
    <3>8. /\ plan' \in PlanFiles /\ plan'.memory = V2(body) /\ plan'.phase = "copied"
          /\ plan'.backlog = plan.backlog /\ plan'.intents = plan.intents
      BY <2>2, <2>3, <3>4, <3>7, WroteFile DEF NoFiles
    <3>9. Reshapes' = Reshapes /\ Entries' = Entries
      BY <2>1 DEF Reshapes, Entries
    <3>10. Step(j, "done")
      BY <3>1
    <3>11. "done" \in Later \cup {"error"}
      BY DEF AfterAttribution
    <3>12. Migrated(j)'
      <4>1. job'[j].at = "done" /\ job'[j].proposal = p
        BY <1>2, <3>10, <3>11
      <4>2. plan'.backlog = V2(Applied(p)) /\ plan'.intents = V2(p.intents) /\ p \in Proposals
            /\ old'.memory = old.memory
        BY <2>1, <2>3, <3>8
      <4>3. plan'.memory \in Documents(MemoryEntry) /\ plan'.memory.version = 2 /\ plan'.memory.body = body
        BY <3>7, <3>8
      <4>4. [i \in DOMAIN plan'.memory.body |-> plan'.memory.body[i].id] = old'.memory
        BY <3>6, <4>2, <4>3
      <4>5. V2(Applied(job[j].proposal))' = V2(Applied(p))
        BY <3>9, <4>1 DEF Applied
      <4>6. job[j].proposal' = p /\ (job[j].at = "done")' /\ "done" \notin {"reshape", "intent"} \cup AfterReshape
        BY <4>1 DEF AfterReshape
      <4> QED
        BY <3>2, <3>8, <4>2, <4>3, <4>4, <4>5, <4>6 DEF Migrated, AfterReshape, AfterAttribution, AfterProposal
    <3> HIDE DEF Later
    <3> QED
      BY <1>3, <2>1, <2>2, <3>8, <3>12, <3>10, <3>11
  <2> QED
    BY <2>4, <2>5
<1> QED
  BY <1>6, <1>7, <1>8, <1>9, <1>10, <1>11, <1>12, <1>13

\* No job has begun.
LEMMA SetupInitInv == SetupInit => SetupInv
<1> SUFFICES ASSUME NEW o \in OldPlans, SetupStart(o)
             PROVE  SetupInv
  BY DEF SetupInit
<1>1. job \in [Jobs -> Job] /\ \A j \in Jobs : job[j].at = "idle"
  BY DEF SetupStart, NotStarted, Job, JobSteps
<1>2. SetupTypeOK
  BY <1>1 DEF SetupStart, SetupTypeOK
<1>3. OneOwner
  BY <1>1 DEF SetupStart, OneOwner, Working
<1>4. \A j \in Jobs : Scaffolded(j) /\ Migrated(j)
  BY <1>1 DEF Scaffolded, Migrated, AfterPhase, AfterReshape, AfterAttribution, AfterProposal
<1> QED
  BY <1>2, <1>3, <1>4 DEF SetupInv

\* Every step of a job keeps the invariant of plan files.
LEMMA SetupNextInv == SetupInv /\ [SetupNext]_setup_vars => SetupInv'
<1> SUFFICES ASSUME SetupInv, [SetupNext]_setup_vars
             PROVE  SetupInv'
  OBVIOUS
<1>1. CASE SetupNext
  <2>1. PICK j \in Jobs : RunCreate(j) \/ RunMigrate(j) \/ JobKilled(j)
    BY <1>1 DEF SetupNext
  <2> QED
    BY <2>1, ReserveInv, CreateInv, MigrateInv DEF RunCreate, RunMigrate
<1>2. CASE UNCHANGED setup_vars
  <2>1. SetupTypeOK' /\ OneOwner'
    BY <1>2 DEF setup_vars, SetupInv, SetupTypeOK, OneOwner, Ended
  <2>2. \A j \in Jobs : Scaffolded(j)' /\ Migrated(j)'
    BY <1>2, WrittenStays DEF setup_vars, SetupInv
  <2> QED
    BY <2>1, <2>2 DEF SetupInv
<1> QED
  BY <1>1, <1>2

\* The invariant of plan files holds in every state.
LEMMA SetupAlways == SetupSpec => []SetupInv
<1>1. SetupInit => SetupInv
  BY SetupInitInv
<1>2. SetupInv /\ [SetupNext]_setup_vars => SetupInv'
  BY SetupNextInv
<1> QED
  BY <1>1, <1>2, PTL DEF SetupSpec

\* An item of the new backlog says of a task what the old plan and the proposal say.
Carries(item, task, serves) ==
  LET said == {s[2] : s \in {s \in serves : s[1] = item.id}}
  IN /\ item.id = task.id /\ item.deps = task.deps
     /\ item.status = "done" <=> task.status = "done"
     /\ item.status = "blocked" <=> task.status = "blocked"
     /\ {n \in said : <<"serves", n>> \in item.why} \cup (IF item.legacy THEN {"legacy"} ELSE {}) = said

\* What the two transformations make of one task.
LEMMA ReshapedTask ==
  ASSUME SetupTypeOK, NEW p \in Proposals, NEW i \in DOMAIN old.tasks
  PROVE  Carries(Applied(p)[i], old.tasks[i], p.serves)
<1> DEFINE mine == {s[2] : s \in {s \in p.serves : s[1] = Reshapes[i].id}}
           why == Reshapes[i].why \cup {<<"serves", n>> : n \in mine \ {"legacy"}}
           item == Applied(p)[i]
<1>1. DOMAIN Reshapes = DOMAIN old.tasks /\ Reshapes[i] = Reshaped(old.tasks[i])
  BY ReshapesType
<1>2. item = Attributed(Reshapes, p.serves)[i]
  BY DEF Applied
<1>3. item = [Reshapes[i] EXCEPT !.legacy = "legacy" \in mine, !.why = why]
  <2> DEFINE its(k) == {s[2] : s \in {s \in p.serves : s[1] = Reshapes[k].id}}
             new(k) == [Reshapes[k] EXCEPT !.legacy = "legacy" \in its(k),
                          !.why = @ \cup {<<"serves", n>> : n \in its(k) \ {"legacy"}}]
  <2>1. Attributed(Reshapes, p.serves) = [k \in DOMAIN Reshapes |-> new(k)]
    BY DEF Attributed
  <2>2. new(i) = [Reshapes[i] EXCEPT !.legacy = "legacy" \in mine, !.why = why]
    BY <1>1 DEF Reshaped
  <2> HIDE DEF new, item, mine, why
  <2> QED
    BY <1>1, <1>2, <2>1, <2>2
<1>4. /\ Reshapes[i].id = old.tasks[i].id /\ Reshapes[i].deps = old.tasks[i].deps
      /\ Reshapes[i].status = MapStatus(old.tasks[i].status)
      /\ Reshapes[i].why \subseteq {<<"rationale">>}
  BY <1>1 DEF Reshaped
<1>5. /\ item.id = old.tasks[i].id /\ item.deps = old.tasks[i].deps
      /\ item.status = MapStatus(old.tasks[i].status)
      /\ item.why = why /\ item.legacy = ("legacy" \in mine)
  BY <1>1, <1>3, <1>4 DEF Reshaped
<1>6. {s[2] : s \in {s \in p.serves : s[1] = item.id}} = mine
  BY <1>4, <1>5
<1>7. /\ item.status = "done" <=> old.tasks[i].status = "done"
      /\ item.status = "blocked" <=> old.tasks[i].status = "blocked"
  BY <1>5 DEF MapStatus
<1>8. \A n \in mine : <<"serves", n>> \in why <=> n # "legacy"
  BY <1>4
<1> HIDE DEF why, mine, item
<1>9. {n \in mine : <<"serves", n>> \in item.why}
        \cup (IF item.legacy THEN {"legacy"} ELSE {}) = mine
  BY <1>5, <1>8
<1> QED
  BY <1>5, <1>6, <1>7, <1>9 DEF item, Carries

\* A job that reports success leaves a plan that reads.
LEMMA FinishedWhole == SetupInv => FinishedPlanIsWhole
<1> SUFFICES ASSUME SetupInv, NEW j \in Jobs
             PROVE  /\ At(j, "created") \/ At(j, "warned") =>
                         /\ plan.phase = "triage"
                         /\ \A f \in Known : plan[f] # Absent /\ plan[f].version = 2
                         /\ At(j, "created") = (plan.intents.body # <<>>)
                    /\ At(j, "done") =>
                         /\ plan.phase = "copied"
                         /\ \A f \in Known : plan[f] # Absent /\ plan[f].version = 2
                         /\ [i \in DOMAIN plan.memory.body |-> plan.memory.body[i].id] = old.memory
                         /\ Len(plan.backlog.body) = Len(old.tasks)
                         /\ \A i \in DOMAIN old.tasks :
                              Carries(plan.backlog.body[i], old.tasks[i], job[j].proposal.serves)
  BY Zenon DEF FinishedPlanIsWhole, Carries
<1>1. SetupTypeOK /\ Scaffolded(j) /\ Migrated(j)
  BY JobFacts
<1>2. \A x \in Documents(ItemV2) \cup Documents(Intents) \cup Documents(MemoryEntry) : x # Absent
  BY AbsentAssumption
<1>3. /\ V2(<<>>) \in Documents(ItemV2) /\ V2(<<>>) \in Documents(MemoryEntry)
      /\ V2(<<>>).version = 2
  BY DEF V2, Documents
<1>4. ASSUME job[j].at \in {"created", "warned"}
      PROVE  /\ plan.phase = "triage"
             /\ \A f \in Known : plan[f] # Absent /\ plan[f].version = 2
             /\ (job[j].at = "created") = (plan.intents.body # <<>>)
  BY <1>1, <1>2, <1>3, <1>4 DEF Scaffolded, AfterPhase, Known
<1>5. ASSUME job[j].at = "done"
      PROVE  /\ plan.phase = "copied"
             /\ \A f \in Known : plan[f] # Absent /\ plan[f].version = 2
             /\ [i \in DOMAIN plan.memory.body |-> plan.memory.body[i].id] = old.memory
             /\ job[j].proposal \in Proposals
             /\ plan.backlog.body = Applied(job[j].proposal)
  <2> DEFINE p == job[j].proposal
  <2>1. /\ plan.phase = "copied" /\ p \in Proposals /\ plan.backlog = V2(Applied(p))
        /\ plan.intents = V2(p.intents)
        /\ plan.memory \in Documents(MemoryEntry) /\ plan.memory.version = 2
        /\ [i \in DOMAIN plan.memory.body |-> plan.memory.body[i].id] = old.memory
    BY <1>1, <1>5 DEF Migrated, AfterAttribution, AfterProposal
  <2> HIDE DEF p
  <2>2. /\ plan.backlog \in Documents(ItemV2) /\ plan.backlog.version = 2
        /\ plan.backlog.body = Applied(p)
    BY <1>1, <2>1, AppliedType, DocumentType
  <2>3. plan.intents \in Documents(Intents) /\ plan.intents.version = 2
    BY <2>1, ProposalsAssumption, DocumentType
  <2>4. \A f \in Known : plan[f] # Absent /\ plan[f].version = 2
    BY <1>2, <2>1, <2>2, <2>3 DEF Known
  <2> QED
    BY <2>1, <2>2, <2>4 DEF p
<1>6. ASSUME job[j].at = "done"
      PROVE  /\ Len(plan.backlog.body) = Len(old.tasks)
             /\ \A i \in DOMAIN old.tasks :
                  Carries(plan.backlog.body[i], old.tasks[i], job[j].proposal.serves)
  <2>1. job[j].proposal \in Proposals /\ plan.backlog.body = Applied(job[j].proposal)
    BY <1>5, <1>6
  <2> QED
    BY <1>1, <2>1, AppliedType, ReshapedTask
<1> QED
  BY <1>4, <1>5, <1>6, Zenon DEF At

\* A step that changes the plan is one of the job it belongs to.
LEMMA PlanStep ==
  ASSUME SetupInv, SetupNext, plan' # plan
  PROVE  /\ owner' \in Jobs /\ job'[owner'].at # job[owner'].at
         /\ owner # Absent => owner' = owner
<1>1. PICK j \in Jobs : RunCreate(j) \/ RunMigrate(j) \/ JobKilled(j)
  BY DEF SetupNext
<1>2. /\ SetupTypeOK /\ OneOwner
      /\ job[j].at \in Working => owner = j
  BY JobFacts
<1>3. ASSUME NEW at \in JobSteps, Step(j, at), at # job[j].at, owner' = j, owner = Absent \/ owner = j
      PROVE  /\ owner' \in Jobs /\ job'[owner'].at # job[owner'].at
             /\ owner # Absent => owner' = owner
  <2>1. SetupTypeOK /\ Step(j, at)
    BY <1>2, <1>3
  <2>2. job'[j].at = at
    BY <2>1, JobStep
  <2> QED
    BY <1>3, <2>2
<1>4. CASE CreateDir(j)
  <2>1. /\ plan = Absent /\ owner' = j /\ Step(j, "phase") /\ job[j].at = "create-dir"
    BY <1>4 DEF CreateDir, At
  <2> QED
    BY <1>2, <1>3, <2>1 DEF OneOwner, JobSteps
<1>5. CASE CopyPlanState(j)
  <2>1. owner' = j /\ job[j].at = "copy"
        /\ (Step(j, "reshape") \/ Step(j, "error"))
    BY <1>5 DEF CopyPlanState, At
  <2>2. owner = Absent
    BY <1>2, <2>1 DEF OneOwner
  <2> QED
    BY <1>3, <2>1, <2>2 DEF JobSteps
<1>6. ASSUME job[j].at \in Working, owner' = owner,
             NEW at \in JobSteps, Step(j, at), at # job[j].at
      PROVE  /\ owner' \in Jobs /\ job'[owner'].at # job[owner'].at
             /\ owner # Absent => owner' = owner
  BY <1>2, <1>3, <1>6
<1>7. CASE Scaffold(j)
  <2>1. /\ job[j].at \in {"phase", "backlog", "intents", "memory"} /\ owner' = owner
        /\ \E at \in {"backlog", "intents", "memory", "seed"} : Step(j, at) /\ at # job[j].at
    BY <1>7 DEF Scaffold, At
  <2> QED
    BY <1>6, <2>1 DEF JobSteps, Working
<1>8. CASE SeedTargetRequests(j)
  <2>1. job[j].at = "seed" /\ owner' = owner /\ Step(j, "spawn")
    BY <1>8 DEF SeedTargetRequests, At
  <2> QED
    BY <1>6, <2>1 DEF JobSteps, Working
<1>9. CASE DraftIntents(j)
  <2>1. job[j].at = "spawn" /\ owner' = owner /\ \E end \in {"verify", "error"} : Step(j, end)
    BY <1>9 DEF DraftIntents, At
  <2> QED
    BY <1>6, <2>1 DEF JobSteps, Working
<1>10. CASE TransformBacklog(j)
  <2>1. /\ job[j].at = "reshape" /\ owner' = owner
        /\ Step(j, IF plan.memory = Absent THEN "intent" ELSE "reshape-memory")
    BY <1>10 DEF TransformBacklog, At
  <2> QED
    BY <1>6, <2>1 DEF JobSteps, Working
<1>11. CASE TransformMemory(j)
  <2>1. job[j].at = "reshape-memory" /\ owner' = owner /\ Step(j, "intent")
    BY <1>11 DEF TransformMemory, At
  <2> QED
    BY <1>6, <2>1 DEF JobSteps, Working
<1>12. CASE WriteIntents(j)
  <2>1. job[j].at = "write-intents" /\ owner' = owner /\ Step(j, "attribute")
    BY <1>12 DEF WriteIntents, At
  <2> QED
    BY <1>6, <2>1 DEF JobSteps, Working
<1>13. CASE AttributeItems(j)
  <2>1. job[j].at = "attribute" /\ owner' = owner /\ Step(j, "targets")
    BY <1>13 DEF AttributeItems, At
  <2> QED
    BY <1>6, <2>1 DEF JobSteps, Working
<1>14. CASE ApplyMemory(j)
  <2>1. job[j].at = "backfill" /\ owner' = owner /\ Step(j, "done")
    BY <1>14 DEF ApplyMemory, At
  <2> QED
    BY <1>6, <2>1 DEF JobSteps, Working
<1>15. \/ ResolvePlanDir(j) \/ Verify(j) \/ ValidateInputs(j) \/ ProposeIntents(j)
       \/ ApplyTargets(j) \/ JobKilled(j)
       => UNCHANGED plan
  BY DEF ResolvePlanDir, Verify, ValidateInputs, ProposeIntents, ApplyTargets, JobKilled
<1> QED
  BY <1>1, <1>4, <1>5, <1>7, <1>8, <1>9, <1>10, <1>11, <1>12, <1>13, <1>14, <1>15
     DEF RunCreate, RunMigrate

\* Every file of the plan has the shape of its version, through every create
\* and migrate and wherever one of them fails or is killed.
THEOREM PlanFilesTyped == SetupSpec => []SetupTypeOK
<1>1. SetupInv => SetupTypeOK
  BY DEF SetupInv
<1> QED
  BY <1>1, SetupAlways, PTL

\* A create or migrate that reports success leaves a plan that reads, and a
\* migrated one holds every task of the old plan in its place, under the new
\* word for its status and serving what the agent's proposal says
\* (create.rs:run_create, migrate_v1_v2/mod.rs:run_migrate).
THEOREM FinishedPlansAreWhole == SetupSpec => []FinishedPlanIsWhole
<1>1. SetupInv => FinishedPlanIsWhole
  BY FinishedWhole
<1> QED
  BY <1>1, SetupAlways, PTL

\* Only the job that made the directory ever writes in it: fs::create_dir
\* refuses a second creation, and validate_inputs a migration onto a plan.
THEOREM OneJobWrites == SetupSpec => OneJobMakesAPlan
<1>1. SetupInv /\ [SetupNext]_setup_vars =>
        [plan' # plan => /\ owner' \in Jobs /\ job'[owner'].at # job[owner'].at
                         /\ owner # Absent => owner' = owner]_setup_vars
  BY PlanStep DEF setup_vars
<1> QED
  BY <1>1, SetupAlways, PTL DEF SetupSpec, OneJobMakesAPlan

-----------------------------------------------------------------------------
(* The configuration of a context                                          *)

\* What config.lua says of a key is what the user had set, and it says nothing
\* of the others.
LuaSays ==
  \A k \in Translated :
    LET wanted == SetByUser(began, k)
    IN /\ wanted # {} => k \in DOMAIN lua.set /\ lua.set[k] \in wanted
       /\ wanted = {} => k \notin DOMAIN lua.set

\* A command that has resolved has what the user had set, over what is shipped.
RightResult ==
  cmd.result # Missing =>
    \A k \in Translated :
      LET wanted == SetByUser(began, k)
      IN cmd.result[k] \in IF wanted = {} THEN {Embedded[k]} ELSE wanted

\* The files of version 1 are complete until config.lua is there, and a command
\* that goes on without it has seen that there are none.
ContextInv ==
  /\ cmd = [at |-> cmd.at, todo |-> cmd.todo, result |-> cmd.result]
  /\ layout = [findings |-> layout.findings, git |-> layout.git]
  /\ began \in LegacyDirs
  /\ lua \in LuaFiles \cup {Missing}
  /\ lua = Missing => legacy = began
  /\ cmd.at = "translate" => lua = Missing
  /\ cmd.at \in {"stamp", "delete"} => lua # Missing
  /\ cmd.at = "resolve" /\ lua = Missing => NoLegacyFiles
  /\ lua # Missing => LuaSays
  /\ RightResult

\* The two files that have an overlay.
LEMMA Bases ==
  /\ DOMAIN Overlay = {"config.yaml", "agent.yaml"}
  /\ Overlay["config.yaml"] = "config.local.yaml" /\ Overlay["agent.yaml"] = "agent.local.yaml"
BY DEF Overlay

\* What GenerateLua says of a key is what SetByUser says.
LEMMA GeneratedSays ==
  ASSUME NEW dir, NEW k \in Translated
  PROVE  /\ SetByUser(dir, k) # {} => k \in DOMAIN GenerateLua(dir) /\ GenerateLua(dir)[k] \in SetByUser(dir, k)
         /\ SetByUser(dir, k) = {} => k \notin DOMAIN GenerateLua(dir)
<1> DEFINE c == ReadFile(dir, "config.yaml")
           cl == ReadFile(dir, "config.local.yaml")
           a == ReadFile(dir, "agent.yaml")
           al == ReadFile(dir, "agent.local.yaml")
           all == Over(Over(cl, c), Over(al, a))
<1>1. GenerateLua(dir) = [x \in DOMAIN all \cap Translated |-> all[x]]
  BY Bases DEF GenerateLua, ReadMergedYaml
<1>2. SetByUser(dir, k) =
        {ReadFile(dir, Overlay[b])[k] : b \in {x \in {"config.yaml", "agent.yaml"} :
            k \in DOMAIN ReadFile(dir, Overlay[x])}}
        \cup {ReadFile(dir, b)[k] : b \in {x \in {"config.yaml", "agent.yaml"} :
            k \in DOMAIN ReadFile(dir, x) /\ k \notin DOMAIN ReadFile(dir, Overlay[x])}}
  BY Bases DEF SetByUser
<1> HIDE DEF c, cl, a, al
<1>3. /\ k \in DOMAIN all <=> k \in DOMAIN cl \cup DOMAIN c \cup DOMAIN al \cup DOMAIN a
      /\ k \in DOMAIN cl => all[k] = cl[k]
      /\ k \notin DOMAIN cl /\ k \in DOMAIN c => all[k] = c[k]
      /\ k \notin DOMAIN cl \cup DOMAIN c /\ k \in DOMAIN al => all[k] = al[k]
      /\ k \notin DOMAIN cl \cup DOMAIN c \cup DOMAIN al /\ k \in DOMAIN a => all[k] = a[k]
  BY DEF Over
<1>4. /\ k \in DOMAIN cl => cl[k] \in SetByUser(dir, k)
      /\ k \in DOMAIN al => al[k] \in SetByUser(dir, k)
      /\ k \notin DOMAIN cl /\ k \in DOMAIN c => c[k] \in SetByUser(dir, k)
      /\ k \notin DOMAIN al /\ k \in DOMAIN a => a[k] \in SetByUser(dir, k)
  BY <1>2, Bases DEF c, cl, a, al
<1>5. SetByUser(dir, k) # {} => k \in DOMAIN cl \cup DOMAIN c \cup DOMAIN al \cup DOMAIN a
  BY <1>2, Bases DEF c, cl, a, al
<1> HIDE DEF all
<1> QED
  BY <1>1, <1>3, <1>4, <1>5

\* Nothing is set where none of the files is.
LEMMA NothingSet ==
  ASSUME NEW dir, \A f \in {"config.yaml", "config.local.yaml", "agent.yaml", "agent.local.yaml"} :
                    f \notin DOMAIN dir
  PROVE  \A k : SetByUser(dir, k) = {}
<1>1. \A f \in {"config.yaml", "config.local.yaml", "agent.yaml", "agent.local.yaml"} :
        DOMAIN ReadFile(dir, f) = {}
  BY DEF ReadFile
<1> QED
  BY <1>1, Bases DEF SetByUser

\* A directory nobody has touched yet.
LEMMA ContextInitInv == ContextInit => ContextInv
<1> SUFFICES ASSUME NEW dir \in LegacyDirs, ContextStart(dir)
             PROVE  ContextInv
  BY DEF ContextInit
<1> QED
  BY DEF ContextStart, ContextInv, Idle, RightResult

\* A step that leaves the directory and config.lua alone, and takes up no work
\* that rests on them.
LEMMA CommandStep ==
  ASSUME ContextInv, UNCHANGED <<began, legacy, lua>>,
         layout' = [findings |-> layout'.findings, git |-> layout'.git],
         cmd' = [at |-> cmd'.at, todo |-> cmd'.todo, result |-> cmd'.result],
         cmd'.result \in {cmd.result, Missing},
         cmd'.at = "translate" => lua = Missing,
         cmd'.at \in {"stamp", "delete"} => lua # Missing,
         cmd'.at = "resolve" /\ lua = Missing => NoLegacyFiles
  PROVE  ContextInv'
<1>1. RightResult'
  BY DEF ContextInv, RightResult
<1>2. LuaSays' <=> LuaSays
  BY DEF LuaSays
<1>3. NoLegacyFiles' <=> NoLegacyFiles
  BY DEF NoLegacyFiles
<1> QED
  BY <1>1, <1>2, <1>3 DEF ContextInv

\* A command goes from one of its steps to another.
LEMMA AtStep ==
  ASSUME ContextInv, NEW at, NextStep(at)
  PROVE  cmd'.at = at /\ cmd'.todo = cmd.todo /\ cmd'.result = cmd.result
         /\ cmd' = [at |-> cmd'.at, todo |-> cmd'.todo, result |-> cmd'.result]
BY DEF ContextInv, NextStep

\* migrate-context, its validation included.
LEMMA MigrateContextInv ==
  ASSUME ContextInv, MigrateIfNeeded
  PROVE  ContextInv'
<1>1. CASE PlanMigration
  <2>1. /\ UNCHANGED <<began, legacy, lua, layout>>
        /\ cmd' = [at |-> cmd'.at, todo |-> cmd'.todo, result |-> cmd'.result]
        /\ cmd'.result = Missing
        /\ cmd'.at = IF NoLegacyFiles THEN "resolve"
                     ELSE IF lua = Missing THEN "translate"
                     ELSE IF lua.stamped THEN "delete" ELSE "stamp"
    BY <1>1 DEF PlanMigration
  <2>2. layout' = [findings |-> layout'.findings, git |-> layout'.git]
    BY <2>1 DEF ContextInv
  <2>3. /\ cmd'.at = "translate" => lua = Missing
        /\ cmd'.at \in {"stamp", "delete"} => lua # Missing
        /\ cmd'.at = "resolve" /\ lua = Missing => NoLegacyFiles
    BY <2>1
  <2> QED
    BY <2>1, <2>2, <2>3, CommandStep
<1>2. CASE Translate
  <2>1. /\ cmd.at = "translate" /\ UNCHANGED <<began, legacy, layout>> /\ NextStep("delete")
        /\ lua' = [set |-> GenerateLua(legacy), stamped |-> TRUE]
    BY <1>2 DEF Translate
  <2>2. lua = Missing /\ legacy = began /\ began \in LegacyDirs
    BY <2>1 DEF ContextInv
  <2>3. lua' \in LuaFiles /\ lua' # Missing
    <3> DEFINE S == {GenerateLua(dir) : dir \in LegacyDirs} \cup {<<>>}
    <3>1. GenerateLua(legacy) \in S
      BY <2>2
    <3>2. LuaFiles = [set : S, stamped : BOOLEAN]
      BY DEF LuaFiles
    <3> HIDE DEF S
    <3>3. lua' \in LuaFiles
      BY <2>1, <3>1, <3>2
    <3> QED
      BY <3>3, MissingAssumption
  <2>4. LuaSays'
    BY <2>1, <2>2, GeneratedSays DEF LuaSays
  <2>5. cmd'.at = "delete" /\ cmd'.result = cmd.result
        /\ cmd' = [at |-> cmd'.at, todo |-> cmd'.todo, result |-> cmd'.result]
    BY <2>1, AtStep
  <2> QED
    BY <2>1, <2>3, <2>4, <2>5 DEF ContextInv, RightResult
<1>3. CASE Stamp
  <2>1. /\ cmd.at = "stamp" /\ UNCHANGED <<began, legacy, layout>> /\ NextStep("delete")
        /\ lua' = [lua EXCEPT !.stamped = TRUE]
    BY <1>3 DEF Stamp
  <2>2. lua # Missing /\ lua \in LuaFiles
    BY <2>1 DEF ContextInv
  <2>3. lua' \in LuaFiles /\ lua'.set = lua.set
    BY <2>1, <2>2 DEF LuaFiles
  <2>4. lua' # Missing
    BY <2>3, MissingAssumption
  <2>5. LuaSays'
    BY <2>1, <2>2, <2>3 DEF ContextInv, LuaSays
  <2>6. cmd'.at = "delete" /\ cmd'.result = cmd.result
        /\ cmd' = [at |-> cmd'.at, todo |-> cmd'.todo, result |-> cmd'.result]
    BY <2>1, AtStep
  <2> QED
    BY <2>1, <2>3, <2>4, <2>5, <2>6 DEF ContextInv, RightResult
<1>4. CASE DeleteLegacy
  <2>1. /\ cmd.at = "delete" /\ UNCHANGED <<began, lua, layout>>
        /\ cmd' = [cmd EXCEPT !.todo = Tail(@)]
    BY <1>4 DEF DeleteLegacy
  <2>2. lua # Missing /\ LuaSays
    BY <2>1 DEF ContextInv
  <2>3. LuaSays'
    BY <2>1, <2>2 DEF LuaSays
  <2>4. cmd'.at = "delete" /\ cmd'.result = cmd.result
        /\ cmd' = [at |-> cmd'.at, todo |-> cmd'.todo, result |-> cmd'.result]
    BY <2>1 DEF ContextInv
  <2> QED
    BY <2>1, <2>2, <2>3, <2>4 DEF ContextInv, RightResult
<1>5. CASE Prune
  <2>1. /\ cmd.at = "delete" /\ UNCHANGED <<began, legacy, lua, layout>> /\ NextStep("resolve")
    BY <1>5 DEF Prune
  <2>2. lua # Missing /\ layout' = [findings |-> layout'.findings, git |-> layout'.git]
    BY <2>1 DEF ContextInv
  <2>3. cmd'.at = "resolve" /\ cmd'.result = cmd.result
        /\ cmd' = [at |-> cmd'.at, todo |-> cmd'.todo, result |-> cmd'.result]
    BY <2>1, AtStep
  <2> QED
    BY <2>1, <2>2, <2>3, CommandStep
<1> QED
  BY <1>1, <1>2, <1>3, <1>4, <1>5 DEF MigrateIfNeeded

\* A command that resolves gets what the user had set over what is shipped.
LEMMA ResolveInv ==
  ASSUME ContextInv, Resolve
  PROVE  ContextInv'
<1>1. /\ cmd.at = "resolve" /\ UNCHANGED <<began, legacy, lua, layout>>
      /\ cmd' = [Idle EXCEPT !.result = Resolved]
  BY DEF Resolve
<1>2. cmd' = [at |-> "idle", todo |-> <<>>, result |-> Resolved]
  BY <1>1 DEF Idle
<1>3. ASSUME NEW k \in Translated
      PROVE  Resolved[k] \in IF SetByUser(began, k) = {} THEN {Embedded[k]} ELSE SetByUser(began, k)
  <2>1. CASE lua = Missing
    <3>1. NoLegacyFiles /\ legacy = began
      BY <1>1, <2>1 DEF ContextInv
    <3>2. \A f \in {"config.yaml", "config.local.yaml", "agent.yaml", "agent.local.yaml"} :
            f \notin DOMAIN began
      BY <3>1 DEF NoLegacyFiles, LegacyFiles
    <3>3. SetByUser(began, k) = {}
      BY <3>2, NothingSet
    <3> QED
      BY <2>1, <3>3 DEF Resolved
  <2>2. CASE lua # Missing
    <3> DEFINE wanted == SetByUser(began, k)
    <3>1. /\ wanted # {} => k \in DOMAIN lua.set /\ lua.set[k] \in wanted
          /\ wanted = {} => k \notin DOMAIN lua.set
      BY <2>2 DEF ContextInv, LuaSays
    <3>2. Resolved[k] = IF k \in DOMAIN lua.set THEN lua.set[k] ELSE Embedded[k]
      BY <2>2, EmbeddedAssumption DEF Resolved, Over
    <3> HIDE DEF wanted
    <3>3. Resolved[k] \in IF wanted = {} THEN {Embedded[k]} ELSE wanted
      BY <3>1, <3>2
    <3> QED
      BY <3>3 DEF wanted
  <2> QED
    BY <2>1, <2>2
<1>4. RightResult'
  BY <1>1, <1>2, <1>3 DEF RightResult
<1>5. lua # Missing => LuaSays'
  BY <1>1 DEF ContextInv, LuaSays
<1>6. /\ cmd'.at = "idle" /\ cmd' = [at |-> cmd'.at, todo |-> cmd'.todo, result |-> cmd'.result]
  BY <1>2
<1> QED
  BY <1>1, <1>4, <1>5, <1>6 DEF ContextInv

\* The steps of init.
LEMMA InitStepsInv ==
  ASSUME ContextInv, InitOnLegacy = FALSE, InitSteps
  PROVE  ContextInv'
<1>1. CASE InitStub
  <2>1. /\ UNCHANGED <<began, legacy, layout>> /\ NextStep("seed-registry") /\ DOMAIN legacy = {}
        /\ lua' = IF lua = Missing THEN Stub ELSE lua
    BY <1>1 DEF InitStub
  <2>2. cmd'.at = "seed-registry" /\ cmd'.result = cmd.result
        /\ cmd' = [at |-> cmd'.at, todo |-> cmd'.todo, result |-> cmd'.result]
    BY <2>1, AtStep
  <2>3. lua' \in LuaFiles /\ lua' # Missing
    <3>1. Stub \in LuaFiles
      BY DEF Stub, LuaFiles
    <3>2. lua' \in LuaFiles
      BY <2>1, <3>1 DEF ContextInv
    <3> QED
      BY <3>2, MissingAssumption
  <2>4. LuaSays'
    <3>1. CASE lua = Missing
      <4>1. \A k : SetByUser(began, k) = {}
        BY <2>1, <3>1, NothingSet DEF ContextInv
      <4> QED
        BY <2>1, <3>1, <4>1 DEF LuaSays, Stub
    <3>2. CASE lua # Missing
      BY <2>1, <3>2 DEF ContextInv, LuaSays
    <3> QED
      BY <3>1, <3>2
  <2> QED
    BY <2>1, <2>2, <2>3, <2>4 DEF ContextInv, RightResult
<1>2. ASSUME UNCHANGED <<began, legacy, lua>>,
             layout' = [findings |-> layout'.findings, git |-> layout'.git],
             NEW at \in {"seed-findings", "git-init", "git-commit"}, NextStep(at)
      PROVE  ContextInv'
  BY <1>2, AtStep, CommandStep
<1>3. ASSUME UNCHANGED <<began, legacy, lua>>,
             layout' = [findings |-> layout'.findings, git |-> layout'.git],
             cmd' = Idle
      PROVE  ContextInv'
  <2>1. /\ cmd' = [at |-> cmd'.at, todo |-> cmd'.todo, result |-> cmd'.result]
        /\ cmd'.at = "idle" /\ cmd'.result = Missing
    BY <1>3 DEF Idle
  <2> QED
    BY <1>3, <2>1, CommandStep
<1>4. \A x : /\ [layout EXCEPT !.findings = x] = [findings |-> x, git |-> layout.git]
             /\ [layout EXCEPT !.git = x] = [findings |-> layout.findings, git |-> x]
  BY DEF ContextInv
<1>5. CASE SeedRegistry
  <2>1. /\ UNCHANGED <<began, legacy, lua, layout>> /\ NextStep("seed-findings")
    BY <1>5 DEF SeedRegistry
  <2> QED
    BY <1>2, <2>1 DEF ContextInv
<1>6. CASE SeedFindings
  <2>1. /\ UNCHANGED <<began, legacy, lua>> /\ NextStep("git-init")
        /\ layout' = [layout EXCEPT !.findings = IF layout.findings = {} THEN FindingsSeed ELSE layout.findings]
    BY <1>6 DEF SeedFindings, ContextInv
  <2> QED
    BY <1>2, <1>4, <2>1
<1>7. CASE EnsureGitRepository
  <2>1. /\ UNCHANGED <<began, legacy, lua>>
        /\ \/ layout' = [layout EXCEPT !.git = "made"] /\ NextStep("git-commit")
           \/ cmd' = Idle /\ UNCHANGED layout
    BY <1>7 DEF EnsureGitRepository
  <2>2. layout' = [findings |-> layout'.findings, git |-> layout'.git]
    BY <1>4, <2>1 DEF ContextInv
  <2> QED
    BY <1>2, <1>3, <2>1, <2>2
<1>8. CASE CommitInitial
  <2>1. /\ UNCHANGED <<began, legacy, lua>> /\ cmd' = Idle
        /\ layout' = [layout EXCEPT !.git = "committed"]
    BY <1>8 DEF CommitInitial
  <2> QED
    BY <1>3, <1>4, <2>1
<1> QED
  BY <1>1, <1>5, <1>6, <1>7, <1>8 DEF InitSteps

\* Every step keeps what the directory is known to hold.
LEMMA ContextNextInv ==
  InitOnLegacy = FALSE /\ ContextInv /\ [ContextNext]_context_vars => ContextInv'
<1> SUFFICES ASSUME InitOnLegacy = FALSE /\ ContextInv /\ [ContextNext]_context_vars
             PROVE  ContextInv'
  OBVIOUS
<1>1. ASSUME UNCHANGED <<began, legacy, lua, layout>>, cmd' = cmd \/ cmd' = Idle
      PROVE  ContextInv'
  <2>1. /\ layout' = [findings |-> layout'.findings, git |-> layout'.git]
        /\ cmd' = [at |-> cmd'.at, todo |-> cmd'.todo, result |-> cmd'.result]
        /\ cmd'.result \in {cmd.result, Missing}
        /\ cmd'.at \in {cmd.at, "idle"}
    BY <1>1 DEF ContextInv, Idle
  <2>2. /\ cmd'.at = "translate" => lua = Missing
        /\ cmd'.at \in {"stamp", "delete"} => lua # Missing
        /\ cmd'.at = "resolve" /\ lua = Missing => NoLegacyFiles
    BY <2>1 DEF ContextInv
  <2> QED
    BY <1>1, <2>1, <2>2, CommandStep
<1>2. CASE Killed
  BY <1>1, <1>2 DEF Killed
<1>3. ASSUME NEW s \in Slugs, RepoAdd(s) \/ RepoRemove(s)
      PROVE  ContextInv'
  BY <1>1, <1>3 DEF RepoAdd, RepoRemove
<1>4. CASE UNCHANGED context_vars
  BY <1>1, <1>4 DEF context_vars
<1> QED
  BY <1>2, <1>3, <1>4, MigrateContextInv, ResolveInv, InitStepsInv DEF ContextNext

\* What a user had configured in the files of version 1 is what every command
\* goes by, from the first one on and wherever commands were killed
\* (migrate_v1_to_v2.rs:migrate_if_needed, config_lua.rs:resolve).  "init" is
\* kept out: run on a directory of version 1 it puts an empty config.lua in the
\* way, and the files are then deleted untranslated.
THEOREM ConfigurationIsKept ==
  ASSUME InitOnLegacy = FALSE
  PROVE  ContextSpec => []ConfigurationKept
<1>1. ContextInv => ConfigurationKept
  BY DEF ContextInv, ConfigurationKept, LuaSays, RightResult
<1>2. ContextInv /\ [ContextNext]_context_vars => ContextInv'
  BY ContextNextInv
<1> QED
  BY <1>1, <1>2, ContextInitInv, PTL DEF ContextSpec

\* The steps of init leave what is there, also on a directory of version 1.
LEMMA InitStepsKeep ==
  ASSUME layout = [findings |-> layout.findings, git |-> layout.git], InitSteps
  PROVE  /\ registry # Missing => registry' = registry
         /\ lua # Missing => lua' = lua
         /\ layout.git = "committed" => layout'.git = "committed"
<1>1. CASE InitStub
  BY <1>1 DEF InitStub
<1>2. CASE SeedRegistry
  BY <1>2 DEF SeedRegistry
<1>3. CASE SeedFindings
  BY <1>3 DEF SeedFindings
<1>4. CASE EnsureGitRepository
  BY <1>4 DEF EnsureGitRepository
<1>5. CASE CommitInitial
  BY <1>5 DEF CommitInitial
<1> QED
  BY <1>1, <1>2, <1>3, <1>4, <1>5 DEF InitSteps

\* layout keeps its two fields.
LayoutShape == layout = [findings |-> layout.findings, git |-> layout.git]

\* No step adds a field.
LEMMA LayoutStep == LayoutShape /\ [ContextNext]_context_vars => LayoutShape'
<1> SUFFICES ASSUME LayoutShape, [ContextNext]_context_vars PROVE LayoutShape'
  OBVIOUS
<1>1. CASE UNCHANGED layout
  BY <1>1 DEF LayoutShape
<1>2. CASE SeedFindings
  BY <1>2 DEF SeedFindings, LayoutShape
<1>3. CASE EnsureGitRepository
  BY <1>3 DEF EnsureGitRepository, LayoutShape
<1>4. CASE CommitInitial
  BY <1>4 DEF CommitInitial, LayoutShape
<1> QED
  BY <1>1, <1>2, <1>3, <1>4
     DEF ContextNext, context_vars, MigrateIfNeeded, PlanMigration, Translate, Stamp, DeleteLegacy,
         Prune, Resolve, InitSteps, InitStub, SeedRegistry, RepoAdd, RepoRemove, Killed

\* Init, run again on a context that is there, fills in what is missing and
\* nothing else (init.rs:run_init): what repo has registered, the user's
\* config.lua and the repository of the context stay.
THEOREM InitKeeps == ContextSpec => InitKeepsWhatIsThere
<1>1. ContextInit => LayoutShape
  BY DEF ContextInit, ContextStart, LayoutShape
<1>2. LayoutShape /\ [ContextNext]_context_vars
        => [InitSteps => (registry # Missing => registry' = registry)
                      /\ (lua # Missing => lua' = lua)
                      /\ (layout.git = "committed" => layout'.git = "committed")]_context_vars
  BY InitStepsKeep DEF LayoutShape
<1> QED
  BY <1>1, <1>2, LayoutStep, PTL DEF ContextSpec, InitKeepsWhatIsThere

-----------------------------------------------------------------------------
(* The justification store                                                 *)

\* Induction over the subsets of a finite set: they are well-founded.
LEMMA EverySubset ==
  ASSUME NEW S, IsFiniteSet(S), NEW T \in SUBSET SUBSET S,
         \A s \in SUBSET S : (\A u \in SUBSET s : u # s => u \in T) => s \in T
  PROVE  T = SUBSET S
<1> SUFFICES ASSUME (SUBSET S) \ T # {} PROVE FALSE
  OBVIOUS
<1> DEFINE U == (SUBSET S) \ T
<1>1. U \subseteq FiniteSubsetsOf(S)
  BY FS_Subset DEF FiniteSubsetsOf
<1>2. PICK s \in U : \A u \in U : <<u, s>> \notin StrictSubsetOrdering(S)
  <2>1. U # {}
    OBVIOUS
  <2> HIDE DEF U
  <2> QED
    BY <1>1, <2>1, WFMin, FS_StrictSubsetOrderingWellFounded
<1>3. ASSUME NEW u \in SUBSET s, u # s, u \notin T
      PROVE  FALSE
  <2>1. u \in U /\ <<u, s>> \notin StrictSubsetOrdering(S)
    BY <1>2, <1>3
  <2> QED
    BY <1>3, <2>1 DEF StrictSubsetOrdering
<1> QED
  BY <1>3

\* One step of the fold that repeats the passes: an element less, a pass more.
Pass(root, iter, s) ==
  IF s = {} THEN {root} ELSE FallsWith(iter[s \ {CHOOSE x \in s : TRUE}])

\* iter is the fold on the subsets of s.
Passes(root, s, iter) == iter = [u \in SUBSET s |-> Pass(root, iter, u)]

\* Two folds agree where both are defined.
LEMMA PassesAgree ==
  ASSUME NEW root
  PROVE  \A w \in SUBSET ItemIds : \A u, v \in SUBSET ItemIds : \A f, g :
           w \subseteq u /\ w \subseteq v /\ Passes(root, u, f) /\ Passes(root, v, g) => f[w] = g[w]
<1> DEFINE Agree(w) == \A u, v \in SUBSET ItemIds : \A f, g :
             w \subseteq u /\ w \subseteq v /\ Passes(root, u, f) /\ Passes(root, v, g) => f[w] = g[w]
           T == {w \in SUBSET ItemIds : Agree(w)}
<1>1. ASSUME NEW w \in SUBSET ItemIds, \A u \in SUBSET w : u # w => u \in T
      PROVE  Agree(w)
  <2> SUFFICES ASSUME NEW u \in SUBSET ItemIds, NEW v \in SUBSET ItemIds, NEW f, NEW g,
                      w \subseteq u, w \subseteq v, Passes(root, u, f), Passes(root, v, g)
               PROVE  f[w] = g[w]
    OBVIOUS
  <2>1. f[w] = Pass(root, f, w) /\ g[w] = Pass(root, g, w)
    BY DEF Passes
  <2>2. CASE w = {}
    BY <2>1, <2>2 DEF Pass
  <2>3. CASE w # {}
    <3> DEFINE c == CHOOSE x \in w : TRUE
    <3>1. c \in w
      BY <2>3
    <3> HIDE DEF c
    <3>2. w \ {c} \in T /\ w \ {c} \subseteq u /\ w \ {c} \subseteq v
      BY <1>1, <3>1
    <3>3. f[w \ {c}] = g[w \ {c}]
      BY <3>2
    <3> QED
      BY <2>1, <2>3, <3>3 DEF Pass, c
  <2> QED
    BY <2>2, <2>3
<1>2. T = SUBSET ItemIds
  <2> HIDE DEF Agree
  <2>1. T \in SUBSET SUBSET ItemIds
    OBVIOUS
  <2>2. \A w \in SUBSET ItemIds : (\A u \in SUBSET w : u # w => u \in T) => w \in T
    BY <1>1
  <2> HIDE DEF T
  <2> QED
    BY <2>1, <2>2, ItemIdsAssumption, EverySubset
<1> QED
  BY <1>2

\* The fold is defined on every subset.
LEMMA PassesExist ==
  ASSUME NEW root
  PROVE  \A s \in SUBSET ItemIds : \E iter : Passes(root, s, iter)
<1> DEFINE T == {s \in SUBSET ItemIds : \E iter : Passes(root, s, iter)}
<1>1. ASSUME NEW s \in SUBSET ItemIds, \A u \in SUBSET s : u # s => u \in T
      PROVE  \E iter : Passes(root, s, iter)
  <2> DEFINE part(u) == CHOOSE iter : Passes(root, u, iter)
             below == [u \in SUBSET s |-> IF u = s THEN {} ELSE part(u)[u]]
             all == [u \in SUBSET s |-> IF u = s THEN Pass(root, below, s) ELSE below[u]]
  <2>1. \A u \in SUBSET s : u # s => Passes(root, u, part(u))
    BY <1>1
  <2> HIDE DEF part
  <2>2. ASSUME NEW u \in SUBSET s, u # {}
        PROVE  /\ u \ {CHOOSE x \in u : TRUE} \in SUBSET s
               /\ u \ {CHOOSE x \in u : TRUE} # s
               /\ u \ {CHOOSE x \in u : TRUE} \subseteq u
    <3>1. (CHOOSE x \in u : TRUE) \in u
      BY <2>2
    <3> QED
      BY <2>2, <3>1
  <2>3. ASSUME NEW u \in SUBSET s
        PROVE  all[u] = Pass(root, all, u)
    <3>1. CASE u = {}
      <4>1. CASE s = {}
        BY <3>1, <4>1 DEF Pass
      <4>2. CASE s # {}
        <5>1. part(u)[u] = Pass(root, part(u), u)
          BY <2>1, <3>1, <4>2 DEF Passes
        <5> QED
          BY <3>1, <4>2, <5>1 DEF Pass
      <4> QED
        BY <4>1, <4>2
    <3>2. CASE u # {} /\ u = s
      <4> DEFINE d == u \ {CHOOSE x \in u : TRUE}
      <4>1. d \in SUBSET s /\ d # s
        BY <2>2, <3>2
      <4>2. Pass(root, below, u) = FallsWith(below[d]) /\ Pass(root, all, u) = FallsWith(all[d])
        BY <3>2 DEF Pass
      <4> HIDE DEF d
      <4>3. all[d] = below[d]
        BY <4>1
      <4>4. all[u] = Pass(root, below, u)
        BY <3>2
      <4> QED
        BY <4>2, <4>3, <4>4
    <3>3. CASE u # {} /\ u # s
      <4> DEFINE d == u \ {CHOOSE x \in u : TRUE}
      <4>1. d \in SUBSET s /\ d # s /\ d \subseteq u
        BY <2>2, <3>3
      <4>2. Pass(root, part(u), u) = FallsWith(part(u)[d]) /\ Pass(root, all, u) = FallsWith(all[d])
        BY <3>3 DEF Pass
      <4> HIDE DEF d
      <4>3. all[u] = part(u)[u] /\ all[d] = part(d)[d]
        BY <3>3, <4>1
      <4>4. part(u)[u] = Pass(root, part(u), u)
        BY <2>1, <3>3 DEF Passes
      <4>5. part(u)[d] = part(d)[d]
        BY <2>1, <3>3, <4>1, PassesAgree
      <4> QED
        BY <4>2, <4>3, <4>4, <4>5
    <3> QED
      BY <3>1, <3>2, <3>3
  <2>4. Passes(root, s, all)
    <3> HIDE DEF Pass
    <3> QED
      BY <2>3 DEF Passes
  <2> QED
    BY <2>4
<1>2. T = SUBSET ItemIds
  <2>1. T \in SUBSET SUBSET ItemIds
    OBVIOUS
  <2>2. \A s \in SUBSET ItemIds : (\A u \in SUBSET s : u # s => u \in T) => s \in T
    BY <1>1
  <2> HIDE DEF T
  <2> QED
    BY <2>1, <2>2, ItemIdsAssumption, EverySubset
<1> QED
  BY <1>2

\* The items that fall when root does: they serve something, and all that they
\* serve falls too.
LEMMA CascadeClosed ==
  ASSUME NEW root \in Items
  PROVE  /\ Cascaded(root) \subseteq Items
         /\ \A i \in Cascaded(root) :
              store[i].serves # {} /\ store[i].serves \subseteq Cascaded(root) \cup {root}
<1> DEFINE F == CHOOSE iter : iter = [s \in SUBSET ItemIds |->
                  IF s = {} THEN {root} ELSE FallsWith(iter[s \ {CHOOSE x \in s : TRUE}])]
           Closed(D) == /\ root \in D /\ D \subseteq Items
                        /\ \A i \in D \ {root} : store[i].serves # {} /\ store[i].serves \subseteq D
           T == {s \in SUBSET ItemIds : Closed(F[s])}
<1>1. Cascaded(root) = F[ItemIds] \ {root}
  BY DEF Cascaded, FoldSet, MapThenFoldSet
<1>2. \A s \in SUBSET ItemIds :
        F[s] = IF s = {} THEN {root} ELSE FallsWith(F[s \ {CHOOSE x \in s : TRUE}])
  <2>1. \E iter : iter = [s \in SUBSET ItemIds |->
                    IF s = {} THEN {root} ELSE FallsWith(iter[s \ {CHOOSE x \in s : TRUE}])]
    <3>1. PICK iter : Passes(root, ItemIds, iter)
      BY PassesExist
    <3> QED
      BY <3>1 DEF Passes, Pass
  <2>2. F = [s \in SUBSET ItemIds |->
               IF s = {} THEN {root} ELSE FallsWith(F[s \ {CHOOSE x \in s : TRUE}])]
    BY <2>1, Zenon
  <2> HIDE DEF F
  <2> QED
    BY <2>2
<1> HIDE DEF F
<1>3. ASSUME NEW D, Closed(D)
      PROVE  Closed(FallsWith(D))
  BY <1>3 DEF FallsWith
<1>4. ASSUME NEW s \in SUBSET ItemIds, \A u \in SUBSET s : u # s => u \in T
      PROVE  Closed(F[s])
  <2>1. CASE s = {}
    <3>1. F[s] = {root}
      BY <1>2, <2>1
    <3> QED
      BY <3>1
  <2>2. CASE s # {}
    <3> DEFINE d == s \ {CHOOSE x \in s : TRUE}
    <3>1. (CHOOSE x \in s : TRUE) \in s
      BY <2>2
    <3>2. d \in SUBSET s /\ d # s
      BY <3>1
    <3>3. F[s] = FallsWith(F[d])
      BY <1>2, <2>2
    <3> HIDE DEF d, Closed
    <3>4. Closed(F[d])
      BY <1>4, <3>2
    <3> QED
      BY <1>3, <3>3, <3>4
  <2> QED
    BY <2>1, <2>2
<1> HIDE DEF Closed
<1>5. T = SUBSET ItemIds
  <2>1. T \in SUBSET SUBSET ItemIds
    OBVIOUS
  <2>2. \A s \in SUBSET ItemIds : (\A u \in SUBSET s : u # s => u \in T) => s \in T
    BY <1>4
  <2> HIDE DEF T
  <2> QED
    BY <2>1, <2>2, ItemIdsAssumption, EverySubset
<1>6. Closed(F[ItemIds])
  BY <1>5
<1> QED
  BY <1>1, <1>6 DEF Closed

\* Every item is of its type, and its links are answered.
StoreInv ==
  /\ store \in [ItemIds -> StoreItem \cup {NoItem}]
  /\ \A i \in Items : \A n \in store[i].superseded_by : n \in Items /\ i \in store[n].supersedes
  /\ \A i \in Items : store[i].defeated_by = ByCascade =>
       /\ store[i].serves # {}
       /\ \A p \in store[i].serves : p \in Items /\ IsTerminal("intent", store[p].status)

\* What is known of an item of the store.
LEMMA ItemFacts ==
  ASSUME StoreInv, NEW i \in Items
  PROVE  /\ i \in ItemIds /\ store[i] \in StoreItem /\ store[i].status \in IntentStatus
         /\ store[i].superseded_by \subseteq ItemIds /\ store[i].supersedes \subseteq ItemIds
BY DEF StoreInv, Items, StoreItem

\* A step after which every item is there that was, serves what it served and
\* is settled if it was, and whose links are answered.
LEMMA StoreStep ==
  ASSUME StoreInv,
         store' \in [ItemIds -> StoreItem \cup {NoItem}],
         \A i \in Items : i \in Items' /\ store'[i].serves = store[i].serves
                          /\ (IsTerminal("intent", store[i].status) => IsTerminal("intent", store'[i].status)),
         \A i \in Items' : \A n \in store'[i].superseded_by : n \in Items' /\ i \in store'[n].supersedes,
         \A i \in Items' : store'[i].defeated_by = ByCascade =>
           \/ i \in Items /\ store[i].defeated_by = ByCascade
           \/ /\ store'[i].serves # {}
              /\ \A p \in store'[i].serves : p \in Items' /\ IsTerminal("intent", store'[p].status)
  PROVE  StoreInv'
BY DEF StoreInv, Items

\* The words of an intent's status.
LEMMA Settled ==
  /\ \A s : IsTerminal("intent", s) <=> s \in {"satisfied", "defeated", "superseded"}
  /\ \A a, b : IsTerminal("intent", a) /\ MaySetStatus("intent", a, b) => b = a
BY DEF IsTerminal, Vocabulary, OpenStatus, IntentStatus, MaySetStatus, Transitions

\* An item defeated by its own verb is told from one the cascade took.
LEMMA NotByCascade ==
  /\ \A i : ByItem(i) # ByCascade
  /\ Nobody # ByCascade /\ \A i : ByItem(i) # Nobody
<1>1. \A i : <<"item", i>> # <<"cascade">>
  <2>1. \A i : Len(<<"item", i>>) = 2 /\ Len(<<"cascade">>) = 1
    OBVIOUS
  <2> QED
    BY <2>1
<1> QED
  BY <1>1 DEF ByItem, ByCascade, Nobody

\* Every call of the store keeps its invariant.
LEMMA StoreCallInv ==
  ASSUME StoreInv, StoreCall
  PROVE  StoreInv'
<1>0. store \in [ItemIds -> StoreItem \cup {NoItem}]
  BY DEF StoreInv
<1>1. ASSUME NEW i \in ItemIds, NEW s \in Serves[i], Insert(i, s)
      PROVE  StoreInv'
  <2>1. i \notin Items /\ store' = [store EXCEPT ![i] = Item(s)]
    BY <1>1 DEF Insert
  <2>2. Item(s) \in StoreItem
    BY DEF Item, StoreItem, IntentStatus
  <2>3. Item(s) # NoItem
    BY <2>2, NoItemAssumption
  <2>4. Items' = Items \cup {i} /\ \A k \in Items : store'[k] = store[k]
    BY <1>0, <2>1, <2>3 DEF Items
  <2>5. store'[i] = Item(s)
    BY <1>0, <2>1
  <2>6. Item(s).superseded_by = {} /\ Item(s).defeated_by # ByCascade
    BY NotByCascade DEF Item
  <2>7. store' \in [ItemIds -> StoreItem \cup {NoItem}]
    BY <1>0, <2>1, <2>2
  <2>8. \A k \in Items : \A n \in store[k].superseded_by : n \in Items /\ k \in store[n].supersedes
    BY DEF StoreInv
  <2>9. \A k \in Items' : \A n \in store'[k].superseded_by : n \in Items' /\ k \in store'[n].supersedes
    BY <2>4, <2>5, <2>6, <2>8
  <2>10. \A k \in Items' : store'[k].defeated_by = ByCascade => k \in Items /\ store[k].defeated_by = ByCascade
    BY <2>4, <2>5, <2>6
  <2> HIDE DEF Item
  <2> QED
    BY <2>4, <2>7, <2>9, <2>10, StoreStep
<1>2. ASSUME NEW i \in ItemIds, NEW s \in IntentStatus, StoreSetStatus(i, s)
      PROVE  StoreInv'
  <2> DEFINE new == [store[i] EXCEPT !.status = s]
  <2>1. /\ i \in Items /\ MaySetStatus("intent", store[i].status, s)
        /\ store' = [store EXCEPT ![i] = new]
    BY <1>2 DEF StoreSetStatus
  <2>2. /\ new \in StoreItem /\ new.status = s /\ new.serves = store[i].serves
        /\ new.supersedes = store[i].supersedes /\ new.superseded_by = store[i].superseded_by
        /\ new.defeated_by = store[i].defeated_by
    BY <2>1, ItemFacts DEF StoreItem
  <2> HIDE DEF new
  <2>3. new # NoItem
    BY <2>2, NoItemAssumption
  <2>4. store'[i] = new /\ \A k \in ItemIds \ {i} : store'[k] = store[k]
    BY <1>0, <2>1
  <2>5. Items' = Items
    BY <2>1, <2>3, <2>4 DEF Items
  <2>6. \A k \in Items : /\ store'[k].serves = store[k].serves /\ store'[k].supersedes = store[k].supersedes
                         /\ store'[k].superseded_by = store[k].superseded_by
                         /\ store'[k].defeated_by = store[k].defeated_by
    BY <2>2, <2>4 DEF Items
  <2>7. \A k \in Items : IsTerminal("intent", store[k].status) => IsTerminal("intent", store'[k].status)
    BY <2>1, <2>2, <2>4, Settled DEF Items
  <2>8. store' \in [ItemIds -> StoreItem \cup {NoItem}]
    BY <1>0, <2>1, <2>2
  <2>9. \A k \in Items' : \A n \in store'[k].superseded_by : n \in Items' /\ k \in store'[n].supersedes
    BY <2>5, <2>6 DEF StoreInv
  <2> QED
    BY <2>5, <2>6, <2>7, <2>8, <2>9, StoreStep
<1>3. ASSUME NEW root \in ItemIds, Defeat(root)
      PROVE  StoreInv'
  <2> DEFINE fallen == [i \in ItemIds |->
                IF i = root THEN [store[i] EXCEPT !.status = "defeated", !.defeated_by = ByItem(root)]
                ELSE [store[i] EXCEPT !.status = "defeated", !.defeated_by = ByCascade]]
             gone == Cascaded(root) \cup {root}
  <2>1. /\ root \in Items
        /\ store' = [i \in ItemIds |-> IF i \in gone THEN fallen[i] ELSE store[i]]
    BY <1>3 DEF Defeat
  <2>2. /\ gone \subseteq Items
        /\ \A i \in gone \ {root} : store[i].serves # {} /\ store[i].serves \subseteq gone
    BY <2>1, CascadeClosed
  <2>3. ASSUME NEW i \in gone
        PROVE  /\ fallen[i] \in StoreItem /\ fallen[i].status = "defeated"
               /\ fallen[i].serves = store[i].serves /\ fallen[i].supersedes = store[i].supersedes
               /\ fallen[i].superseded_by = store[i].superseded_by
    BY <2>2, <2>3, ItemFacts DEF StoreItem, IntentStatus
  <2>4. fallen[root].defeated_by # ByCascade
    BY <2>1, ItemFacts, NotByCascade DEF StoreItem
  <2> HIDE DEF fallen, gone
  <2>5. /\ \A i \in gone : store'[i] = fallen[i]
        /\ \A i \in ItemIds \ gone : store'[i] = store[i]
    BY <2>1, <2>2 DEF Items
  <2>6. store' \in [ItemIds -> StoreItem \cup {NoItem}]
    BY <1>0, <2>1, <2>3
  <2>7. Items' = Items
    <3>1. \A i \in gone : store'[i] # NoItem
      BY <2>3, <2>5, NoItemAssumption
    <3> QED
      BY <2>2, <2>5, <3>1 DEF Items
  <2>8. \A i \in Items : /\ store'[i].serves = store[i].serves /\ store'[i].supersedes = store[i].supersedes
                         /\ store'[i].superseded_by = store[i].superseded_by
    BY <2>2, <2>3, <2>5 DEF Items
  <2>9. \A i \in gone : i \in Items' /\ IsTerminal("intent", store'[i].status)
    BY <2>2, <2>3, <2>5, <2>7, Settled
  <2>10. \A i \in Items : IsTerminal("intent", store[i].status) => IsTerminal("intent", store'[i].status)
    BY <2>5, <2>9 DEF Items
  <2>11. \A i \in Items' : \A n \in store'[i].superseded_by : n \in Items' /\ i \in store'[n].supersedes
    BY <2>7, <2>8 DEF StoreInv
  <2>12. ASSUME NEW i \in Items', store'[i].defeated_by = ByCascade
         PROVE  \/ i \in Items /\ store[i].defeated_by = ByCascade
                \/ /\ store'[i].serves # {}
                   /\ \A p \in store'[i].serves : p \in Items' /\ IsTerminal("intent", store'[p].status)
    <3>1. CASE i \in gone
      <4>1. i # root
        BY <2>4, <2>5, <2>12, <3>1
      <4>2. store'[i].serves # {} /\ store'[i].serves \subseteq gone
        BY <2>2, <2>7, <2>8, <3>1, <4>1
      <4> QED
        BY <2>9, <4>2
    <3>2. CASE i \notin gone
      BY <2>5, <2>7, <2>12, <3>2 DEF Items
    <3> QED
      BY <3>1, <3>2
  <2>13. \A i \in Items : i \in Items' /\ store'[i].serves = store[i].serves
                          /\ (IsTerminal("intent", store[i].status) => IsTerminal("intent", store'[i].status))
    BY <2>7, <2>8, <2>10
  <2>14. \A i \in Items' : store'[i].defeated_by = ByCascade =>
           \/ i \in Items /\ store[i].defeated_by = ByCascade
           \/ /\ store'[i].serves # {}
              /\ \A p \in store'[i].serves : p \in Items' /\ IsTerminal("intent", store'[p].status)
    BY <2>12
  <2> QED
    BY <2>6, <2>11, <2>13, <2>14, StoreStep, SMTT(20)
<1>4. ASSUME NEW i \in ItemIds, NEW n \in ItemIds, Supersede(i, n)
      PROVE  StoreInv'
  <2> DEFINE a == [store[i] EXCEPT !.status = "superseded", !.superseded_by = {n}]
             mid == [store EXCEPT ![i] = a]
             b == [mid[n] EXCEPT !.supersedes = mid[n].supersedes \cup {i}]
  <2>1. {i, n} \subseteq Items /\ store' = [mid EXCEPT ![n] = b]
    BY <1>0, <1>4 DEF Supersede
  <2>2. /\ a \in StoreItem /\ a.status = "superseded" /\ a.serves = store[i].serves
        /\ a.supersedes = store[i].supersedes /\ a.superseded_by = {n}
        /\ a.defeated_by = store[i].defeated_by
    BY <2>1, ItemFacts DEF StoreItem, IntentStatus
  <2> HIDE DEF a
  <2>3. mid[i] = a /\ \A k \in ItemIds \ {i} : mid[k] = store[k]
    BY <1>0
  <2>4. mid \in [ItemIds -> StoreItem \cup {NoItem}] /\ mid[n] \in StoreItem
    BY <1>0, <2>1, <2>2, <2>3, ItemFacts
  <2> HIDE DEF mid
  <2>5. /\ b \in StoreItem /\ b.status = mid[n].status /\ b.serves = mid[n].serves
        /\ b.supersedes = mid[n].supersedes \cup {i} /\ b.superseded_by = mid[n].superseded_by
        /\ b.defeated_by = mid[n].defeated_by
    BY <2>4 DEF StoreItem
  <2> HIDE DEF b
  <2>6. /\ store'[n] = b /\ \A k \in ItemIds \ {n} : store'[k] = mid[k]
        /\ store' \in [ItemIds -> StoreItem \cup {NoItem}]
    BY <2>1, <2>4, <2>5
  <2>7. Items' = Items
    <3>1. a # NoItem /\ b # NoItem
      BY <2>2, <2>5, NoItemAssumption
    <3> QED
      BY <2>1, <2>3, <2>6, <3>1 DEF Items
  <2>8. \A k \in Items : /\ store'[k].serves = store[k].serves
                         /\ store'[k].defeated_by = store[k].defeated_by
                         /\ store[k].supersedes \subseteq store'[k].supersedes
                         /\ store'[k].status = IF k = i THEN "superseded" ELSE store[k].status
                         /\ store'[k].superseded_by = IF k = i THEN {n} ELSE store[k].superseded_by
    BY <2>2, <2>3, <2>5, <2>6 DEF Items
  <2>9. i \in store'[n].supersedes
    BY <2>5, <2>6
  <2>10. \A k \in Items' : \A m \in store'[k].superseded_by : m \in Items' /\ k \in store'[m].supersedes
    <3>1. \A k \in Items : \A m \in store[k].superseded_by : m \in Items /\ k \in store[m].supersedes
      BY DEF StoreInv
    <3> QED
      BY <2>1, <2>7, <2>8, <2>9, <3>1
  <2>11. \A k \in Items : IsTerminal("intent", store[k].status) => IsTerminal("intent", store'[k].status)
    BY <2>8, Settled
  <2> QED
    BY <2>6, <2>7, <2>8, <2>10, <2>11, StoreStep
<1> QED
  BY <1>1, <1>2, <1>3, <1>4 DEF StoreCall

\* Who defeated an item is read as it was written: no item has the name of the
\* cascade's mark.
LEMMA DefeatedByKept ==
  ASSUME NEW by \in {Nobody, ByCascade} \cup {ByItem(i) : i \in ItemIds}
  PROVE  ReadDefeatedBy(WireDefeatedBy(by)) = by
<1>1. \A i : <<"item", i>> # <<"cascade">> /\ <<"item", i>>[2] = i
  <2>1. \A i : Len(<<"item", i>>) = 2 /\ Len(<<"cascade">>) = 1
    OBVIOUS
  <2> QED
    BY <2>1
<1>2. CASE by = Nobody
  BY <1>2 DEF Nobody, ReadDefeatedBy, WireDefeatedBy
<1>3. CASE by = ByCascade
  BY <1>3 DEF ByCascade, ReadDefeatedBy, WireDefeatedBy
<1>4. ASSUME NEW i \in ItemIds, by = ByItem(i)
      PROVE  ReadDefeatedBy(WireDefeatedBy(by)) = by
  <2>1. WireDefeatedBy(by) = {i}
    BY <1>1, <1>4 DEF ByItem, WireDefeatedBy
  <2>2. i # "cascade"
    BY CascadeAssumption
  <2> QED
    BY <1>4, <2>1, <2>2 DEF ByItem, ReadDefeatedBy
<1> QED
  BY <1>2, <1>3, <1>4

\* The file gives the store back.
LEMMA FileKeepsStore ==
  ASSUME StoreInv
  PROVE  FromYaml(ToYaml(1, "intent")) = {store} /\ FromYaml(ToYaml(1, "finding")) = {}
<1> DEFINE written == [i \in Items |-> [store[i] EXCEPT !.defeated_by = WireDefeatedBy(@)]]
           read == [i \in ItemIds |-> IF i \notin DOMAIN written THEN NoItem
                                      ELSE [written[i] EXCEPT !.defeated_by = ReadDefeatedBy(@)]]
<1>1. ToYaml(1, "intent") = [schema_version |-> 1, kind |-> "intent", items |-> written]
      /\ ToYaml(1, "finding") = [schema_version |-> 1, kind |-> "finding", items |-> written]
  BY DEF ToYaml
<1>2. DOMAIN written = Items
  OBVIOUS
<1>3. ASSUME NEW i \in Items
      PROVE  [written[i] EXCEPT !.defeated_by = ReadDefeatedBy(@)] = store[i]
  <2> DEFINE by == store[i].defeated_by
             w == WireDefeatedBy(by)
             out == [store[i] EXCEPT !.defeated_by = w]
  <2>1. store[i] \in StoreItem /\ by \in {Nobody, ByCascade} \cup {ByItem(k) : k \in ItemIds}
    BY ItemFacts DEF StoreItem
  <2>2. ReadDefeatedBy(w) = by
    BY <2>1, DefeatedByKept
  <2>3. written[i] = out
    OBVIOUS
  <2> HIDE DEF w, written
  <2>4. out.defeated_by = w /\ [out EXCEPT !.defeated_by = by] = store[i]
    BY <2>1 DEF StoreItem
  <2> HIDE DEF out, by
  <2> QED
    BY <2>2, <2>3, <2>4
<1> HIDE DEF written
<1>4. read = store
  <2>1. store = [i \in ItemIds |-> store[i]]
    BY DEF StoreInv
  <2>2. \A i \in ItemIds : i \notin Items => store[i] = NoItem
    BY DEF Items
  <2> QED
    BY <1>2, <1>3, <2>1, <2>2
<1>5. FromYaml(ToYaml(1, "intent")) = {read}
  BY <1>1 DEF FromYaml
<1>6. FromYaml(ToYaml(1, "finding")) = {}
  BY <1>1 DEF FromYaml
<1> QED
  BY <1>4, <1>5, <1>6

\* Whatever is called on a store and in whatever order, its links are answered
\* at their other end, an item is down with the cascade only if it serves
\* something and all of that is settled, and the file gives the store back
\* (crates/knowledge-graph: Store::defeat, supersede, set_status, from_yaml).
THEOREM StoresAreSound == StoreSpec => []StoreSound
<1>1. StoreInit => StoreInv
  BY DEF StoreInit, StoreInv, Items
<1>2. StoreInv /\ [StoreNext]_store_vars => StoreInv'
  <2> SUFFICES ASSUME StoreInv, [StoreNext]_store_vars PROVE StoreInv'
    OBVIOUS
  <2>1. CASE UNCHANGED store_vars
    BY <2>1 DEF store_vars, StoreInv, Items
  <2> QED
    BY <2>1, StoreCallInv DEF StoreNext
<1>3. StoreInv => StoreSound
  BY FileKeepsStore DEF StoreInv, StoreSound
<1> QED
  BY <1>1, <1>2, <1>3, PTL DEF StoreSpec

-----------------------------------------------------------------------------
(* The records of a plan                                                   *)

IsSeq(s) == \E S : s \in Seq(S)

\* A record has its six fields, and what justifies it is a list.
WellFormed(r) == r = [f \in Fields |-> r[f]] /\ IsSeq(r.why) /\ AnchorsWhole(r)

\* The lists are lists, no id is there twice, and every record is whole.
RecordInv ==
  /\ IsSeq(records) /\ Unique(records)
  /\ \A i \in DOMAIN records : WellFormed(records[i])
  /\ IsSeq(sessions) /\ Unique(sessions) /\ IsSeq(objections)

\* A list's places are numbered from one.
LEMMA SeqFacts ==
  ASSUME NEW s, IsSeq(s)
  PROVE  /\ Len(s) \in Nat /\ DOMAIN s = 1..Len(s)
         /\ s \in Seq({s[i] : i \in DOMAIN s}) /\ s = [i \in 1..Len(s) |-> s[i]]
<1> PICK S : s \in Seq(S) BY DEF IsSeq
<1>1. Len(s) \in Nat /\ DOMAIN s = 1..Len(s) /\ s \in [1..Len(s) -> S] BY LenProperties
<1>2. s \in [1..Len(s) -> {s[i] : i \in DOMAIN s}] BY <1>1
<1> QED BY <1>1, <1>2

\* The empty list is one.
LEMMA EmptyIsSeq == IsSeq(<<>>)
<1>1. <<>> \in Seq({}) OBVIOUS
<1> QED BY <1>1 DEF IsSeq

\* A set of places that is not empty has a first one.
LEMMA FirstOf ==
  ASSUME NEW I \in SUBSET Nat, I # {}
  PROVE  \E x \in I : \A y \in I : x <= y
<1> DEFINE Lt == {ss \in Nat \X Nat : ss[1] < ss[2]}
<1>1. IsWellFoundedOn(Lt, Nat) BY NatLessThanWellFounded DEF OpToRel
<1>2. PICK x \in I : \A y \in I : <<y, x>> \notin Lt
  <2> HIDE DEF Lt
  <2> QED BY <1>1, WFMin
<1>3. \A y \in I : ~(y < x) BY <1>2
<1> QED BY <1>2, <1>3

\* Vec::push: the list, and one more behind it.
LEMMA Pushed ==
  ASSUME NEW s, IsSeq(s), NEW e
  PROVE  /\ IsSeq(Append(s, e)) /\ IsPrefix(s, Append(s, e)) /\ IsPrefix(s, s)
         /\ DOMAIN Append(s, e) = 1..(Len(s) + 1) /\ Append(s, e)[Len(s) + 1] = e
         /\ \A i \in DOMAIN s : Append(s, e)[i] = s[i]
<1> PICK S : s \in Seq(S) BY DEF IsSeq
<1> DEFINE T == S \cup {e}
           a == Append(s, e)
<1>1. s \in Seq(T) BY SeqMonotonic
<1> HIDE DEF T
<1>2. e \in T BY DEF T
<1>3. a \in Seq(T) /\ Len(a) = Len(s) + 1 /\ Len(s) \in Nat BY <1>1, <1>2
<1>4. DOMAIN a = 1..(Len(s) + 1) /\ DOMAIN s = 1..Len(s) BY <1>1, <1>3
<1>5. a[Len(s) + 1] = e /\ \A i \in 1..Len(s) : a[i] = s[i] BY <1>1, <1>2
<1>6. SubSeq(s, 1, Len(s)) = SubSeq(a, 1, Len(s))
  <2> DEFINE p == SubSeq(s, 1, Len(s))
             q == SubSeq(a, 1, Len(s))
  <2>1. \A i \in 1..Len(s) : s[i] \in T /\ a[i] \in T BY <1>1, <1>3, <1>5, ElementOfSeq
  <2>2. p \in Seq(T) /\ Len(p) = Len(s) /\ \A i \in 1..Len(s) : p[i] = s[i] BY <1>1, <1>3, <2>1, SubSeqProperties
  <2>3. q \in Seq(T) /\ Len(q) = Len(s) /\ \A i \in 1..Len(s) : q[i] = a[i] BY <1>3, <2>1, SubSeqProperties
  <2> HIDE DEF p, q, a
  <2>4. \A i \in 1..Len(p) : p[i] = q[i] BY <1>5, <2>2, <2>3
  <2>5. p = q BY <2>2, <2>3, <2>4, SeqEqual
  <2> QED BY <2>5 DEF p, q, a
<1>7. IsPrefix(s, a) BY <1>3, <1>6 DEF IsPrefix
<1>8. IsPrefix(s, s) BY <1>3 DEF IsPrefix
<1> QED BY <1>3, <1>4, <1>5, <1>7, <1>8 DEF IsSeq

\* What Picked leaves: every kept place, each once, in the order it had.
LEMMA PickedFacts ==
  ASSUME NEW s, IsSeq(s), NEW kept \in SUBSET DOMAIN s
  PROVE  LET n == Cardinality(kept) IN
         /\ n \in Nat /\ IsFiniteSet(kept)
         /\ \E nth \in [1..n -> kept] :
              /\ \A w : Picked(w, kept) = [m \in 1..n |-> w[nth[m]]]
              /\ \A a, b \in 1..n : nth[a] = nth[b] => a = b
              /\ \A k \in kept : \E m \in 1..n : nth[m] = k
<1> DEFINE n == Cardinality(kept)
           upTo(k) == {l \in kept : l <= k}
           rank == [k \in kept |-> Cardinality(upTo(k))]
           nth == [m \in 1..n |-> CHOOSE k \in kept : rank[k] = m]
<1>1. DOMAIN s = 1..Len(s) /\ Len(s) \in Nat BY SeqFacts
<1>2. IsFiniteSet(kept) /\ n \in Nat /\ (\A k \in kept : k \in Nat)
  <2>1. IsFiniteSet(1..Len(s)) BY <1>1, FS_Interval
  <2>2. kept \in SUBSET (1..Len(s)) BY <1>1
  <2>3. IsFiniteSet(kept) BY <2>1, <2>2, FS_Subset
  <2>4. n \in Nat BY <2>3, FS_CardinalityType
  <2> QED BY <1>1, <2>3, <2>4
<1>3. \A k \in kept : upTo(k) \in SUBSET kept /\ k \in upTo(k) BY <1>2
<1> HIDE DEF n
<1>4. \A k \in kept : IsFiniteSet(upTo(k)) /\ Cardinality(upTo(k)) \in 1..n
  <2> SUFFICES ASSUME NEW k \in kept PROVE IsFiniteSet(upTo(k)) /\ Cardinality(upTo(k)) \in 1..n
      OBVIOUS
  <2>1. upTo(k) \in SUBSET kept /\ k \in upTo(k) BY <1>3
  <2> HIDE DEF upTo
  <2>2. IsFiniteSet(upTo(k)) /\ Cardinality(upTo(k)) <= n BY <1>2, <2>1, FS_Subset DEF n
  <2>3. Cardinality(upTo(k)) \in Nat /\ Cardinality(upTo(k)) # 0
    BY <2>1, <2>2, FS_CardinalityType, FS_EmptySet
  <2> QED BY <1>2, <2>2, <2>3
<1>5. \A a, b \in kept : a < b => Cardinality(upTo(a)) # Cardinality(upTo(b))
  <2> SUFFICES ASSUME NEW a \in kept, NEW b \in kept, a < b,
                      Cardinality(upTo(a)) = Cardinality(upTo(b))
               PROVE  FALSE
      OBVIOUS
  <2>1. a \in Nat /\ b \in Nat BY <1>2
  <2>2. upTo(a) \in SUBSET upTo(b) /\ b \in upTo(b) /\ b \notin upTo(a)
    <3>1. \A l \in kept : l <= a => l <= b BY <1>2, <2>1
    <3>2. b <= b /\ ~(b <= a) BY <2>1
    <3> QED BY <3>1, <3>2
  <2>3. IsFiniteSet(upTo(b)) BY <1>4
  <2> HIDE DEF upTo
  <2>4. upTo(a) = upTo(b) BY <2>2, <2>3, FS_Subset
  <2> QED BY <2>2, <2>4
<1>6. rank \in Surjection(kept, 1..n)
  <2>1. rank \in [kept -> 1..n] BY <1>4
  <2>2. \A a, b \in kept : rank[a] = rank[b] => a = b
    <3> SUFFICES ASSUME NEW a \in kept, NEW b \in kept, a # b PROVE rank[a] # rank[b]
        OBVIOUS
    <3>1. a < b \/ b < a BY <1>2
    <3> QED BY <1>5, <3>1
  <2> HIDE DEF rank, upTo
  <2>3. rank \in Injection(kept, 1..n) BY <2>1, <2>2 DEF Injection, IsInjective
  <2>4. IsFiniteSet(1..n) /\ Cardinality(1..n) = n
    <3>1. IsFiniteSet(1..n) /\ Cardinality(1..n) = IF 1 > n THEN 0 ELSE n - 1 + 1 BY <1>2, FS_Interval
    <3>2. (IF 1 > n THEN 0 ELSE n - 1 + 1) = n BY <1>2
    <3> QED BY <3>1, <3>2
  <2> QED BY <2>3, <2>4, FS_Injection DEF n
<1>7. \A a, b \in kept : rank[a] = rank[b] => a = b
  <2> SUFFICES ASSUME NEW a \in kept, NEW b \in kept, a # b PROVE rank[a] # rank[b]
      OBVIOUS
  <2>1. a < b \/ b < a BY <1>2
  <2> QED BY <1>5, <2>1
<1>8. \A m \in 1..n : \E k \in kept : rank[k] = m
  <2> HIDE DEF rank
  <2> QED BY <1>6 DEF Surjection
<1>9. \A k \in kept : rank[k] \in 1..n BY <1>4
<1>10. \A w : Picked(w, kept) = [m \in 1..n |-> w[nth[m]]] BY DEF Picked, n
<1> HIDE DEF rank, upTo
<1>11. \A m \in 1..n : nth[m] \in kept /\ rank[nth[m]] = m
  <2> SUFFICES ASSUME NEW m \in 1..n PROVE nth[m] \in kept /\ rank[nth[m]] = m
      OBVIOUS
  <2>1. \E k \in kept : rank[k] = m BY <1>8
  <2>2. nth[m] = CHOOSE k \in kept : rank[k] = m OBVIOUS
  <2> QED BY <2>1, <2>2
<1>12. nth \in [1..n -> kept]
  <2>1. nth = [m \in 1..n |-> nth[m]] OBVIOUS
  <2> HIDE DEF nth
  <2> QED BY <1>11, <2>1
<1> HIDE DEF nth
<1>13. \A a, b \in 1..n : nth[a] = nth[b] => a = b BY <1>11
<1>14. \A k \in kept : \E m \in 1..n : nth[m] = k
  <2> SUFFICES ASSUME NEW k \in kept PROVE nth[rank[k]] = k
      BY <1>9
  <2> QED BY <1>7, <1>9, <1>11
<1> QED BY <1>2, <1>10, <1>12, <1>13, <1>14 DEF n

\* The n numbers after a, and the entries of a sequence at them.
Span(a, n) == (a + 1)..(a + n)
Stretch(s, a, n) == [m \in 1..n |-> s[a + m]]

\* What is picked of a stretch of places is that stretch.
LEMMA PickedStretch ==
  ASSUME NEW s, NEW a \in Nat, NEW n \in Nat
  PROVE  Picked(s, Span(a, n)) = Stretch(s, a, n)
<1> DEFINE kept == (a + 1)..(a + n)
           rank == [k \in kept |-> Cardinality({l \in kept : l <= k})]
           Place(m) == CHOOSE k \in kept : rank[k] = m
<1>1. \A m \in 0..n : IsFiniteSet((a + 1)..(a + m)) /\ Cardinality((a + 1)..(a + m)) = m
  <2> SUFFICES ASSUME NEW m \in 0..n
               PROVE  IsFiniteSet((a + 1)..(a + m)) /\ Cardinality((a + 1)..(a + m)) = m
      OBVIOUS
  <2>1. a + 1 \in Int /\ a + m \in Int OBVIOUS
  <2>2. /\ IsFiniteSet((a + 1)..(a + m))
        /\ Cardinality((a + 1)..(a + m)) = IF a + 1 > a + m THEN 0 ELSE a + m - (a + 1) + 1
    BY <2>1, FS_Interval
  <2>3. (IF a + 1 > a + m THEN 0 ELSE a + m - (a + 1) + 1) = m OBVIOUS
  <2> QED BY <2>2, <2>3
<1>2. Cardinality(kept) = n
  <2>1. n \in 0..n OBVIOUS
  <2> QED BY <1>1, <2>1
<1>3. \A m \in 1..n : a + m \in kept /\ rank[a + m] = m
  <2> SUFFICES ASSUME NEW m \in 1..n PROVE a + m \in kept /\ rank[a + m] = m
      OBVIOUS
  <2>1. {l \in kept : l <= a + m} = (a + 1)..(a + m) OBVIOUS
  <2>2. m \in 0..n /\ a + m \in kept OBVIOUS
  <2>3. rank[a + m] = Cardinality({l \in kept : l <= a + m}) BY <2>2
  <2> QED BY <1>1, <2>1, <2>2, <2>3
<1>4. \A k \in kept : k - a \in 1..n /\ k = a + (k - a)
  <2> SUFFICES ASSUME NEW k \in (a + 1)..(a + n) PROVE k - a \in 1..n /\ k = a + (k - a)
      OBVIOUS
  <2>1. k \in Int /\ a + 1 <= k /\ k <= a + n OBVIOUS
  <2> QED BY <2>1
<1>5. \A m \in 1..n : Place(m) = a + m
  <2> HIDE DEF rank, kept
  <2> SUFFICES ASSUME NEW m \in 1..n PROVE Place(m) = a + m
      OBVIOUS
  <2>1. \A k \in kept : rank[k] = m => k = a + m
    <3> SUFFICES ASSUME NEW k \in kept, rank[k] = m PROVE k = a + m
        OBVIOUS
    <3>1. rank[a + (k - a)] = k - a BY <1>3, <1>4
    <3>2. k = a + (k - a) BY <1>4
    <3> QED BY <3>1, <3>2
  <2>2. \E k \in kept : rank[k] = m BY <1>3
  <2> QED BY <2>1, <2>2
<1>6. Picked(s, kept) = [m \in 1..n |-> s[Place(m)]]
  BY <1>2 DEF Picked
<1> HIDE DEF Place
<1>7. [m \in 1..n |-> s[Place(m)]] = [m \in 1..n |-> s[a + m]] BY <1>5
<1> QED BY <1>6, <1>7 DEF kept, Span, Stretch

\* A new first rationale, or one in front, leaves the other reasons as they are.
LEMMA ReasonsStay ==
  ASSUME NEW r, NEW t, NEW text, IsSeq(r.why), t.why = WithRationale(r.why, text)
  PROVE  /\ OtherReasons(r) = OtherReasons(t)
         /\ IsSeq(t.why)
         /\ AnchorsWhole(r) => AnchorsWhole(t)
<1> DEFINE why == r.why
           I == {i \in 1..Len(why) : why[i][1] = "rationale"}
           at == SelectInSeq(why, LAMBDA j : j[1] = "rationale")
           new == Rationale(text)
           Others(w) == {n \in DOMAIN w : w[n][1] # "rationale"}
<1>1. PICK S : why \in Seq(S) BY DEF IsSeq
<1>2. DOMAIN why = 1..Len(why) /\ Len(why) \in Nat BY <1>1
<1>3. new[1] = "rationale" BY DEF Rationale
<1>4. at = IF I # {} THEN Min(I) ELSE 0 BY DEF SelectInSeq
<1>5. t.why = IF at = 0 THEN <<new>> \o why ELSE [why EXCEPT ![at] = new] BY DEF WithRationale
<1>6. OtherReasons(r) = Picked(why, Others(why)) /\ OtherReasons(t) = Picked(t.why, Others(t.why))
  BY DEF OtherReasons
<1> HIDE DEF at, new
<1>7. CASE I # {}
  <2>1. I \in SUBSET Nat BY <1>2
  <2>2. \E x \in I : \A y \in I : x <= y BY <1>7, <2>1, FirstOf
  <2>3. at = Min(I) BY <1>4, <1>7
  <2>4. at \in I BY <2>2, <2>3 DEF Min
  <2>5. at \in 1..Len(why) /\ why[at][1] = "rationale" /\ at # 0 BY <1>2, <2>4
  <2>6. t.why = [why EXCEPT ![at] = new] BY <1>5, <2>5
  <2>7. t.why \in Seq(S \cup {new}) /\ DOMAIN t.why = DOMAIN why BY <1>1, <2>5, <2>6
  <2>8. /\ t.why[at] = new
        /\ \A n \in DOMAIN why : n # at => t.why[n] = why[n]
    BY <1>2, <2>5, <2>6
  <2> HIDE DEF I
  <2>9. Others(t.why) = Others(why) BY <1>3, <2>5, <2>7, <2>8
  <2>10. \A n \in Others(why) : n \in DOMAIN why /\ n # at /\ t.why[n] = why[n] BY <2>5, <2>8
  <2>11. Picked(t.why, Others(why)) = Picked(why, Others(why))
    <3> DEFINE kept == Others(why)
               n == Cardinality(kept)
    <3>1. kept \in SUBSET DOMAIN why OBVIOUS
    <3> HIDE DEF kept
    <3>2. PICK nth \in [1..n -> kept] : \A w : Picked(w, kept) = [m \in 1..n |-> w[nth[m]]]
      BY <3>1, PickedFacts
    <3>3. \A m \in 1..n : t.why[nth[m]] = why[nth[m]] BY <2>10, <3>2 DEF kept
    <3> HIDE DEF n
    <3>4. [m \in 1..n |-> t.why[nth[m]]] = [m \in 1..n |-> why[nth[m]]] BY <3>3
    <3>5. Picked(t.why, kept) = [m \in 1..n |-> t.why[nth[m]]] BY <3>2
    <3>6. Picked(why, kept) = [m \in 1..n |-> why[nth[m]]] BY <3>2
    <3> QED BY <3>4, <3>5, <3>6 DEF kept
  <2>12. AnchorsWhole(r) => AnchorsWhole(t)
    BY <1>3, <2>5, <2>7, <2>8 DEF AnchorsWhole
  <2> QED BY <1>6, <2>7, <2>9, <2>11, <2>12 DEF IsSeq
<1>8. CASE I = {}
  <2> DEFINE N == Len(why)
  <2>1. t.why = <<new>> \o why BY <1>4, <1>5, <1>8
  <2>2. why \in Seq(S \cup {new}) /\ <<new>> \in Seq(S \cup {new}) BY <1>1
  <2>3. /\ t.why \in Seq(S \cup {new}) /\ Len(t.why) = N + 1 /\ N \in Nat
        /\ t.why[1] = new
        /\ \A m \in 1..N : t.why[1 + m] = why[m]
    BY <1>2, <2>1, <2>2
  <2>4. DOMAIN t.why = 1..(N + 1) BY <2>3
  <2>5. \A n \in 1..N : why[n][1] # "rationale" BY <1>8
  <2>6. Others(why) = Span(0, N) BY <1>2, <2>3, <2>5 DEF Span
  <2>7. Others(t.why) = Span(1, N)
    <3>1. \A n \in 1..(N + 1) : n = 1 \/ (n - 1 \in 1..N /\ n = 1 + (n - 1)) BY <2>3
    <3>2. \A n \in 1..(N + 1) : t.why[n][1] # "rationale" <=> n # 1
      <4> SUFFICES ASSUME NEW n \in 1..(N + 1) PROVE t.why[n][1] # "rationale" <=> n # 1
          OBVIOUS
      <4>1. CASE n = 1 BY <1>3, <2>3, <4>1
      <4>2. CASE n # 1
        <5>1. n - 1 \in 1..N /\ n = 1 + (n - 1) BY <3>1, <4>2
        <5>2. t.why[n] = why[n - 1] BY <2>3, <5>1
        <5> QED BY <2>5, <4>2, <5>1, <5>2
      <4> QED BY <4>1, <4>2
    <3>3. Others(t.why) = {n \in 1..(N + 1) : n # 1} BY <2>4, <3>2
    <3>4. {n \in 1..(N + 1) : n # 1} = (1 + 1)..(1 + N) BY <2>3
    <3> QED BY <3>3, <3>4 DEF Span
  <2>8. OtherReasons(r) = Stretch(why, 0, N)
    <3>1. N \in Nat BY <2>3
    <3> HIDE DEF Others, N
    <3>2. Picked(why, Span(0, N)) = Stretch(why, 0, N) BY <3>1, PickedStretch
    <3> QED BY <1>6, <2>6, <3>2
  <2>9. OtherReasons(t) = Stretch(t.why, 1, N)
    <3>1. N \in Nat BY <2>3
    <3> HIDE DEF Others, N
    <3>2. Picked(t.why, Span(1, N)) = Stretch(t.why, 1, N) BY <3>1, PickedStretch
    <3> QED BY <1>6, <2>7, <3>2
  <2>10. \A m \in 1..N : why[0 + m] = t.why[1 + m] BY <2>3
  <2>11. OtherReasons(r) = OtherReasons(t) BY <2>8, <2>9, <2>10 DEF Stretch
  <2>12. AnchorsWhole(r) => AnchorsWhole(t)
    <3> SUFFICES ASSUME AnchorsWhole(r), NEW n \in 1..(N + 1), t.why[n][1] = "anchor"
                 PROVE  ParseCodeAnchor(t.why[n][2])
        BY <2>4 DEF AnchorsWhole
    <3>1. n # 1 BY <1>3, <2>3
    <3>2. n - 1 \in 1..N /\ n = 1 + (n - 1) BY <2>3, <3>1
    <3>3. t.why[n] = why[n - 1] BY <2>3, <3>2
    <3> QED BY <1>2, <3>2, <3>3 DEF AnchorsWhole
  <2> QED BY <2>3, <2>11, <2>12 DEF IsSeq
<1> QED BY <1>7, <1>8

\* allocate_id gives an id that no entry has: of one number more than there are
\* entries, one is free.
LEMMA AllocatedIsFree ==
  ASSUME NEW title \in Titles, NEW entries, IsSeq(entries)
  PROVE  \A i \in DOMAIN entries : entries[i].id # AllocateId(title, entries)
<1> DEFINE N == Len(entries)
           ids == {entries[i].id : i \in DOMAIN entries}
           free == {n \in 2..(N + 2) : Append(title, n) \notin ids}
           Place(n) == CHOOSE i \in 1..N : entries[i].id = Append(title, n)
           at == [n \in 2..(N + 2) |-> Place(n)]
<1>1. N \in Nat /\ DOMAIN entries = 1..N BY SeqFacts
<1>2. \A m, n \in Nat : Append(title, m) = Append(title, n) => m = n
  <2> SUFFICES ASSUME NEW m \in Nat, NEW n \in Nat, Append(title, m) = Append(title, n) PROVE m = n
      OBVIOUS
  <2>1. title \in Seq(Nat) BY TitleAssumption
  <2>2. Append(title, m)[Len(title) + 1] = m /\ Append(title, n)[Len(title) + 1] = n BY <2>1
  <2> QED BY <2>2
<1> HIDE DEF N
<1>3. free # {}
  <2> SUFFICES ASSUME free = {} PROVE FALSE
      OBVIOUS
  <2>1. \A n \in 2..(N + 2) : \E i \in 1..N : entries[i].id = Append(title, n) BY <1>1
  <2>2. \A n \in 2..(N + 2) : Place(n) \in 1..N /\ entries[Place(n)].id = Append(title, n) BY <2>1
  <2> HIDE DEF Place
  <2>3. at \in [2..(N + 2) -> 1..N] BY <2>2
  <2>4. \A m, n \in 2..(N + 2) : at[m] = at[n] => m = n
    <3> SUFFICES ASSUME NEW m \in 2..(N + 2), NEW n \in 2..(N + 2), at[m] = at[n] PROVE m = n
        OBVIOUS
    <3>1. m \in Nat /\ n \in Nat BY <1>1
    <3>2. Append(title, m) = Append(title, n) BY <2>2 DEF at
    <3> QED BY <1>2, <3>1, <3>2
  <2>5. at \in Injection(2..(N + 2), 1..N) BY <2>3, <2>4 DEF Injection, IsInjective
  <2>6. IsFiniteSet(1..N) /\ Cardinality(1..N) = N
    <3>1. IsFiniteSet(1..N) /\ Cardinality(1..N) = IF 1 > N THEN 0 ELSE N - 1 + 1 BY <1>1, FS_Interval
    <3>2. (IF 1 > N THEN 0 ELSE N - 1 + 1) = N BY <1>1
    <3> QED BY <3>1, <3>2
  <2>7. Cardinality(2..(N + 2)) = N + 1
    <3> DEFINE b == N + 2
    <3>1. b \in Int BY <1>1
    <3> HIDE DEF b
    <3>2. Cardinality(2..b) = IF 2 > b THEN 0 ELSE b - 2 + 1 BY <3>1, FS_Interval
    <3>3. (IF 2 > b THEN 0 ELSE b - 2 + 1) = N + 1 BY <1>1 DEF b
    <3> QED BY <3>2, <3>3 DEF b
  <2>8. Cardinality(2..(N + 2)) <= Cardinality(1..N) BY <2>5, <2>6, FS_Injection
  <2> QED BY <1>1, <2>6, <2>7, <2>8
<1>4. \E n \in free : \A m \in free : n <= m
  <2>1. free \in SUBSET Nat BY <1>1
  <2> HIDE DEF free
  <2> QED BY <1>3, <2>1, FirstOf
<1> DEFINE first == CHOOSE n \in free : \A m \in free : n <= m
<1>5. first \in free
  <2> HIDE DEF free
  <2> QED BY <1>4
<1>6. AllocateId(title, entries) = IF title \notin ids THEN title ELSE Append(title, first)
  BY DEF AllocateId, N
<1>7. Append(title, first) \notin ids
  <2> HIDE DEF first, ids
  <2> QED BY <1>5
<1>8. AllocateId(title, entries) \notin ids
  <2> HIDE DEF first, ids
  <2> QED BY <1>6, <1>7
<1> QED BY <1>8

\* Find finds a record that has the id.
LEMMA Found ==
  ASSUME IsSeq(records), NEW id, Find(id) # 0
  PROVE  Find(id) \in DOMAIN records /\ records[Find(id)].id = id
<1> DEFINE I == {i \in 1..Len(records) : records[i].id = id}
<1>1. Len(records) \in Nat /\ DOMAIN records = 1..Len(records) BY SeqFacts
<1>2. Find(id) = IF I # {} THEN Min(I) ELSE 0 BY DEF Find, SelectInSeq
<1>3. I \in SUBSET Nat BY <1>1
<1>4. I # {} /\ Find(id) = Min(I) BY <1>2
<1>5. Min(I) \in I
  <2> HIDE DEF I
  <2>1. \E x \in I : \A y \in I : x <= y BY <1>3, <1>4, FirstOf
  <2> QED BY <2>1 DEF Min
<1> QED BY <1>1, <1>4, <1>5

\* A verb changes the records or the logs, never both.
RecordsStay == kind' = kind /\ records' = records
LogsStay == kind' = kind /\ files' = files

\* No record, or one, is missing from the new ones.
LEMMA OneAtMost ==
  ASSUME NEW D, NEW T, NEW a, T \in SUBSET D, T \in SUBSET {a}
  PROVE  Cardinality(T) <= 1
<1>1. IsFiniteSet({a}) /\ Cardinality({a}) = 1 BY FS_Singleton
<1> QED BY <1>1, FS_Subset

\* What leaves the records alone is a step of theirs.
LEMMA RecordsKept ==
  ASSUME RecordInv, RecordsStay
  PROVE  RecordStep
<1> DEFINE gone == {i \in DOMAIN records : \A j \in DOMAIN records' : records'[j] # records[i]}
<1>1. Unique(records') BY DEF RecordInv, RecordsStay
<1>2. \A i \in DOMAIN records, j \in DOMAIN records' :
        records[i].id = records'[j].id => SameRecord(records[i], records'[j])
  BY DEF RecordInv, RecordsStay, Unique, SameRecord, MaySetStatus
<1>3. \A j \in DOMAIN records' : AnchorsWhole(records'[j]) BY DEF RecordInv, RecordsStay, WellFormed
<1>4. gone = {} BY DEF RecordsStay
<1>5. Cardinality(gone) <= 1 BY <1>4, OneAtMost
<1> QED BY <1>1, <1>2, <1>3, <1>5 DEF RecordStep

\* What leaves the logs alone is a step of theirs.
LEMMA LogsKept ==
  ASSUME RecordInv, LogsStay
  PROVE  LogStep
<1>1. IsPrefix(sessions, sessions) /\ IsPrefix(objections, objections) BY Pushed DEF RecordInv
<1> QED BY <1>1 DEF RecordInv, LogsStay, LogStep, files

\* A verb that changes the record it finds, and neither its id nor what must stay.
LEMMA Edited ==
  ASSUME RecordInv, NEW id, Find(id) # 0, NEW new, LogsStay,
         records' = [records EXCEPT ![Find(id)] = new],
         new.id = records[Find(id)].id, SameRecord(records[Find(id)], new), WellFormed(new)
  PROVE  RecordInv' /\ RecordStep
<1> DEFINE at == Find(id)
           gone == {i \in DOMAIN records : \A j \in DOMAIN records' : records'[j] # records[i]}
<1>1. at \in DOMAIN records BY Found DEF RecordInv
<1>2. PICK S : records \in Seq(S) BY DEF RecordInv, IsSeq
<1> HIDE DEF at
<1>3. records' = [records EXCEPT ![at] = new] BY DEF at
<1>4. records' \in Seq(S \cup {new}) /\ DOMAIN records' = DOMAIN records
  <2> DEFINE T == S \cup {new}
  <2>1. at \in 1..Len(records) /\ records \in Seq(T) /\ new \in T BY <1>1, <1>2, SeqMonotonic
  <2> HIDE DEF T
  <2>2. [records EXCEPT ![at] = new] \in Seq(T) BY <2>1, ExceptSeq
  <2>3. DOMAIN records' = DOMAIN records BY <1>3
  <2> QED BY <1>3, <2>2, <2>3 DEF T
<1>5. records'[at] = new /\ \A i \in DOMAIN records : i # at => records'[i] = records[i]
  BY <1>1, <1>2, <1>3
<1>6. new.id = records[at].id /\ SameRecord(records[at], new) BY DEF at
<1>7. \A i \in DOMAIN records : records'[i].id = records[i].id BY <1>5, <1>6
<1>8. Unique(records') BY <1>4, <1>7 DEF RecordInv, Unique
<1>9. \A i \in DOMAIN records' : WellFormed(records'[i]) BY <1>4, <1>5 DEF RecordInv
<1>10. RecordInv' BY <1>4, <1>8, <1>9 DEF RecordInv, IsSeq, LogsStay, files, WellFormed, AnchorsWhole, Unique
<1>11. \A i \in DOMAIN records, j \in DOMAIN records' :
         records[i].id = records'[j].id => SameRecord(records[i], records'[j])
  <2> SUFFICES ASSUME NEW i \in DOMAIN records, NEW j \in DOMAIN records', records[i].id = records'[j].id
               PROVE  SameRecord(records[i], records'[j])
      OBVIOUS
  <2>1. i = j BY <1>4, <1>7 DEF RecordInv, Unique
  <2>2. CASE j = at BY <1>5, <1>6, <2>1, <2>2
  <2>3. CASE j # at BY <1>4, <1>5, <2>1, <2>3 DEF SameRecord, MaySetStatus
  <2> QED BY <2>2, <2>3
<1>12. Cardinality(gone) <= 1
  <2>1. gone \in SUBSET {at} BY <1>4, <1>5
  <2> QED BY <2>1, OneAtMost
<1>13. \A j \in DOMAIN records' : AnchorsWhole(records'[j]) BY <1>9 DEF WellFormed
<1> QED BY <1>8, <1>10, <1>11, <1>12, <1>13 DEF RecordStep

\* A verb that adds a record of a free id.
LEMMA Added ==
  ASSUME RecordInv, NEW claim \in Titles, NEW why, IsSeq(why), AnchorsWhole([why |-> why]),
         Add(Fresh(claim, why))
  PROVE  RecordInv' /\ RecordStep
<1> DEFINE new == Fresh(claim, why)
           last == Len(records) + 1
           gone == {i \in DOMAIN records : \A j \in DOMAIN records' : records'[j] # records[i]}
<1>1. \A i \in DOMAIN records : records[i].id # AllocateId(claim, records)
  BY AllocatedIsFree DEF RecordInv
<1>2. new.id = AllocateId(claim, records) /\ new.why = why BY DEF Fresh
<1>3. WellFormed(new)
  <2>1. new = [f \in Fields |-> new[f]] BY DEF Fresh, Fields
  <2> HIDE DEF new
  <2>2. AnchorsWhole(new) BY <1>2 DEF AnchorsWhole
  <2> QED BY <1>2, <2>1, <2>2 DEF WellFormed
<1> HIDE DEF new
<1>4. records' = Append(records, new) /\ LogsStay BY DEF Add, new, LogsStay
<1>5. /\ IsSeq(records') /\ DOMAIN records' = 1..last /\ records'[last] = new
      /\ \A i \in DOMAIN records : records'[i] = records[i]
  BY <1>4, Pushed DEF RecordInv
<1>6. DOMAIN records = 1..Len(records) /\ Len(records) \in Nat BY SeqFacts DEF RecordInv
<1>7. \A j \in DOMAIN records' : j = last \/ j \in DOMAIN records BY <1>5, <1>6
<1>8. Unique(records')
  <2> SUFFICES ASSUME NEW i \in DOMAIN records', NEW j \in DOMAIN records', records'[i].id = records'[j].id
               PROVE  i = j
      BY DEF Unique
  <2>1. CASE i = last /\ j = last BY <2>1
  <2>2. CASE i = last /\ j \in DOMAIN records BY <1>1, <1>2, <1>5, <2>2
  <2>3. CASE j = last /\ i \in DOMAIN records BY <1>1, <1>2, <1>5, <2>3
  <2>4. CASE i \in DOMAIN records /\ j \in DOMAIN records BY <1>5, <2>4 DEF RecordInv, Unique
  <2> QED BY <1>7, <2>1, <2>2, <2>3, <2>4
<1>9. \A j \in DOMAIN records' : WellFormed(records'[j]) BY <1>3, <1>5, <1>7 DEF RecordInv
<1>10. RecordInv' BY <1>4, <1>5, <1>8, <1>9 DEF RecordInv, IsSeq, LogsStay, files, WellFormed, AnchorsWhole, Unique
<1>11. \A i \in DOMAIN records, j \in DOMAIN records' :
         records[i].id = records'[j].id => SameRecord(records[i], records'[j])
  <2> SUFFICES ASSUME NEW i \in DOMAIN records, NEW j \in DOMAIN records', records[i].id = records'[j].id
               PROVE  SameRecord(records[i], records'[j])
      OBVIOUS
  <2>1. j \in DOMAIN records BY <1>1, <1>2, <1>5, <1>7
  <2>2. i = j BY <1>5, <2>1 DEF RecordInv, Unique
  <2>3. records'[j] = records[i] BY <1>5, <2>2
  <2> QED BY <2>3 DEF SameRecord, MaySetStatus
<1>12. Cardinality(gone) <= 1
  <2>1. DOMAIN records \subseteq DOMAIN records' BY <1>5, <1>6
  <2>2. gone = {} BY <1>5, <2>1
  <2> QED BY <2>2, OneAtMost
<1>13. \A j \in DOMAIN records' : AnchorsWhole(records'[j]) BY <1>9 DEF WellFormed
<1> QED BY <1>8, <1>10, <1>11, <1>12, <1>13 DEF RecordStep

\* memory delete takes the one record of the id; the others move up.
LEMMA Deleted ==
  ASSUME RecordInv, NEW id, DeleteMemory(id)
  PROVE  RecordInv' /\ RecordStep /\ LogsStay
<1> DEFINE kept == {n \in DOMAIN records : records[n].id # id}
           N == Cardinality(kept)
           gone == {i \in DOMAIN records : \A j \in DOMAIN records' : records'[j] # records[i]}
<1>1. records' = Picked(records, kept) /\ LogsStay /\ Find(id) # 0 BY DEF DeleteMemory, LogsStay
<1>2. PICK S : records \in Seq(S) BY DEF RecordInv, IsSeq
<1>3. kept \in SUBSET DOMAIN records OBVIOUS
<1>4. Find(id) \in DOMAIN records /\ records[Find(id)].id = id BY <1>1, Found DEF RecordInv
<1>5. \A i \in DOMAIN records : i \notin kept => i = Find(id) BY <1>4 DEF RecordInv, Unique
<1> HIDE DEF kept
<1>6. N \in Nat BY <1>3, PickedFacts DEF RecordInv
<1>7. PICK nth \in [1..N -> kept] :
        /\ \A w : Picked(w, kept) = [m \in 1..N |-> w[nth[m]]]
        /\ \A a, b \in 1..N : nth[a] = nth[b] => a = b
        /\ \A k \in kept : \E m \in 1..N : nth[m] = k
  BY <1>3, PickedFacts DEF RecordInv
<1> HIDE DEF N
<1>8. records' = [m \in 1..N |-> records[nth[m]]] BY <1>1, <1>7
<1>9. \A m \in 1..N : nth[m] \in kept /\ nth[m] \in DOMAIN records BY <1>3, <1>7
<1>10. DOMAIN records' = 1..N /\ \A m \in 1..N : records'[m] = records[nth[m]] BY <1>8
<1>11. IsSeq(records')
  <2>1. \A m \in 1..N : records[nth[m]] \in S BY <1>2, <1>9
  <2>2. records' \in [1..N -> S] BY <1>8, <2>1
  <2>3. records' \in Seq(S) BY <1>6, <2>2
  <2> QED BY <2>3 DEF IsSeq
<1>12. Unique(records') BY <1>7, <1>9, <1>10 DEF RecordInv, Unique
<1>13. \A j \in DOMAIN records' : WellFormed(records'[j]) BY <1>9, <1>10 DEF RecordInv
<1>14. RecordInv' BY <1>1, <1>11, <1>12, <1>13 DEF RecordInv, IsSeq, LogsStay, files, WellFormed, AnchorsWhole, Unique
<1>15. \A i \in DOMAIN records, j \in DOMAIN records' :
         records[i].id = records'[j].id => SameRecord(records[i], records'[j])
  <2> SUFFICES ASSUME NEW i \in DOMAIN records, NEW j \in DOMAIN records', records[i].id = records'[j].id
               PROVE  SameRecord(records[i], records'[j])
      OBVIOUS
  <2>1. i = nth[j] BY <1>9, <1>10 DEF RecordInv, Unique
  <2>2. records'[j] = records[i] BY <1>10, <2>1
  <2> QED BY <2>2 DEF SameRecord, MaySetStatus
<1>16. Cardinality(gone) <= 1
  <2>1. \A k \in kept : \E m \in DOMAIN records' : records'[m] = records[k] BY <1>7, <1>10
  <2>2. gone \in SUBSET {Find(id)} BY <1>5, <2>1
  <2> QED BY <2>2, OneAtMost
<1>17. \A j \in DOMAIN records' : AnchorsWhole(records'[j]) BY <1>13 DEF WellFormed
<1> QED BY <1>1, <1>12, <1>14, <1>15, <1>16, <1>17 DEF RecordStep

\* memory init fills an empty memory.
LEMMA Seeded ==
  ASSUME RecordInv, NEW seed \in Seeds, InitMemory(seed)
  PROVE  RecordInv' /\ RecordStep /\ LogsStay
<1>1. records = <<>> /\ records' = seed /\ LogsStay BY DEF InitMemory, LogsStay
<1>2. IsSeq(records') /\ Unique(records') BY <1>1, SeedAssumption DEF IsSeq
<1>3. \A i \in DOMAIN records' : WellFormed(records'[i]) BY <1>1, SeedAssumption DEF IsSeq, WellFormed
<1>4. RecordInv' BY <1>1, <1>2, <1>3 DEF RecordInv, IsSeq, LogsStay, files, WellFormed, AnchorsWhole, Unique
<1>5. DOMAIN records = {} BY <1>1
<1>6. {i \in DOMAIN records : \A j \in DOMAIN records' : records'[j] # records[i]} \in SUBSET {} BY <1>5
<1>7. Cardinality({i \in DOMAIN records : \A j \in DOMAIN records' : records'[j] # records[i]}) <= 1
  BY <1>6, OneAtMost
<1>8. \A j \in DOMAIN records' : AnchorsWhole(records'[j]) BY <1>3 DEF WellFormed
<1> QED BY <1>1, <1>2, <1>4, <1>5, <1>7, <1>8 DEF RecordStep

\* A verb that rewrites the rationale of a record.
LEMMA Reasoned ==
  ASSUME RecordInv, NEW id, NEW text, SetRationale(id, text)
  PROVE  RecordInv' /\ RecordStep /\ LogsStay
<1> DEFINE r == records[Find(id)]
           new == [r EXCEPT !.why = WithRationale(@, text)]
<1>1. Find(id) # 0 /\ LogsStay /\ records' = [records EXCEPT ![Find(id)] = new]
  BY DEF SetRationale, Change, LogsStay
<1>2. WellFormed(r) BY <1>1, Found DEF RecordInv
<1> HIDE DEF r
<1>3. /\ new.id = r.id /\ new.status = r.status /\ new.why = WithRationale(r.why, text)
      /\ new = [f \in Fields |-> new[f]]
  BY <1>2 DEF WellFormed, Fields
<1> HIDE DEF new
<1>4. OtherReasons(r) = OtherReasons(new) /\ IsSeq(new.why) /\ AnchorsWhole(new)
  BY <1>2, <1>3, ReasonsStay DEF WellFormed
<1>5. WellFormed(new) BY <1>3, <1>4 DEF WellFormed
<1>6. SameRecord(r, new) BY <1>3, <1>4 DEF SameRecord, MaySetStatus
<1> QED BY <1>1, <1>3, <1>5, <1>6, Edited DEF r

\* A verb that sets one field of a record.
Sets(id, f, v) ==
  /\ Find(id) # 0
  /\ records' = [records EXCEPT ![Find(id)] = [records[Find(id)] EXCEPT ![f] = v]]
  /\ LogsStay

\* A verb that changes another field than the id, the status and the reasons.
LEMMA Touched ==
  ASSUME RecordInv, NEW id, NEW v, NEW f \in {"claim", "results", "handoff"},
         Sets(id, f, v)
  PROVE  RecordInv' /\ RecordStep /\ LogsStay
<1> DEFINE r == records[Find(id)]
           new == [r EXCEPT ![f] = v]
<1>1. Find(id) # 0 /\ LogsStay /\ records' = [records EXCEPT ![Find(id)] = new]
  BY DEF Sets
<1>2. WellFormed(r) BY <1>1, Found DEF RecordInv
<1> HIDE DEF r
<1>3. /\ new.id = r.id /\ new.status = r.status /\ new.why = r.why
      /\ new = [g \in Fields |-> new[g]]
  BY <1>2 DEF WellFormed, Fields
<1> HIDE DEF new
<1>4. WellFormed(new) BY <1>2, <1>3 DEF WellFormed, AnchorsWhole
<1>5. SameRecord(r, new) BY <1>3 DEF SameRecord, MaySetStatus, OtherReasons
<1> QED BY <1>1, <1>3, <1>4, <1>5, Edited DEF r

\* A verb that sets a status, where the table of the kind allows it.
LEMMA Ruled ==
  ASSUME RecordInv, NEW id, NEW status, SetStatus(id, status)
  PROVE  RecordInv' /\ RecordStep /\ LogsStay
<1> DEFINE r == records[Find(id)]
           new == [r EXCEPT !.status = status]
<1>1. Find(id) # 0 /\ LogsStay /\ records' = [records EXCEPT ![Find(id)] = new]
  BY DEF SetStatus, Change, LogsStay
<1>2. MaySetStatus(kind, r.status, status) BY DEF SetStatus
<1>3. WellFormed(r) BY <1>1, Found DEF RecordInv
<1> HIDE DEF r
<1>4. /\ new.id = r.id /\ new.status = status /\ new.why = r.why
      /\ new = [g \in Fields |-> new[g]]
  BY <1>3 DEF WellFormed, Fields
<1> HIDE DEF new
<1>5. WellFormed(new) BY <1>3, <1>4 DEF WellFormed, AnchorsWhole
<1>6. IsTerminal(kind, r.status) => status = r.status
  BY <1>2 DEF IsTerminal, MaySetStatus, Transitions
<1>7. SameRecord(r, new) BY <1>2, <1>4, <1>6 DEF SameRecord, OtherReasons
<1> QED BY <1>1, <1>4, <1>5, <1>7, Edited DEF r

\* A verb that adds a record justified by its text alone.
LEMMA Recorded ==
  ASSUME RecordInv, NEW claim \in Titles, NEW text, Add(Fresh(claim, <<Rationale(text)>>))
  PROVE  RecordInv' /\ RecordStep /\ LogsStay
<1> DEFINE new == Rationale(text)
           why == <<new>>
<1>1. new[1] = "rationale" BY DEF Rationale
<1> HIDE DEF new
<1>2. why \in Seq({new}) OBVIOUS
<1>3. IsSeq(why) BY <1>2 DEF IsSeq
<1>4. AnchorsWhole([why |-> why]) BY <1>1 DEF AnchorsWhole
<1>5. LogsStay BY DEF Add, LogsStay
<1> QED BY <1>3, <1>4, <1>5, Added DEF new

\* memory add gives a record its text and the anchors that parse.
LEMMA Remembered ==
  ASSUME RecordInv, NEW claim \in Titles, NEW text, NEW flags, IsSeq(flags),
         AddMemory(claim, text, flags)
  PROVE  RecordInv' /\ RecordStep /\ LogsStay
<1> DEFINE new == Rationale(text)
           behind == [i \in DOMAIN flags |-> Anchor(flags[i])]
           T == {new} \cup {Anchor(flags[i]) : i \in DOMAIN flags}
           why == <<new>> \o behind
           N == Len(flags)
<1>1. new[1] = "rationale" BY DEF Rationale
<1>2. DOMAIN flags = 1..N /\ N \in Nat BY SeqFacts
<1>3. behind \in [1..N -> T] BY <1>2
<1>4. behind \in Seq(T) /\ Len(behind) = N
  <2> HIDE DEF behind, T, N
  <2> QED BY <1>2, <1>3
<1>5. \A i \in 1..N : ParseCodeAnchor(behind[i][2])
  BY <1>2 DEF AddMemory, Anchor
<1>6. Add(Fresh(claim, why)) BY DEF AddMemory
<1> HIDE DEF new, behind, N
<1>7. <<new>> \in Seq(T) OBVIOUS
<1> HIDE DEF T
<1>8. /\ why \in Seq(T) /\ Len(why) = N + 1 /\ why[1] = new
      /\ \A i \in 1..N : why[1 + i] = behind[i]
  BY <1>2, <1>4, <1>7
<1> HIDE DEF why
<1>9. IsSeq(why) BY <1>8 DEF IsSeq
<1>10. \A n \in DOMAIN why : why[n][1] = "anchor" => ParseCodeAnchor(why[n][2])
  <2> SUFFICES ASSUME NEW n \in DOMAIN why, why[n][1] = "anchor" PROVE ParseCodeAnchor(why[n][2])
      OBVIOUS
  <2>1. n \in 1..(N + 1) BY <1>2, <1>8
  <2>2. n # 1 BY <1>1, <1>8
  <2>3. n - 1 \in 1..N /\ n = 1 + (n - 1) BY <1>2, <2>1, <2>2
  <2>4. why[n] = behind[n - 1] BY <1>8, <2>3
  <2> QED BY <1>5, <2>3, <2>4
<1>11. AnchorsWhole([why |-> why]) BY <1>10 DEF AnchorsWhole
<1>12. LogsStay BY <1>6 DEF Add, LogsStay
<1> QED BY <1>6, <1>9, <1>11, <1>12, Added

\* A session whose id is not there yet is logged behind the others.
LEMMA Logged ==
  ASSUME RecordInv, NEW r, AppendSession(r)
  PROVE  RecordInv' /\ LogStep /\ RecordsStay
<1>1. /\ RecordsStay /\ objections' = objections /\ sessions' = Append(sessions, r)
      /\ \A i \in DOMAIN sessions : sessions[i].id # r.id
  BY DEF AppendSession, AppendRecord, RecordsStay
<1> DEFINE last == Len(sessions) + 1
<1>2. DOMAIN sessions = 1..Len(sessions) /\ Len(sessions) \in Nat BY SeqFacts DEF RecordInv
<1>3. /\ IsSeq(sessions') /\ IsPrefix(sessions, sessions')
      /\ DOMAIN sessions' = 1..last /\ sessions'[last] = r
      /\ \A i \in DOMAIN sessions : sessions'[i] = sessions[i]
  BY <1>1, Pushed DEF RecordInv
<1>4. \A j \in DOMAIN sessions' : j = last \/ j \in DOMAIN sessions BY <1>2, <1>3
<1>5. Unique(sessions')
  <2> SUFFICES ASSUME NEW i \in DOMAIN sessions', NEW j \in DOMAIN sessions', sessions'[i].id = sessions'[j].id
               PROVE  i = j
      BY DEF Unique
  <2>1. CASE i = last /\ j = last BY <2>1
  <2>2. CASE i = last /\ j \in DOMAIN sessions BY <1>1, <1>3, <2>2
  <2>3. CASE j = last /\ i \in DOMAIN sessions BY <1>1, <1>3, <2>3
  <2>4. CASE i \in DOMAIN sessions /\ j \in DOMAIN sessions BY <1>3, <2>4 DEF RecordInv, Unique
  <2> QED BY <1>4, <2>1, <2>2, <2>3, <2>4
<1>6. IsPrefix(objections, objections') BY <1>1, Pushed DEF RecordInv
<1>7. RecordInv' BY <1>1, <1>3, <1>5 DEF RecordInv, RecordsStay, IsSeq, WellFormed, AnchorsWhole, Unique
<1> QED BY <1>1, <1>3, <1>5, <1>6, <1>7 DEF LogStep

\* An objection is added behind the others, or all are dropped.
LEMMA Objected ==
  ASSUME RecordInv, (\E o : Object(o)) \/ ClearObjections
  PROVE  RecordInv' /\ LogStep /\ RecordsStay
<1>1. /\ RecordsStay /\ sessions' = sessions
      /\ objections' = <<>> \/ \E o : objections' = Append(objections, o)
  BY DEF Object, ClearObjections, RecordsStay
<1>2. IsSeq(objections') /\ (objections' = <<>> \/ IsPrefix(objections, objections'))
  <2>1. CASE objections' = <<>> BY <2>1, EmptyIsSeq
  <2>2. CASE \E o : objections' = Append(objections, o)
    <3>1. PICK o : objections' = Append(objections, o) BY <2>2
    <3>2. IsSeq(objections) BY DEF RecordInv
    <3>3. IsSeq(Append(objections, o)) /\ IsPrefix(objections, Append(objections, o)) BY <3>2, Pushed
    <3> QED BY <3>1, <3>3
  <2> QED BY <1>1, <2>1, <2>2
<1>3. IsPrefix(sessions, sessions') /\ Unique(sessions') BY <1>1, Pushed DEF RecordInv
<1>4. RecordInv' BY <1>1, <1>2, <1>3 DEF RecordInv, RecordsStay, IsSeq, WellFormed, AnchorsWhole, Unique
<1> QED BY <1>1, <1>2, <1>3, <1>4 DEF LogStep

\* Each verb on the records keeps them, and the logs with them.
LEMMA RecordVerbs ==
  ASSUME RecordInv, MemoryNext \/ IntentsNext \/ FindingsNext \/ ItemsNext
  PROVE  RecordInv' /\ RecordStep /\ LogsStay
<1>1. CASE MemoryNext
  <2>1. ASSUME NEW t \in Titles, NEW x, NEW f \in {<<>>} \cup {<<a>> : a \in AnchorFlags}, AddMemory(t, x, f)
        PROVE  RecordInv' /\ RecordStep /\ LogsStay
    <3>1. IsSeq(f)
      <4>1. CASE f = <<>> BY <4>1, EmptyIsSeq
      <4>2. CASE \E a \in AnchorFlags : f = <<a>>
        <5>1. PICK a \in AnchorFlags : f = <<a>> BY <4>2
        <5>2. <<a>> \in Seq(AnchorFlags) OBVIOUS
        <5> QED BY <5>1, <5>2 DEF IsSeq
      <4> QED BY <4>1, <4>2
    <3> QED BY <2>1, <3>1, Remembered
  <2>2. ASSUME NEW s \in Seeds, InitMemory(s) PROVE RecordInv' /\ RecordStep /\ LogsStay
    BY <2>2, Seeded
  <2>3. ASSUME NEW i, NEW x, SetMemoryBody(i, x) PROVE RecordInv' /\ RecordStep /\ LogsStay
    BY <2>3, Reasoned DEF SetMemoryBody
  <2>4. ASSUME NEW i, NEW t, SetMemoryTitle(i, t) PROVE RecordInv' /\ RecordStep /\ LogsStay
    <3>1. Sets(i, "claim", t) BY <2>4 DEF SetMemoryTitle, Change, Sets, LogsStay
    <3> QED BY <3>1, Touched
  <2>5. ASSUME NEW i, NEW s, SetMemoryStatus(i, s) PROVE RecordInv' /\ RecordStep /\ LogsStay
    BY <2>5, Ruled DEF SetMemoryStatus
  <2>6. ASSUME NEW i, DeleteMemory(i) PROVE RecordInv' /\ RecordStep /\ LogsStay
    BY <2>6, Deleted
  <2> QED BY <1>1, <2>1, <2>2, <2>3, <2>4, <2>5, <2>6 DEF MemoryNext
<1>2. CASE IntentsNext
  <2>1. ASSUME NEW t \in Titles, NEW x, AddIntent(t, x) PROVE RecordInv' /\ RecordStep /\ LogsStay
    BY <2>1, Recorded DEF AddIntent
  <2>2. ASSUME NEW i, NEW s, SetIntentStatus(i, s) PROVE RecordInv' /\ RecordStep /\ LogsStay
    BY <2>2, Ruled DEF SetIntentStatus
  <2> QED BY <1>2, <2>1, <2>2 DEF IntentsNext
<1>3. CASE FindingsNext
  <2>1. ASSUME NEW t \in Titles, NEW x, AddFinding(t, x) PROVE RecordInv' /\ RecordStep /\ LogsStay
    BY <2>1, Recorded DEF AddFinding
  <2>2. ASSUME NEW i, NEW s, SetFindingStatus(i, s) PROVE RecordInv' /\ RecordStep /\ LogsStay
    BY <2>2, Ruled DEF SetFindingStatus
  <2> QED BY <1>3, <2>1, <2>2 DEF FindingsNext
<1>4. CASE ItemsNext
  <2>1. ASSUME NEW t \in Titles, NEW x, AddItem(t, x) PROVE RecordInv' /\ RecordStep /\ LogsStay
    BY <2>1, Recorded DEF AddItem
  <2>2. ASSUME NEW i, NEW x, SetItemResults(i, x) PROVE RecordInv' /\ RecordStep /\ LogsStay
    <3>1. Sets(i, "results", x) BY <2>2 DEF SetItemResults, Change, Sets, LogsStay
    <3> QED BY <3>1, Touched
  <2>3. ASSUME NEW i, NEW x, SetItemDescription(i, x) PROVE RecordInv' /\ RecordStep /\ LogsStay
    BY <2>3, Reasoned DEF SetItemDescription
  <2>4. ASSUME NEW i, NEW x, SetItemHandoff(i, x) PROVE RecordInv' /\ RecordStep /\ LogsStay
    <3>1. Sets(i, "handoff", x) BY <2>4 DEF SetItemHandoff, Change, Sets, LogsStay
    <3> QED BY <3>1, Touched
  <2>5. ASSUME NEW i, ClearItemHandoff(i) PROVE RecordInv' /\ RecordStep /\ LogsStay
    <3>1. Sets(i, "handoff", Unset) BY <2>5 DEF ClearItemHandoff, Change, Sets, LogsStay
    <3> QED BY <3>1, Touched
  <2>6. ASSUME NEW i, NEW t, SetItemTitle(i, t) PROVE RecordInv' /\ RecordStep /\ LogsStay
    <3>1. Sets(i, "claim", t) BY <2>6 DEF SetItemTitle, Change, Sets, LogsStay
    <3> QED BY <3>1, Touched
  <2>7. ASSUME NEW i, NEW s, SetItemStatus(i, s) PROVE RecordInv' /\ RecordStep /\ LogsStay
    BY <2>7, Ruled DEF SetItemStatus
  <2> QED BY <1>4, <2>1, <2>2, <2>3, <2>4, <2>5, <2>6, <2>7 DEF ItemsNext
<1> QED BY <1>1, <1>2, <1>3, <1>4

\* Each verb on the session log, the focus and the objections keeps the records.
LEMMA LogVerbs ==
  ASSUME RecordInv, SessionsNext \/ FocusNext \/ ObjectionsNext
  PROVE  RecordInv' /\ LogStep /\ RecordsStay
<1>1. ASSUME NEW r, AppendSession(r) PROVE RecordInv' /\ LogStep /\ RecordsStay
  BY <1>1, Logged
<1>2. ASSUME UNCHANGED <<kind, records, sessions, objections>> PROVE RecordInv' /\ LogStep /\ RecordsStay
  <2>1. RecordInv' BY <1>2 DEF RecordInv, IsSeq, WellFormed, AnchorsWhole, Unique
  <2>2. IsPrefix(sessions, sessions) /\ IsPrefix(objections, objections) BY Pushed DEF RecordInv
  <2> QED BY <1>2, <2>1, <2>2 DEF LogStep, RecordsStay, RecordInv
<1>3. CASE SessionsNext
  <2>1. ASSUME NEW r, SetLatest(r) PROVE RecordInv' /\ LogStep /\ RecordsStay
    BY <1>2, <2>1 DEF SetLatest
  <2> QED BY <1>1, <1>3, <2>1 DEF SessionsNext, AppendLatestToLog
<1>4. CASE FocusNext
  <2>1. UNCHANGED <<kind, records, sessions, objections>> BY <1>4 DEF FocusNext, SetFocus, ClearFocus
  <2> QED BY <1>2, <2>1
<1>5. CASE ObjectionsNext
  <2>1. (\E o : Object(o)) \/ ClearObjections
    BY <1>5 DEF ObjectionsNext, AddWrongTarget, AddSkipItem, AddPremature
  <2> QED BY <2>1, Objected
<1> QED BY <1>3, <1>4, <1>5

\* Nothing is recorded at first.
LEMMA RecordsInitInv == RecordsInit => RecordInv
BY EmptyIsSeq DEF RecordsInit, NothingRecorded, RecordInv, Unique

\* Every verb keeps the invariant and the history.
LEMMA RecordsNextInv == RecordInv /\ [RecordsNext]_record_vars => RecordInv' /\ RecordStep /\ LogStep
<1> SUFFICES ASSUME RecordInv, [RecordsNext]_record_vars PROVE RecordInv' /\ RecordStep /\ LogStep
    OBVIOUS
<1>1. CASE UNCHANGED record_vars
  <2>1. RecordsStay /\ LogsStay BY <1>1 DEF record_vars, RecordsStay, LogsStay, files
  <2>2. RecordInv' BY <1>1 DEF record_vars, RecordInv, IsSeq, WellFormed, AnchorsWhole, Unique
  <2> QED BY <2>1, <2>2, RecordsKept, LogsKept
<1>2. CASE MemoryNext \/ IntentsNext \/ FindingsNext \/ ItemsNext
  BY <1>2, RecordVerbs, LogsKept
<1>3. CASE SessionsNext \/ FocusNext \/ ObjectionsNext
  BY <1>3, LogVerbs, RecordsKept
<1> QED BY <1>1, <1>2, <1>3 DEF RecordsNext

\* Whatever the verbs on a plan's files do, and however often: no id is given
\* twice, a record keeps its anchors and its settled status for as long as it is
\* there, one verb touches one record, a session is logged once and for good.
THEOREM RecordsHaveAHistory == RecordsInit /\ [][RecordsNext]_record_vars => RecordHistory
<1>1. RecordInv /\ [RecordsNext]_record_vars => [RecordStep /\ LogStep]_record_vars
  BY RecordsNextInv
<1>2. RecordInv /\ [RecordsNext]_record_vars => RecordInv'
  BY RecordsNextInv
<1> QED BY <1>1, <1>2, RecordsInitInv, PTL DEF RecordHistory
=============================================================================
