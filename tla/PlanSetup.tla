------------------------------ MODULE PlanSetup ------------------------------
(***************************************************************************)
(* How a plan directory comes to be: "create" scaffolds it and runs one    *)
(* agent session in it (create.rs); "migrate-v1-v2" copies a plan of       *)
(* version 1, reshapes its files and applies what three headless agents    *)
(* propose (migrate_v1_v2/).  All jobs here want the same name.  A job may *)
(* fail or be killed at any step; what it has written stays.               *)
(***************************************************************************)
EXTENDS Naturals, Sequences, SequencesExt

CONSTANTS
  Absent,      \* a model value: the file is not there
  Jobs,        \* runs of create or migrate, all for one name
  OldPlans,    \* plans of version 1: [tasks, memory, facts]
  Proposals    \* what the intent agent may write: [intents, serves]

\* What the plans of version 1 and the proposals name.
OldTasks == UNION {Range(o.tasks) : o \in OldPlans}
MemoryIds == UNION {Range(o.memory) : o \in {p \in OldPlans : p.memory # Absent}}
Intents == {"drafted"} \cup UNION {Range(p.intents) : p \in Proposals}
Served == UNION {{s[2] : s \in p.serves} : p \in Proposals}

ASSUME OldPlansAssumption ==
  \A o \in OldPlans : o.tasks \in Seq(OldTasks) /\ o.memory \in Seq(MemoryIds) \cup {Absent}
ASSUME ProposalsAssumption == \A p \in Proposals : p.intents \in Seq(Intents)

VARIABLES
  old,     \* the plan of version 1
  plan,    \* the directory: Absent, or its files
  owner,   \* the job that made it
  job      \* of each job its verb and its next step

setup_vars == <<old, plan, owner, job>>

NotStarted == [verb |-> "none", at |-> "idle", proposal |-> Absent]
Step(j, at) == job' = [job EXCEPT ![j].at = at]
At(j, at) == job[j].at = at
Ended(j) == job[j].at \in {"idle", "done", "error", "dead"}

NoFiles == [phase |-> Absent, backlog |-> Absent, intents |-> Absent, memory |-> Absent,
            requests |-> {}]
Wrote(f, content) == plan' = [plan EXCEPT ![f] = content]
Known == {"backlog", "intents", "memory"}

\* Shapes: a document of version 1 and one of version 2 do not read as each other.
V1(body) == [version |-> 1, body |-> body]
V2(body) == [version |-> 2, body |-> body]
Documents(bodies) == [version : {1, 2}, body : Seq(bodies)]

ItemV2 == [id : {t.id : t \in OldTasks},
           status : {"active", "done", "blocked", "defeated", "superseded", "unknown"},
           deps : {t.deps : t \in OldTasks},
           why : SUBSET ({<<"rationale">>} \cup {<<"serves", n>> : n \in Served}),
           legacy : BOOLEAN]
MemoryEntry == [id : MemoryIds, mark : {"active", "attributed", "legacy"}]
PlanFiles == [phase : {Absent, "triage", "copied"},
              backlog : {Absent} \cup Documents(OldTasks) \cup Documents(ItemV2),
              intents : {Absent} \cup Documents(Intents),
              memory : {Absent} \cup Documents(MemoryEntry),
              requests : {{}, {"target"}}]

ASSUME AbsentAssumption ==
  /\ Absent \notin Jobs /\ Absent \notin Proposals /\ Absent \notin PlanFiles
  /\ Absent \notin Documents(OldTasks) \cup Documents(ItemV2)
  /\ Absent \notin Documents(Intents) \cup Documents(MemoryEntry)

-----------------------------------------------------------------------------
(* create                                                                  *)

\* resolve_plan_dir: the name is free.  Creations may run side by side.
ResolvePlanDir(j) ==
  /\ At(j, "idle")
  /\ \A k \in Jobs : Ended(k) \/ job[k].verb = "create"
  /\ job' = [job EXCEPT ![j] = [@ EXCEPT !.verb = "create",
                                        !.at = IF plan = Absent THEN "create-dir" ELSE "error"]]
  /\ UNCHANGED <<old, plan, owner>>

\* Mutant: create_dir_all, which does not mind a directory that is there.
CreateDirAll(j) ==
  /\ At(j, "create-dir")
  /\ plan' = (IF plan = Absent THEN NoFiles ELSE plan) /\ owner' = j /\ Step(j, "phase")
  /\ UNCHANGED old

\* scaffold_plan_dir: fs::create_dir is refused where another has made it.
CreateDir(j) ==
  /\ At(j, "create-dir")
  /\ IF plan = Absent
       THEN plan' = NoFiles /\ owner' = j /\ Step(j, "phase")
       ELSE Step(j, "error") /\ UNCHANGED <<plan, owner>>
  /\ UNCHANGED old

\* ... and its files, one after the other.
Scaffold(j) ==
  /\ UNCHANGED <<old, owner>>
  /\ \/ At(j, "phase") /\ Wrote("phase", "triage") /\ Step(j, "backlog")
     \/ At(j, "backlog") /\ Wrote("backlog", V2(<<>>)) /\ Step(j, "intents")
     \/ At(j, "intents") /\ Wrote("intents", V2(<<>>)) /\ Step(j, "memory")
     \/ At(j, "memory") /\ Wrote("memory", V2(<<>>)) /\ Step(j, "seed")

\* seed_target_requests: no file without --target.
SeedTargetRequests(j) ==
  /\ At(j, "seed")
  /\ \E requests \in {{}, {"target"}} : Wrote("requests", requests)
  /\ Step(j, "spawn")
  /\ UNCHANGED <<old, owner>>

\* The session adds intents, or none; claude may also not start or fail.
DraftIntents(j) ==
  /\ At(j, "spawn")
  /\ \E n \in 0..1 : plan' = [plan EXCEPT !.intents.body = @ \o [i \in 1..n |-> "drafted"]]
  /\ \E end \in {"verify", "error"} : Step(j, end)
  /\ UNCHANGED <<old, owner>>

\* run_create's last word: "Plan created", or a warning that there is no intent.
Verify(j) ==
  /\ At(j, "verify")
  /\ Step(j, IF plan.intents.body = <<>> THEN "warned" ELSE "created")
  /\ UNCHANGED <<old, plan, owner>>

RunCreate(j) ==
  ResolvePlanDir(j) \/ CreateDir(j) \/ Scaffold(j) \/ SeedTargetRequests(j) \/ DraftIntents(j) \/ Verify(j)

-----------------------------------------------------------------------------
(* migrate-v1-v2                                                           *)

\* Mutant: a directory that is there is no conflict.
ValidateInputsOver(j) ==
  /\ At(j, "idle") /\ \A k \in Jobs : Ended(k)
  /\ job' = [job EXCEPT ![j] = [@ EXCEPT !.verb = "migrate",
               !.at = IF old.facts = {"phase", "backlog", "registered", "atlas"} THEN "copy" ELSE "error"]]
  /\ UNCHANGED <<old, plan, owner>>

\* validate_inputs: a plan of version 1 in a registered repository with an
\* atlas, and a free name.  No other job is under way.
ValidateInputs(j) ==
  /\ At(j, "idle") /\ \A k \in Jobs : Ended(k)
  /\ job' = [job EXCEPT ![j] = [@ EXCEPT !.verb = "migrate",
               !.at = IF /\ old.facts = {"phase", "backlog", "registered", "atlas"}
                         /\ plan = Absent THEN "copy" ELSE "error"]]
  /\ UNCHANGED <<old, plan, owner>>

Entries == [i \in DOMAIN old.memory |-> [id |-> old.memory[i], mark |-> "active"]]

\* copy_plan_state: the directory and what files there are, as they are.
CopyPlanState(j) ==
  /\ At(j, "copy")
  /\ owner' = j
  /\ plan' \in { NoFiles, [NoFiles EXCEPT !.phase = "copied"],
                 [NoFiles EXCEPT !.phase = "copied", !.backlog = V1(old.tasks)],
                 [NoFiles EXCEPT !.phase = "copied", !.backlog = V1(old.tasks),
                                 !.memory = IF old.memory = Absent THEN Absent ELSE V1(Entries)] }
  /\ Step(j, IF plan'.backlog # Absent /\ (plan'.memory = Absent) = (old.memory = Absent)
             THEN "reshape" ELSE "error")
  /\ UNCHANGED old

\* Mutant: a task in progress is taken for done.
MapStatusDone(word) ==
  IF word = "not_started" THEN "active"
  ELSE IF word = "in_progress" THEN "done"
  ELSE IF word \in {"active", "done", "blocked", "defeated", "superseded"} THEN word ELSE "unknown"

\* map_backlog_status
MapStatus(word) ==
  IF word \in {"not_started", "in_progress"} THEN "active"
  ELSE IF word \in {"active", "done", "blocked", "defeated", "superseded"} THEN word ELSE "unknown"

\* transform_backlog_v1_to_v2: a description of blanks justifies nothing.
Reshaped(task) ==
  [id |-> task.id, status |-> MapStatus(task.status), deps |-> task.deps,
   why |-> IF task.described THEN {<<"rationale">>} ELSE {}, legacy |-> FALSE]

TransformBacklog(j) ==
  /\ At(j, "reshape")
  /\ IF \A i \in DOMAIN old.tasks : MapStatus(old.tasks[i].status) # "unknown"
       THEN /\ Wrote("backlog", V2([i \in DOMAIN old.tasks |-> Reshaped(old.tasks[i])]))
            /\ Step(j, IF plan.memory = Absent THEN "intent" ELSE "reshape-memory")
       ELSE Step(j, "error") /\ UNCHANGED plan
  /\ UNCHANGED <<old, owner>>

\* transform_memory_v1_to_v2: every entry active, attributed to nothing.
TransformMemory(j) ==
  /\ At(j, "reshape-memory")
  /\ Wrote("memory", V2(Entries))
  /\ Step(j, "intent")
  /\ UNCHANGED <<old, owner>>

\* invoke_phase: the agent leaves a proposal, or none.
ProposeIntents(j) ==
  /\ At(j, "intent")
  /\ \E p \in Proposals \cup {Absent} :
       job' = [job EXCEPT ![j].proposal = p, ![j].at = IF p = Absent THEN "error" ELSE "write-intents"]
  /\ UNCHANGED <<old, plan, owner>>

\* apply_intent: the intents first.
WriteIntents(j) ==
  /\ At(j, "write-intents")
  /\ Wrote("intents", V2(job[j].proposal.intents))
  /\ Step(j, "attribute")
  /\ UNCHANGED <<old, owner>>

\* Mutant: the items that serve "legacy" are left as they are.
AttributedServes(items, serves) ==
  [i \in DOMAIN items |->
    [items[i] EXCEPT !.why = @ \cup {<<"serves", a[2]>> : a \in {s \in serves : s[1] = items[i].id /\ s[2] # "legacy"}}]]

\* The word "legacy" marks an item, any other is an intent the item serves.
Attributed(items, serves) ==
  [i \in DOMAIN items |->
    LET mine == {s[2] : s \in {s \in serves : s[1] = items[i].id}}
    IN [items[i] EXCEPT !.legacy = "legacy" \in mine,
                        !.why = @ \cup {<<"serves", n>> : n \in mine \ {"legacy"}}]]

\* ... then the backlog, unless the proposal names an item that is not there.
AttributeItems(j) ==
  /\ At(j, "attribute")
  /\ LET items == plan.backlog.body
         serves == job[j].proposal.serves
     IN IF {s[1] : s \in serves} \subseteq {items[i].id : i \in DOMAIN items}
          THEN Wrote("backlog", V2(Attributed(items, serves))) /\ Step(j, "targets")
          ELSE Step(j, "error") /\ UNCHANGED plan
  /\ UNCHANGED <<old, owner>>

\* apply_targets mounts what the second agent proposes; it may fail.
ApplyTargets(j) ==
  /\ At(j, "targets")
  /\ \E end \in {"backfill", "error"} : Step(j, end)
  /\ UNCHANGED <<old, plan, owner>>

\* apply_memory: an entry the third agent attributes to nothing is legacy.
\* read_memory wants the file, also of a plan that had none.
ApplyMemory(j) ==
  /\ At(j, "backfill")
  /\ IF plan.memory = Absent
       THEN Step(j, "error") /\ UNCHANGED plan
       ELSE \E marks \in [DOMAIN plan.memory.body -> {"active", "attributed", "legacy"}] :
              /\ Wrote("memory", V2([i \in DOMAIN marks |-> [plan.memory.body[i] EXCEPT !.mark = marks[i]]]))
              /\ Step(j, "done")
  /\ UNCHANGED <<old, owner>>

RunMigrate(j) ==
  ValidateInputs(j) \/ CopyPlanState(j) \/ TransformBacklog(j) \/ TransformMemory(j)
    \/ ProposeIntents(j) \/ WriteIntents(j) \/ AttributeItems(j) \/ ApplyTargets(j) \/ ApplyMemory(j)

-----------------------------------------------------------------------------
JobKilled(j) ==
  /\ ~Ended(j) /\ ~At(j, "created") /\ ~At(j, "warned")
  /\ Step(j, "dead")
  /\ UNCHANGED <<old, plan, owner>>

SetupStart(o) == old = o /\ plan = Absent /\ owner = Absent /\ job = [j \in Jobs |-> NotStarted]
SetupInit == \E o \in OldPlans : SetupStart(o)
SetupIdle == old = Absent /\ plan = Absent /\ owner = Absent /\ job = [j \in Jobs |-> NotStarted]

SetupNext == \E j \in Jobs : RunCreate(j) \/ RunMigrate(j) \/ JobKilled(j)

SetupSpec == SetupInit /\ [][SetupNext]_setup_vars

-----------------------------------------------------------------------------
JobSteps == {"idle", "create-dir", "phase", "backlog", "intents", "memory", "seed", "spawn",
             "verify", "created", "warned", "copy", "reshape", "reshape-memory", "intent",
             "write-intents", "attribute", "targets", "backfill", "done", "error", "dead"}
Job == [verb : {"none", "create", "migrate"}, at : JobSteps, proposal : Proposals \cup {Absent}]

\* Every file of the plan has the shape of its version, and every job its step.
SetupTypeOK ==
  /\ old \in OldPlans /\ plan \in PlanFiles \cup {Absent} /\ owner \in Jobs \cup {Absent}
  /\ job \in [Jobs -> Job]

\* Only the job that made the directory writes in it, and none takes it over:
\* a second creation or migration of the name is refused, also after the first
\* one failed half-way.
OneJobMakesAPlan ==
  [][plan' # plan => /\ owner' \in Jobs /\ job'[owner'].at # job[owner'].at
                     /\ owner # Absent => owner' = owner]_setup_vars

\* A job that reports success leaves a plan that reads: files of version 2, an
\* intent in a created one; a migrated one has every task of the old, in order,
\* under the new word for its status, serving what the proposal says or marked.
FinishedPlanIsWhole ==
  \A j \in Jobs :
    /\ At(j, "created") \/ At(j, "warned") =>
         /\ plan.phase = "triage" /\ \A f \in Known : plan[f] # Absent /\ plan[f].version = 2
         /\ At(j, "created") = (plan.intents.body # <<>>)
    /\ At(j, "done") =>
         /\ plan.phase = "copied" /\ \A f \in Known : plan[f] # Absent /\ plan[f].version = 2
         /\ [i \in DOMAIN plan.memory.body |-> plan.memory.body[i].id] = old.memory
         /\ Len(plan.backlog.body) = Len(old.tasks)
         /\ \A i \in DOMAIN old.tasks :
              LET item == plan.backlog.body[i]
                  said == {s[2] : s \in {s \in job[j].proposal.serves : s[1] = item.id}}
              IN /\ item.id = old.tasks[i].id /\ item.deps = old.tasks[i].deps
                 /\ item.status = "done" <=> old.tasks[i].status = "done"
                 /\ item.status = "blocked" <=> old.tasks[i].status = "blocked"
                 /\ {n \in said : <<"serves", n>> \in item.why} \cup (IF item.legacy THEN {"legacy"} ELSE {}) = said
=============================================================================
