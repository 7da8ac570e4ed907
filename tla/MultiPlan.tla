----------------------------- MODULE MultiPlan ------------------------------
(***************************************************************************)
(* ravel-lite run with several plans (src/multi_plan.rs): survey the       *)
(* plans, let the user pick one, run one cycle of it, again.  The survey   *)
(* file is what the next survey, of this run or of a later one over other  *)
(* plans, starts from.                                                     *)
(***************************************************************************)
EXTENDS Survey, FiniteSets

CONSTANTS Torn,         \* a survey file cut off while it was written
          MaxAttempts,  \* invalid inputs before the selection gives up
          MaxSurveys,   \* bound on surveys
          MaxChanges,   \* bound on changes of plans by others than the run
          MaxFaults     \* bound on failures and deaths

VARIABLES plan,      \* per plan its files
          surveyFile,\* the --survey-state file: None, Torn or a survey
          run,       \* the run, if there is one
          surveys, changes, faults

vars == <<plan, surveyFile, run, surveys, changes, faults>>
counters == <<surveys, changes, faults>>

Idle == [pc |-> "idle", dirs |-> {}, snap |-> <<>>, prior |-> None, response |-> None,
         attempts |-> 0, selected |-> None]
Surveys == [rows : Seq(Rows), order : Seq(Plans \cup Strangers)]

TypeOK ==
  /\ plan \in [Plans -> Files]
  /\ surveyFile = None \/ surveyFile = Torn \/ surveyFile \in Surveys
  /\ run.pc \in {"idle", "load", "prior", "ask", "write", "select", "dispatch"}
  /\ run.dirs \subseteq Plans /\ DOMAIN run.snap \subseteq run.dirs
  /\ \A p \in DOMAIN run.snap : run.snap[p] \in Files
  /\ run.prior = None \/ run.prior \in Surveys
  /\ run.response = None \/ run.response \in Surveys
  /\ run.attempts \in 0 .. MaxAttempts /\ run.selected \in run.dirs \cup {None}

Init ==
  /\ plan \in [Plans -> {f \in Files : f.backlog # None}]
  /\ \A p, q \in Plans : plan[p] = plan[q]
  /\ surveyFile = None /\ run = Idle
  /\ surveys = 0 /\ changes = 0 /\ faults = 0

-----------------------------------------------------------------------------
(* One survey.                                                             *)

\* With one plan there is no survey.
SeveralPlans == {dirs \in SUBSET Plans : Cardinality(dirs) >= 2}

\* Each plan directory has a key of its own.
StartRun(dirs) ==
  /\ run.pc = "idle" /\ surveys < MaxSurveys
  /\ run' = [Idle EXCEPT !.pc = "load", !.dirs = dirs]
  /\ surveys' = surveys + 1
  /\ UNCHANGED <<plan, surveyFile, changes, faults>>

\* The plans are read one after the other while others may change them.
LoadPlan(p) ==
  /\ run.pc = "load" /\ run.dirs # DOMAIN run.snap
  /\ p = Min(run.dirs \ DOMAIN run.snap)
  /\ run' = [run EXCEPT !.snap = [q \in DOMAIN @ \cup {p} |-> IF q = p THEN plan[p] ELSE @[q]]]
  /\ UNCHANGED <<plan, surveyFile, counters>>

LoadPrior ==
  /\ run.pc = "load" /\ DOMAIN run.snap = run.dirs
  /\ surveyFile # Torn
  /\ run' = [run EXCEPT !.pc = IF surveyFile = None THEN "ask" ELSE "prior", !.prior = surveyFile]
  /\ UNCHANGED <<plan, surveyFile, counters>>

\* A survey file that does not parse ends the run; the user deletes it.
PriorTorn ==
  /\ run.pc = "load" /\ DOMAIN run.snap = run.dirs /\ surveyFile = Torn
  /\ run' = Idle
  /\ surveyFile' = None
  /\ UNCHANGED <<plan, counters>>

CarryForward ==
  /\ run.pc = "prior" /\ IsNoop(run.prior, run.snap)
  /\ run' = [run EXCEPT !.pc = "write", !.response = InjectCounts(run.prior, run.snap)]
  /\ UNCHANGED <<plan, surveyFile, counters>>

AskIncremental ==
  /\ run.pc = "prior" /\ ~IsNoop(run.prior, run.snap)
  /\ run' = [run EXCEPT !.pc = "ask"]
  /\ UNCHANGED <<plan, surveyFile, counters>>

Asked == IF run.prior = None THEN run.snap ELSE Restrict(run.snap, ToAnalyse(run.prior, run.snap))

\* claude's answer, completed; a cold one is the survey, another is merged.
\* What the code finds wrong with it ends the run.
Answered(keys, order) ==
  LET answer == Answer(keys, order, Asked)
      delta == InjectCounts(InjectInputHashes(answer, Asked), Asked)
      fits == /\ MayInjectHashes(answer, Asked)
              /\ run.prior # None => MayMerge(answer, run.prior, run.snap)
  IN /\ run.pc = "ask"
     /\ run' = IF ~fits THEN Idle
               ELSE [run EXCEPT !.pc = "write",
                       !.response = IF run.prior = None THEN delta
                                    ELSE MergeDelta(delta, run.prior, run.snap)]
     /\ UNCHANGED <<plan, surveyFile, counters>>

\* It is not there, fails, or says nothing before the time limit.
NoAnswer ==
  /\ run.pc = "ask" /\ faults < MaxFaults
  /\ run' = Idle /\ faults' = faults + 1
  /\ UNCHANGED <<plan, surveyFile, surveys, changes>>

WriteSurvey ==
  /\ run.pc = "write"
  /\ surveyFile' = run.response
  /\ run' = [Idle EXCEPT !.pc = "select", !.dirs = run.dirs, !.response = run.response]
  /\ UNCHANGED <<plan, counters>>

-----------------------------------------------------------------------------
(* Selection and dispatch.                                                 *)


\* The recommended plans, or all of them when nothing is recommended.
OptionsFor(response) == IF response.order = <<>> THEN run.dirs ELSE Range(response.order)

OrderUnknown ==
  /\ run.pc = "select" /\ ~(OptionsFor(run.response) \subseteq run.dirs)
  /\ run' = Idle
  /\ UNCHANGED <<plan, surveyFile, counters>>

MaySelect == run.pc = "select" /\ OptionsFor(run.response) \subseteq run.dirs

Select(p) ==
  /\ MaySelect /\ p \in OptionsFor(run.response)
  /\ run' = [run EXCEPT !.pc = "dispatch", !.selected = p, !.response = None, !.attempts = 0]
  /\ UNCHANGED <<plan, surveyFile, counters>>

\* 0, q, quit and the end of input.
Quit ==
  /\ MaySelect
  /\ run' = Idle
  /\ UNCHANGED <<plan, surveyFile, counters>>

InvalidInput ==
  /\ MaySelect
  /\ run' = IF run.attempts + 1 >= MaxAttempts THEN Idle ELSE [run EXCEPT !.attempts = @ + 1]
  /\ UNCHANGED <<plan, surveyFile, counters>>

\* One cycle of the plan, whatever it does to its files, and the next survey.
CycleEnds(f) ==
  /\ run.pc = "dispatch"
  /\ plan' = [plan EXCEPT ![run.selected] = f]
  /\ IF surveys < MaxSurveys
     THEN run' = [Idle EXCEPT !.pc = "load", !.dirs = run.dirs] /\ surveys' = surveys + 1
     ELSE run' = Idle /\ UNCHANGED surveys
  /\ UNCHANGED <<surveyFile, changes, faults>>

CycleFails(f) ==
  /\ run.pc = "dispatch" /\ faults < MaxFaults
  /\ plan' = [plan EXCEPT ![run.selected] = f]
  /\ run' = Idle /\ faults' = faults + 1
  /\ UNCHANGED <<surveyFile, surveys, changes>>

-----------------------------------------------------------------------------
\* Another run, a verb or an editor changes a plan.
PlanChanges(p, f) ==
  /\ changes < MaxChanges /\ f # plan[p]
  /\ plan' = [plan EXCEPT ![p] = f]
  /\ changes' = changes + 1
  /\ UNCHANGED <<surveyFile, run, surveys, faults>>

\* The survey is written by a truncating write, not by a rename.
Die ==
  /\ run.pc # "idle" /\ faults < MaxFaults
  /\ run' = Idle
  /\ surveyFile' \in IF run.pc = "write" THEN {surveyFile, Torn} ELSE {surveyFile}
  /\ faults' = faults + 1
  /\ UNCHANGED <<plan, surveys, changes>>

\* Rows in the order of their keys: nothing depends on it.
AnswerRows == {s \in BoundedSeq(Plans \cup Strangers, Cardinality(Plans)) :
                 \A i \in 2 .. Len(s) : s[i - 1] <= s[i]}
AnswerOrders == BoundedSeq(Plans \cup Strangers, 1)

Selecting == Quit \/ InvalidInput \/ OrderUnknown \/ \E p \in Plans : Select(p)
Next ==
  \/ \E dirs \in SeveralPlans : StartRun(dirs)
  \/ \E p \in Plans : LoadPlan(p)
  \/ LoadPrior \/ PriorTorn \/ CarryForward \/ AskIncremental
  \/ \E keys \in AnswerRows, order \in AnswerOrders : Answered(keys, order)
  \/ NoAnswer \/ WriteSurvey \/ Selecting
  \/ \E f \in Files : CycleEnds(f) \/ CycleFails(f)
  \/ \E p \in Plans, f \in Files : PlanChanges(p, f)
  \/ Die

Spec == Init /\ [][Next]_vars

-----------------------------------------------------------------------------
(* Properties.                                                             *)

RowsOf(survey, p) == {i \in DOMAIN survey.rows : survey.rows[i].key = p}

\* However many surveys, by this run and others over other plans, the rows
\* went through: each describes its plan as this survey read it, in its hash,
\* its notes and its counts.  A row that is carried forward is not older than
\* its plan's files, and none is left of a plan that was not surveyed.
RowsCurrent ==
  run.pc = "write" =>
    \A i \in DOMAIN run.response.rows :
      LET row == run.response.rows[i] IN
        /\ row.key \in run.dirs
        /\ row.input_hash = InputHash(run.snap[row.key])
        /\ row.notes = run.snap[row.key]
        /\ row.counts = TaskCounts(run.snap[row.key])

\* A survey that starts from another one has each plan, and has it once when
\* something had changed: also when the other had a plan twice or lacked one.
PriorRepaired ==
  run.pc = "write" /\ run.prior # None =>
    \A p \in run.dirs : /\ RowsOf(run.response, p) # {}
                        /\ Cardinality(RowsOf(run.response, p)) > 1 => IsNoop(run.prior, run.snap)

\* Together: a survey is about the plans it was made of, as they were.
SurveyIsCurrent == RowsCurrent /\ PriorRepaired

\* schema.rs says that a plan that was surveyed and is missing in the answer is
\* an error: no survey lacks one.
EveryPlanCovered ==
  run.pc = "write" => \A p \in run.dirs : RowsOf(run.response, p) # {}

=============================================================================
