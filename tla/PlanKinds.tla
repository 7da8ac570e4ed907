------------------------------ MODULE PlanKinds ------------------------------
(***************************************************************************)
(* The four kinds of items of plan_kg.rs: their status words and which     *)
(* changes of status Store::set_status allows.                             *)
(***************************************************************************)
EXTENDS FiniteSets

IntentStatus  == {"active", "satisfied", "defeated", "superseded"}
BacklogStatus == {"active", "done", "defeated", "superseded", "blocked"}
MemoryStatus  == {"active", "defeated", "superseded", "legacy"}
FindingStatus == {"new", "promoted", "wontfix", "superseded"}

Kinds == {"intent", "backlog-item", "memory-entry", "finding"}

\* ItemStatus::parse
Vocabulary(kind) ==
  IF kind = "intent" THEN IntentStatus
  ELSE IF kind = "backlog-item" THEN BacklogStatus
  ELSE IF kind = "memory-entry" THEN MemoryStatus ELSE FindingStatus

OpenStatus(kind) ==
  IF kind = "intent" THEN {"active"}
  ELSE IF kind = "backlog-item" THEN {"active", "blocked"}
  ELSE IF kind = "memory-entry" THEN {"active", "legacy"} ELSE {"new"}
IsTerminal(kind, status) == status \in Vocabulary(kind) \ OpenStatus(kind)

\* transitions(): from the open statuses only; a legacy entry is not
\* superseded, and nothing becomes legacy.
Transitions(kind) ==
  {t \in OpenStatus(kind) \X Vocabulary(kind) :
     /\ t[1] # t[2]
     /\ t[2] # "legacy"
     /\ t # <<"legacy", "superseded">>}

\* set_status: to itself is accepted and changes nothing.
MaySetStatus(kind, a, b) == a = b \/ <<a, b>> \in Transitions(kind)
=============================================================================
