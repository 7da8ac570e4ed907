------------------------------ MODULE AtomicFile ------------------------------
(***************************************************************************)
(* What a state file promises the verbs that change it: each verb's change *)
(* is made as a whole, and made or not made as the verb reports.           *)
(***************************************************************************)
CONSTANT Verbs   \* runs of ravel-lite state, each with one change of its own

VARIABLES
  value,   \* the changes the file holds
  told     \* how each run has ended

vars == <<value, told>>

Init == value = {} /\ told = [v \in Verbs |-> "pending"]

Succeed(v) ==
  /\ told[v] = "pending"
  /\ value' = value \cup {v}
  /\ told' = [told EXCEPT ![v] = "ok"]

Fail(v) ==
  /\ told[v] = "pending"
  /\ told' = [told EXCEPT ![v] = "error"]
  /\ UNCHANGED value

Next == \E v \in Verbs : Succeed(v) \/ Fail(v)

Spec == Init /\ [][Next]_vars
===============================================================================
