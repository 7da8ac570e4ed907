------------------------------ MODULE PlanCycle ------------------------------
(***************************************************************************)
(* What a plan's cycle promises to whoever watches its phase marker, the   *)
(* context repository and the agents: triage, work, analyse-work, reflect, *)
(* with a commit boundary after each.  A boundary is crossed with no agent *)
(* running, and the next agent starts only when the context's HEAD records *)
(* the phase it is to run.                                                 *)
(***************************************************************************)
VARIABLES
  pos,    \* the phase marker
  rec,    \* the phase marker in the context's HEAD
  active  \* the phase an agent runs, or "none"

Ring == {<<"triage", "git-commit-triage", "work">>,
         <<"work", "git-commit-work", "analyse-work">>,
         <<"analyse-work", "git-commit-analyse-work", "reflect">>,
         <<"reflect", "git-commit-reflect", "triage">>}

Init == pos = "triage" /\ rec = "triage" /\ active = "none"

Begin ==
  /\ active = "none"
  /\ \E r \in Ring : pos = r[1] /\ rec = r[1]
  /\ active' = pos
  /\ UNCHANGED <<pos, rec>>

\* The agent asks for the boundary after its phase.
Ask ==
  /\ \E r \in Ring : active = r[1] /\ pos = r[1] /\ pos' = r[2]
  /\ UNCHANGED <<rec, active>>

End ==
  /\ active # "none"
  /\ active' = "none"
  /\ UNCHANGED <<pos, rec>>

Cross ==
  /\ active = "none"
  /\ \E r \in Ring : pos = r[2] /\ pos' = r[3]
  /\ UNCHANGED <<rec, active>>

Record ==
  /\ active = "none"
  /\ \E r \in Ring : pos = r[1]
  /\ rec' = pos
  /\ UNCHANGED <<pos, active>>

Next == Begin \/ Ask \/ End \/ Cross \/ Record
Spec == Init /\ [][Next]_<<pos, rec, active>>
=============================================================================
