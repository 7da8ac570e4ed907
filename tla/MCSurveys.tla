------------------------------ MODULE MCSurveys ------------------------------
(***************************************************************************)
(* The two programs that let agents look at what they may not change and   *)
(* keep the result in files: a behaviour is either the history of the      *)
(* survey file under runs over several plans, or that of the caches, the   *)
(* proposals and the relations under runs of discover.  Three plans, so    *)
(* that a run may be over two of them, and a made-up one; two repositories,*)
(* a kind of edge with a direction and one without.                        *)
(***************************************************************************)
EXTENDS MultiPlan, Discover

VARIABLE story   \* which of the two this behaviour is about

survey_vars == <<vars, discover_vars, story>>

\* The backlogs are interchangeable: every plan starts with the same one.
SurveysInit ==
  /\ Init /\ DiscoverInit
  /\ story \in {"plans", "relations"}
  /\ \A p \in Plans : plan[p] = CHOOSE f \in Files : f.backlog # None

SurveysNext ==
  /\ UNCHANGED story
  /\ \/ story = "plans" /\ Next /\ UNCHANGED discover_vars
     \/ story = "relations" /\ DiscoverNext /\ UNCHANGED vars

SurveysSpec == SurveysInit /\ [][SurveysNext]_survey_vars
=============================================================================
