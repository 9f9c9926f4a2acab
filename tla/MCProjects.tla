----------------------------- MODULE MCProjects -----------------------------
(* A behaviour has two projects and one call of cancel(), or one project   *)
(* and two calls, of which the second may meet the handler of the first.   *)
EXTENDS Orchestrator

VARIABLE about
projectVars == <<vars, about>>

First == CHOOSE k \in Canceller : TRUE

ProjectsInit == Init /\ about \in {"projects", "cancels"}

Paired   == about = "projects" /\ Next /\ \A k \in Canceller \ {First} : kpc'[k] = "idle"
Insisted == about = "cancels" /\ Next /\ \A p \in Project \ {1} : pstatus'[p] = "absent"

ProjectsNext == (Paired \/ Insisted) /\ UNCHANGED about
ProjectsSpec == ProjectsInit /\ [][ProjectsNext]_projectVars /\ Fairness
=============================================================================
