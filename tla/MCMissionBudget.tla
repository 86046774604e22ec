-------------------------- MODULE MCMissionBudget --------------------------
(* An Attempt with two calls and a planner turn with one call of each       *)
(* executor.  The Attempt is charged to its Task and to the Mission.        *)
EXTENDS MissionBudget, TLC

CONSTANTS worker, planner, wa, wb, pa, pb, ofTask, ofMission

TurnOf      == [c \in Calls |-> IF c \in {wa, wb} THEN worker ELSE planner]
AgentOf     == [c \in Calls |-> IF c = pb THEN 1 ELSE 0]
CallsBefore == [c \in Calls |-> IF c = wb THEN {wa} ELSE {}]
AccountsOf  == worker :> {ofTask, ofMission} @@ planner :> {ofMission}
TokenLimit  == ofTask :> 4 @@ ofMission :> 6

=============================================================================
