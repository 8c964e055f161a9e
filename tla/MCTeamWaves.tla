----------------------------- MODULE MCTeamWaves -----------------------------
(* A plan of three steps in two waves: c depends on a, and b on nothing.     *)
EXTENDS TeamWaves

CONSTANTS a, b, c

PlanSteps == {a, b, c}
PlanNeeds == [s \in PlanSteps |-> IF s = c THEN {a} ELSE {}]

=============================================================================
