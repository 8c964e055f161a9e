SPECIFICATION Spec
CONSTANTS
  a = a
  b = b
  c = c
  Steps <- PlanSteps
  Needs <- PlanNeeds
  Exits = {"done", "partial", "error"}
  MaxConcurrent = 1
  MaxTeams = 1
  MaxLaunches = 2
  MaxMeddling = 2
INVARIANTS TypeOK ClosedTeamsHaveNoRuns CompletedMeansStepsDone
PROPERTIES ReportedIsFinal
CHECK_DEADLOCK FALSE
