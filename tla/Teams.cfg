SPECIFICATION Spec
CONSTANTS
  a = a
  b = b
  c = c
  Steps <- PlanSteps
  Needs <- PlanNeeds
  Exits = {"done", "partial"}
  MaxConcurrent = 1
  MaxTeams = 2
  MaxLaunches = 1
  MaxMeddling = 0
PROPERTIES StartsAfterItsNeeds TeamsLand
CHECK_DEADLOCK FALSE
