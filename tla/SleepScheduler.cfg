\* Three agents: a job can wait behind one in training and one in the queue.
CONSTANTS
  Agents = {a1, a2, a3}
  NoAgent = NoAgent
  MaxCycles = 2
  ConsolidationMayRaise = TRUE
  AutoSyncSoul = TRUE
SPECIFICATION SleepSpec
INVARIANTS SleepTypeOK NoDuplicateJobs
PROPERTIES ImplementsSleepQueue
