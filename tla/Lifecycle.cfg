\* One agent through every route and fault: all of them race on its entry.
CONSTANTS
  Agents = {a1}
  NoAgent = NoAgent
  Clients = {c1}
  MaxCycles = 1
  MaxConscious = 1
  MaxWakeRequests = 1
  ConsolidationMayRaise = FALSE
  AutoSyncSoul = TRUE
  Ops = {"chat", "channel", "breakoff", "sleepCommand", "trigger", "pause", "evict", "restart", "night"}
SPECIFICATION SafeSpec
INVARIANTS TypeOK LoopIffConscious OnlyTraineeAsleep
