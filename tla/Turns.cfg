\* Two agents contend for one slot; two clients, a second message meets a turn.
CONSTANTS
  Agents = {a1, a2}
  NoAgent = NoAgent
  Clients = {c1, c2}
  MaxCycles = 1
  MaxConscious = 1
  MaxWakeRequests = 1
  ConsolidationMayRaise = FALSE
  AutoSyncSoul = FALSE
  Ops = {"chat", "breakoff", "sleepCommand", "admin"}
SPECIFICATION SafeSpec
SYMMETRY Symmetry
INVARIANTS PausedHasTurn
PROPERTIES LoopsAreNotDoubledOtherwise OnlyQueuedSleepersOvercommit
