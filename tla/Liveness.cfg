\* Wake requests and sleepers, under the fairness of the event loop.
CONSTANTS
  Agents = {a1, a2}
  NoAgent = NoAgent
  Clients = {c1}
  MaxCycles = 1
  MaxConscious = 1
  MaxWakeRequests = 2
  ConsolidationMayRaise = TRUE
  AutoSyncSoul = TRUE
  Ops = {"chat", "channel"}
SPECIFICATION Spec
PROPERTIES SleepersAreNotForgottenOtherwise WakeRequestServed SleepersWake
