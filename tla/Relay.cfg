SPECIFICATION Spec
CONSTANTS
  Messages = {"mail", "chat"}
  Emails = {"mail"}
  NClients = 2
  MaxConnects = 2
  MaxFaults = 1
  TakeRelay = 1
  TakePoll = 2
  Attempts = 2
INVARIANTS TypeOK NothingVanishes NewestIsRegistered RepeatsAreKnown
PROPERTIES ConnectingDrains ReceivedIsHandled
CHECK_DEADLOCK FALSE
