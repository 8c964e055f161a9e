SPECIFICATION Spec
CONSTANTS
  Messages = {"mail", "chat"}
  Emails = {"mail"}
  NClients = 2
  MaxConnects = 2
  MaxFaults = 0
  TakeRelay = 1
  TakePoll = 2
  Attempts = 2
INVARIANTS ConnectedIsRegistered
CHECK_DEADLOCK FALSE
