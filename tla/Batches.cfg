SPECIFICATION Spec
CONSTANTS
  Numbers = {1, 2}
  MaxBatches = 2
  MaxRuns = 2
  MaxStarts = 3
  MaxSaves = 1
  MaxConcurrent = 2
INVARIANTS TypeOK CompletedIsWhoIsOver AnnouncedInFull SlotsAreRuns
PROPERTIES KeepsPromise CheckbacksEnd
CHECK_DEADLOCK FALSE
