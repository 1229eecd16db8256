CONSTANTS
  MaxPid = 2
  MaxCalls = 2
  MaxStates = 2
  MaxCommands = 1
  MaxFailures = 1
  MaxEvents = 2
  MAX_UPDATES_COUNT = 1
  MaxTries = 1
SPECIFICATION Spec
INVARIANTS
  ServerKept
  ShownServerRuns
PROPERTIES
  KillLasts
  RetriesEnd
CHECK_DEADLOCK FALSE
