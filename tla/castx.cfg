CONSTANTS
  MaxSessions = 2
  MaxBytes = 9
  MaxChunk = 2
  MaxUnits = 3
  MaxParts = 3
  MaxSockets = 2
  MaxInputs = 1
  Mb = 16
  Sps <- MCSps
  Page = {1, 2}
  MaxActs = 2
  MaxControls = 2
SPECIFICATION MCSpec
INVARIANTS AloneIsSorted NalsAreExact CompleteUnitsAreExact SizeIsRead SignalsFit AllLifted
PROPERTY PageFollows
\* the phone and the stream may stop, and the bounds are reached
CHECK_DEADLOCK FALSE
