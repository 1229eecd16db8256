SPECIFICATION MCSpec
CONSTANTS
  MaxSends = 3
  MaxReplies = 2
  MaxGestures = 2
  MaxCuts = 2
  MaxOutput = 3
  Limit = 3
  Removed = 2
  MaxFrames = 10
  MaxStops = 2
INVARIANTS NothingLost Prefixes FramesInOrder
PROPERTIES NeitherOutlives RequestsSettle ShellEnds VideoGoesOn
\* connections end, and the bounds are reached
CHECK_DEADLOCK FALSE
