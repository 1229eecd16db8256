CONSTANTS
  Conns = {c1, c2}
  Requests = {q1, q2}
  FewRequests = {q1}
  MaxRunners = 1
  MaxCalls = 2
  MaxChannels = 4
SPECIFICATION MCSpec
INVARIANTS
  HeldIsKept
  StreamIsKept
PROPERTIES
  Recovery
  IdleEnds
CHECK_DEADLOCK FALSE
