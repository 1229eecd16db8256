SPECIFICATION Spec
CONSTANTS
  Device = {d1}
  MaxChanges = 2
  MaxLag = 1
  MaxInfo = 1
  MaxFailures = 1
  MaxConnections = 2
INVARIANTS NoUpdateLost
PROPERTIES Converges
CHECK_DEADLOCK FALSE
