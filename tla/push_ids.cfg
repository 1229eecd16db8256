SPECIFICATION Spec
CONSTANTS
  a = a
  b = b
  File <- TwoFiles
  MaxSize = 1
  FirstId = 32766
  MaxId = 65536
  MaxInResponse = 32767
INVARIANT NewIsAnswered
CHECK_DEADLOCK FALSE
