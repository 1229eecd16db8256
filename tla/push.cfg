SPECIFICATION Spec
CONSTANTS
  a = a
  b = b
  File <- TwoFiles
  MaxSize = 2
  FirstId = 1
  MaxId = 2
  MaxInResponse = 32767
INVARIANTS SuccessMeansWritten ErrorHasCause
PROPERTY Settled
\* every file is dropped once
CHECK_DEADLOCK FALSE
