SPECIFICATION Spec
CONSTANTS
  Proc = {1, 2, 3}
  First = 1
  Killable = {2}
  Byte = {"a"}
  PIPESIZE = 2
  UintSize = 4
  MaxN = 3
INVARIANTS
  NoStuckReader
CHECK_DEADLOCK FALSE
