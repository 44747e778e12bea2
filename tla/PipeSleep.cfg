SPECIFICATION Spec
CONSTANTS
  Proc = {1, 2, 3}
  First = 1
  Killable = {}
  Byte = {"a"}
  PIPESIZE = 2
  UintSize = 4
  MaxN = 3
INVARIANTS
  NoStuckReader
  NoUseAfterFree
CHECK_DEADLOCK FALSE
