SPECIFICATION Spec
CONSTANTS
  Proc = {1, 2}
  First = 1
  Killable = {2}
  Byte = {a, b}
  PIPESIZE = 2
  UintSize = 4
  MaxN = 3
SYMMETRY Sym
INVARIANTS
  TypeOK
  NoStuckWriter
PROPERTIES
  ImplementsStream
CHECK_DEADLOCK FALSE
