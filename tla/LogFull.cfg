\* The proportions of param.h and mkfs.c: LOGSIZE = 3 * MAXOPBLOCKS = NLOG,
\* with operations that use all they reserve.
SPECIFICATION Spec
CONSTANTS
  Proc = {p1, p2, p3}
  Block = {b1, b2, b3}
  Value = {v0}
  Zero = v0
  NoBlock = NoBlock
  MAXOPBLOCKS = 1
  LOGSIZE = 3
  NLOG = 3
  OpMax = 1
SYMMETRY Sym
INVARIANTS NoPanic
