\* Three processes compete for log space, with NLOG = LOGSIZE as mkfs.c makes
\* it and room for two of them at a time; the contents do not matter.
SPECIFICATION Spec
CONSTANTS
  Proc = {p1, p2, p3}
  Block = {b1, b2, b3, b4, b5}
  Value = {v0}
  Zero = v0
  NoBlock = NoBlock
  MAXOPBLOCKS = 2
  LOGSIZE = 5
  NLOG = 5
  OpMax = 1
SYMMETRY Sym
INVARIANTS NoPanic LogFits
