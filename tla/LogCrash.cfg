\* Two concurrent operations on two blocks, power loss anywhere.
SPECIFICATION Spec
CONSTANTS
  Proc = {p1, p2}
  Block = {b1, b2}
  Value = {v0, v1}
  Zero = v0
  NoBlock = NoBlock
  MAXOPBLOCKS = 4
  LOGSIZE = 8
  NLOG = 8
  OpMax = 2
SYMMETRY Sym
INVARIANTS TypeOK QuiescentIsDurable ModifiedIsPinned
PROPERTIES CrashAtomic WriteAhead CommitUndisturbed
