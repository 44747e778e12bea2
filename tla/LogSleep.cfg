\* Three processes, room for two operations: begin_op sleeps.
SPECIFICATION FairSpec
CONSTANTS
  Proc = {p1, p2, p3}
  Block = {b1}
  Value = {v0}
  Zero = v0
  NoBlock = NoBlock
  MAXOPBLOCKS = 2
  LOGSIZE = 4
  NLOG = 4
  OpMax = 1
PROPERTIES SleeperWakes
