SPECIFICATION Spec
CONSTANTS
  NPROC = 2
  MaxPid = 3
  Calls = {"fork", "exiting", "kill"}
PROPERTIES
  BornUnkilled
CHECK_DEADLOCK FALSE
