SPECIFICATION Spec
CONSTANTS
  NPROC = 4
  MaxPid = 4
  Calls = {"fork", "exiting", "wait"}
INVARIANTS
  NoMissedExit
CHECK_DEADLOCK FALSE
