SPECIFICATION Spec
CONSTANTS
  NPROC = 3
  MaxPid = 4
  Calls = {"fork", "exiting", "wait", "sleep", "kill"}
INVARIANTS
  TypeOK
  NoOrphan
  KilledAwake
  NoSlotLeak
PROPERTIES
  ImplementsTree
CHECK_DEADLOCK FALSE
