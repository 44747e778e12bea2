SPECIFICATION Spec
CONSTANTS
  Proc = {p1, p2, p3, p4}
  Killable = {p1, p2, p3, p4}
SYMMETRY Sym
INVARIANTS
  TypeOK
  NoEarlyPass
CHECK_DEADLOCK FALSE
