SPECIFICATION FairSpec
CONSTANTS
  Proc = {p1, p2}
  Killable = {}
PROPERTIES
  AllPass
CHECK_DEADLOCK FALSE
