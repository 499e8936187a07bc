SPECIFICATION Spec
CONSTANTS
  c1 = c1
  Chans <- MCChans
  MaxConn = 2
  MaxActs = 2
CHECK_DEADLOCK FALSE
PROPERTIES
  MaintainsJoins
