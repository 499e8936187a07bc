SPECIFICATION Spec
CONSTANTS
  p1 = p1
  p2 = p2
  s1 = s1
  s2 = s2
  Callers <- MCCallers
  Spawners <- MCSpawners
  MaxConn = 2
PROPERTIES
  OwnFailureOnly
