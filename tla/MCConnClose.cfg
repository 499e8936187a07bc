SPECIFICATION Spec
CONSTANTS
  w1 = w1
  r1 = r1
  r2 = r2
  Writers <- MCWriters
  Readers <- MCReaders
  Incoming <- MCPing
  MaxMsgs = 2
  Size = 2
  Prepended = 0
PROPERTIES
  CloseReleases
