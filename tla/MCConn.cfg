SPECIFICATION Spec
CONSTANTS
  w1 = w1
  r1 = r1
  r2 = r2
  Writers <- MCWriters
  Readers <- MCReaders
  Incoming <- MCIncoming
  MaxMsgs = 3
  Size = 2
  Prepended = 1
INVARIANTS
  TypeOK
  Framed
  AcceptedOnce
  PrependedFirst
  LinesWhole
  PingsAnswered
PROPERTIES
  NothingTakenBack
