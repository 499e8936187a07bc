SPECIFICATION Spec
CONSTANTS
  Nicks <- MCNicks
  Pref = "egobot"
  Fallback = "egobot_"
  MaxConn = 2
  MaxActs = 1
  MaxInbox = 2
INVARIANTS
  TypeOK
  NickKnown
  KeepsTrying
PROPERTIES
  DeliveryEnds
CHECK_DEADLOCK FALSE
