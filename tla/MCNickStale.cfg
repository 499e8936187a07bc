SPECIFICATION Spec
CONSTANTS
  Nicks <- MCNicks
  Pref = "egobot"
  Fallback = "egobot_"
  MaxConn = 1
  MaxActs = 2
  MaxInbox = 2
INVARIANTS
  NickAlwaysKnown
CHECK_DEADLOCK FALSE
