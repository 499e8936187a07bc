SPECIFICATION Spec
CONSTANTS
  Caps <- MCCaps
  ReqMax = 2
  MaxRefusals = 2
  RejectStyles = {"904", "908", "both", "902"}
CHECK_DEADLOCK FALSE
PROPERTIES
  NothingPendingContinues
