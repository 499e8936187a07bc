SPECIFICATION Spec
CONSTANTS
  MaxItem = 3
  MaxCrash = 2
  MaxDrops = 2
  Initials <- MCInitials
  Pattern = TRUE
  Matching <- MCStory
  ByUser <- MCNone
  Links <- MCStory
  Parent <- MCParent
INVARIANTS
  TypeOK
  NoneSkipped
  NoPanic
PROPERTIES
  OnlyUnsavedRepeated
  PositionSaved
  CatchesUp
