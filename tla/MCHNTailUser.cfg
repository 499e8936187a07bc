SPECIFICATION Spec
CONSTANTS
  MaxItem = 3
  MaxCrash = 2
  MaxDrops = 2
  Initials <- MCInitials
  Pattern = FALSE
  Matching <- MCNone
  ByUser <- MCComment
  Links <- MCStory
  Parent <- MCParent
INVARIANTS
  UserAnnounced
