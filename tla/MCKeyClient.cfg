SPECIFICATION Spec
CONSTANTS
  None = None
  Other = Other
  MaxSeeds = 2
  MaxInode = 7
  MaxCrashes = 2
  MaxEdits = 1
INVARIANTS
  SeedNeverLost
  PublishedWasAccepted
PROPERTIES
  Settles
CHECK_DEADLOCK FALSE
