SPECIFICATION FairSpec
CONSTANTS
  MaxOps = 3
  MaxFaults = 1
  MaxRestarts = 1
CHECK_DEADLOCK FALSE
INVARIANTS OnePublisher StatusIsHonest PublisherRunsItsRow RowHasItsSource
PROPERTIES CameraSettles
