SPECIFICATION FairSpec
CONSTANTS
  Events = {1, 2}
  BatchSize = 2
  Threshold = 1
  MaxMishaps = 2
  MaxCorruptions = 1
CHECK_DEADLOCK FALSE
INVARIANTS SnapshotIsExact
PROPERTIES RevisionMovesWithVectors RepresentationsSettle RevisionIsPublished
