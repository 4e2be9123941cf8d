SPECIFICATION EngineSpec
CONSTANTS
  t1 = t1
  t2 = t2
  t3 = t3
  Tracks <- MCTracks
  Points <- MCPoints
  Lines <- MCLines
  Epsilon = 50
  MaxHistories = 2
  MaxObservations = 4
SYMMETRY AnyTrack
INVARIANTS EngineIsBounded
PROPERTIES ReportsAreExact
