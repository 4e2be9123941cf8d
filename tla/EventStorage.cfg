SPECIFICATION Spec
CONSTANTS
  Workers = {w1, w2}
  Keys = {k1}
  NoKey = NoKey
  Ids = {e1, e2, e3}
  NoId = NoId
  MaxAttempts = 2
  MaxFaults = 2
  MaxCrashes = 1
INVARIANTS RowsHaveArtifacts FiredIsRecorded NothingIsForgotten
PROPERTIES EventsAppearWhole NoCrossingLost
