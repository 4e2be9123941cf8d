SPECIFICATION Spec
CONSTANTS
  Day = 4
  Horizon = 6
  Crossings = {2, 4}
  MaxChanges = 1
CHECK_DEADLOCK FALSE
INVARIANTS
  AvailableCovers
  AbsenceIsTrue
  RecordedIsFound
