SPECIFICATION DiscoverySpec
CONSTANTS
  NumEvents = 3
  MaxTime = 2
  Malformed = {}
  History = {2}
  PageSize = 1
  Overlap = 1
  MaxTroubles = 1
INVARIANTS NothingIsSkipped
PROPERTIES OnTimeEventsAreFound AllEventsAreFound
