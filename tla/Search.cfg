SPECIFICATION Spec
CONSTANTS
  Searches = {s1, s2, s3, s4}
  Indexer = i
  MaxWaiters = 3
  Events = {1, 2, 3}
  MaxScore = 1
INVARIANTS OneAtATime RankingIsExact
PROPERTIES SearchesGoFirst SearchesEnd
