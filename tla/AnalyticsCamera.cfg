SPECIFICATION FairSpec
CONSTANTS
  Urls = {u1, u2}
  Lines = {l1}
  NoLine = NoLine
  MaxOps = 4
  MaxFailures = 1
  MaxTimeouts = 1
  MaxRestarts = 1
CHECK_DEADLOCK FALSE
INVARIANTS NoOrphans OneThread HonestRuntime
PROPERTIES WorkersConverge
