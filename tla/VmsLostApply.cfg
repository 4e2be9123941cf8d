SPECIFICATION FairSpec
CONSTANTS
  Cameras = {c1}
  Sources = {s1, bad}
  Rejected = {bad}
  NoPath = NoPath
  Payloads <- SomePayloads
  MaxEdits = 2
  MaxFaults = 1
  MaxRestarts = 0
PROPERTIES ConfigurationConverges
