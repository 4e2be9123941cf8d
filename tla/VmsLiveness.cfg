SPECIFICATION FairSpec
CONSTANTS
  Cameras = {c1, c2}
  Sources = {s1}
  Rejected = {}
  NoPath = NoPath
  Payloads <- RecordingPayloads
  MaxEdits = 2
  MaxFaults = 1
  MaxRestarts = 0
PROPERTIES PathsConverge HealthConverges
