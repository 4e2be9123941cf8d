SPECIFICATION Spec
CONSTANTS
  Cameras = {c1, c2}
  Sources = {s1, bad}
  Rejected = {bad}
  NoPath = NoPath
  Payloads <- SomePayloads
  MaxEdits = 2
  MaxFaults = 1
  MaxRestarts = 1
SYMMETRY Symmetry
INVARIANTS ConfiguredIsCurrent ErrorsBelongToRecorders
PROPERTIES MirrorsDesiredState
