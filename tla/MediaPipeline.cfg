SPECIFICATION Spec
CONSTANTS
  H264Pads = {h, g}
  OtherPads = {v}
  SilentPads = {}
CHECK_DEADLOCK FALSE
INVARIANTS
  GivenUpForCause
  RunningHasVideo
  AnalysisIsSound
PROPERTIES
  StopIsObeyed
  SilenceIsNoticed
