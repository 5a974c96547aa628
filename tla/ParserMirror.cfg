SPECIFICATION Spec
CONSTANTS
  CallId = {"c1", "c2"}
  NoId = "none"
  ModelCutoff = 2
  K3Cutoff = 3
  Sources <- MCSources
CHECK_DEADLOCK FALSE
INVARIANT MirrorOutcomes
