SPECIFICATION FairSpec
CONSTANTS
  Key <- MCKey
  MaxVersion = 2
  NoUuid = NoUuid
  MaxParser = 2
  Body <- HardBody
  Runner = {"cron"}
  Chunk = 2
  MaxFaults = 1
INVARIANT AloneInv
INVARIANT SkipIsSound
INVARIANT CompletedRunMirrors
INVARIANT DerivedWhenPublished
PROPERTY EventuallyConsistent
PROPERTY MirrorSpec
PROPERTY UnbrokenRunsPublish
