SPECIFICATION FairSpec
CONSTANTS
  Key <- OneKey
  MaxVersion = 2
  NoUuid = NoUuid
  MaxParser = 1
  Body <- PlainBody
  Runner = {"cron", "manual"}
  Chunk = 2
  MaxFaults = 0
INVARIANT IInv
PROPERTY EventuallyConsistent
