SPECIFICATION Spec
CONSTANTS
  Key <- MCKey
  MaxVersion = 2
  NoUuid = NoUuid
  MaxParser = 1
  Body <- PlainBody
  Runner = {"cron", "manual"}
  Chunk = 2
  MaxFaults = 0
PROPERTY OnlyOrphansDeleted
