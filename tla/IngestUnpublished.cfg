SPECIFICATION Spec
CONSTANTS
  Key <- MCKey
  MaxVersion = 2
  NoUuid = NoUuid
  MaxParser = 1
  Body <- PlainBody
  Runner = {"cron"}
  Chunk = 1
  MaxFaults = 1
PROPERTY CompletedRunPublishes
