SPECIFICATION FairSpec
CONSTANTS
  Browser = {b1}
  QueueSize = 1
  MaxData = 2
  MaxStreams = 1
  MaxWire = 1
  MaxInFlight = 2
PROPERTY LiveUpdates
CHECK_DEADLOCK FALSE
