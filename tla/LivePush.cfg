SPECIFICATION FairSpec
CONSTANTS
  Browser = {b1}
  QueueSize = 1
  MaxData = 3
  MaxStreams = 2
  MaxWire = 1
  MaxInFlight = 2
INVARIANT TypeOK
INVARIANT NoticeNotLost
PROPERTY NoticeLeadsToFetch
PROPERTY ShutdownDrains
CHECK_DEADLOCK FALSE
