SPECIFICATION SpecPanels
CONSTANTS
  Kind <- MCKind
  Options <- MCOptions
  Start <- MCStart
  Answers <- MCAnswers
  Empty <- MCEmpty
  MaxRequests <- MCMaxRequests
  UsageTopN = 1
  ErrorTopN = 1
  ErrorOn = 1
  Heights = 4
  Slack = 1
  Reach = 3
  NiceBins <- MCNiceBins
  MinBins = 3
  SessionGap = 3
  WindowGap = 5
  FilePad = 1
  LeastTime = 1
  Rate <- MCRate
  Boxes <- MCBoxes
  Picks <- MCPicks
  DefaultBucket = 8
  Times <- MCTimes
  Levels <- MCLevels
  Floor = 0
  Cap = 8
  Models <- MCModels
  Files <- MCFiles
  ProjectName <- MCProjectName
  PerPage = 2
  ListLimit = 2
  ModelCutoff = 4
  K3Cutoff = 8
CHECK_DEADLOCK FALSE
INVARIANT TypeOKPanels
INVARIANT ShowsSelection
INVARIANT CallsCountedOnce
INVARIANT HoverAgreesWithDrawing
INVARIANT TurnStatsSound
INVARIANT MarginsAddUp
INVARIANT ChartsMatchSummary
INVARIANT BurnInTimeOrder
INVARIANT InspectorAgrees
INVARIANT MergeIsUnion
INVARIANT NoStrandedPage
