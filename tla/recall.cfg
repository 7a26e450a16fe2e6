\* Two stages that name one file, and lists of what is in progress; the service
\* does not fail and sets all the marks.
SPECIFICATION LFairSpec
CONSTANTS
  StageId = {s1, s2}
  LogicalPath = {1}
  PhysicalPath <- MCPaths1
  Resolutions <- MCOneFile
  Requests = {{1}}
  TakeOverSizes = {1}
  MirrorMode = FALSE
  MaxTime = 1
  Events = {"migrate", "purge", "delete", "tape"}
  NoStage = NoStage
INVARIANTS PreciseIsHeld HandoutIsFresh
PROPERTIES FailedIsNotHeld ConclusionIsShown StageCompletes ListingEnds
