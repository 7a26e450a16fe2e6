\* One stage of two files over two seconds; files change and calls fail.
SPECIFICATION Spec
CONSTANTS
  StageId = {s1}
  LogicalPath = {1, 2}
  PhysicalPath <- MCPaths2
  Resolutions <- MCTwoFiles
  Requests = {{1}, {1, 2}}
  TakeOverSizes = {1, 2}
  MirrorMode = FALSE
  MaxTime = 2
  Events = {"delete", "purge", "recall", "crash", "db", "io"}
  NoStage = NoStage
INVARIANTS CompletedStageIsFinal TimesAreOrdered StageStartIsEarliest LateEndIsCancelled
PROPERTIES AnswerIsStored
