\* Two stages of two names of one file, the second of which is given a file of its
\* own between two starts of the service; in mirror mode.
SPECIFICATION Spec
CONSTANTS
  StageId = {s1, s2}
  LogicalPath = {1, 2}
  PhysicalPath <- MCPaths2
  Resolutions <- MCNames
  Requests = {{1, 2}}
  TakeOverSizes = {1}
  MirrorMode = TRUE
  MaxTime = 1
  Events = {"purge", "tape"}
  NoStage = NoStage
SYMMETRY MCSymmetry
INVARIANTS CompletedStageIsFinal TimesTellState
PROPERTIES FinalIsForever EndIsShared AnswerIsStored
