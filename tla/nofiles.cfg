\* One stage without files; nothing fails.
SPECIFICATION Spec
CONSTANTS
  StageId = {s1}
  LogicalPath = {1}
  PhysicalPath <- MCPaths1
  Resolutions <- MCOneFile
  Requests = {{}}
  TakeOverSizes = {1}
  MirrorMode = FALSE
  MaxTime = 1
  Events = {}
  NoStage = NoStage
INVARIANTS StatusAnswers
