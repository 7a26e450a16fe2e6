\* One stage of one file; a transaction may fail.
SPECIFICATION Spec
CONSTANTS
  StageId = {s1}
  LogicalPath = {1}
  PhysicalPath <- MCPaths1
  Resolutions <- MCOneFile
  Requests = {{1}}
  TakeOverSizes = {1}
  MirrorMode = FALSE
  MaxTime = 1
  Events = {"db"}
  NoStage = NoStage
INVARIANTS StartedIsHeld
