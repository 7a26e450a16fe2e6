\* One stage of one file, which may be deleted.
SPECIFICATION Spec
CONSTANTS
  StageId = {s1}
  LogicalPath = {1}
  PhysicalPath <- MCPaths1
  Resolutions <- MCOneFile
  Requests = {{1}}
  TakeOverSizes = {1}
  MirrorMode = FALSE
  MaxTime = 1
  Events = {"delete"}
  NoStage = NoStage
PROPERTIES CompletedIsOnDisk
