\* Two stages of up to two names of one file, again and again; the server crashes,
\* transactions fail, responses get lost, and a Location may not be made.
SPECIFICATION HSpec
CONSTANTS
  StageId = {s1, s2}
  LogicalPath = {1, 2}
  PhysicalPath <- MCPaths1
  Resolutions <- MCTwoNames
  Requests = {{}, {1}, {1, 2}}
  TakeOverSizes = {1}
  MirrorMode = FALSE
  MaxTime = 1
  Events = {"delete", "lost", "db", "crash"}
  NoStage = NoStage
  Forwarded = {"port", "overflow"}
INVARIANTS RefusalChangesNothing SuccessIsDone
