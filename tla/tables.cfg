\* Two stages that name one file; everything may happen but lost statements.
SPECIFICATION LSpec
CONSTANTS
  StageId = {s1, s2}
  LogicalPath = {1}
  PhysicalPath <- MCPaths1
  Resolutions <- MCOneFile
  Requests = {{}, {1}}
  TakeOverSizes = {1}
  MirrorMode = FALSE
  MaxTime = 1
  Events = {"write", "delete", "migrate", "purge", "recall", "crash", "lost", "db", "io", "xattr", "tape"}
  NoStage = NoStage
SYMMETRY MCSymmetry
INVARIANTS TypeOK NoOrphanFiles CompletedStageIsFinal NoneMissed
PROPERTIES FinalIsForever AnswerIsStored ImplementsLifecycle
