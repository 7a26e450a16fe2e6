\* One file with up to two attributes; other processes change it, every call may fail.
SPECIFICATION ASpec
CONSTANTS
  Name = {"user.TSMRecT", "user.other"}
  TSMRecT = "user.TSMRecT"
  Byte = {"b"}
  NUL = "0"
  Capacity = 1
  MaxSize = 3
  Failing = {"open", "remove", "getxattr", "setxattr", "listxattr", "removexattr"}
  NoFile = NoFile
INVARIANTS ATypeOK GetIsHeld ListIsHeld
PROPERTIES MarksAsInStorage
