\* Two paths; the two orders differ.
SPECIFICATION DSpec
CONSTANTS
  Path = {1, 2}
  Key <- MCKey
  MaxLength = 2
INVARIANTS InvalidIsForeign
CHECK_DEADLOCK FALSE
