\* Any request on any stage of four paths; the two orders differ. The search ends.
SPECIFICATION DSpec
CONSTANTS
  Path = {1, 2, 3, 4}
  Key <- MCKey
  MaxLength = 4
INVARIANTS DTypeOK NoStrangerAccepted InvalidIsExact
CHECK_DEADLOCK FALSE
