\* Up to two areas of up to two access points each.
SPECIFICATION RSpec
CONSTANTS
  Element <- MCElement
  Name = {1, 2}
  Root <- MCRoots
  AccessPoint <- MCAccessPoints
  Request <- MCRequests
  NoArea = NoArea
  MaxAreas = 2
  MaxAccessPoints = 2
INVARIANTS RTypeOK NoTies ResolvesToLongest
CHECK_DEADLOCK FALSE
