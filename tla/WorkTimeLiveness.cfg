CONSTANTS
  Driver = {dr1}
  Day = {d1}
  Entry = {e1, e2}
  Request = {r1, r2}
  None = None
  Decision <- Approve
  MaxTime = 1
  MaxRev = 3
SPECIFICATION FairSpec
PROPERTIES EveryHandlerEnds
CHECK_DEADLOCK FALSE
