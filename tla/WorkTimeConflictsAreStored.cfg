CONSTANTS
  Driver = {dr1}
  Day = {d1}
  Entry = {e1, e2}
  Request = {r1}
  None = None
  Decision <- TwoDecisions
  MaxTime = 1
  MaxRev = 3
SPECIFICATION Spec
SYMMETRY Symmetry
PROPERTIES ConflictsAreStored
CHECK_DEADLOCK FALSE
