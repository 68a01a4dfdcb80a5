CONSTANTS
  Driver = {dr1}
  Day = {d1}
  Entry = {e1, e2, e3}
  Request = {r1, r2, r3}
  None = None
  Decision <- TwoDecisions
  MaxTime = 1
  MaxRev = 3
SPECIFICATION Spec
SYMMETRY Symmetry
INVARIANTS OpenEntriesNeedRaces TotalsMatchEntries
PROPERTIES CorrectionSticks DriverCorrectionRespectsApproval
CHECK_DEADLOCK FALSE
