CONSTANTS
  Driver = {dr1}
  Day = {d1, d2}
  Entry = {e1, e2}
  Request = {r1, r2}
  None = None
  Decision <- TwoDecisions
  MaxTime = 1
  MaxRev = 2
SPECIFICATION Spec
SYMMETRY Symmetry
INVARIANTS OpenDaysNeedRacingStarts AuditAccountsForRevisions
CHECK_DEADLOCK FALSE
