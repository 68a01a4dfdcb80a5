SPECIFICATION Spec
CONSTANTS
    d1 = d1
    d2 = d2
    f1 = f1
    e1 = e1
    w1 = w1
    None = None
    Days = {d1, d2, f1}
    Entries = {e1}
    Works = {w1}
    Own = {d1, d2, e1, w1}
    Slots = {q1, q2}
    Syncs = {k1}
    Start <- Scenes
    MaxAttempts = 2
INVARIANTS TypeOK
PROPERTIES PushesReplaceWholeBatches LockedDaysStand ReplacedEditsStayReplaced EveryPushEnds
CHECK_DEADLOCK FALSE
