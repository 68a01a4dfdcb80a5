SPECIFICATION Spec
CONSTANTS
    s1 = s1
    s2 = s2
    c1 = c1
    x1 = x1
    Stops = {s1, s2}
    Cargo = {c1}
    Hotels = {x1}
    Pickup <- PickupAt
    Delivery <- DeliverAt
    Copies <- PhoneCopies
    Request = {h1, h2}
    Start <- StartRows
    MaxServed = 2
    MaxChanges = 1
SYMMETRY Symmetry
INVARIANTS RequestsAreSound
PROPERTIES OnlyUnlockedRefreshesMoveBack CompletionsWereClear CompletionsStand
CHECK_DEADLOCK FALSE
