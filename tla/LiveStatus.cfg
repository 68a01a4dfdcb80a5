SPECIFICATION Spec
CONSTANTS
    None = None
    Slots = {h1, h2}
    Scenes <- Scene
    Times = {0, 1, 2, 3, 4}
    Grace = 2
    Stay = 1
    MaxUpdates = 3
SYMMETRY Symmetry
INVARIANTS PeriodsAreSound
CHECK_DEADLOCK FALSE
