\* Two overlapping requests on one cargo; the administrator asks for a few statuses.
SPECIFICATION Spec
CONSTANTS
    Cargo = {c1}
    Request = {h1, h2}
    EventId = {e1}
    None = None
    AdminTo <- Few
    MaxServed = 4
    MaxClock = 2
SYMMETRY Symmetry
INVARIANTS EventIdRecordedOnce LogAndRowsAgree
PROPERTIES UnracedWritesAreLegal
\* The budget of requests runs out.
CHECK_DEADLOCK FALSE
