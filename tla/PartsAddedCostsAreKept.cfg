SPECIFICATION Spec
CONSTANTS
    Focus = {"cost"}
    None = None
    Token = Token
    Absent = None
    NoPhoto = None
    Slots = {h1, h2}
    Names = {n1, n2}
    Things = {p1, p2}
    Drivers = {n1, n2}
    Tours = {p1, p2}
    Conns = {h1, h2}
    MaxJobs = 3
    Passwords = {p1, p2}
    Handlers = {h1, h2}
    NoRow = None
    MaxSessions = 3
    MaxAccount = 3
    MaxTokens = 2
    MaxServed = 7
    Events <- HotelEvents
    MaxTime = 1
    MaxSent = 3
    Costs = {1, 2, 3}
    Syncs = {h1, h2}
    MaxChanges = 5
    Uploads = {h1, h2}
    MaxUploads = 3
    Tables = {n1, n2}
    MaxRows = 2
    MaxRuns = 3
    Keys = {p1, p2}
    Writers = {h1, h2}
    Limit = 1
    MaxClock = 2
    MaxVersion = 2
    NoSession = None
    NoDiagnostic = None
    Browsers = {n1, n2}
    Requests = {0}
    TTL = 2
    Window = 2
    MaxLogins = 2
    MaxNow = 3
    MaxAttempts = 4
    MaxAdminSessions = 2
    Open = None
    WorkStatuses = {"DRIVING", "OFFLINE"}
    Long = 2
    Ahead = 1
    MaxMoment = 3
    MaxEntries = 3
    MaxStops = 3
    MaxPlace = 2
    MaxRouteChanges = 3
    Threads = {h1, h2}
    MaxQueueSize = 2
    MaxRetries = 1
    MaxEvents = 3
    MaxGenerations = 2
SYMMETRY Symmetry
PROPERTIES AddedCostsAreKept
CHECK_DEADLOCK FALSE
