\* One session, one request at a time: an open client nobody owns.
CONSTANTS
    Clients = {c1}
    Handlers = {h1}
    Sweeper = Sweeper
    Lifespan = Lifespan
    NoClient = NoClient
    TTL = 1
    Interval = 1
    Deadline = 1
    MaxRequests = 1
    CloseMayFail = FALSE
SPECIFICATION Spec
INVARIANTS
    NoOrphan
