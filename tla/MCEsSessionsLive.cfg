\* Closing never raises: the liveness properties, under the event loop's fairness.
CONSTANTS
    Clients = {c1, c2}
    Handlers = {h1, h2}
    Sweeper = Sweeper
    Lifespan = Lifespan
    NoClient = NoClient
    TTL = 1
    Interval = 1
    Deadline = 1
    MaxRequests = 1
    CloseMayFail = FALSE
SPECIFICATION FairSpec
PROPERTIES
    ShutdownEnds
    LifecycleFairSpec
