\* Three sessions, two requests at a time, every failure: the safety properties.
CONSTANTS
    Clients = {c1, c2, c3}
    Handlers = {h1, h2}
    Sweeper = Sweeper
    Lifespan = Lifespan
    NoClient = NoClient
    TTL = 2
    Interval = 1
    Deadline = 2
    MaxRequests = 2
    CloseMayFail = TRUE
SYMMETRY Symmetry
SPECIFICATION Spec
INVARIANTS
    TypeOK
    StoredIsOpen
    ClosedOnce
    OnlyFaultsOrphan
    SweepListExpired
    InUseEndsByDisconnect
    CleanShutdown
    ServedIsLive
PROPERTIES
    NoRevival
    LifecycleSpec
