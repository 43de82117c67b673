SPECIFICATION FairSpec
CONSTANTS
    Entries = {a, b}
    Periodic = {a}
    Pausable = {b}
    SelfStopping = {}
    Reentrant = {}
    Owner = Owner
    Poller = Poller
    Clients = {}
    Workers = {w1, w2}
    None = None
    MaxStarts = 1
INVARIANT StopReachesWorkers
PROPERTIES
    ShutdownReturns
    CompletedErased
    NoStarvedTask
