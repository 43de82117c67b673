SPECIFICATION FaultySpec
CONSTANTS
    Entries = {a, b, c}
    Periodic = {a}
    Pausable = {}
    SelfStopping = {b}
    Reentrant = {a}
    Owner = Owner
    Poller = Poller
    Clients = {}
    Workers = {w1, w2, w3, w4}
    None = None
    MaxStarts = 2
    MaxFailures = 2
INVARIANTS
    ShutdownQuiescent
    OnlyFailuresLose
PROPERTY ImplementsPool
