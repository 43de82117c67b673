SPECIFICATION FairSpec
CONSTANTS
    Entries = {a, b}
    Periodic = {a, b}
    Pausable = {}
    SelfStopping = {}
    Reentrant = {a}
    Owner = Owner
    Poller = Poller
    Clients = {}
    Workers = {w1, w2}
    None = None
    MaxStarts = 1
PROPERTY ShutdownReturns
