SPECIFICATION Spec
CONSTANTS
    Entries = {a}
    Periodic = {a}
    Pausable = {a}
    SelfStopping = {}
    Reentrant = {}
    Owner = Owner
    Poller = Poller
    Clients = {}
    Workers = {w1, w2}
    None = None
    MaxStarts = 1
INVARIANT PausedNotExecuted
