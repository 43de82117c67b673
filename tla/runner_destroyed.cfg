SPECIFICATION Spec
CONSTANTS
    Entries = {a}
    Periodic = {}
    Pausable = {}
    SelfStopping = {}
    Reentrant = {}
    Owner = Owner
    Poller = Poller
    Clients = {}
    Workers = {w1, w2}
    None = None
    MaxStarts = 1
INVARIANT RunnerOutlivesWorkers
