SPECIFICATION Spec
CONSTANTS
    Entries = {a, b, c}
    Periodic = {a}
    Pausable = {}
    SelfStopping = {}
    Reentrant = {a}
    Owner = Owner
    Poller = Poller
    Clients = {k}
    Workers = {w1, w2, w3, w4}
    None = None
    MaxStarts = 1
INVARIANTS
    OneWorkerPerEntry
    NoLostStopSignal
    NoLostDoneSignal
    RunnerInv
