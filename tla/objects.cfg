SPECIFICATION ObjectSpec
CONSTANTS
    Ids = {a, b, c, d, e, f}
    MaxSize = 4
    PrunePercent = 50
    MaxLog = 9
    Statuses = {NotInitialized, Running, Paused}
    NotInitialized = NotInitialized
    Running = Running
    MaxChanges = 4
    MaxDepth = 3
    Bodies = {0, 1, 2}
    Algorithms = {"Sha1", "Sha256", "Pbkdf2HmacSha1"}
    None = None
    MaxVersion = 3
    MaxSalts = 3
INVARIANTS
    NonceInv
    Bounded
    RecentReplayRejected
    BoardIsCurrent
    SizeIsOfBody
    HashIsOfBody
    HashIsReadable
    FingerprintIsOfHash
PROPERTIES
    ReportsInOrder
    VersionTellsBody
