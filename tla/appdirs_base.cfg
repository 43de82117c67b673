SPECIFICATION AppSpec
CONSTANTS
    Name = {".local", "share", ".config", ".cache", "h", "x", "g", "a", "b"}
    AppCallers = {p}
    AppCalls <- MCAppCalls
    AppEnvs <- MCNewEnvs
    NoVar = NoVar
    StartDirs <- MCNewHome
    StartFiles <- MCNoFiles
    Locked <- MCLocked
INVARIANT EachSegmentCreated
CHECK_DEADLOCK FALSE
