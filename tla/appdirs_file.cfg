SPECIFICATION AppSpec
CONSTANTS
    Name = {".local", "share", ".config", ".cache", "h", "x", "g", "a", "b"}
    AppCallers = {p}
    AppCalls <- MCAppCalls
    AppEnvs <- MCAppEnvs
    NoVar = NoVar
    StartDirs <- MCStartDirs
    StartFiles <- MCStartFiles
    Locked <- MCLocked
INVARIANT CreatedIsDirectory
CHECK_DEADLOCK FALSE
