SPECIFICATION LibrarySpec
CONSTANTS
    None = None
    Id = Id
    X = X
    Y = Y
    MaxOps = 3
    Messages <- MCMessages
    Wrap = 65536
    Resources <- MCResources
    Characters = {":", ";", "=", ",", "k", "m", "v", "a"}
    ExtensionKeys <- MCExtensionKeys
    Extensions <- MCExtensions
    Years = {1999, 2000, 2026, 2099}
    Asked <- MCAsked
    HashBits = 3
    MaxTries = 2
    NoStamp = NoStamp
    VersionTexts <- MCVersionTexts
    LongMax = 127
    Plain <- MCPlain
    Digests <- MCDigests
    NoHash = NoHash
    Unread = Unread
    Environments <- MCEnvironments
    Files <- MCFiles
    Arguments <- MCArguments
    Missing = Missing
    Name = {".local", "share", ".config", ".cache", "h", "x", "g", "a", "b"}
    AppCallers = {p, q}
    AppCalls <- MCAppCalls
    AppEnvs <- MCAppEnvs
    NoVar = NoVar
    StartDirs <- MCStartDirs
    StartFiles <- MCStartFiles
    Locked <- MCLocked
    ShaMessages <- MCShaMessages
    Passwords <- MCPasswords
    Salts <- MCSalts
    Iterations <- MCIterations
    KeyLengths = {0, 1, 2, 3, 5}
    Sha1BlockSize = 3
    Sha1DigestSize = 2
INVARIANTS
    HopKeepsAllButParts
    ExceptionsKept
    ClearedStaysCleared
    RevokedStaysRevoked
    RoundTrip
    Rfc4648
    ValueIsEarned
    TokenSurvives
    VersionOrder
    HashSurvives
    EffectiveSetting
    AppDirCalls
    CompressedIsFips180
    KeyIsRfc8018
CHECK_DEADLOCK FALSE
