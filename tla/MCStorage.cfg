SPECIFICATION Spec
CONSTANTS
    h1 = h1
    h2 = h2
    h3 = h3
    Daemon = magneticod
    Web = magneticow
    NoHash = NoHash
    NoProc = NoProc
    Hash <- MCHash
    ZeroSized <- MCZeroSized
    BadName <- MCBadName
    BadPath <- MCBadPath
    NFiles = 2
    Instants <- MCInstants
    Requests <- MCRequests
    PageN <- MCPageN
    Engines = {"sqlite3", "postgres"}
INVARIANTS
    TypeOK
    SchemaMatchesVersion
    ServesLatestSchema
    TorrentsWhole
    StatisticsCount
    PageReachesNow
PROPERTIES
    TorrentsKept
    CallsReturn
