SPECIFICATION Spec
CONSTANTS
    Base = 2
    IdLen = 2
    IpLen = 1
    Ip6Len = 2
    MappedPrefix <- MCMappedPrefix
    TidStrings <- MCTidStrings
    NodeStrings <- MCNodeStrings
    ValueLists <- MCValueLists
    SampleStrings <- MCSampleStrings
    HashLen = 2
    MaxNeighbors = 2
    MaxQueries = 2
    MaxStray = 1
CHECK_DEADLOCK FALSE
INVARIANT NoPortZero
