SPECIFICATION Spec
CONSTANTS
    h1 = h1  h2 = h2
    p1 = p1  p2 = p2
    l1 = l1  l2 = l2
    InfoHash <- MCInfoHash
    ZeroSized <- MCZeroSized
    Peer <- MCPeer
    PeerLists <- MCPeerLists
    LeechId <- MCLeechId
    MaxNLeeches = 2
    DrainCap = 1
    OutputCap = 1
    NoCall = NoCall
    NoLeech = NoLeech
CHECK_DEADLOCK FALSE
SYMMETRY Symmetry
INVARIANTS TypeOK RaceIsNotFatal NothingFetchedIsLost
PROPERTY IsCrawler
