SPECIFICATION FairSpec
CONSTANTS
    h1 = h1  h2 = h2
    p1 = p1  p2 = p2
    l1 = l1  l2 = l2
    InfoHash <- MCOneHash
    ZeroSized <- MCNone
    Peer <- MCPeer
    PeerLists <- MCPeerLists
    LeechId <- MCLeechId
    MaxNLeeches = 2
    DrainCap = 1
    OutputCap = 1
    NoCall = NoCall
    NoLeech = NoLeech
CHECK_DEADLOCK FALSE
PROPERTIES FetchedIsStored LoopReturns
