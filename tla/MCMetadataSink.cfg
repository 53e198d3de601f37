SPECIFICATION FairSinkSpec
CONSTANTS
    h1 = h1  h2 = h2  h3 = h3
    p1 = p1  p2 = p2
    l1 = l1  l2 = l2
    InfoHash <- MCInfoHash
    Peer <- MCPeer
    PeerLists <- MCPeerLists
    LeechId <- MCLeechId
    MaxNLeeches = 2
    DrainCap = 1
    NoCall = NoCall
    NoLeech = NoLeech
INVARIANTS SinkTypeOK OneLeechPerEntry PeersTriedInOrder MetadataConserved
PROPERTIES EntryEndsOnlyWhenDone EveryEntryEnds
CHECK_DEADLOCK FALSE
