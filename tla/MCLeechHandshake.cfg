SPECIFICATION Spec
CONSTANTS
    PieceLen = 2
    MaxMetadataSize = 6
    TrueSize = 3
    Infos <- MCInfos
    PieceIndexes <- MCIndexes
    Honest <- MCBoth
CHECK_DEADLOCK FALSE
INVARIANT NoRequestWithoutHandshake
