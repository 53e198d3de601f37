SPECIFICATION Spec
CONSTANTS
    Size = {1, 2}
    Rank = {1, 2}
    MaxTorrents = 3
    MaxTime = 2
    MaxLimit = 2
CHECK_DEADLOCK FALSE
INVARIANTS TypeOK ShownInOrder NothingSkipped EndIsEnd
