SPECIFICATION FairSpec
CONSTANTS
    u1 = u1  u2 = u2  p1 = p1  p2 = p2  r1 = r1
    User <- MCUser
    Hash <- MCHash
    Files <- MCFiles
    Malformed = Malformed
    Request <- MCRequest
    NoAuth <- MCNoAuth
PROPERTY SignalsAreHeard
