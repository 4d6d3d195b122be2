SPECIFICATION Spec
CONSTANTS
    Hashes = {h1}
    Putters = {p1, p2}
    Readers = {r1}
    Sweepers = {}
    NoFile = NoFile
    NoPath = NoPath
    NoHash = NoHash
    Second = 2
    Ttl = 2
    RecoveryTtl = 2
    AbandonedAfter = 1
    Start = 0
    MaxClock = 3
INVARIANT NoTornRead
