SPECIFICATION Spec
CONSTANTS
    Hashes = {h1}
    Putters = {p1, p2}
    Readers = {r1}
    Sweepers = {s1}
    NoFile = NoFile
    NoPath = NoPath
    NoHash = NoHash
    Second = 2
    Ttl = 2
    RecoveryTtl = 2
    AbandonedAfter = 0
    Start = 1
    MaxClock = 2
CONSTRAINT UntilAnswered
SYMMETRY Alike
PROPERTIES
    TornOnlyWhileShared
    SweepCleans
    ImplementsPromise
