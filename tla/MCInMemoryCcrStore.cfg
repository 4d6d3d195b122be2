SPECIFICATION Spec
CONSTANTS
    Hashes = {h1, h2}
    Threads = {t1, t2}
    NoHash = NoHash
    Ttl = 1
    MaxClock = 2
INVARIANTS
    PromiseKept
    HeldUntilPromised
PROPERTIES
    OnlyExpiredLeave
    ImplementsPromise
