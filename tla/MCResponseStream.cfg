SPECIFICATION Spec
CONSTANTS
    Dialects = {"anthropic", "chat", "responses"}
    Streams <- MCStreams
    Bodies <- MCBodies
    MaxFrameBytes = 9
    MaxBufferedBody = 3
INVARIANTS
    UsageCounted
    FailureCounted
    HeldBytesBounded
CHECK_DEADLOCK FALSE
