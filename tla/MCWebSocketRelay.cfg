SPECIFICATION PumpSpec
CONSTANTS
    Frames = {text, binary, close}
    Close = close
    NoFrame = NoFrame
    MaxFrames = 2
    Room = 1
INVARIANTS
    FaithfulPipe
PROPERTIES
    EveryFrameArrives
    CloseArrives
    EitherEndEndsRelay
CHECK_DEADLOCK FALSE
