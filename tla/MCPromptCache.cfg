SPECIFICATION Spec
CONSTANTS
    Dialects = {"anthropic", "openai"}
    Openings <- MCOpenings
    Turns <- MCTurns
    Heads <- MCHeads
    MaxVaried = 1
    Stabilization = {TRUE, FALSE}
    Appends = TRUE
    Anchors = {2, 4}
    MaxBreakpoints = 2
    Pinned = {0, 2}
    MaxMarks = 1
    MaxMessages = 7
INVARIANTS
    MarkedPrefixStaysCached
    OnlyNewestMissed
    AnchorsStay
    NoteNeverMeetsFloor
    HeadMissIsReported
