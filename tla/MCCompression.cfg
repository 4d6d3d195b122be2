SPECIFICATION Spec
CONSTANTS
  Hashes = {"log", "blob"}
  NoHash = "none"
  w1 = w1
  w2 = w2
  Workers = {w1, w2}
  Handler = "handler"
  Other = "other"
  Callers = {"handler", "other"}
  Ttl = 1
  MaxClock = 2
  MaxFaults = 2
  Smaller = {"log"}
  NotSmaller = {"blob"}
  Prose = {"blob"}
  Lines <- ClientLines
  MaxLines = 2
  Tidier = {"wide"}
  FactOrder <- MCFactOrder
  About <- MCAbout
  MemoryLimit = 2
  Carries <- MCCarries
  Escalating = {"oops"}
  Routine = {"ok"}
  Cases <- MCCases
INVARIANTS
  MarkersRedeemable
  OnlyLiveTextChanges
  SessionKeepsCount
PROPERTY
  ImplementsPromise
CHECK_DEADLOCK FALSE
