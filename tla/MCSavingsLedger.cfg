SPECIFICATION FairSpec
CONSTANTS
    Proxies = {p1}
    NoFile = NoFile
    NoPath = NoPath
    Blank = Blank
    Retention = 1
    MaxHour = 3
    MaxRecords = 3
    MaxFailures = 1
    Overlap = FALSE
INVARIANTS
    NeverHalfWritten
    TotalsSpanRestarts
    CountedOnce
    FileBounded
PROPERTIES
    RecordsReachDisk
