SPECIFICATION PipelineSpec
CONSTANTS
  Floor <- MCFloor
  Limits <- MCLimits
  Placeholder <- MCPlaceholder
  Cases <- MCCases
  ExamplesPerTemplate = 1
  MaxVerbatimSeverity = 2
  MinLogLines = 3
  MaxFiles = 2
  MaxMatchesPerFile = 2
  MaxTotalMatches = 3
  MinMatches = 3
  ContextLines = 1
  Lockfiles = {"lock"}
  MinBodyLines = 2
  LineBudget = 3
  RelevanceThreshold = 1
  MaxRelevantLines = 1
  FieldNames <- MCFieldNames
  ErrorNames = {"error"}
  ScoreNames = {"score"}
  IdentifierNames = {"id"}
  MinClassified = 4
  SampleRecords = 1
  MinRecords = 4
  MaxLowCardinality = 2
  PreserveErrorFields = TRUE
  MaxRelevantRecords = 1
  MaxRankedRecords = 1
  MaxDepth = 4
INVARIANTS
  Redeemable
  OnlyWhatIsAllowed
  Accounted
  NothingThatMatters
CHECK_DEADLOCK FALSE
