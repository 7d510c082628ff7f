SPECIFICATION Spec
CHECK_DEADLOCK FALSE
CONSTANTS
  t1 = t1
  d1 = d1
  NoDoc = NoDoc
  NoChunk = NoChunk
  Thread = {t1}
  Practice = {1, 2}
  Doc = {d1}
  Confidence <- Near
  Threshold = 1
  PerPractice = 1
  Cap = 1
  MaxLinks = 2
  Parser = {1}
  Text <- OneText
  Cuts <- OneTextCuts
  MaxRuns = 2
  MaxStops = 1
INVARIANTS CapHolds NothingLostQuietly
PROPERTIES CitationFollowsText
