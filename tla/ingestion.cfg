SPECIFICATION FairSpec
CONSTANTS
  MaxUploads = 3
  MaxPending = 2
  Rejection = {"unsupported_document"}
  Faults <- StoreFaults
  MaxFaults = 2
  MaxStops = 1
INVARIANTS
  QueueBounded
  NoStrandedJob
  StoresAgree
PROPERTIES
  KeepsBoard
  JobEnds
