SPECIFICATION Spec
CONSTANTS
  None = None
  timer = timer
  operator = operator
  Thread <- MCThread
  Runs <- MCRuns
  Keep = 1
  MaxDocs = 1
  MaxArchives = 2
  MaxFaults = 1
INVARIANTS
  SnapshotIsFaithful
  StackComesBack
PROPERTIES
  CopyRemains
CHECK_DEADLOCK FALSE
