SPECIFICATION Spec
CONSTANTS
  None = None
  t1 = t1
  t2 = t2
  p1 = p1
  p2 = p2
  d1 = d1
  Thread = {t1}
  Practice = {p1}
  Doc = {d1}
  FindingStatus = {"satisfied", "not_satisfied"}
  Kinds <- SoloKinds
  MaxCalls <- SoloCalls
  MaxProposals = 1
  MaxRestarts = 1
  MaxFailures = 1
INVARIANTS
  FinalizedIsComplete
  CitedIsAttached
PROPERTIES
  KeepsPromise
