SPECIFICATION FairSpec
CONSTANTS
  None = None
  t1 = t1
  t2 = t2
  p1 = p1
  p2 = p2
  d1 = d1
  Thread = {t1, t2}
  Practice = {p1, p2}
  Doc = {d1}
  FindingStatus = {"satisfied"}
  Kinds <- LeadKinds
  MaxCalls <- LeadCalls
  MaxProposals = 1
  MaxRestarts = 0
  MaxFailures = 1
INVARIANTS
  HistoryIsWalk
  AlteredOnlyByLateWrite
  UnsealedIsExplained
PROPERTIES
  ProposalIsKept
  CallsReturn
