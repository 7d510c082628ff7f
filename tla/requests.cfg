SPECIFICATION Spec
CONSTANTS
  Assessment <- MCAssessment
  Doc <- MCDoc
  Chunk <- MCChunk
  DocOf <- MCDocOf
  Organization <- MCOrganization
  Domains <- MCDomains
  Practice = {p1, p2}
  Person = {"ann"}
  Claimed = {"bob"}
  Confidence <- MCConfidence
  Near <- MCNear
  Limit = 1
  Embedder = TRUE
  None = None
  a1 = a1
  a2 = a2
  d1 = d1
  d2 = d2
  c1 = c1
  c2 = c2
  p1 = p1
  p2 = p2
  o1 = o1
  MaxLinks = 2
  MaxRequests = 1
  MaxServed = 2
  MaxDeleted = 1
INVARIANTS
  QueueAddsUp
  AnswersAreReviewed
PROPERTIES
  WritesItsOwn
  RefusalLasts
  CitesWhatIsStored
CHECK_DEADLOCK FALSE
