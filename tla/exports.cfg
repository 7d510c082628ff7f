SPECIFICATION ExportsSpec
SYMMETRY WriterSymmetry
CHECK_DEADLOCK FALSE
CONSTANTS
  Domain = {"A"}
  Practice <- Practices
  DomainOf <- OneDomain
  Mil <- OneLevel
  Unknown <- NoPractice
  Link = {"l1", "l2"}
  FindingStatus = {"satisfied", "not_satisfied", "not_applicable"}
  Model = "coverage"
  Client = {"c1"}
  Writer = {w1, w2}
  Phrase <- Phrases
  Rationales <- SomeTexts
  Names <- TwoNames
  AssessmentName <- NoPhrase
  FirstLinks <- OneAccepted
  MaxWrites = 2
  MaxApprovals = 1
  MaxCopies = 1
  MaxRestarts = 1
INVARIANTS
  ExportWasApproved
  StaleOnlyIfChanged
  FinalizedCopyIsFinal
  CurrencyIsRight
