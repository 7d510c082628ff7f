SPECIFICATION Spec
CONSTANTS
  Domain <- Domains
  Practice <- Practices
  DomainOf <- SmallDomains
  Mil <- SmallMil
  Unknown <- NoPractice
  Link = {l1, l2, l3}
  FindingStatus = {"satisfied", "not_applicable", "not_satisfied", "partially_satisfied"}
SYMMETRY LinkSymmetry
INVARIANTS
  MilIsHighest
  FiguresAgree
PROPERTIES
  StepsMoveScores
