SPECIFICATION Spec
CHECK_DEADLOCK FALSE
CONSTANTS
  t1 = t1
  t2 = t2
  d0 = d0
  d1 = d1
  d2 = d2
  NoDoc = NoDoc
  Unnamed = Unnamed
  Thread = {t1, t2}
  Name = {"Unassigned", "Northfield", "Riverside"}
  DefaultName = "Unassigned"
  Doc = {d0, d1, d2}
  Legacy = {d0}
  MaxOrganizations = 2
  MaxAssessments = 1
SYMMETRY Symmetric
INVARIANTS
  NamesAreUnique
  BoundaryHolds
  VersionsEnd
