SPECIFICATION RegistrySpec
CHECK_DEADLOCK FALSE
CONSTANTS
  t1 = t1
  t2 = t2
  a1 = a1
  Nothing = Nothing
  Thread = {t1, t2}
  Assessment = {a1}
  Name = {"CSF", "SOC"}
  File = {"csf1", "csf2", "soc"}
  Equivalences = "equivalence"
  Flaky = {"equivalence", "csf2"}
  Known <- Releases
  VersionIn <- Versioned
  Practices <- Defined
  Pairs <- Reviewed
SYMMETRY Symmetric
INVARIANTS
  DefinitionsAreWhole
  PinHolds
