SPECIFICATION Spec
CONSTANTS
  User = {u}
  Manager = m
  Petty = {p1}
  Tx = {t1, t2}
  Handler = {h1, h2}
  None = None
  Amount = {1}
  Kinds = {"income", "spend"}
  MaxVer = 2
  MaxAborts = 0
SYMMETRY Symmetry
INVARIANTS
  Inductive
  ApprovedNamesOwnFunding
  FundingAccounted
PROPERTIES
  DecidedOnce
  ApprovedOnlyEditedByManager
CHECK_DEADLOCK FALSE
