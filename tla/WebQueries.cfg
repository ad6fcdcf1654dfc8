SPECIFICATION FairSpec
CONSTANTS
  Job = {j1, j2}
  MaxChanges = 2
INVARIANTS
  Inductive
  OwnWritesShown
  PagesFitPolicies
PROPERTIES
  OwnWritesArrive
CHECK_DEADLOCK FALSE
