SPECIFICATION Spec
CONSTANTS
  User = {u}
  Manager = m
  Petty = {p1}
  Tx = {t1, t2, t3}
  Handler = {h1}
  None = None
  Amount = {1, 2}
  Kinds = {"spend"}
  MaxVer = 2
  MaxAborts = 1
SYMMETRY Symmetry
VIEW Unlogged
PROPERTY WithinBalance
CHECK_DEADLOCK FALSE
