SPECIFICATION Spec
CONSTANTS
  Call = {c1, c2}
  Button = Button
  Person = {p, q}
  None = None
  MaxPairs = 2
SYMMETRY Symmetry
INVARIANTS
  Inductive
  ScreenMatchesStorage
  PresentedOnce
CHECK_DEADLOCK FALSE
