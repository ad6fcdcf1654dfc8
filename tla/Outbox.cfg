SPECIFICATION Spec
CONSTANTS
  Form = {income, expense}
  Flush = Flush
  Entry = {a, b, r}
  Rejected = {r}
  MaxBusy = 3
  MaxLosses = 2
  MaxOutages = 2
SYMMETRY Symmetry
INVARIANTS Inductive SavedIsFinal
CHECK_DEADLOCK FALSE
