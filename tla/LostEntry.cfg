SPECIFICATION Spec
CONSTANTS
  Form = {income}
  Flush = Flush
  Entry = {a, b}
  Rejected = {}
  MaxBusy = 2
  MaxLosses = 1
  MaxOutages = 1
INVARIANTS NeverLost
CHECK_DEADLOCK FALSE
