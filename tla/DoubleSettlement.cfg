SPECIFICATION Spec
CONSTANTS
  Invoice = {i1}
  Tx = {t1, t2}
  Handler = {h1, h2}
  None = None
  MaxEdits = 1
  MaxAborts = 0
INVARIANT NoUntraceableEntry
CHECK_DEADLOCK FALSE
