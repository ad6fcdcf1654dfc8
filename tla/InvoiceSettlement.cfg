SPECIFICATION Spec
CONSTANTS
  Invoice = {i1}
  Tx = {t1, t2, t3}
  Handler = {h1, h2}
  None = None
  MaxEdits = 2
  MaxAborts = 1
SYMMETRY Symmetry
INVARIANTS
  PaidIffLinked
  EntryAccounted
  LinksOwnEntries
  LoggedUnlessCut
  TrailTruthful
  Inductive
PROPERTIES
  ReopenedWithoutEntries
  PaidNeverDeleted
  ImplementsLifecycle
CHECK_DEADLOCK FALSE
