SPECIFICATION FairSpec
CONSTANTS
  Form = {income}
  Flush = Flush
  Entry = {a, b, c}
  Rejected = {}
  MaxBusy = 1
  MaxLosses = 2
  MaxOutages = 2
INVARIANTS
  NeverLost
  BookedOnceUnlessLost
PROPERTIES
  ImplementsQueue
  QueuedIsDelivered
CHECK_DEADLOCK FALSE
