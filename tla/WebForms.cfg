SPECIFICATION Spec
CONSTANTS
  Request = {r1, r2}
  None = None
  MaxFillings = 2
  MaxChanges = 2
INVARIANTS
  Inductive
  WrittenOnce
  RefusedOnlyIfStale
  PassedIsTaken
PROPERTIES
  SavesWhatItShows
  SelfShutMeansSaved
  KeepsTheRest
CHECK_DEADLOCK FALSE
CONSTRAINT Bounded
