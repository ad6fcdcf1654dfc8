SPECIFICATION FairSpec
CONSTANTS
  Tab = {t1}
  Call = {c1, c2}
  admin = admin
  user = user
  Person = {admin, user}
  MayActAs <- Pairs
  None = None
  MaxPairs = 2
INVARIANTS
  Inductive
  HeadersAreBannered
  WritesWereAllowed
  CacheIsOwnUnlessStrayed
PROPERTIES
  EveryCallSettles
CHECK_DEADLOCK FALSE
