SPECIFICATION Spec
CONSTANTS
  Request = {r1}
  None = None
  MaxFillings = 1
  MaxChanges = 1
INVARIANT UserStaysActive
CHECK_DEADLOCK FALSE
