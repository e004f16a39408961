SPECIFICATION Spec
CONSTANTS
  a1 = a1
  a2 = a2
  a3 = a3
  l1 = l1
  l2 = l2
  c1 = c1
  c2 = c2
  None = None
  Attempts <- Two
  Loops <- TwoLoops
  Commands <- C12
  Retried <- C1
  Quits <- C2
  MaxTries = 1
  MaxFailures = 2
  MaxUpsets = 2
  Slow = TRUE
SYMMETRY Slots
INVARIANTS ConnectedMeansAuthenticated NoLeakedConnection RightTarget UnsentWasNotSent
CHECK_DEADLOCK FALSE
