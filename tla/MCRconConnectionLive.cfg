SPECIFICATION LiveSpec
CONSTANTS
  a1 = a1
  a2 = a2
  a3 = a3
  l1 = l1
  l2 = l2
  c1 = c1
  c2 = c2
  None = None
  Attempts <- Two
  Loops <- OneLoop
  Commands <- C1
  Retried <- C1
  Quits <- Nobody
  MaxTries = 2
  MaxFailures = 2
  MaxUpsets = 1
  Slow = FALSE
PROPERTIES CommandEnds ConnectsAgain
CHECK_DEADLOCK FALSE
