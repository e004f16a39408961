CONSTANTS
  p1 = p1
  p2 = p2
  p3 = p3
  NoPid = NoPid
  Pids <- MCPids
  Serial = TRUE
SPECIFICATION FairSpec
INVARIANT OneOwner
PROPERTY RefusedForALivingOwner
