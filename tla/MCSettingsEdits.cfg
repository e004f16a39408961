CONSTANTS
  ini = ini
  a = a
  b = b
  modA = modA
  modB = modB
  num = num
  base = base
  west = west
  town = town
  s1 = s1
  s2 = s2
  Masked = Masked
  Missing = Missing
  Base = base
  Towns <- MCTowns
  Keys <- MCKeys
  MaxCalls = 3
  Items <- MCItems
  ModIds <- MCModIds
  Folders <- MCFolders
  Secrets <- MCSecrets
  Numeric <- MCNumeric
  ModsOf <- MCModsOf
  MapsOf <- MCMapsOf
  FirstMod <- MCFirstMod
  Menu <- MCMenu
  Starts <- MCStarts
  Shared <- MCShared
  Untracks <- MCUntracks
  Keep = 2
SPECIFICATION FairEditSpec
PROPERTIES EveryCallRuns ImplementsAtomicEdits OverwrittenIsKept RemovedMeansUnlisted
CHECK_DEADLOCK FALSE
