CONSTANTS
  binary = binary
  unit = unit
  sqlite = sqlite
  secret = secret
  NoFile = NoFile
  Files <- MCFiles
  Installed <- MCInstalled
  DataNames <- MCDataNames
  Kept <- MCKept
  MaxMishaps = 2
  TidyFails = FALSE
  Orphans = {}
SPECIFICATION FairSpec
INVARIANT Recoverable
PROPERTY PanelComesBack
