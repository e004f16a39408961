CONSTANTS
  binary = binary
  unit = unit
  sqlite = sqlite
  secret = secret
  NoFile = NoFile
  Files <- MCFiles
  Installed <- MCInstalled
  DataNames <- MCDataNames
  Kept <- MCKept
  MaxMishaps = 3
  TidyFails = TRUE
  Orphans = {"running"}
SPECIFICATION Spec
INVARIANTS RunsWholeVersion OldPanelFindsOldData RecoversAlone
PROPERTIES TruthfulResult ImplementsAtomicUpdate
