SPECIFICATION Spec
CONSTANTS
  main = main
  other = other
  Nobody = Nobody
  Absent = Absent
  InUse = InUse
  Emptied = Emptied
  Gaps = Gaps
  Servers = {main, other}
  Asked <- TwoServers
  MaxBackups = 1
  MaxTick = 3
  MaxDeletions = 1
  MaxWipes = 1
  MaxMishaps = 1
INVARIANTS ArchivesAreOneState SafetyCopyExists SourceIsKept
PROPERTIES NothingIsLost AllOrNothing RetentionKeepsNewest
CHECK_DEADLOCK FALSE
