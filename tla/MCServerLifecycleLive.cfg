CONSTANTS
  Players = {ann}
  Managed = FALSE
  Faults = FALSE
  SlowStop = FALSE
  LostBoot = FALSE
  Outside = FALSE
  s1 = s1
  s2 = s2
  r1 = r1
  Starts = {s1}
  Restarts = {r1}
  Others <- MCOthers
  Options <- MCOptions
  Maint = Maint
  Stopper = Stopper
  Forcer = Forcer
  AutoStart = AutoStart
  None = None
  MaxTicks = 1
SPECIFICATION FairSpec
PROPERTIES
  OperationsEnd
  ServerComesBack
