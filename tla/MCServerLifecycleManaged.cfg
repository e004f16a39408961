CONSTANTS
  Players = {ann}
  Managed = TRUE
  Faults = TRUE
  SlowStop = TRUE
  LostBoot = TRUE
  Outside = TRUE
  s1 = s1
  s2 = s2
  r1 = r1
  Starts = {s1, s2}
  Restarts = {r1}
  Others <- MCOthers
  Options <- MCOptions
  Maint = Maint
  Stopper = Stopper
  Forcer = Forcer
  AutoStart = AutoStart
  None = None
  MaxTicks = 2
SPECIFICATION Spec
INVARIANT
  CancelledRunNeverStops
PROPERTY
  LockIsMutex
