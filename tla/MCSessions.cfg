SPECIFICATION Spec
CONSTANTS
  t1 = t1
  t2 = t2
  b1 = b1
  b2 = b2
  r1 = r1
  r2 = r2
  None = None
  Tabs = {t1, t2}
  BrowserOf <- TwoBrowsers
  Calls = {r1, r2}
  MaxSessions = 2
  MaxFailed = 2
  MaxIds = 3
  MaxUpsets = 1
INVARIANTS EndedSessionsStayEnded ChangesPersist GuessesAreCounted KeptSignedIn
SYMMETRY Alike
CHECK_DEADLOCK FALSE
