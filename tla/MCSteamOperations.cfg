CONSTANTS
  alpha = alpha
  beta = beta
  install = install
  h1 = h1
  h2 = h2
  h3 = h3
  h4 = h4
  NoToken = NoToken
  Servers <- MCServers
  Handles <- MCHandles
  Installs <- MCInstalls
  InstallOf <- MCInstallOf
  Menu <- MCMenu
SPECIFICATION SteamSpec
SYMMETRY Calls
INVARIANTS InstallIsFree ReservationHasAnOwner
CHECK_DEADLOCK FALSE
