SPECIFICATION Spec
CONSTANTS
  c1 = c1
  h1 = h1
  h2 = h2
  k1 = k1
  Halts = {h1, h2}
  Clients = {c1}
  Calls = {k1}
  ClientOf <- TheirClients
  Scope <- TheirScopes
  FailClosed = {c1}
  MaxStale = 1
  Timeout = 1
  MaxTime = 4
  MaxFaults = 1
PROPERTIES HaltReachesCalls ClearReachesCalls CachesConverge
CHECK_DEADLOCK FALSE
