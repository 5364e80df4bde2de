SPECIFICATION Spec
CONSTANTS
  thr = thr
  mal = mal
  shd = shd
  alw = alw
  ste = ste
  ask = ask
  oth = oth
  c1 = c1
  c2 = c2
  Policies = {thr, mal, shd, alw, ste, ask, oth}
  Rank <- Ranks
  Action <- Actions
  Skipped = {shd}
  Calls = {c1, c2}
  Matches <- Who
  Malformed = {mal}
  Key <- Keyed
  PathsOf <- Paths
  Versions <- Answers
  Window = 2
  Unit = 2
  IdleTimeout = 1
  PruneInterval = 1
  FailClosed = TRUE
  MaxStale = 1
  MaxTime = 2
  MaxChanges = 1
  MaxFaults = 1
INVARIANTS RunsAsDecided OneFreshVersion
PROPERTY DenialsAreDue
CHECK_DEADLOCK FALSE
