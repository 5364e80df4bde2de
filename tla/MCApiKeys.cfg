SPECIFICATION KeySpec
CONSTANTS
  Keys = {k1, k2, k3}
  Minted = {k1}
  NoKey = NoKey
  Callers = {k1, NoKey}
  KeySlots = {s1, s2}
  Reaper = Reaper
  Grace = 1
  Expiries = {1}
  MaxTime = 1
  MaxUpdates = 1
INVARIANTS OneSuccessor
PROPERTIES ReapsExpiredOnly
CHECK_DEADLOCK FALSE
