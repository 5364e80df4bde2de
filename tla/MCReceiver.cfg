SPECIFICATION ReceiverSpec
CONSTANTS
  Procs = {p1, p2}
  Nobody = Nobody
  Keys = {k1}
  Supplied = {k1}
  Early = {"retention"}
  Middle = {}
  Late = {"key_reaper"}
  Evented = {"retention"}
  Together = {}
  Order <- TheOrder
  Checked = {"retention"}
  Disabled = {}
  Latest = 3
  KeysAt = 1
  OrgsAt = 2
  Found <- TheDeployments
  Slots = {s1, s2}
  MaxCrashes = 1
INVARIANTS LoopsFollowService KeysInStep
PROPERTIES ShutdownEnds
