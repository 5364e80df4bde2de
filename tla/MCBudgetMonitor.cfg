SPECIFICATION Spec
CONSTANTS
  Budgets = {b1}
  Operator = Operator
  Monitors = {m1, m2}
  NoMonitor = NoMonitor
  Limits = {1, 2}
  Window = 1
  MaxTime = 2
  MaxSpans = 1
  HaltIds = {1, 2, 3, 4, 5}
  MaxEdits = 1
  MaxFaults = 1
INVARIANTS OneHaltPerBudget
PROPERTIES OperatorHaltsKept ImplementsHaltTable HaltsFollowSpend
CHECK_DEADLOCK FALSE
