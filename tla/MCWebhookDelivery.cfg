SPECIFICATION Spec
CONSTANTS
  Deliveries = {d1}
  Messages = {m1, m2}
  Operators = {o1}
  MaxAttempts = 3
  MaxRetries = 2
  MaxFaults = 2
  MaxReplays = 1
INVARIANTS AttemptsAgree SuccessIsReal
PROPERTY PendingIsReclaimed
CHECK_DEADLOCK FALSE
