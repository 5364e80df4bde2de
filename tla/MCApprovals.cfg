SPECIFICATION Spec
CONSTANTS
  alice_key = alice_key
  bob_key = bob_key
  alice_slack = alice_slack
  bob_slack = bob_slack
  alice = alice
  bob = bob
  Calls = {c1}
  Spans = {s1}
  ApiActors = {alice_key}
  SlackActors = {bob_slack}
  Person <- MCPerson
  ApproverCounts <- MCApproverCounts
  Timeout = 1
  MaxTime = 2
INVARIANTS GrantBacked VetoStops
PROPERTIES ImplementsHeldCall WaitsEnd
CHECK_DEADLOCK FALSE
