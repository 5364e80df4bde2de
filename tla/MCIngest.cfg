SPECIFICATION IngestSpec
CONSTANTS
  p1 = p1
  p2 = p2
  s1 = s1
  s2 = s2
  s3 = s3
  s4 = s4
  b1 = b1
  b2 = b2
  r1 = r1
  r2 = r2
  w1 = w1
  w2 = w2
  Policies = {p1, p2}
  Rank <- Ranks
  Alerting = {p1}
  Spans = {s1, s2, s3, s4}
  Place <- Places
  Batches = {b1, b2}
  Content <- Contents
  Cel <- Verdicts
  AppliesTo <- Scopes
  Routine = {s2}
  Orders <- Pairs
  Workers = {w1, w2}
  Serving = {w1}
  Requests = {r1, r2}
  Operator = Operator
  TTL = 1
  MaxTime = 1
  MaxTries <- Tries
  MaxChanges = 1
  MaxFaults = 1
INVARIANTS MatchCountIsRows StaleAtMostTTL
CHECK_DEADLOCK FALSE
