SPECIFICATION Spec
CONSTANTS
  w1 = w1
  w2 = w2
  w3 = w3
  p1 = p1
  p2 = p2
  Writers = {w1, w2, w3}
  Projects = {p1, p2}
  ProjectOf <- TheirProjects
  Sealers = {s1}
  NoWriter = NoWriter
  LastEmit = 3
  LastSeal = 4
INVARIANTS ChainLinear AnchoredOnce
PROPERTIES AppendsAtEnd TransactionsEnd
CHECK_DEADLOCK FALSE
