SPECIFICATION FairSpec
CONSTANTS
  src = src
  out = out
  p = p
  plus = plus
  a = a
  b = b
  Handler = {h1, h2}
  Request <- MCRequest
  Ctx = {src, out}
  Pred = {p, plus}
  Node = {a, b}
  Elsewhere <- MCElsewhere
  PoolSize = 3
  MaxEdits = 1
  MaxFaults = 1
  None = None
CHECK_DEADLOCK FALSE
INVARIANTS
  ClosureIsReachability
  LineageIsEvidence
  ReportedIsDerived
PROPERTIES
  RerunIsNoOp
  RequestsEnd
