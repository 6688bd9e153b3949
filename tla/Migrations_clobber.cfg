CONSTANTS
  p = p q = q c1 = c1 c2 = c2 d1 = d1 assert = assert match = match
  Proc = {p, q}
  Conn = {c1, c2, d1}
  Owner <- TwoPools
  N = 5
  LedgerAt = 3
  Func = {assert, match}
  Defines <- FiveMigrations
  Faults = {"lost"}
  MaxCalls = 2
  NoConn = NoConn
SPECIFICATION Spec
CHECK_DEADLOCK FALSE
INVARIANTS MigratedIsCurrent
