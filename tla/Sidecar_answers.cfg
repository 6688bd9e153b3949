CONSTANTS
  Request = {r1, r2, r3}
  PoolSize = 2
  Nobody = Nobody
SPECIFICATION Spec
CHECK_DEADLOCK FALSE
INVARIANTS OwnAnswer
