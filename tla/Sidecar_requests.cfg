CONSTANTS
  Request = {r1, r2, r3}
  PoolSize = 2
  Nobody = Nobody
SPECIFICATION FairSpec
CHECK_DEADLOCK FALSE
INVARIANTS TypeOK OwnUnlessCut
PROPERTIES RequestsEnd
