\* Three transactions; Scenarios says which calls run together.
CONSTANTS
  t1 = t1 t2 = t2 t3 = t3 a = a b = b p1 = p1 p2 = p2 x = x y = y
  main = main cand = cand cur = cur i1 = i1 i2 = i2 i3 = i3 i4 = i4
  Tx = {t1, t2, t3}
  Id = {i1, i2, i3, i4}
  Ctx = {cand, main, a, b, cur}
  Pred = {p1, p2}
  Body = {x}
  SeedCtx = {cand, main, cur}
  Curated = {cur}
  Candidate = {cand}
  ActivePred = {p1}
  Batches <- AnyBatch
  Ops = {"assert", "retract", "correct", "promote"}
  MaxTime = 2
  Install = Install NoTx = NoTx NoId = NoId NoRow = NoRow Open = Open Absent = Absent
SPECIFICATION Spec
CHECK_DEADLOCK FALSE
CONSTRAINT Scenarios
SYMMETRY Interchangeable
INVARIANTS OneOpenRowPerContent AuditTellsHistory ReplacedIsClosed RegistryCoversLedger ReturnedRowIsTheStatement AssertedIsStored
PROPERTIES AppendOnly PastIsSettled ImplementsBeliefLog
