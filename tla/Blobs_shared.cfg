\* A text and a binary in files, a text of a request, files of two parts, no fault: two writers of one blob.
SPECIFICATION Spec
CONSTANTS
  t = t
  u = u
  w = w
  p1 = p1
  p2 = p2
  s1 = s1
  s2 = s2
  n1 = n1
  u1 = u1
  e1 = e1
  e2 = e2
  b1 = b1
  v1 = v1
  f1 = f1
  Archive = Archive
  None = None
  Blob = {t, u, w}
  Text = {t, w}
  Held = {t, u}
  Path = {p1, p2}
  Parts = 2
  Fact = {f1}
  Job <- MCJob
  Process <- MCJob
  Command <- MCCommand
  Plan <- PlanAll
  MaxFaults = 0
INVARIANTS
  BlobIsWhole
CHECK_DEADLOCK FALSE
