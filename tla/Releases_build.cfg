SPECIFICATION Spec
CONSTANTS
  b1 = b1
  b2 = b2
  i1 = i1
  i2 = i2
  root = root
  child = child
  open = open
  default = default
  Target = {root, child}
  Policy = {open, default}
  DefaultPolicy = default
  Action <- MCAction
  Allows <- MCAllows
  Grant <- MCGrant
  Builder = {b1, b2}
  Id = {i1, i2}
  Content <- MCContent
  Under <- MCUnder
  ReleaseSpec <- MCSpecs
  MaxTime = 1
  MaxChanges = 4
  Now = Now
  Open = Open
  Absent = Absent
SYMMETRY MCSymmetry
CHECK_DEADLOCK FALSE
INVARIANTS
  PublicManifestIsCleared
  RebuildRepeats
