CONSTANTS
  a = a b = b c = c r1 = r1 r2 = r2
  Rebuilder = {r1, r2}
  Pred = {a, b, c}
  SeedPred = {a, b}
  CanonicalOf <- Aliases
  InverseOf <- Inverses
  Edge <- Edges
  MaxRebuilds = 1
  MaxChanges = 2
  NoRow = NoRow
  NoOne = NoOne
SPECIFICATION FairSpec
CHECK_DEADLOCK FALSE
PROPERTIES HeldRowsAreKept LoneRebuildIsFull RebuildsEnd
