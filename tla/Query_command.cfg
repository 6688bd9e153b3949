\* Every text is read; those of MCRequest are asked, of two stores.
SPECIFICATION Spec
CONSTANTS
  None = None
  Timestamp = {"t"}
  U64 = 1000
  Source <- MCSource
  s1 = s1
  s2 = s2
  s3 = s3
  s4 = s4
  s5 = s5
  doc = doc
  Id = {s1, s2, s3, s4, s5}
  Content <- MCContent
  Context = {"c1", "c2"}
  Parent <- MCParent
  Doc = {doc}
  Action <- MCAction
  AsOf <- MCAsOf
  Start <- MCStart
  Edit <- MCEdit
  Older <- MCOlder
  MaxEdits = 2
CHECK_DEADLOCK FALSE
INVARIANTS
  ReadsWhatIsWritten
  
  AsOfIsRepeatable
  RowsWereVisible
PROPERTIES
  TextsAreAnswered
