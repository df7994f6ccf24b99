SPECIFICATION Spec
CONSTANTS
  w1 = w1
  w2 = w2
  Writers = {w1, w2}
  Metrics = {1}
  Keys <- TwoKeys
  Expiration = 3
  MaxTime = 5
  MaxDelay = 2
  MaxValues = 2
  MaxLength = 4
  SearchKeys <- SixKeys
INVARIANTS NothingOverdue InsertsInOrder RetrievesRange
PROPERTIES KeepsFresh
