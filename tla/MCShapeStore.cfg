SPECIFICATION FairSpec
CONSTANTS
  Instances = {i1, i2}
  Lists = {l1, l2}
  Ids = {id1, id2}
  Copies = {1, 2}
  Writes = {w1, w2}
  MaxRows = 2
  Batches <- AllBatches
  Whole = Whole
  NoWrite = NoWrite
  Free = Free
INVARIANT TypeOK
PROPERTY ReplacesAtOnce WriteReturns
