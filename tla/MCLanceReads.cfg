\* an upsert in each process, one at a time; a good sidecar may fail to be read
CONSTANTS
  c1 = c1
  c2 = c2
  c3 = c3
  find = find
  p1 = p1
  p2 = p2
  qwen = qwen
  mock = mock
  Call <- MCCalls
  Lookup = {find}
  Key <- MCKeys
  Ident = {qwen, mock}
  DimOf <- SameDims
  Null = Null
  Instance = {p1, p2}
  OwnerOf <- MCOwner
  Batches <- MCBatches
  Asks <- MCAsks
  Concurrent = FALSE
SPECIFICATION Spec
INVARIANT SingleIdentity
CONSTRAINT Bounded
\* every call may be over
CHECK_DEADLOCK FALSE
