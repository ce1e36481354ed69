\* one upsert at a time, a lookup beside them; anything may fail, either process may die
CONSTANTS
  c1 = c1
  c2 = c2
  c3 = c3
  find = find
  p1 = p1
  p2 = p2
  qwen = qwen
  mock = mock
  Call <- MCCalls
  Lookup = {find}
  Key <- MCKeys
  Ident = {qwen, mock}
  DimOf <- MCDims
  Null = Null
  Instance = {p1, p2}
  OwnerOf <- MCOwner
  Batches <- MCBatches
  Asks <- MCAsks
  Concurrent = FALSE
SPECIFICATION Spec
INVARIANTS PinMatchesRows LookupsAnswer
PROPERTY RefinesMap
CONSTRAINT Bounded
SYMMETRY Symmetric
\* every call may be over
CHECK_DEADLOCK FALSE
