\* the fallback behind the embedder only
CONSTANTS
  embed = embed
  rerank = rerank
  qwen = qwen
  bge = bge
  Call = {embed, rerank}
  Kind <- MCKind
  Model = {qwen, bge}
  Pinned <- MCPinned
  Mock = mock
  HasFallback <- MCHasFallback
  TimeoutTicks = 2
  Null = Null
SPECIFICATION Spec
INVARIANTS TagsAreTruthful WrongModelIsRefused
PROPERTY CallsSettle
\* every call may have been made
CHECK_DEADLOCK FALSE
