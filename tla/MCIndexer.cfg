\* two overlapping runs over the default and the durable stores; everything may fail
CONSTANTS
  Batch = {r1, r2}
  n1 = n1
  n2 = n2
  NodeId <- MCNodes
  Snapshot <- MCSnapshots
  Modes <- MCModes
  Faulty <- AllFaults
  IndexRun = {run1}
  Time <- OneInstant
  Identity = {qwen}
  Null = Null
SPECIFICATION IndexSpec
INVARIANTS WriteAhead CommittedGraph CommittedVectors NothingDangles ToldTheTruth
PROPERTIES RerunAddsNothing PendingIsResolved
\* every run may be over
CHECK_DEADLOCK FALSE
