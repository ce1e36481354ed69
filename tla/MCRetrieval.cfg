\* a query during an index run
CONSTANTS
  a = a
  b = b
  c = c
  d = d
  NodeId = {a, b, c, d}
  Named <- TwoNames
  EdgeType = {"CALLS", "IMPORTS"}
  Edges <- MCEdges
  Queries <- MCQueries
  Vectored = {a, c, d}
  Score <- MCScore
  ExactHits = 1
  SemanticHits = 2
  GraphHits = 1
  RerankInput = 3
  limit = 2
SPECIFICATION Spec
INVARIANTS SnippetsResolve DirectHitsAreRanked BestEvidence TraversalIsLayerComplete
\* a query ends
CHECK_DEADLOCK FALSE
