\* two writes and a traversal, or three of a kind, on a fresh or a migrated
\* database; anything may fail and the process may restart
CONSTANTS
  a = a
  b = b
  x = x
  NodeId <- Ids
  EdgeType = {"CALLS", "IMPORTS"}
  first = first
  second = second
  third = third
  Call <- Calls
  Requests <- Requested
  Null = Null
SPECIFICATION Spec
CONSTRAINT InOrder
INVARIANTS LastWriteStands NodesAreUnique ReadIsSandwiched MirrorsMockInOrder
PROPERTY CallsSettle
\* every call may have been made
CHECK_DEADLOCK FALSE
