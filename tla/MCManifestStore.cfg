CONSTANTS
  Batch = {b1, b2}
  IndexRun = {run1}
  Identity = {qwen}
  Null = Null
  Time <- MCTime
SPECIFICATION Spec
INVARIANTS AuditTrail CommitStamp
PROPERTY TerminalIsFinal
