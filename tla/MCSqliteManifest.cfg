\* two processes, one batch: every interleaving of their transactions
CONSTANTS
  Batch = {b1}
  IndexRun = {run1}
  Identity = {qwen}
  Null = Null
  Process = {p1, p2}
  Time <- OneInstant
  MaxCommits = 4
SPECIFICATION Spec
PROPERTIES Refines CallsReturn
\* every call may have been made (MaxCommits): the system stops
CHECK_DEADLOCK FALSE
