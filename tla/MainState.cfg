SPECIFICATION MainSpec
CONSTANTS
  Sessions = {s1}  Reasons = {"input"}  Limits = {0, 1}  MaxGeneration = 2
  MaxEvents = 2  MaxDeferredCount = 2  MaxDeferredBytes = 1  PayloadBytes = {1}
  Edits = {e1, e2}  Removals = {r1}  Forks = {f1}  Histories = {h1}  Prepared = {p1}  None = None
INVARIANTS HeardInOrder NothingLost NoOrphanWorker StopAllIsBarrier NothingForgotten FailedIsUndone
PROPERTIES StopAllTerminates ImplementsDurable Settles
CHECK_DEADLOCK FALSE
