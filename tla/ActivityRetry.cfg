SPECIFICATION Spec
CONSTANTS
  Schedules = {c1}  Commands = {b1}  Flows = {f1}  Goals = {g1}  Others = {o1}
  MaxItems = 1  MaxStones = 1  MaxPending = 1  MaxCached = 1  MaxTold = 2  MaxWire = 1  MaxStarts = 2
INVARIANT LiveWorkIsProtected
CHECK_DEADLOCK FALSE
