SPECIFICATION Spec
CONSTANTS
  Rpcs = {r1, r2, r3}  Keys = {k1, k2}  MaxOpen = 2  MaxAgain = 1  Questions = {1, 2}  Multi = {1}  Options = {1}
  Terms = {t1, t2}  MaxTerminals = 1  OutputLimit = 2  Budget = 3  Chunks = {2}  MaxStubborn = 1
  Writes = {w1, w2}  MaxOutside = 2  MaxFaults = 1  Characters = {"a", "n"}  MaxLine = 4
  OutputMax = 3  HelpersUpTo = 1
  MaxStarts = 2  Schedules = {c1, c2}  Commands = {b1}  Flows = {f1}  Goals = {g1}  Others = {o1}
  MaxItems = 1  MaxStones = 1  MaxPending = 1  MaxCached = 1  MaxTold = 3  MaxWire = 1
  ToolKinds = {"read", "ran"}  MaxText = 2  MaxItemsKept = 4  MaxChars = 5  MaxCount = 3  MaxEvents = 5
SYMMETRY Symmetry
INVARIANTS AnsweredOnce NothingSaidIsLost StoppedMeansGone AccountsAreTrue NewFileNeverClobbers ReadsAreWhole
CHECK_DEADLOCK FALSE
