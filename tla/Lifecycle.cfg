SPECIFICATION LifecycleSpec
CONSTANTS
  CliRuns = {c1, c2}  AppRuns = {a1, a2}  CheckRuns = {k1, k2}  Free = Free
  Calls = {prompt, cancel}  Starting = {prompt}  MaxStarts = 2  MaxFaults = 1
INVARIANTS NothingRunsDuringUpdate IrreversibleKeepsGates FilesReclaimed QuitSparesCliInstall StartIsTrue
PROPERTIES QuitCompletes StopReturns CrashIsHeard
CHECK_DEADLOCK FALSE
