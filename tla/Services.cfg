SPECIFICATION Spec
CONSTANTS
  Writers = {w1, w2}  MaxCrashes = 1
  Sessions = {s1}  Global = memory  Lists = {l1, l2}  Deletes = {d1, d2}  MaxOutside = 1
  Stores = {t1, t2}  Mutations = {m1, m2}  MaxDamage = 1  MaxLocks = 3
  Providers = {p1}  Models = {n1}  MaxMutations = 2
  Remotes = {r1, r2}  HistoryMutations = {"open", "delete"}  MaxChanges = 1
  ImagePaths = {f1, f2, f3}  Plain = {f3}  Stages = {g1}  ImageConsumes = {c1, c2}  Tasks = {a1, a2}  TotalLimit = 2
  Workspaces = {x1, x2}  Agents = {y1}  AgentResolves = {z1}  CatalogLimit = 1  MaxClears = 1
  Projects = {j1, j2}  Folders = {e1, e2}  Chats = {h1, h2}  Remote = rs  Previews = {v1}  MaxPending = 1  MaxEdits = 1
  LayoutProjects = {k1, k2, k3}  LayoutSessions = {q1, q2, q3, q4}  PinnedProjects = 2  PinnedSessions = 2  SettledSessions = 1  MaxSteps = 2
  MaxRequests = 3
  Pooled = {s2, s3, s4}  Reasons = {"input"}  Limits = {1, 2}  MaxGeneration = 1  MaxEvents = 0
  MaxDeferredCount = 1  MaxDeferredBytes = 1  PayloadBytes = {1}
  Downloads = {u1, u2}  MaxLaunches = 2
  Messages = {1, 2, 3}  MaxWire = 2  MaxSequence = 5  MaxCalls = 2
SYMMETRY Symmetry
INVARIANTS SavedIsKept TokensOfNewestList ActsOnWhatWasShown NothingLeaks LimitHeld
PROPERTIES ReferencesKept DecidesOnWhatIsTrue EvictsOldestUnprotected
CHECK_DEADLOCK FALSE
