SPECIFICATION CSpec
CONSTANTS
  t1 = t1
  t2 = t2
  a1 = a1
  u1 = u1
  Kinds = {"live-cpp-turbo-gpu"}
  MaxJobs = 1
  Stoppers = {t1, t2}
  CloseStopper = t2
  Faults = {}
  Assets = {a1}
  MaxDownloads = 1
  MaxCalls = 1
  Askers = {u1}
  DFaults = {}
  StartsWhileClosing = TRUE
INVARIANTS
  NoChildLeftBehind
CHECK_DEADLOCK FALSE
