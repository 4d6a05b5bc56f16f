SPECIFICATION Spec
CONSTANTS
  t1 = t1
  t2 = t2
  Kinds = {"live-cpp-turbo-gpu"}
  MaxJobs = 1
  Stoppers = {t1, t2}
  Faults = {"stopfile"}
INVARIANTS
  JoinedStopIsUnderWay
