SPECIFICATION Spec
CONSTANTS
  t1 = t1
  t2 = t2
  Kinds = {"live-sensevoice-cpu", "sensevoice-cpu"}
  MaxJobs = 1
  Stoppers = {t1, t2}
  Faults = {"spawn", "stopfile", "kill", "repair"}
INVARIANTS
  NoOrphan
  KillsCurrentProcess
  ConfirmedIsStopped
  ReportedWavClosed
PROPERTIES
  StopEndsJob
  ExitIsReported
