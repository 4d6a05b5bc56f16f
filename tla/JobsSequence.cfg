SPECIFICATION Spec
CONSTANTS
  t1 = t1
  t2 = t2
  Kinds = {"record-timed", "sensevoice-cpu"}
  MaxJobs = 2
  Stoppers = {t1}
  Faults = {"spawn", "stopfile", "kill", "repair"}
INVARIANTS
  IInv
  OneLiveProcess
  StopFileMeansAsked
  InputWavClosed
  ExitToldOnce
PROPERTIES
  ImplementsLifecycle
