SPECIFICATION StreamSpec
CONSTANTS
  Samples <- MCSamples
  Packets <- MCPackets
  PacketSizes = {1, 4}
  Size = 3
  Silence = 0
  Words = {0, 1}
  MinOverlap = 1
  StablePartials = 2
  CommitChecks = 2
  Modes <- MCModes
  Step = 2
  Keep = 1
  Check = 2
  TailSize = 1
  WavLimit = 5
  MaxHeard = 5
  MaxInfers = 3
  MaxText = 2
  StreamFaults = {"device", "file", "load", "inference"}
INVARIANT RecordingKept
CHECK_DEADLOCK FALSE
