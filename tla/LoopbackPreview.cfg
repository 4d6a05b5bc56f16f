SPECIFICATION StreamSpec
CONSTANTS
  Samples <- MCSamples
  Packets <- MCPackets
  PacketSizes = {1}
  Size = 3
  Silence = 0
  Words = {0, 1}
  MinOverlap = 1
  StablePartials = 2
  CommitChecks = 2
  Modes <- MCStepPreview
  Step = 2
  Keep = 1
  Check = 2
  TailSize = 1
  WavLimit = 5
  MaxHeard = 3
  MaxInfers = 3
  MaxText = 2
  StreamFaults = {}
PROPERTY PreviewCommits
CHECK_DEADLOCK FALSE
