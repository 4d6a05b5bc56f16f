SPECIFICATION SSpec
CONSTANTS
  SessionKinds = {"py-stream", "py-fixed", "cpp-stream", "cpp-latest"}
  MaxBlocks = 5
  ChunkBlocks = 2
  Backlog = 1
  SFaults = {"device", "hang", "load", "model"}
INVARIANTS
  StreamKeepsAll
  FedInOrder
  OnlyDevicesFail
  OkMeansWavClosed
  NoServerLeft
PROPERTIES
  SessionEnds
CHECK_DEADLOCK FALSE
