SPECIFICATION SSpec
CONSTANTS
  SessionKinds = {"py-stream", "py-fixed", "cpp-stream", "cpp-latest"}
  MaxBlocks = 1
  ChunkBlocks = 1
  Backlog = 1
  SFaults = {"missing"}
INVARIANTS
  DeviceFailureReported
CHECK_DEADLOCK FALSE
