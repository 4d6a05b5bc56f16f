SPECIFICATION ASpec
CONSTANTS
  a1 = a1
  u1 = u1
  u2 = u2
  m1 = m1
  m2 = m2
  Assets = {a1}
  MaxDownloads = 2
  MaxCalls = 1
  Askers = {u1}
  DFaults = {"kill"}
  AssetKinds = {"snapshot"}
  FileSize = 2
  Pieces = {m1, m2}
  Needed = {m1}
  Mishaps = {"lost"}
INVARIANT
  SnapshotIsChecked
