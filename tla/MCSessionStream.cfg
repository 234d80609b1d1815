SPECIFICATION SessionSpec
CONSTANTS
  c1 = c1
  c2 = c2
  p1 = p1
  p2 = p2
  Client = {c1, c2}
  Producer = {p1, p2}
  None = None
  MaxFrames = 1
  Capacity = 3
  LagLimit = 1
  MaxAttach = 2
  MaxPublish = 2
  Publishes <- MCPublishes
SYMMETRY Swaps
INVARIANTS
  SessionInv
  NoSilentGap
  OneController
  KeyframePointer
  TranscriptComplete
PROPERTIES
  EvictedClientWasSlow
CHECK_DEADLOCK FALSE
