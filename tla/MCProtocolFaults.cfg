CONSTANTS
  i1 = i1
  o1 = o1
  o2 = o2
  o3 = o3
  None = None
  Instance = {i1}
  Op = {o1, o2, o3}
  MgmtOp = {m1, m2, m3}
  Handler = {h1, h2}
  Terminal <- CallbackTerminal
  Command <- MCLifecycle
  MaxEffects = 3
  Faults = {"ack", "link", "owner", "disconnect", "gate", "restart", "expiry"}
  MaxFaults = 2
SPECIFICATION ProtocolSpec
SYMMETRY Symmetry
INVARIANTS
  CellInv
  ProtocolInv
PROPERTIES
  OnlyCurrentGenerationInvoked
  RecordedOutcomeKept
  CellImplementsAtMostOnce
CHECK_DEADLOCK FALSE
