CONSTANTS
  i1 = i1
  o1 = o1
  o2 = o2
  o3 = o3
  None = None
  Instance = {i1}
  Op = {o1, o2}
  MgmtOp = {m1, m2}
  Handler = {h1}
  Terminal <- CallbackTerminal
  Command <- MCProvisionDestroy
  MaxEffects = 2
  Faults = {}
  MaxFaults = 0
SPECIFICATION ProtocolSpec
INVARIANT AcknowledgedIsRecorded
CHECK_DEADLOCK FALSE
