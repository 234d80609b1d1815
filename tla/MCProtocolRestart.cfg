CONSTANTS
  i1 = i1
  o1 = o1
  o2 = o2
  o3 = o3
  None = None
  Instance = {i1}
  Op = {o1}
  MgmtOp = {m1}
  Handler = {h1}
  Terminal <- CallbackTerminal
  Command <- MCProvision
  MaxEffects = 1
  Faults = {"restart"}
  MaxFaults = 1
SPECIFICATION FairProtocolSpec
PROPERTY AcceptedIsSettled
CHECK_DEADLOCK FALSE
