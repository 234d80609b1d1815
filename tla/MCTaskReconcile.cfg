SPECIFICATION RecSpec
CONSTANTS
  t1 = t1
  t2 = t2
  i1 = i1
  v1 = v1
  Task = {t1, t2}
  Id = {i1}
  Vm = {v1}
  VmOf <- MCVmOf
  None = None
  MaxFaults = 1
SYMMETRY MCSymmetry
INVARIANTS
  OwnActorsInStep
  RecInv
PROPERTIES
  EndRewrittenOnlyByFailTask
CHECK_DEADLOCK FALSE
