SPECIFICATION TaskSpec
CONSTANTS
  t1 = t1
  t2 = t2
  i1 = i1
  i2 = i2
  v1 = v1
  Task = {t1, t2}
  Id = {i1, i2}
  Vm = {v1}
  VmOf <- MCVmOf
  None = None
  MaxFaults = 2
SYMMETRY MCSymmetry
INVARIANTS
  CancelDestroysVm
CHECK_DEADLOCK FALSE
