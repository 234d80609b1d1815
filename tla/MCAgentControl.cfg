CONSTANTS
  c1 = c1
  n1 = n1
  n2 = n2
  None = None
  Cmd = {c1, c2}
  Session = {c1}
  OverWs = {c1}
  Name = {n1, n2}
  NameOf <- MCNameOf
  Killable = {n1}
  MaxConn = 2
  Restarts = TRUE
SPECIFICATION ControlSpec
INVARIANTS
  ControlInv
CHECK_DEADLOCK FALSE
