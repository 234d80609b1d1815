SPECIFICATION ExecSpec
CONSTANTS
  Req = {r1, r2}
  Mid = {m1}
  None = None
  MaxRestart = 1
PROPERTIES
  TerminalIsFinal
CHECK_DEADLOCK FALSE
