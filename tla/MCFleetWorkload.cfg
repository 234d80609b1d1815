SPECIFICATION FleetSpec
CONSTANTS
  k1 = k1
  k2 = k2
  Child = {1, 2}
  Key = {k1, k2}
  Kind <- MCKind
  Task = {t1}
  Stored = {t1}
  Worker = {w1, w2}
  Reported <- MCReported
  Reviewer = {w1}
  Posted <- MCPosted
  Given = {None}
  Moves <- MCMoves
  None = None
  MaxRev = 3
SYMMETRY Swapped
INVARIANTS
  FleetInv
PROPERTIES
  FinalUnlessPosted
CHECK_DEADLOCK FALSE
