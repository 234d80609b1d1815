CONSTANTS
  i1 = i1
  o1 = o1
  o2 = o2
  None = None
  Instance = {i1}
  Op = {o1, o2}
  MgmtOp = {m1, m2}
  Handler = {h1, h2}
  Terminal <- CallbackTerminal
  Command <- MCCommand
SPECIFICATION CallbackSpec
INVARIANTS
  LedgerInv
  SuccessIsReal
  CompletionsAgree
  OperationsNotMixed
PROPERTIES
  ImplementsAtMostOnce
  BindingIsFinal
  AdvanceOnlyAfterDestroy
SYMMETRY Symmetry
