CONSTANTS
  Conn = {c1, c2}
  MaxRuns = 2
  MaxLines = 1
  HistoryLimit = 1
SPECIFICATION Spec
SYMMETRY Symmetry
INVARIANTS TypeOK LiveIsReachable
PROPERTIES IdleDecisionSound SlotSpec
CHECK_DEADLOCK FALSE
