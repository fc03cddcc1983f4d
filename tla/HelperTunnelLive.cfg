CONSTANTS
  Conn = {c1, c2}
  MaxRuns = 2
  MaxLines = 0
  HistoryLimit = 1
SPECIFICATION FairSpec
PROPERTIES ExitAnnounced SignalArrives
CHECK_DEADLOCK FALSE
