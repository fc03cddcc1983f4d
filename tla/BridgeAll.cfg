CONSTANTS
  Caller = {a, b}
  NoCaller = none
  Ops = {"connect", "disconnect", "discover", "adopt"}
  MaxTunnels = 2
  MaxSinks = 1
SPECIFICATION Spec
SYMMETRY Symmetry
INVARIANT StateSettles
CHECK_DEADLOCK FALSE
