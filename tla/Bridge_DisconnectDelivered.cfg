CONSTANTS
  Caller = {a, b}
  NoCaller = none
  Ops = {"connect", "disconnect"}
  MaxTunnels = 2
  MaxSinks = 1
SPECIFICATION Spec
INVARIANT DisconnectDelivered
CHECK_DEADLOCK FALSE
