CONSTANTS
  Caller = {a, b}
  NoCaller = none
  Ops = {"connect", "disconnect"}
  MaxTunnels = 2
  MaxSinks = 1
SPECIFICATION FairSpec
INVARIANTS TunnelTracked AuthTracked ConnectedHasTunnel
PROPERTIES AttemptSpec DisconnectEscalates CancelEndsSignIn
CHECK_DEADLOCK FALSE
