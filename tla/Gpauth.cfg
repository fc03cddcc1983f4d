SPECIFICATION FairSpec
CONSTANTS
  BrowserAuth = {g1, g2}
  WebviewAuth = {w}
  Forwarder = {f1, f2}
  NoAuth = NoAuth
  MaxLoads = 2
  Pages <- SomePages
INVARIANT SoleLoginReachable
PROPERTIES AnswerCounts WindowIsShown
CHECK_DEADLOCK FALSE
