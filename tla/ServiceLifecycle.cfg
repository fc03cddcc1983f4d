CONSTANTS
  Service = {s1, s2}
  NoService = NoService
SPECIFICATION FairLifeSpec
INVARIANT NoStaleLock
PROPERTY EndsWhenAsked
CHECK_DEADLOCK FALSE
