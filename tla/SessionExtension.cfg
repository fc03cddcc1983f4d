SPECIFICATION Spec
CONSTANTS
  MaxU32 = 31
  MaxTime = 14
  Latency = 1
  MaxNaps = 2
  Lifetimes = {0, 3, 5}
  Expiries = {0, 6, 32}
  Priors = {0, 1, 2, 4}
INVARIANT AheadOfDeadline
PROPERTIES ExtensionsSpaced NoExtensionAfterwards
CHECK_DEADLOCK FALSE
