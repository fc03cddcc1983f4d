SPECIFICATION FairSpec
CONSTANT MaxGateways = 2
INVARIANTS OkOnlyOnRequest NothingLeftBehind LogoutIsNoError
PROPERTIES StopsAfterTunnel LogoutEndsProcess
CHECK_DEADLOCK FALSE
