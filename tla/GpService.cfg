CONSTANT MaxReq = 3
SPECIFICATION FairSpec
PROPERTIES HandleStays NoneBegins CancelledDisconnectReturns 
CHECK_DEADLOCK FALSE
