SPECIFICATION FairSpec
CONSTANT NLOOPS = 6
INVARIANTS ExpectedCounter FirstWaitKeepsWakeup IInv
PROPERTIES TakesTurns EndsUnlessLost LostForever
CHECK_DEADLOCK FALSE
