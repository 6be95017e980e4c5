SPECIFICATION FairSpec
CONSTANT MaxTokens = 1
INVARIANTS TypeOK SetWakesAll FreedAfterWaiters
PROPERTY QuietStopReturns
CHECK_DEADLOCK FALSE
