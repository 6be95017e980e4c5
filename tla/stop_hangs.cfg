SPECIFICATION FairSpec
CONSTANT MaxTokens = 1
PROPERTY StopReturns
CHECK_DEADLOCK FALSE
