CONSTANTS
  Master = m
  Slaves = {s1, s2}
  MaxCrash = 1
  MaxLoss = 1
  MasterDies = TRUE
SPECIFICATION FairSpec
INVARIANTS TypeOK SessionsReach FileIsMap SelfIsListed
PROPERTIES EveryoneListed DeadAreDropped ViewsAgree
CHECK_DEADLOCK FALSE
