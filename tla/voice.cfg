CONSTANTS
  Depth = 2
  MaxTalks = 1
  MaxRecorded = 2
  MaxReceived = 1
SPECIFICATION FairSpec
INVARIANTS TypeOK InOrder LateIsOne
PROPERTIES LocalStaysLocal Conveyed
CHECK_DEADLOCK FALSE
