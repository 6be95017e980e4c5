CONSTANTS
  Master = m
  Slaves = {s1, s2}
  MaxPress = 3
  MaxLoss = 0
  MaxExpire = 9
SPECIFICATION Spec
SYMMETRY SlaveSymmetry
CONSTRAINT UntilFault
INVARIANTS TypeOK OneTalker TalkerIsKnown OneRole
PROPERTY KeepsFloor
CHECK_DEADLOCK FALSE
