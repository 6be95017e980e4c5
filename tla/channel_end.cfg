CONSTANTS
  Master = m
  Slaves = {s1, s2}
  MaxPress = 2
  MaxLoss = 1
  MaxExpire = 0
SPECIFICATION Spec
PROPERTY EndIsOfTheTalker
CHECK_DEADLOCK FALSE
