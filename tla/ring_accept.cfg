CONSTANTS
  FIFODEEP = 4
  Packets = {p1, p2, p3}
SPECIFICATION Spec
PROPERTY AcceptedIsKept
