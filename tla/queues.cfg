CONSTANTS
  FIFODEEP = 4
  Packets = {p1, p2, p3}
  FifoDepth = 3
  FifoPackets = {p1, p2}
  Producers = {a1, a2}
  Takers = {b1, b2}
  MayClear = TRUE
  MaxTokens = 5
SPECIFICATION QueuesSpec
INVARIANTS QueuesTypeOK TokensCover
PROPERTIES ImplementsFifo ListImplementsFifo HeadMoves
