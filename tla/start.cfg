CONSTANTS
  Members = {g1, g2, g3}
  Self = g1
  Master = ms
  Times = {t1}
  Cut = cut
  BUF = 4
  PORTS = 21
  STEP = 6
  BASE = 6
  MASTER_PORT = 8
  RECV_PORT = 10
  CONTROL_PORT = 15
  LAP = 4
  MaxStarts = 2
  MaxSessions = 5
SPECIFICATION Spec
INVARIANTS TypeOK FileReadsBack
PROPERTIES StaysUp Resumes
CHECK_DEADLOCK FALSE
