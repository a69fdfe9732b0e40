CONSTANTS
  r1 = r1
  r2 = r2
  r3 = r3
  p1 = p1
  p2 = p2
  p3 = p3
  m1 = m1
  k1 = k1
  Rooms = {r1, r2, r3}
  PollIds = {p1, p2, p3}
  Push = Push
  NoPoll = NoPoll
  InitialRooms = {r1}
  Budget = 2
  Callers = {k1}
  AdmitDuringStart = TRUE
  Msgs = {m1}
  MsgRoom <- MCMsgRoom
SPECIFICATION Spec
INVARIANT OutputOpenWhilePushLives
CHECK_DEADLOCK FALSE
