CONSTANTS
  m1 = m1
  m2 = m2
  m3 = m3
  A = A
  B = B
  r1 = r1
  r2 = r2
  Msgs = {m1, m2, m3}
  Rooms = {A, B}
  RoomOf <- MCRoomOf
  Allowed = {m1, m2}
  Rules = {r1, r2}
  NoRule = NoRule
  RuleSets <- MCRuleSets
  Incoming <- MCIncoming
  Reply <- MCReply
  Room <- MCRoom
  Jobs <- MCJobs
  Capacity = 1
  Unit = 2
  Refill = 1
  IdleTtl = 2
  MaxTime = 5
SPECIFICATION Spec
INVARIANT NeverThrows
