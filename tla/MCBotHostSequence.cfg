CONSTANTS
  c1 = c1
  c2 = c2
  Clients = {c1, c2}
  NoClient = NoClient
  NoFlow = NoFlow
  MaxTokens = 2
  MaxSeq = 1
SPECIFICATION Spec
INVARIANT SequenceNeverReused
CHECK_DEADLOCK FALSE
