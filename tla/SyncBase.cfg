SPECIFICATION FairSpec
CONSTANTS
  Callers = {c1, c2}
  Keys = {k1, k2}
  NumSlots = 2
  NoKey = noKey
  Rpc = rpc
  NoOne = noOne
  MaxCalls = 3
INVARIANTS TypeOK SlotExclusive AnswerOnce NoAnswerDropped
PROPERTY EveryCallEnds
CHECK_DEADLOCK FALSE
