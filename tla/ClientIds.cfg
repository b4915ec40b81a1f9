SPECIFICATION Spec
CONSTANTS
  a = a
  b = b
  c = c
  Ids = {1}
  SessionIds <- ThreeIds
  NiIds <- ThreeIds
  NoSession = none
  SessionModes = {"ON_FIX", "ON_FULL"}
  MaxMsgs = 2
  MaxReqs = 2
SYMMETRY Symmetry
INVARIANT ResponseMatches
