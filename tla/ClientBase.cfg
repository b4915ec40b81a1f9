SPECIFICATION Spec
CONSTANTS
  a = a
  b = b
  c = c
  Ids = {1}
  SessionIds <- ThreeIds
  NiIds <- ThreeIds
  NoSession = none
  SessionModes = {"ON_FIX", "ON_FULL", "NONE"}
  MaxMsgs = 2
  MaxReqs = 2
SYMMETRY Symmetry
CONSTRAINT Apart
INVARIANTS TypeOK ApartMatches OrderlyLosesNone
