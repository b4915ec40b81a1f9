SPECIFICATION Spec
CONSTANTS
  a = a
  b = b
  c = c
  d = d
  Locks = {none, mo, ni}
  NoLock = none
  Servers = {v1, v2}
  LongServers = {v2}
  NoServer = empty
  SessionIds <- FourIds
  NoSession = noSession
  NULL = NULL
  MaxMsgs = 3
SYMMETRY Symmetry
INVARIANTS TypeOK SessionsAgree EngineFollows
