SPECIFICATION FairSpec
CONSTANTS
  c1 = c1
  c2 = c2
  s1 = s1
  s2 = s2
  s3 = s3
  Clients <- TwoClients
  Sessions <- ThreeSessions
  Owner <- OwnerOfThree
  Intervals = {1, 2}
  Modes = {standalone}
  CallbackSets = {{"tracking", "sv"}, {"batching"}}
  MayRegister <- OneExchanges
  NULL = NULL
  MaxQueue = 2
INVARIANTS TypeOK EngineServesSessions NoOrphanSession DestroyedIsForgotten EventsWanted
PROPERTY FixRestarted
