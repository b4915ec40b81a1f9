SPECIFICATION FairSpec
CONSTANTS
  Heaps <- SortedHeaps
  Pushed <- HeapPush
  Popped <- HeapPop
  Removed <- HeapRemove
  HeldBy <- HeapHeld
  Timers = {t1, t2, t3}
  Delegates = {d1, d2, d3}
  Delays = {0, 1}
  MaxTime = 1
  MaxMsgs = 2
INVARIANTS TypeOK HeapKept DeletedOnce NoTimerDropped ArmedForSoonest
PROPERTY EveryTimerEnds
