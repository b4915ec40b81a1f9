SPECIFICATION Spec
CONSTANTS
  Heaps <- SortedHeaps
  Pushed <- HeapPush
  Popped <- HeapPop
  Removed <- HeapRemove
  HeldBy <- HeapHeld
  Timers = {t1, t2}
  Delegates = {d1, d2, d3}
  Delays = {0, 2}
  MaxTime = 2
  MaxMsgs = 2
PROPERTY NeverEarly
