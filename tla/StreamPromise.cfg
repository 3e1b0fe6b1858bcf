SPECIFICATION FairSpec
CONSTANTS
  w1 = w1  w2 = w2
  Watchers = {w1, w2}
  Sizes <- MCSizes
  Limit = 2
  Queue = 1
  MaxSeq = 5
  MaxDrops = 1
  MaxRestarts = 1
CHECK_DEADLOCK FALSE
INVARIANTS
  Seamless
PROPERTIES
  KeepsPromise
  CatchesUp
