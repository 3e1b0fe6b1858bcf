SPECIFICATION FairSpec
CONSTANTS
  Calls = {k1}
  Workers = {w1, w2}
  Unpinned = Unpinned
INVARIANTS
  ReadyMeansServed
  AttemptLeavesATrace
  UnpairedMeansUnreturned
  OutcomeIsHonest
  WorkerIsTheOneThatServed
PROPERTIES
  ComesUp
  RetentionHonoured
