SPECIFICATION FairSpec
CONSTANTS
  a1 = a1  a2 = a2  k1 = k1  k2 = k2
  Agents = {a1, a2}
  WorkerIds = {1}
  Conns = {c1, c2}
  Calls = {k1, k2}
  AgentOf <- TwoAgentOf
  KindOf <- TwoKindOf
  SizeOf <- MCSizeOf
  Limits <- AnyLimits
  Answers = {ok}
  MaxID = 2
  NoConn = NoConn  NoCall = NoCall  NoFrame = NoFrame
CHECK_DEADLOCK FALSE
INVARIANTS
  ReaderNeverBlocks
  NoLostWaiter
  NoLeakedWaiter
PROPERTIES
  CallReturns
