SPECIFICATION FairLinkSpec
CONSTANTS
  a1 = a1  a2 = a2  k1 = k1  k2 = k2
  Agents = {a1}
  WorkerIds = {1}
  Conns = {c1}
  Calls = {k1, k2}
  AgentOf <- SameAgentOf
  KindOf <- KillKindOf
  SizeOf <- MCSizeOf
  Limits <- MCLimits
  Answers = {k1, k2}
  MaxID = 2
  MaxUp = 1
  NoConn = NoConn  NoCall = NoCall  NoFrame = NoFrame
CHECK_DEADLOCK FALSE
PROPERTIES
  EveryCallReturns
