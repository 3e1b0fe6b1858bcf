SPECIFICATION Spec
CONSTANTS
  a1 = a1  a2 = a2  k1 = k1  k2 = k2
  Agents = {a1}
  WorkerIds = {1, 2}
  Conns = {c1, c2, c3}
  Calls = {k1, k2}
  AgentOf <- OneAgentOf
  KindOf <- OneKindOf
  SizeOf <- MCSizeOf
  Limits <- LargeLimits
  Answers = {ok}
  MaxID = 2
  NoConn = NoConn  NoCall = NoCall  NoFrame = NoFrame
SYMMETRY Symmetry
CHECK_DEADLOCK FALSE
INVARIANTS
  OneConnectionPerWorker
  PinsAreLive
  OneSandboxPerAgent
PROPERTIES
  StickyRouting
