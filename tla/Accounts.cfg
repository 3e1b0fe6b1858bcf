SPECIFICATION Spec
CONSTANTS
  p1 = p1
  Sessions = {s1}
  Requests = {q1, q2}
  MaxToken = 1
  NoSession = NoSession
  Subjects = {p1}
  Names = {n1, n2}
  Credentials = {c1}
  Bearers = {r1}
  Agent = Agent
  NoOne = NoOne
  NoName = NoName
  NoCredential = NoCredential
  SubjectOf <- OneHuman
INVARIANTS
  StoredTokenIsUsable
  LogoutEndsTheRow
  OneActorPerHuman
  FailsOnlyOnName
PROPERTIES
  RevokedForGood
  DemotionTakesEffect
