SPECIFICATION FairSpec
CONSTANTS
  Calls = {k1, k2}
  Forking = {k1}
  Stops = {o1}
  NoCall = NoCall
  KillPasses = 2
  Nobody = Nobody
INVARIANTS
  OnlyStragglersRun
  StopsAreToldHonestly
  KillsAreComplete
PROPERTIES
  CallEnds
  RunawayStops
