SPECIFICATION Spec
CONSTANTS
  Agents = {a1, a2, a3}
  First = 20000
  Count = 2
  Worker = Worker
  Formers = {Former}
  Nobody = Nobody
  NoAgent = NoAgent
  Depth = 2
SYMMETRY Symmetry
INVARIANTS
  OneAgentPerId
  HandedOverWhole
PROPERTIES
  KeepsRegister
