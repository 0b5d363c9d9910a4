SPECIFICATION Spec
CONSTANTS
  Word = 1048576
  Ports = 16384
  CommandLines <- MC_PortLines
  PlanetsAt <- MC_PlanetsAt
  Null = Null
  NoCall = NoCall
INVARIANT PortAsGiven
CHECK_DEADLOCK FALSE
