SPECIFICATION Spec
CONSTANTS
  Word = 1048576
  Ports = 16384
  CommandLines <- MC_CommandLines
  PlanetsAt <- MC_PlanetsAt
  Null = Null
  NoCall = NoCall
INVARIANTS TypeOK IInv MinerReady BenchmarkResult
CHECK_DEADLOCK FALSE
