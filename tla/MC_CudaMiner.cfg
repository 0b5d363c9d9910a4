SPECIFICATION FairSpec
CONSTANTS
  P = 17
  Word = 16
  C <- MC_C
  Calls <- MC_Calls
  ThreadWorkSize = 2
  BlockSize = 2
  MaxBlockSize = 4
  MaxGridY = 4
  LimbCount = 2
  NumIter = 2
  NoCall = NoCall
  NoCache = NoCache
  NoPlanet = NoPlanet
  Junk = Junk
INVARIANTS TypeOK IInv CoveredCorrect DisjointWrites
PROPERTIES KeepsContract MineReturns
CHECK_DEADLOCK FALSE
