SPECIFICATION Spec
CONSTANTS
  P = 17
  Word = 16
  C <- MC_C
  Calls <- MC_GapCalls
  ThreadWorkSize = 1
  BlockSize = 1
  MaxBlockSize = 4
  MaxGridY = 4
  LimbCount = 2
  NumIter = 2
  NoCall = NoCall
  NoCache = NoCache
  NoPlanet = NoPlanet
  Junk = Junk
INVARIANT FindsPlanets
CHECK_DEADLOCK FALSE
