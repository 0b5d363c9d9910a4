SPECIFICATION Spec
CONSTANTS
  P = 17
  Word = 15
  C <- MC_C
  Calls <- MC_EdgeCalls
  ThreadWorkSize = 1
  BlockSize = 2
  MaxBlockSize = 4
  MaxGridY = 4
  LimbCount = 2
  NumIter = 1
  NoCall = NoCall
  NoCache = NoCache
  NoPlanet = NoPlanet
  Junk = Junk
INVARIANTS CoveredCorrect InBounds
CHECK_DEADLOCK FALSE
