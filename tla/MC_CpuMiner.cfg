SPECIFICATION FairSpec
CONSTANTS
  P = 13
  Word = 8
  C <- MC_C
  Threads = {t1, t2}
  Calls <- MC_Calls
  NumIter = 2
  NoCall = NoCall
INVARIANTS TypeOK IInv MineCorrect
PROPERTIES KeepsContract MineReturns
CHECK_DEADLOCK FALSE
