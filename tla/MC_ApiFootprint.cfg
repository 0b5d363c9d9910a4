SPECIFICATION Spec
CONSTANTS
  P = 13
  Word = 4
  C <- MC_C
  Half = 8
  Requests <- MC_Requests
  Empty = Empty
  Blank = Blank
  Invalid = Invalid
  NoRequest = NoRequest
  NoReply = NoReply
  NoCall = NoCall
INVARIANT MinesFootprint
CHECK_DEADLOCK FALSE
