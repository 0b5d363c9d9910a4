SPECIFICATION FairSpec
CONSTANTS
  Conns = {c1, c2}
  Sendable = {"options", "empty", "rpc"}
  MaxRequests = 1
  MaxSockets = 1
  Nobody = Nobody
PROPERTIES Accepted ReadsEnd RequestAnswered
CHECK_DEADLOCK FALSE
