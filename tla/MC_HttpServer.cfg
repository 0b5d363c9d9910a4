SPECIFICATION Spec
CONSTANTS
  Conns = {c1, c2}
  Sendable = {"options", "get", "empty", "rpc", "rpc_bad", "rest", "rest_bad", "malformed"}
  MaxRequests = 1
  MaxSockets = 2
  Nobody = Nobody
SYMMETRY MC_Symmetry
INVARIANTS TypeOK IInv OneOperation HandlerInstalled
PROPERTIES OnlyMineEnds
CHECK_DEADLOCK FALSE
