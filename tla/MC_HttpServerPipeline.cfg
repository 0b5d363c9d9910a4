SPECIFICATION Spec
CONSTANTS
  Conns = {c1, c2}
  Sendable = {"options", "rpc", "rest"}
  MaxRequests = 2
  MaxSockets = 2
  Nobody = Nobody
SYMMETRY MC_Symmetry
INVARIANTS RepliesInOrder
PROPERTIES KeepsPromise
CHECK_DEADLOCK FALSE
