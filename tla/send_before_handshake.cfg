SPECIFICATION Spec
CONSTANTS
  Handler = "none"
  MaxAttempts = 1
  Users = {u1}
  Apps = {a1}
  Checkers = {}
  Deferreds = {}
  None = None
  Protocol = "json"
  HasOnOpen = TRUE
  UserOps = {"send"}
  CallbackOps = {}
  CloseOps = {}
  NotifyRaises = FALSE
  KillTimesOut = FALSE
  SlowConnect = TRUE
  FaultKinds = {}
  MaxFaults = 0
  Endless = FALSE
SYMMETRY Symmetry
INVARIANTS HandshakeFirst
CHECK_DEADLOCK FALSE
