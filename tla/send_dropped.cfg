SPECIFICATION Spec
CONSTANTS
  Handler = "raw_unlimited"
  MaxAttempts = 1
  Users = {u1}
  Apps = {a1, a2}
  Checkers = {c1}
  Deferreds = {}
  None = None
  Protocol = "json"
  HasOnOpen = FALSE
  UserOps = {"send"}
  CallbackOps = {}
  CloseOps = {}
  NotifyRaises = FALSE
  KillTimesOut = FALSE
  SlowConnect = FALSE
  FaultKinds = {"lose"}
  MaxFaults = 1
  Endless = FALSE
SYMMETRY Symmetry
INVARIANTS NothingDropped
CHECK_DEADLOCK FALSE
