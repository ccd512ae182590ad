SPECIFICATION Spec
CONSTANTS
  Handler = "none"
  MaxAttempts = 1
  Users = {u1}
  Apps = {a1, a2}
  Checkers = {}
  Deferreds = {}
  None = None
  Protocol = "json"
  HasOnOpen = TRUE
  UserOps = {"restart"}
  CallbackOps = {}
  CloseOps = {}
  NotifyRaises = FALSE
  KillTimesOut = FALSE
  SlowConnect = TRUE
  FaultKinds = {"close"}
  MaxFaults = 1
  Endless = FALSE
SYMMETRY Symmetry
INVARIANTS AcceptedIsOpen
CHECK_DEADLOCK FALSE
