SPECIFICATION Spec
CONSTANTS
  Handler = "raw"
  MaxAttempts = 1
  Users = {u1}
  Apps = {a1, a2}
  Checkers = {c1}
  Deferreds = {d1}
  None = None
  Protocol = "messagepack"
  HasOnOpen = TRUE
  UserOps = {}
  CallbackOps = {"send"}
  CloseOps = {"raise", "wait"}
  NotifyRaises = TRUE
  KillTimesOut = TRUE
  SlowConnect = FALSE
  FaultKinds = {"start", "lose"}
  MaxFaults = 4
  Endless = FALSE
SYMMETRY Symmetry
INVARIANTS TypeOK RunningIsBacked ConnectedIsBacked
CHECK_DEADLOCK FALSE
