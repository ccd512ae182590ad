SPECIFICATION FairSpec
CONSTANTS
  Handler = "raw_unlimited"
  MaxAttempts = 1
  Users = {u1}
  Apps = {a1}
  Checkers = {c1}
  Deferreds = {}
  None = None
  Protocol = "json"
  HasOnOpen = FALSE
  UserOps = {"send", "stream", "stop"}
  CallbackOps = {"send", "raise"}
  CloseOps = {"raise", "wait"}
  NotifyRaises = FALSE
  KillTimesOut = FALSE
  SlowConnect = TRUE
  FaultKinds = {"connect", "close", "lose"}
  MaxFaults = 1
  Endless = TRUE
INVARIANTS KeepAliveBacked
PROPERTIES KillsEnd
CHECK_DEADLOCK FALSE
