SPECIFICATION FairSpec
CONSTANTS
  Handler = "none"
  MaxAttempts = 1
  Users = {u1}
  Apps = {a1, a2}
  Checkers = {}
  Deferreds = {}
  None = None
  Protocol = "json"
  HasOnOpen = TRUE
  UserOps = {"restart", "stop"}
  CallbackOps = {"send", "raise"}
  CloseOps = {"raise"}
  NotifyRaises = FALSE
  KillTimesOut = FALSE
  SlowConnect = TRUE
  FaultKinds = {"start", "connect", "refuse", "close", "lose"}
  MaxFaults = 1
  Endless = TRUE
INVARIANTS RunningIsBacked
PROPERTIES Settles RefusalShows
CHECK_DEADLOCK FALSE
