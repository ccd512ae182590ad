SPECIFICATION FairSpec
CONSTANTS
  Handler = "raw_unlimited"
  MaxAttempts = 1
  Users = {u1}
  Apps = {a1, a2, a3}
  Checkers = {c1, c2}
  Deferreds = {}
  None = None
  Protocol = "json"
  HasOnOpen = FALSE
  UserOps = {}
  CallbackOps = {"send", "raise"}
  CloseOps = {"raise", "wait"}
  NotifyRaises = FALSE
  KillTimesOut = FALSE
  SlowConnect = TRUE
  FaultKinds = {"connect", "refuse", "close", "lose"}
  MaxFaults = 1
  Endless = TRUE
INVARIANTS OneSocket OneChecker AcceptedIsOpen OpenIsAccepted
PROPERTIES OnlyPingsPrecede Recovers ImplementsLifecycle
CHECK_DEADLOCK FALSE
