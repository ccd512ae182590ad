SPECIFICATION FairSpec
CONSTANTS
  Sends = {s1}
  Streams = {t1}
  None = None
  HasOnError = TRUE
  EndKinds = {"failure", "cancel"}
  HubCloses = TRUE
  Repeats = {t1}
  CanRaise = TRUE
  CanFail = TRUE
  MaxItems = 2
  MaxEvents = 1
  MaxLosses = 1
INVARIANTS TypeOK InOrder Released MissesNothing
PROPERTIES KeptUntilEnd ImplementsCallResults EventuallyEnds
CHECK_DEADLOCK FALSE
