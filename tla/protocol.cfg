SPECIFICATION Spec
CONSTANTS
  HubMessages <- MCHubMessages
  Dropped = Dropped
  None = None
  MaxFrames = 2
  MaxBatch = 2
INVARIANTS TypeOK Aligned AllOrNothing NoneDropped KeysAsDocumented
CHECK_DEADLOCK FALSE
