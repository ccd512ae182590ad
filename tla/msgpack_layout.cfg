SPECIFICATION Spec
CONSTANTS
  HubMessages <- MCHubMessages
  Dropped = Dropped
  None = None
  MaxFrames = 2
  MaxBatch = 2
INVARIANTS LaidOutAsDocumented
CHECK_DEADLOCK FALSE
