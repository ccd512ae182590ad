SPECIFICATION FairSpec
CONSTANTS
  Producers = {u1}
  Sockets = {a1, a2}
  Pingers = {q1}
  None = None
  Callbacks = {"message", "close"}
  MaxMessages = 2
  MaxLosses = 1
INVARIANTS TypeOK OneHolder StartFirst Gapless
PROPERTIES CallsReturn
CHECK_DEADLOCK FALSE
