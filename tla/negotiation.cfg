SPECIFICATION Spec
CONSTANTS
  Starters = {p1, p2}
  Senders = {s1}
  Sockets = {g1, g2}
  MaxTokens = 4
INVARIANTS TypeOK OwnAnswer OwnToken NegotiatesAsItself
CHECK_DEADLOCK FALSE
