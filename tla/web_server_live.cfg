SPECIFICATION FairSpec
CONSTANTS
  c1 = c1
  c2 = c2
  c3 = c3
  c4 = c4
  p1 = p1
  p2 = p2
  p3 = p3
  NULL = NULL
  Conns = {c1, c2, c3}
  Peers = {p1}
  NcMax = 2
  WsMax = 2
  MaxAge = 1
  MaxPieces = 2
  MaxStack = 2
CHECK_DEADLOCK FALSE
PROPERTIES AnswersEnd Recovers
