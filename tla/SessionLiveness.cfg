SPECIFICATION FairSpec
CONSTANTS
  c1 = c1
  c2 = c2
  Conns <- TwoConns
  Patient <- TwoConns
  Lengths = {0, 2, 3}
  MaxReqs = 1
  MaxLength = 2
  ReplyLens = {0, 3}
  ExecMayThrow = TRUE
  MaxSignals = 1
PROPERTY QueryAnswered
PROPERTY BacklogServed
CHECK_DEADLOCK FALSE
PROPERTY ShutDownBySignal
