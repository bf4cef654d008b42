SPECIFICATION Spec
CONSTANTS
  c1 = c1
  c2 = c2
  Conns <- OneConn
  Patient <- OneConn
  Lengths = {0, 2}
  MaxReqs = 1
  MaxLength = 2
  ReplyLens = {0, 3}
  ExecMayThrow = FALSE
  MaxSignals = 0
INVARIANT ReplyAlwaysFits
CHECK_DEADLOCK FALSE
