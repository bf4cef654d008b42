SPECIFICATION Spec
CONSTANTS
  c1 = c1
  c2 = c2
  Conns <- OneConn
  Patient <- NoConns
  Lengths = {0, 1, 3, 4}
  MaxReqs = 3
  MaxLength = 3
  ReplyLens = {0, 5}
  ExecMayThrow = TRUE
  MaxSignals = 1
INVARIANT TypeOK
INVARIANT BufferDiscipline
INVARIANT Framing
PROPERTY ImplementsRpc
CHECK_DEADLOCK FALSE
