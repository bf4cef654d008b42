SPECIFICATION Spec
CONSTANTS
  s1 = s1
  s2 = s2
  d1 = d1
  t1 = t1
  t2 = t2
  Sockets = {s1, s2}
  States = {d1}
  Threads = {t1, t2}
  Kinds = {"read", "write"}
  MaxOps = 2
  MaxAvail = 1
  None = None
CHECK_DEADLOCK FALSE
INVARIANT TypeOK
INVARIANT NoOpForgotten
INVARIANT WorkBalanced
INVARIANT DataInOrder
INVARIANT OwnOperations
SYMMETRY Alike
