SPECIFICATION FairSpec
CONSTANTS
  t1 = t1
  t2 = t2
  main = main
  op1 = op1
  op2 = op2
  Threads = {t1, t2}
  Others = {main}
  Ops = {op1, op2}
  Started = {op1}
  Task = Task
  Nobody = Nobody
CHECK_DEADLOCK FALSE
INVARIANT TypeOK
INVARIANT OnePlaceEach
INVARIANT WorkIsCounted
INVARIANT QueueIsWatched
PROPERTY ImplementsIoContext
PROPERTY PostedIsRun
PROPERTY RunReturns
PROPERTY StopEndsRun
