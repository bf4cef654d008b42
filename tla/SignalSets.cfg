SPECIFICATION FairSpec
CONSTANTS
  context = context
  other = other
  signals = signals
  others = others
  Services = {context, other}
  Sets = {signals, others}
  ServiceOf <- Owner
  Signals = {2, 15}
  Wanted <- Added
  PipeSize = 2
  MaxRaised = 3
  MaxWaits = 1
  MaxPipes = 2
  Aborted = Aborted
CHECK_DEADLOCK FALSE
INVARIANT TypeOK
INVARIANT DispositionMatches
INVARIANT NoWaiterWhileQueued
INVARIANT PipeIsWatched
INVARIANT WatchesOpenPipe
PROPERTY NotificationsKept
PROPERTY SignalArrives
