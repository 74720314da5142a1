\* The initial rebuild, a reload whose request may be cancelled, a rebuild by
\* the watcher task and a request that waits, against shutdown.
CONSTANTS
  Initial = initial
  ReloadCalls = {r1}
  WatchCalls = {w1}
  Waiters = {q1}
  Cancellable = {r1}
  None = None
SPECIFICATION FairSpec
INVARIANTS
  OneBuildAtATime
  QuiescentAfterShutdown
  NoWatcherAfterShutdown
PROPERTIES
  ImplementsPublication
  ShutdownReturns
  WaitersAreAnswered
\* Every call and request is made once: the system runs out of work.
CHECK_DEADLOCK FALSE
