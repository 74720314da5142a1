\* One property the documentation states and the code does not meet.
CONSTANTS
  Initial = initial
  ReloadCalls = {r1}
  WatchCalls = {}
  Waiters = {}
  Cancellable = {}
  None = None
SPECIFICATION Spec
PROPERTY WatcherStartedOnceIndexed
CHECK_DEADLOCK FALSE
