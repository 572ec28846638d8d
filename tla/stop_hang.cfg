\* No automatic reconnect: stop after a first attempt that failed at once.
CONSTANTS
  Owner = owner
  Senders = {}
  Tasks = {t1}
  None = none
  Ops = {"start", "stop"}
  AutoReconnect = FALSE
  CloseReconnect = FALSE
  Priority = TRUE
  Faults = TRUE
  MaxInbox = 1
SPECIFICATION FairSpec
PROPERTIES
  StopReturns
\* The client may have ended for good, with no call left to make.
CHECK_DEADLOCK FALSE
