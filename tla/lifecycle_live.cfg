\* Every lifecycle call on one core, in the default configuration; start is called only
\* when the task of the session before is gone.
CONSTANTS
  Owner = owner
  Senders = {}
  Tasks = {t1}
  None = none
  Ops = {"start", "stop", "close", "destroy", "exit"}
  AutoReconnect = TRUE
  CloseReconnect = FALSE
  Priority = TRUE
  Faults = TRUE
  MaxInbox = 1
SPECIFICATION FairSpec
PROPERTIES
  TaskStops
  CloseReturns
  ClosesCleanly
  Reconnects
  FreedOnExit
\* The client may have ended for good, with no call left to make.
CHECK_DEADLOCK FALSE
