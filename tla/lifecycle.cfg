\* Every lifecycle call on one core, for a client that always reconnects: room for
\* two client tasks, one sender.
CONSTANTS
  Owner = owner
  Senders = {s1}
  Tasks = {t1, t2}
  None = none
  Ops = {"start", "stop", "close", "destroy", "exit"}
  AutoReconnect = TRUE
  CloseReconnect = TRUE
  Priority = TRUE
  Faults = TRUE
  MaxInbox = 1
SPECIFICATION Spec
INVARIANTS
  SingleTask
  NoUseAfterFree
PROPERTIES
  EventOrder
  CreateIsQuiet
\* The client may have ended for good, with no call left to make.
CHECK_DEADLOCK FALSE
