\* The application's own configuration on two cores: start, and two sending tasks.
CONSTANTS
  Owner = owner
  Senders = {s1, s2}
  Tasks = {t1}
  None = none
  Ops = {"start"}
  AutoReconnect = TRUE
  CloseReconnect = FALSE
  Priority = FALSE
  Faults = TRUE
  MaxInbox = 2
SPECIFICATION Spec
SYMMETRY Interchangeable
INVARIANTS
  TypeOK
  LockInv
  ConnectedHasSocket
  PongPending
PROPERTIES
  EventOrder
\* The client may have ended for good, with no call left to make.
CHECK_DEADLOCK FALSE
