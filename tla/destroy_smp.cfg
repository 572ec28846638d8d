\* Two cores: destroy against the last steps of the client task.
CONSTANTS
  Owner = owner
  Senders = {}
  Tasks = {t1}
  None = none
  Ops = {"start", "destroy"}
  AutoReconnect = TRUE
  CloseReconnect = FALSE
  Priority = FALSE
  Faults = TRUE
  MaxInbox = 1
SPECIFICATION Spec
INVARIANTS
  NoUseAfterFree
\* The client may have ended for good, with no call left to make.
CHECK_DEADLOCK FALSE
