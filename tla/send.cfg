\* Two senders; messages of no, one and two fragments; fragmented ones of up to five bytes.
CONSTANTS
  Senders = {s1, s2}
  None = none
  BufferSize = 2
  Lengths = {0, 2, 3}
  MaxTotal = 5
SPECIFICATION Spec
SYMMETRY Interchangeable
INVARIANTS
  TypeOK
PROPERTIES
  ArrivesWhole
  NeverMixed
\* A sender that aborts after the task has ended leaves the client in WAIT_TIMEOUT:
\* it is not started again.
CHECK_DEADLOCK FALSE
