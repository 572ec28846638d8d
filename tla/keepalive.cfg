\* Intervals of 2 and (9 seconds, wrapped) 2 ticks, a PONG within 6, reconnecting after 2 or 3.
CONSTANTS
  PingSeconds = {0, 1, 9}
  DefaultPing = 1
  PongSeconds = 3
  Waits = {0, 2, 3}
  PerSecond = 2
  Word = 16
  MaxPing = 2
  MaxPong = 6
  MaxWait = 3
  Poll = 2
  Busy = 1
  Dial = 1
  AnswerWithin = 3
  Senders = 1
  MaxInbox = 3
  Cap = 21
SPECIFICATION Spec
INVARIANTS
  TypeOK
  DeadNoticed
  RedialInTime
PROPERTIES
  NoFalseAlarm
