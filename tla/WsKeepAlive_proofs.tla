-------------------------- MODULE WsKeepAlive_proofs --------------------------
(***************************************************************************)
(* The bounds of WsKeepAlive for all settings: a silent server is noticed, *)
(* a prompt one is never dropped, a lost connection is dialled in time.    *)
(***************************************************************************)
EXTENDS WsKeepAlive, TLAPS

-----------------------------------------------------------------------------
(* Typing                                                                  *)

Flags ==
  waiting \in BOOLEAN /\ selected \in BOOLEAN /\ alive \in BOOLEAN /\ owed \in BOOLEAN

LEMMA InitType == Init => TypeOK
<1> SUFFICES ASSUME Init PROVE TypeOK
  OBVIOUS
<1>1. Flags
  BY Zenon DEF Init, Flags
<1>2. QED
  BY <1>1, TimesNat, SendersNat, DefaultPositive DEF Init, TypeOK, Flags

LEMMA TickType == TypeOK /\ Tick => TypeOK'
  BY TimesNat, SendersNat DEF TypeOK, Tick, Urgent, Later, setting

\* No action of the task but the passing of time makes anything older.
LEMMA TaskType == TypeOK /\ Task => TypeOK'
<1> SUFFICES ASSUME TypeOK, Task PROVE TypeOK'
  OBVIOUS
<1> USE TimesNat DEF TypeOK, Wait, setting, server
<1>1. Sleep \in Nat
  BY WaitBounded DEF Sleep
<1>2. CASE StartDial BY <1>2 DEF StartDial
<1>3. CASE Connected
  <2>1. Flags'
    BY <1>3, Zenon DEF Flags, Connected, TypeOK, server
  <2>2. QED
    BY <1>1, <1>3, <2>1 DEF Flags, Connected
<1>4. CASE ConnectFails
  <2>1. Flags'
    BY <1>4, Zenon DEF Flags, ConnectFails, Abort, TypeOK, server
  <2>2. QED
    BY <1>1, <1>4, <2>1 DEF Flags, ConnectFails, Abort
<1>5. CASE Watch
  <2>1. waiting' \in BOOLEAN /\ owed' \in BOOLEAN
    BY <1>5, Zenon DEF Watch, TypeOK
  <2>2. QED
    BY <1>5, <2>1 DEF Watch
<1>6. CASE GiveUp
  <2>1. Flags'
    BY <1>6, Zenon DEF Flags, GiveUp, Abort, TypeOK, server
  <2>2. QED
    BY <1>1, <1>6, <2>1 DEF Flags, GiveUp, Abort
<1>7. CASE Receive
  <2>1. waiting' \in BOOLEAN
    BY <1>7, Zenon DEF Receive, FrameRead, TypeOK
  <2>2. inbox' \in Seq({"data", "pong"}) /\ Len(inbox') <= MaxInbox
    BY <1>7 DEF Receive, FrameRead
  <2>3. QED
    BY <1>7, <2>1, <2>2 DEF Receive, FrameRead
<1>8. CASE ReceivePart
  <2>1. Flags'
    BY <1>8, Zenon DEF Flags, ReceivePart, TypeOK, server
  <2>2. UNCHANGED <<state, ping, wait, sending, sincePing, sincePong, sinceLost, lost, asked,
                    inbox>>
    BY <1>8 DEF ReceivePart
  <2>3. pc' = "frame" /\ limit' = Busy /\ spent' = 0 /\ quiet' = 0
    BY <1>8 DEF ReceivePart
  <2>4. QED
    BY <2>1, <2>2, <2>3 DEF Flags
<1>9. CASE ReceiveRest
  <2>1. waiting' \in BOOLEAN
    BY <1>9, Zenon DEF ReceiveRest, FrameRead, TypeOK
  <2>2. inbox' \in Seq({"data", "pong"}) /\ Len(inbox') <= MaxInbox
    BY <1>9 DEF ReceiveRest, FrameRead, InFrame
  <2>3. QED
    BY <1>9, <2>1, <2>2 DEF ReceiveRest, FrameRead
<1>10. CASE NothingToRead
  <2>1. Flags'
    BY <1>10, Zenon DEF Flags, NothingToRead, TypeOK, server
  <2>2. QED
    BY <1>10, <2>1 DEF Flags, NothingToRead
<1>11. CASE TransportFails
  <2>1. Flags'
    BY <1>11, Zenon DEF Flags, TransportFails, Abort, TypeOK, server
  <2>2. QED
    BY <1>11, <2>1 DEF Flags, TransportFails, Abort
<1>12. CASE NextIteration BY <1>12 DEF NextIteration
<1>13. CASE Redial BY <1>13 DEF Redial
<1>14. CASE KeepWaiting BY <1>14 DEF KeepWaiting
<1>15. CASE Check BY <1>1, <1>15 DEF Check
<1>16. QED
  BY <1>2, <1>3, <1>4, <1>5, <1>6, <1>7, <1>8, <1>9, <1>10, <1>11, <1>12, <1>13, <1>14,
     <1>15 DEF Task

LEMMA OtherType ==
  ASSUME TypeOK, Application \/ Sends \/ Answers \/ Dies
  PROVE  TypeOK'
<1> USE TimesNat, SendersNat DEF TypeOK, clock, setting
<1>1. CASE SetPingInterval BY <1>1, DefaultPositive DEF SetPingInterval
<1>2. CASE SetReconnectTimeout BY <1>2 DEF SetReconnectTimeout
<1>3. CASE SendBegins \/ SendReturns
  <2>1. UNCHANGED <<state, pc, clock, ping, wait, waiting, selected, alive, owed, inbox>>
    BY <1>3 DEF SendBegins, SendReturns
  <2>2. sending' \in 0..Senders
    BY <1>3 DEF SendBegins, SendReturns
  <2>3. QED
    BY <2>1, <2>2
<1>4. CASE SendFails
  <2>1. Flags'
    BY <1>4, Zenon DEF Flags, SendFails, Abort, TypeOK
  <2>2. QED
    BY <1>4, <2>1 DEF Flags, SendFails, Abort
<1>5. CASE Sends BY <1>5 DEF Sends, Arrives
<1>6. CASE Answers
  <2>1. Flags'
    BY <1>6, Zenon DEF Flags, Answers, Arrives, TypeOK, server
  <2>2. QED
    BY <1>6, <2>1 DEF Flags, Answers, Arrives
<1>7. CASE Dies
  <2>1. Flags'
    BY <1>7, Zenon DEF Flags, Dies, TypeOK, server
  <2>2. QED
    BY <1>7, <2>1 DEF Flags, Dies
<1>8. QED
  BY <1>1, <1>2, <1>3, <1>4, <1>5, <1>6, <1>7 DEF Application

LEMMA StepType == TypeOK /\ [Next]_vars => TypeOK'
<1>1. ASSUME TypeOK, UNCHANGED vars PROVE TypeOK'
  BY <1>1 DEF TypeOK, vars
<1>2. QED
  BY <1>1, TickType, TaskType, OtherType DEF Next

\* Every reachable state is well typed: no wait is overrun, no answer of a live
\* server is late, and the setters let no zero or negative time in.
THEOREM KeepAliveTypeCorrect == Spec => []TypeOK
  BY InitType, StepType, PTL DEF Spec

-----------------------------------------------------------------------------
(* The bounds on silence and on the age of a loss                          *)

\* What a wait is for, and how long it lasts at most.
PlaceInv ==
  /\ pc \in {"switch", "check"} => limit = 0
  /\ pc = "poll" => state # "INIT" /\ limit = Poll
  /\ pc = "frame" => state # "INIT" /\ limit = Busy
  /\ InFrame => Len(inbox) = 1
  /\ pc = "work" => limit = Busy
  /\ pc = "dial" => state = "INIT"
  /\ pc = "delay" => state = "WAIT_TIMEOUT" /\ limit <= (MaxWait \div 2) + Busy
  /\ state # "CONNECTED" => inbox = <<>> /\ ~owed
  /\ waiting => PongSeconds # 0

\* The part of the present iteration that may have passed.
Iteration == IF pc = "check" THEN 0
             ELSE IF pc = "poll" THEN spent
             ELSE IF pc \in {"frame", "work"} THEN Poll + spent ELSE Poll + Busy

\* Silence before the PING is bounded by the PING timer, which the iteration
\* after a frame was read starts anew; after it by the PONG timer.
QuietInv ==
  PongSeconds # 0 /\ state = "CONNECTED" /\ (pc = "frame" => alive) =>
    /\ selected /\ pc = "work" => quiet <= spent
    /\ pc = "frame" => quiet <= spent
    /\ selected /\ pc = "switch" => quiet <= Busy
    /\ waiting \/ quiet <= sincePing + Busy \/ sincePing > MaxPing
    /\ waiting \/ quiet <= MaxPing + Busy + Iteration
    /\ waiting => quiet <= MaxPing + 2 * Busy + Poll + sincePong
    /\ waiting => sincePong <= MaxPong + Iteration

\* The longest of the waits that the loss of a connection may find begun.
Slept == IF MaxWait + (MaxWait \div 2) > Poll THEN MaxWait + (MaxWait \div 2) ELSE Poll

\* The age of the reconnect clock in each place.
LostInv ==
  state = "WAIT_TIMEOUT" =>
    /\ pc \in {"poll", "frame"} => sinceLost <= spent
    /\ pc = "work" => sinceLost <= Poll + spent
    /\ pc = "check" => sinceLost <= MaxWait
    /\ pc = "delay" => sinceLost <= MaxWait + spent
    /\ pc = "switch" => sinceLost <= Slept + Busy

\* The aborts to come before the connection is dialled again: of the sends under
\* way, and of the client itself if the loss finds it at the transport.
Resets == sending + IF pc \in {"poll", "frame"} THEN 1 ELSE 0

\* With so many aborts to come, those so far have cost no more than this.
Past(k) == (Senders - k) * Late

\* The loss is as old as the clock, which every abort has set back by Late at most.
AgeInv ==
  /\ state = "CONNECTED" \/ pc = "dial" => lost = 0
  /\ state # "CONNECTED" => Resets <= Senders
  /\ state = "WAIT_TIMEOUT" => lost <= Past(Resets) + sinceLost
  /\ state = "INIT" =>
       /\ pc = "check" => lost <= Past(Resets) + Slept + Busy
       /\ pc = "work" => lost <= Past(Resets) + Slept + Busy + spent
       /\ pc = "switch" => lost <= Past(Resets) + Slept + 2 * Busy

BoundsInv == TypeOK /\ PlaceInv /\ QuietInv /\ LostInv /\ AgeInv

LEMMA LateBounds ==
  /\ Slept \in Nat /\ Late \in Nat /\ Late = Slept + 2 * Busy
  /\ Poll <= Slept /\ MaxWait + (MaxWait \div 2) <= Slept
  /\ (MaxWait \div 2) \in Nat /\ MaxWait <= Slept
  BY TimesNat DEF Slept, Late

LEMMA PastBounds ==
  ASSUME NEW k \in 0..Senders
  PROVE  /\ Past(k) \in Nat /\ Past(k) <= Senders * Late
         /\ k > 0 => Past(k - 1) = Past(k) + Late
         /\ Senders * Late \in Nat /\ (Senders + 1) * Late = Senders * Late + Late
<1> HIDE DEF Late
<1>1. Late \in Nat /\ Senders \in Nat /\ Senders - k \in Nat /\ k \in Nat
  BY LateBounds, SendersNat
<1>2. \A n, l \in Nat : n * l \in Nat
  OBVIOUS
<1>3. Senders * Late \in Nat /\ k * Late \in Nat /\ (Senders - k) * Late \in Nat
  BY <1>1, <1>2
<1>4. (Senders - k) * Late = Senders * Late - k * Late
  BY <1>1
<1>5. (Senders - (k - 1)) * Late = (Senders - k) * Late + Late
  BY <1>1
<1>6. (Senders + 1) * Late = Senders * Late + Late
  BY <1>1
<1>7. Past(k) <= Senders * Late
  BY <1>3, <1>4 DEF Past
<1>. QED BY <1>3, <1>5, <1>6, <1>7 DEF Past

\* No reconnect clock is as old as the bound of the ages.
LEMMA LateInTime ==
  ASSUME TypeOK, PlaceInv, LostInv, state = "WAIT_TIMEOUT"
  PROVE  sinceLost <= Late /\ Late < Cap
<1>1. Senders * Late \in Nat /\ (Senders + 1) * Late = Senders * Late + Late
  <2>1. 0 \in 0..Senders
    BY SendersNat
  <2>. QED BY <2>1, PastBounds
<1>2. Late < Cap
  BY <1>1, CapLarge, LateBounds, TimesNat
<1>3. pc \in {"switch", "check", "poll", "frame", "work", "delay"} /\ spent \in Nat /\ spent <= limit
  BY DEF TypeOK, PlaceInv
<1>4. sinceLost \in Nat /\ limit \in Nat
  BY TimesNat DEF TypeOK
<1>. QED BY <1>2, <1>3, <1>4, LateBounds, TimesNat DEF PlaceInv, LostInv

LEMMA InitBounds == Init => BoundsInv
<1> SUFFICES ASSUME Init PROVE BoundsInv
  OBVIOUS
<1>1. TypeOK
  BY InitType
<1>2. PlaceInv /\ QuietInv /\ LostInv
  BY DEF Init, PlaceInv, QuietInv, LostInv, InFrame
<1>3. AgeInv
  <2>1. Resets = 0 /\ 0 \in 0..Senders
    BY SendersNat DEF Init, Resets
  <2>2. Past(0) \in Nat
    BY <2>1, PastBounds
  <2>. QED BY <2>1, <2>2, LateBounds, SendersNat, TimesNat DEF Init, AgeInv
<1>4. QED
  BY <1>1, <1>2, <1>3 DEF BoundsInv

\* Time passes in a place, and every bound has room for it.
LEMMA TickBounds == BoundsInv /\ Tick => PlaceInv' /\ QuietInv' /\ LostInv' /\ AgeInv'
<1> SUFFICES ASSUME BoundsInv, Tick PROVE PlaceInv' /\ QuietInv' /\ LostInv' /\ AgeInv'
  OBVIOUS
<1> USE TimesNat DEF BoundsInv, Tick, Urgent, Later, setting
<1>1. PlaceInv'
  BY DEF PlaceInv, InFrame
<1>2. QuietInv'
  BY CapLarge, <1>1 DEF QuietInv, PlaceInv, TypeOK, Iteration, InFrame
<1>3. LostInv'
  BY DEF LostInv, PlaceInv, TypeOK, InFrame
<1>4. AgeInv'
  <2>1. Resets' = Resets /\ UNCHANGED <<state, pc, limit>>
    BY DEF Resets
  <2>2. lost' = (IF state = "CONNECTED" \/ pc = "dial" THEN lost ELSE Later(lost))
        /\ lost \in Nat /\ Later(lost) <= lost + 1
    BY DEF TypeOK
  <2>3. state = "WAIT_TIMEOUT" => sinceLost' = sinceLost + 1
    BY LateInTime, LateBounds DEF TypeOK
  <2>4. state = "INIT" /\ pc = "work" => spent' = spent + 1
    BY DEF TypeOK, InFrame
  <2>5. state = "INIT" => pc # "switch" /\ pc # "check"
    OBVIOUS
  <2>6. state # "CONNECTED" => Resets \in 0..Senders /\ Past(Resets) \in Nat
    <3>1. Resets \in Nat
      BY DEF TypeOK, Resets
    <3>2. state # "CONNECTED" => Resets \in 0..Senders
      BY <3>1, SendersNat DEF AgeInv
    <3>. QED BY <3>2, PastBounds
  <2>7. Past(Resets)' = Past(Resets)
    BY <2>1 DEF Past
  <2>. QED BY <2>1, <2>2, <2>3, <2>4, <2>5, <2>6, <2>7, LateBounds DEF AgeInv, TypeOK
<1>5. QED
  BY <1>1, <1>2, <1>3, <1>4

LEMMA TaskPlaces == BoundsInv /\ Task => PlaceInv'
<1> SUFFICES ASSUME BoundsInv, Task PROVE PlaceInv'
  OBVIOUS
<1> USE TimesNat DEF BoundsInv, PlaceInv, InFrame, Wait, setting, server
<1>1. Sleep <= (MaxWait \div 2) + Busy
  BY WaitBounded DEF TypeOK, Sleep
<1>2. CASE StartDial BY <1>2 DEF StartDial
<1>3. CASE Connected BY <1>3 DEF Connected
<1>4. CASE ConnectFails BY <1>4 DEF ConnectFails, Abort
<1>5. CASE Watch BY <1>5 DEF Watch, StartsTimer
<1>6. CASE GiveUp BY <1>6 DEF GiveUp, Abort
<1>7. CASE Receive BY <1>7 DEF Receive, FrameRead
<1>8. CASE ReceivePart BY <1>8 DEF ReceivePart
<1>9. CASE ReceiveRest BY <1>9 DEF ReceiveRest, FrameRead
<1>10. CASE NothingToRead BY <1>10 DEF NothingToRead
<1>11. CASE TransportFails BY <1>11 DEF TransportFails, Abort
<1>12. CASE NextIteration BY <1>12 DEF NextIteration
<1>13. CASE Redial BY <1>13 DEF Redial
<1>14. CASE KeepWaiting BY <1>14 DEF KeepWaiting
<1>15. CASE Check BY <1>1, <1>15 DEF Check
<1>16. QED
  BY <1>2, <1>3, <1>4, <1>5, <1>6, <1>7, <1>8, <1>9, <1>10, <1>11, <1>12, <1>13, <1>14,
     <1>15 DEF Task

\* Only Watch leaves the iteration, and with a young PING timer or a PONG timer.
LEMMA TaskQuiet == BoundsInv /\ Task => QuietInv'
<1> SUFFICES ASSUME BoundsInv, Task, PongSeconds # 0 PROVE QuietInv'
  BY DEF QuietInv
<1> USE TimesNat DEF BoundsInv, PlaceInv, QuietInv, Iteration, TypeOK, Wait, setting, server
<1>1. CASE StartDial BY <1>1 DEF StartDial
<1>2. CASE Connected BY <1>2 DEF Connected
<1>3. CASE ConnectFails BY <1>3 DEF ConnectFails, Abort
<1>4. CASE Watch
  <2>1. PingMillis(ping) \in 0..MaxPing /\ PongMillis \in 0..MaxPong
    BY PingBounded, PongBounded
  <2>2. CASE ~waiting /\ ~PingDue
    BY <1>4, <2>1, <2>2 DEF Watch, PingDue, StartsTimer
  <2>3. CASE ~waiting /\ PingDue
    <3>1. waiting' /\ StartsTimer
      BY <1>4, <2>3 DEF Watch, StartsTimer
    <3>2. sincePong' = 0 /\ quiet' = quiet /\ pc' = "check" /\ spent' = 0
      BY <1>4, <3>1 DEF Watch
    <3>3. quiet <= MaxPing + Busy + Poll + Busy
      BY <1>4, <2>3 DEF Watch
    <3>4. QED
      BY <3>1, <3>2, <3>3
  <2>4. CASE waiting
    <3>1. waiting' /\ ~StartsTimer
      BY <1>4, <2>4 DEF Watch, StartsTimer
    <3>2. sincePong' = sincePong /\ quiet' = quiet /\ pc' = "check" /\ spent' = 0
      BY <1>4, <3>1 DEF Watch
    <3>3. sincePong <= MaxPong
      BY <1>4, <2>1, <2>4 DEF Watch, PongOverdue
    <3>4. quiet <= MaxPing + 2 * Busy + Poll + sincePong
      BY <1>4, <2>4 DEF Watch
    <3>5. QED
      BY <3>1, <3>2, <3>3, <3>4
  <2>5. QED
    BY <2>2, <2>3, <2>4
<1>5. CASE GiveUp BY <1>5 DEF GiveUp, Abort
<1>6. CASE Receive BY <1>6 DEF Receive, FrameRead
<1>7. CASE ReceivePart BY <1>7 DEF ReceivePart
<1>8. CASE ReceiveRest BY <1>8 DEF ReceiveRest, FrameRead, InFrame
<1>9. CASE NothingToRead BY <1>9 DEF NothingToRead
<1>10. CASE TransportFails BY <1>10 DEF TransportFails, Abort
<1>11. CASE NextIteration BY <1>11 DEF NextIteration
<1>12. CASE Redial BY <1>12 DEF Redial
<1>13. CASE KeepWaiting BY <1>13 DEF KeepWaiting
<1>14. CASE Check BY <1>14 DEF Check
<1>15. QED
  BY <1>1, <1>2, <1>3, <1>4, <1>5, <1>6, <1>7, <1>8, <1>9, <1>10, <1>11, <1>12, <1>13,
     <1>14 DEF Task

LEMMA TaskLost == BoundsInv /\ Task => LostInv'
<1> SUFFICES ASSUME BoundsInv, Task PROVE LostInv'
  OBVIOUS
<1> USE TimesNat DEF BoundsInv, PlaceInv, LostInv, TypeOK, Wait, setting, server
<1>1. wait \in Nat /\ wait <= MaxWait
  BY WaitBounded
<1>2. CASE StartDial BY <1>2 DEF StartDial
<1>3. CASE Connected BY <1>3 DEF Connected
<1>4. CASE ConnectFails BY <1>4 DEF ConnectFails, Abort
<1>5. CASE Watch BY <1>5 DEF Watch
<1>6. CASE GiveUp BY <1>6 DEF GiveUp, Abort
<1>7. CASE Receive BY <1>7 DEF Receive, FrameRead
<1>8. CASE ReceivePart BY <1>8 DEF ReceivePart
<1>9. CASE ReceiveRest BY <1>9 DEF ReceiveRest, FrameRead, InFrame
<1>10. CASE NothingToRead BY <1>10 DEF NothingToRead
<1>11. CASE TransportFails BY <1>11 DEF TransportFails, Abort
<1>12. CASE NextIteration
  <2>1. state' = state /\ sinceLost' = sinceLost /\ pc' = "switch" /\ pc \in {"work", "delay"}
    BY <1>12 DEF NextIteration
  <2>2. state = "WAIT_TIMEOUT" => sinceLost <= Slept + Busy
    BY <2>1, LateBounds
  <2>. QED BY <2>1, <2>2 DEF Slept
<1>13. CASE Redial BY <1>13 DEF Redial
<1>14. CASE KeepWaiting BY <1>1, <1>14 DEF KeepWaiting, Elapsed
<1>15. CASE Check BY <1>15 DEF Check
<1>16. QED
  BY <1>2, <1>3, <1>4, <1>5, <1>6, <1>7, <1>8, <1>9, <1>10, <1>11, <1>12, <1>13, <1>14,
     <1>15 DEF Task

\* An abort of a lost connection is one of those to come, and its price is paid.
LEMMA AbortAge ==
  ASSUME BoundsInv, Abort, pc \notin {"switch", "dial"} \/ lost = 0,
         Resets' \in 0..Senders, pc' # "dial",
         state # "CONNECTED" /\ lost # 0 => Resets' = Resets - 1
  PROVE  AgeInv'
<1> USE TimesNat DEF BoundsInv
<1>1. state' = "WAIT_TIMEOUT" /\ sinceLost' = 0 /\ lost' = lost /\ lost \in Nat
  BY DEF Abort, TypeOK
<1>2. Past(Resets') \in Nat
  BY PastBounds
<1>3. lost # 0 => lost <= Past(Resets')
  <2> SUFFICES ASSUME lost # 0 PROVE lost <= Past(Resets')
    OBVIOUS
  <2>1. state # "CONNECTED" /\ pc # "dial" /\ pc # "switch"
    BY DEF AgeInv
  <2>2. Resets' = Resets - 1 /\ Resets \in 0..Senders /\ Resets > 0
    <3>1. Resets \in Nat /\ Resets <= Senders /\ Resets' = Resets - 1
      BY <2>1 DEF AgeInv, TypeOK, Resets
    <3>2. Resets - 1 >= 0
      BY <3>1
    <3>. QED BY <3>1, <3>2, SendersNat
  <2>3. Past(Resets - 1) = Past(Resets) + Late /\ Past(Resets) \in Nat
    BY <2>2, PastBounds
  <2>4. lost <= Past(Resets) + Late
    <3>1. CASE state = "WAIT_TIMEOUT"
      <4>1. sinceLost <= Late /\ sinceLost \in Nat
        BY <3>1, LateInTime DEF TypeOK
      <4>. QED BY <1>1, <2>3, <3>1, <4>1, LateBounds DEF AgeInv
    <3>2. CASE state = "INIT"
      <4>1. pc \in {"check", "work"} /\ spent \in Nat /\ (pc = "work" => spent <= Busy)
        BY <2>1, <3>2 DEF PlaceInv, TypeOK
      <4>. QED BY <1>1, <2>3, <3>2, <4>1, LateBounds DEF AgeInv
    <3>. QED BY <2>1, <3>1, <3>2 DEF TypeOK
  <2>. QED BY <2>2, <2>3, <2>4 DEF Past
<1>. QED BY <1>1, <1>2, <1>3 DEF AgeInv, Past

LEMMA TaskAge == BoundsInv /\ Task => AgeInv'
<1> SUFFICES ASSUME BoundsInv, Task PROVE AgeInv'
  OBVIOUS
<1> USE TimesNat DEF BoundsInv, Wait, setting, server
<1>0. sending \in Nat /\ sending <= Senders /\ spent \in Nat /\ lost \in Nat /\ sinceLost \in Nat
  BY SendersNat DEF TypeOK
<1>n. sending \in 0..Senders /\ Past(sending) \in Nat
  BY PastBounds DEF TypeOK
<1>1. CASE StartDial \/ Connected
  <2>1. lost' = 0 /\ (state' = "CONNECTED" \/ pc' = "dial") /\ pc' \in {"dial", "check"}
        /\ sending' = sending /\ state' # "WAIT_TIMEOUT"
        /\ (state' # "CONNECTED" => pc' = "dial")
    BY <1>1 DEF StartDial, Connected, AgeInv
  <2>2. Resets' <= Senders
    BY <1>0, <2>1 DEF Resets
  <2>. QED BY <2>1, <2>2 DEF AgeInv
<1>2. CASE ConnectFails \/ GiveUp \/ TransportFails
  <2>1. Abort /\ sending' = sending /\ pc' \in {"check", "work"}
        /\ (pc \in {"poll", "frame"} \/ lost = 0)
    BY <1>2 DEF ConnectFails, GiveUp, TransportFails, AgeInv
  <2>2. Resets' = sending /\ (lost # 0 => Resets = sending + 1)
    BY <1>0, <2>1 DEF Resets
  <2>3. Resets' \in 0..Senders /\ (lost # 0 => Resets' = Resets - 1)
    BY <1>0, <1>n, <2>2
  <2>. QED BY <2>1, <2>3, AbortAge
<1>3. CASE Watch \/ Receive \/ ReceivePart \/ ReceiveRest \/ (Check /\ state = "CONNECTED")
  <2>1. state = "CONNECTED"
    BY <1>3 DEF Watch, Receive, ReceivePart, ReceiveRest, Check, FrameRead, InFrame,
                PlaceInv, TypeOK
  <2>2. state' = state /\ lost' = lost
    BY <1>3 DEF Watch, Receive, ReceivePart, ReceiveRest, Check, FrameRead
  <2>. QED BY <2>1, <2>2 DEF AgeInv
<1>4. CASE Redial
  <2>1. state = "WAIT_TIMEOUT" /\ pc = "switch" /\ state' = "INIT" /\ pc' = "check"
        /\ lost' = lost /\ sending' = sending
    BY <1>4 DEF Redial
  <2>2. Resets = sending /\ Resets' = sending
    BY <1>0, <2>1 DEF Resets
  <2>3. lost <= Past(sending) + Slept + Busy
    BY <1>0, <1>n, <2>1, <2>2, LateBounds DEF AgeInv, LostInv
  <2>. QED BY <1>0, <2>1, <2>2, <2>3 DEF AgeInv, Past
<1>5. CASE KeepWaiting
  <2>1. state = "WAIT_TIMEOUT" /\ pc = "switch" /\ state' = state /\ pc' = "check"
        /\ lost' = lost /\ sending' = sending /\ sinceLost' = sinceLost
    BY <1>5 DEF KeepWaiting
  <2>2. Resets = sending /\ Resets' = sending
    BY <1>0, <2>1 DEF Resets
  <2>. QED BY <1>0, <2>1, <2>2 DEF AgeInv, Past
<1>6. CASE Check /\ state # "CONNECTED"
  <2>1. pc = "check" /\ state' = state /\ spent' = 0 /\ state' # "CONNECTED"
        /\ lost' = lost /\ sending' = sending /\ sinceLost' = sinceLost
        /\ (state = "INIT" => pc' = "work")
        /\ (state = "WAIT_TIMEOUT" => pc' = "delay")
    BY <1>6 DEF Check, TypeOK
  <2>2. Resets = sending /\ Resets' = sending /\ pc' \in {"work", "delay"}
    BY <1>0, <2>1 DEF Resets, TypeOK
  <2>3. state = "WAIT_TIMEOUT" => lost' <= Past(Resets') + sinceLost'
    BY <2>1, <2>2 DEF AgeInv, Past
  <2>4. state = "INIT" => lost' <= Past(Resets') + Slept + Busy + spent'
    <3>1. state = "INIT" => lost <= Past(sending) + Slept + Busy
      BY <2>1, <2>2 DEF AgeInv, Past
    <3>2. Past(Resets') = Past(sending)
      BY <2>2 DEF Past
    <3>. QED BY <1>n, <2>1, <3>1, <3>2, LateBounds
  <2>. QED BY <1>0, <2>1, <2>2, <2>3, <2>4 DEF AgeInv, Past
<1>7. CASE NothingToRead
  <2>1. pc = "poll" /\ state' = state /\ pc' = "work" /\ state # "INIT"
        /\ lost' = lost /\ sending' = sending /\ sinceLost' = sinceLost
    BY <1>7 DEF NothingToRead, PlaceInv
  <2>2. Resets = sending + 1 /\ Resets' = sending
    BY <1>0, <2>1 DEF Resets
  <2>3. state = "WAIT_TIMEOUT" => Past(sending) = Past(Resets) + Late /\ Past(Resets) \in Nat
    <3>1. state = "WAIT_TIMEOUT" => sending + 1 \in 0..Senders
      BY <1>0, <2>2, SendersNat DEF AgeInv
    <3>2. sending + 1 > 0 /\ (sending + 1) - 1 = sending
      BY <1>0
    <3>. QED BY <2>2, <3>1, <3>2, PastBounds DEF Past
  <2>. QED BY <1>0, <2>1, <2>2, <2>3, LateBounds DEF AgeInv, Past
<1>8. CASE NextIteration
  <2>1. pc \in {"work", "delay"} /\ state' = state /\ pc' = "switch"
        /\ lost' = lost /\ sending' = sending /\ sinceLost' = sinceLost
    BY <1>8 DEF NextIteration
  <2>2. Resets = sending /\ Resets' = sending
    BY <1>0, <2>1 DEF Resets
  <2>3. state = "INIT" => pc = "work" /\ spent <= Busy
    BY <2>1 DEF PlaceInv, TypeOK
  <2>. QED BY <1>0, <1>n, <2>1, <2>2, <2>3, LateBounds DEF AgeInv, Past
<1>9. QED
  BY <1>1, <1>2, <1>3, <1>4, <1>5, <1>6, <1>7, <1>8 DEF Task

\* A send that fails is an abort; nothing else that the application or the server
\* does changes an age or a place.
LEMMA OtherBounds ==
  ASSUME BoundsInv, Application \/ Sends \/ Answers \/ Dies
  PROVE  PlaceInv' /\ QuietInv' /\ LostInv' /\ AgeInv'
<1> USE TimesNat DEF BoundsInv
<1>1. CASE SendFails
  <2>1. Abort /\ UNCHANGED <<pc, limit, spent, waiting>> /\ sending' = sending - 1
        /\ pc \notin {"switch", "dial"} /\ sending > 0
    BY <1>1 DEF SendFails
  <2>2. PlaceInv' /\ QuietInv' /\ LostInv'
    BY <2>1 DEF Abort, PlaceInv, QuietInv, LostInv, InFrame, TypeOK
  <2>3. Resets' = Resets - 1 /\ Resets' \in 0..Senders /\ pc' # "dial"
    BY <2>1, SendersNat DEF Resets, TypeOK
  <2>. QED BY <2>1, <2>2, <2>3, AbortAge
<1>2. CASE SendBegins
  <2>1. state = "CONNECTED" /\ UNCHANGED <<state, pc, clock, waiting, selected, alive, owed,
                                          inbox>>
    BY <1>2 DEF SendBegins
  <2>. QED BY <2>1 DEF PlaceInv, QuietInv, LostInv, AgeInv, InFrame, Iteration, clock
<1>3. CASE SendReturns
  <2>1. UNCHANGED <<state, pc, clock, waiting, selected, alive, owed, inbox>>
        /\ sending' = sending - 1 /\ sending > 0
    BY <1>3 DEF SendReturns
  <2>2. PlaceInv' /\ QuietInv' /\ LostInv'
    BY <2>1 DEF PlaceInv, QuietInv, LostInv, InFrame, Iteration, clock
  <2>3. Resets' = Resets - 1 /\ Resets \in Nat /\ Resets > 0
    BY <2>1 DEF Resets, TypeOK
  <2>4. state # "CONNECTED" =>
          Resets <= Senders /\ Past(Resets') = Past(Resets) + Late /\ Past(Resets) \in Nat
    <3> SUFFICES ASSUME state # "CONNECTED"
                 PROVE  Resets <= Senders /\ Past(Resets') = Past(Resets) + Late
                        /\ Past(Resets) \in Nat
      OBVIOUS
    <3>1. Resets \in 0..Senders
      BY <2>3, SendersNat DEF AgeInv
    <3>. QED BY <2>3, <3>1, PastBounds DEF Past
  <2>5. AgeInv'
    BY <2>1, <2>3, <2>4, LateBounds, SendersNat DEF AgeInv, Past, clock, TypeOK
  <2>. QED BY <2>2, <2>5
<1>4. CASE SetPingInterval \/ SetReconnectTimeout \/ Sends \/ Answers \/ Dies
  <2>1. /\ UNCHANGED <<state, pc, limit, spent, sincePing, sincePong, sinceLost, lost, quiet,
                       sending, waiting, selected>>
        /\ alive' => alive
    BY <1>4 DEF SetPingInterval, SetReconnectTimeout, Sends, Answers, Dies, clock, setting
  <2>2. PlaceInv'
    <3>1. state # "CONNECTED" => inbox' = <<>> /\ ~owed'
      BY <1>4 DEF PlaceInv, SetPingInterval, SetReconnectTimeout, Sends, Answers, Dies, clock
    <3>2. InFrame => inbox' = inbox
      BY <1>4 DEF SetPingInterval, SetReconnectTimeout, Sends, Answers, Dies, Arrives, clock
    <3>. QED BY <2>1, <3>1, <3>2 DEF PlaceInv, InFrame
  <2>3. QuietInv' /\ LostInv' /\ AgeInv'
    BY <2>1 DEF QuietInv, LostInv, AgeInv, Iteration, Resets
  <2>. QED BY <2>2, <2>3
<1>5. QED
  BY <1>1, <1>2, <1>3, <1>4 DEF Application

LEMMA StepBounds == BoundsInv /\ [Next]_vars => BoundsInv'
<1> SUFFICES ASSUME BoundsInv, [Next]_vars PROVE BoundsInv'
  OBVIOUS
<1>1. TypeOK'
  BY StepType DEF BoundsInv
<1>2. CASE Tick BY <1>1, <1>2, TickBounds DEF BoundsInv
<1>3. CASE Task BY <1>1, <1>3, TaskPlaces, TaskQuiet, TaskLost, TaskAge DEF BoundsInv
<1>4. CASE Application \/ Sends \/ Answers \/ Dies
  BY <1>1, <1>4, OtherBounds DEF BoundsInv
<1>5. CASE UNCHANGED vars
  BY <1>1, <1>5 DEF BoundsInv, PlaceInv, QuietInv, LostInv, AgeInv, InFrame, Iteration,
                    Resets, vars
<1>6. QED
  BY <1>2, <1>3, <1>4, <1>5 DEF Next

LEMMA BoundsHold == Spec => []BoundsInv
  BY InitBounds, StepBounds, PTL DEF Spec

\* However the settings are changed, no connection outlives the bound in silence.
THEOREM DeadServerNoticed == Spec => []DeadNoticed
<1>1. BoundsInv => DeadNoticed
  <2> SUFFICES ASSUME BoundsInv, PongSeconds # 0, state = "CONNECTED",
                      pc = "frame" => alive
               PROVE  quiet <= MaxPing + MaxPong + 2 * Poll + 3 * Busy
    BY DEF DeadNoticed
  <2>1. Iteration \in Nat /\ Iteration <= Poll + Busy
    BY TimesNat DEF BoundsInv, TypeOK, PlaceInv, Iteration
  <2>2. CASE waiting
    BY <2>1, <2>2, TimesNat DEF BoundsInv, TypeOK, QuietInv
  <2>3. CASE ~waiting
    BY <2>1, <2>3, TimesNat DEF BoundsInv, TypeOK, QuietInv
  <2>. QED BY <2>2, <2>3
<1>2. QED
  BY <1>1, BoundsHold, PTL

\* The wait for another attempt is bounded, for any number of sends under way.
THEOREM RedialledInTime == Spec => []RedialInTime
<1>1. BoundsInv => RedialInTime
  <2> SUFFICES ASSUME BoundsInv, state # "CONNECTED", pc # "dial"
               PROVE  lost <= (Senders + 1) * Late
    BY DEF RedialInTime
  <2> USE TimesNat DEF BoundsInv
  <2>1. Resets \in 0..Senders
    BY SendersNat DEF AgeInv, TypeOK, Resets
  <2>2. /\ Past(Resets) \in Nat /\ Past(Resets) <= Senders * Late
        /\ Senders * Late \in Nat /\ (Senders + 1) * Late = Senders * Late + Late
    BY <2>1, PastBounds
  <2>3. lost <= Past(Resets) + Late
    <3>1. CASE state = "WAIT_TIMEOUT"
      <4>1. sinceLost <= Late
        BY <3>1, LateInTime
      <4>. QED BY <2>2, <3>1, <4>1, LateBounds DEF AgeInv, TypeOK
    <3>2. CASE state = "INIT"
      <4>1. pc \in {"check", "work", "switch"} /\ spent \in Nat /\ (pc = "work" => spent <= Busy)
        BY <3>2 DEF PlaceInv, TypeOK
      <4>. QED BY <2>2, <3>2, <4>1, LateBounds DEF AgeInv, TypeOK
    <3>. QED BY <3>1, <3>2 DEF TypeOK
  <2>. QED BY <2>2, <2>3, LateBounds DEF TypeOK
<1>2. QED
  BY <1>1, BoundsHold, PTL

-----------------------------------------------------------------------------
(* A prompt server is not dropped                                          *)

\* The time that the frames behind place k of the inbox may have taken.
Room(k) == (MaxInbox - k) * Busy

Extra == IF pc = "work" THEN spent ELSE IF pc = "frame" THEN Busy + spent ELSE Busy

\* The answer is in place k of the inbox, late only by the frames before it.
AnswerAt(k) == inbox[k] = "pong" /\ sincePong <= AnswerWithin + Room(k) + Extra

\* The client waits for a live server: the answer is owed and in time, or in the
\* inbox.
AnswerComes ==
  \/ owed /\ sincePong <= asked
  \/ \E k \in 1..Len(inbox) : AnswerAt(k)

PromptInv == state = "CONNECTED" /\ alive /\ waiting => AnswerComes

WholeInv == BoundsInv /\ PromptInv

LEMMA RoomNat == \A k \in 1..MaxInbox : Room(k) \in Nat
<1> SUFFICES ASSUME NEW k \in 1..MaxInbox PROVE Room(k) \in Nat
  OBVIOUS
<1>1. MaxInbox - k \in Nat
  BY TimesNat
<1>2. \A n, b \in Nat : n * b \in Nat
  OBVIOUS
<1>3. QED
  BY <1>1, <1>2, TimesNat DEF Room

LEMMA RoomStep ==
  ASSUME NEW k \in 1..MaxInbox
  PROVE  Room(k) + Busy = Room(k - 1) /\ Room(k) + Busy <= MaxInbox * Busy
<1>1. (MaxInbox - (k - 1)) * Busy = (MaxInbox - k) * Busy + Busy
  BY TimesNat
<1>2. MaxInbox * Busy = Room(k - 1) + (k - 1) * Busy
  BY TimesNat DEF Room
<1>3. (k - 1) * Busy >= 0 /\ Room(k - 1) \in Int /\ Room(k) \in Int
  <2>1. \A n, b \in Nat : n * b >= 0
    OBVIOUS
  <2>2. \A n, b \in Int : n * b \in Int
    OBVIOUS
  <2>3. QED
    BY <2>1, <2>2, TimesNat DEF Room
<1>4. MaxInbox * Busy \in Int /\ (k - 1) * Busy \in Int
  BY TimesNat
<1>5. Room(k) + Busy = Room(k - 1)
  BY <1>1 DEF Room
<1>6. QED
  BY <1>2, <1>3, <1>4, <1>5

LEMMA InitPrompt == Init => WholeInv
  BY InitBounds DEF Init, WholeInv, PromptInv

\* Time passes for an answer in the inbox only while an iteration works.
LEMMA TickPrompt == WholeInv /\ Tick => PromptInv'
<1> SUFFICES ASSUME WholeInv, Tick, state = "CONNECTED", alive, waiting
             PROVE  AnswerComes'
  BY DEF PromptInv, Tick
<1>1. AnswerComes /\ TypeOK /\ PlaceInv /\ sincePong' <= sincePong + 1
  BY TimesNat DEF WholeInv, BoundsInv, PromptInv, Tick, Later, TypeOK
<1>2. CASE owed /\ sincePong <= asked
  <2>1. asked' = asked + 1
    BY <1>2, Zenon DEF Tick
  <2>2. owed'
    BY <1>2, Zenon DEF Tick
  <2>3. sincePong' <= asked'
    BY <1>1, <1>2, <2>1, TimesNat DEF TypeOK, Tick, Later
  <2>4. QED
    BY <2>2, <2>3, Zenon DEF AnswerComes
<1>3. ASSUME NEW k \in 1..Len(inbox), AnswerAt(k) PROVE AnswerComes'
  <2>1. pc \in {"work", "frame"} /\ pc' = pc /\ spent' = spent + 1 /\ inbox' = inbox
    <3>1. pc # "switch" /\ pc # "poll" /\ pc # "check"
      BY <1>1, <1>3 DEF Tick, Urgent, TypeOK
    <3>2. pc' = pc /\ inbox' = inbox /\ spent < limit
      BY <1>1 DEF Tick, Urgent, TypeOK
    <3>3. QED
      BY <1>1, <3>1, <3>2 DEF Tick, PlaceInv, TypeOK
  <2>2. Room(k) \in Nat
    BY <1>1, RoomNat, TimesNat DEF TypeOK
  <2>3. AnswerAt(k)'
    BY <1>1, <1>3, <2>1, <2>2, TimesNat DEF AnswerAt, Extra, Room, TypeOK, Tick, Later
  <2>4. QED
    BY <2>1, <2>3 DEF AnswerComes
<1>4. QED
  BY <1>1, <1>2, <1>3 DEF AnswerComes

LEMMA TaskPrompt == WholeInv /\ Task => PromptInv'
<1> SUFFICES ASSUME WholeInv, Task, state' = "CONNECTED", alive', waiting'
             PROVE  AnswerComes'
  BY DEF PromptInv
<1> USE TimesNat DEF WholeInv, BoundsInv, PlaceInv, Wait, setting, server
<1>1. TypeOK
  OBVIOUS
<1>2. CASE StartDial
  BY <1>2 DEF StartDial
<1>3. CASE Connected
  BY <1>3 DEF Connected
<1>4. CASE ConnectFails \/ GiveUp \/ TransportFails
  BY <1>4 DEF ConnectFails, GiveUp, TransportFails, Abort
<1>5. CASE Redial \/ KeepWaiting
  BY <1>5 DEF Redial, KeepWaiting
<1>6. CASE Watch
  <2>1. CASE StartsTimer
    <3>1. owed' /\ sincePong' = 0 /\ asked' = asked
      BY <1>6, <2>1 DEF Watch, StartsTimer
    <3>2. QED
      BY <1>1, <3>1 DEF AnswerComes, TypeOK
  <2>2. CASE ~StartsTimer
    <3>1. state = "CONNECTED" /\ alive /\ waiting /\ sincePong' = sincePong
          /\ asked' = asked /\ inbox' = inbox /\ pc = "switch" /\ pc' = "check"
      BY <1>6, <2>2 DEF Watch
    <3>2. owed => owed'
      BY <1>6 DEF Watch
    <3>3. AnswerComes
      BY <3>1 DEF PromptInv
    <3>4. QED
      BY <3>1, <3>2, <3>3 DEF AnswerComes, AnswerAt, Extra
  <2>3. QED
    BY <2>1, <2>2
<1>7. CASE Receive \/ ReceiveRest
  <2>1. state = "CONNECTED" /\ alive /\ waiting /\ Head(inbox) # "pong" /\ inbox # <<>>
        /\ inbox' = Tail(inbox) /\ owed' = owed /\ asked' = asked
        /\ sincePong' = sincePong /\ pc' = "work"
    BY <1>7 DEF Receive, ReceiveRest, FrameRead, InFrame
  <2>2. AnswerComes
    BY <2>1 DEF PromptInv
  <2>3. CASE owed /\ sincePong <= asked
    BY <2>1, <2>3 DEF AnswerComes
  <2>4. ASSUME NEW k \in 1..Len(inbox), AnswerAt(k) PROVE AnswerComes'
    <3>1. k # 1 /\ k - 1 \in 1..Len(inbox') /\ inbox'[k - 1] = inbox[k] /\ Len(inbox) # 1
      BY <1>1, <2>1, <2>4 DEF AnswerAt, TypeOK
    <3>2. Room(k) + Busy = Room(k - 1) /\ Room(k) \in Nat
      BY <1>1, RoomStep, RoomNat DEF TypeOK
    <3>3. pc = "poll" /\ spent' = 0
      BY <1>7, <2>1, <3>1 DEF Receive, ReceiveRest, InFrame
    <3>4. AnswerAt(k - 1)'
      BY <1>1, <2>1, <2>4, <3>1, <3>2, <3>3 DEF AnswerAt, Extra, Room, TypeOK
    <3>5. QED
      BY <3>1, <3>4 DEF AnswerComes
  <2>5. QED
    BY <2>2, <2>3, <2>4 DEF AnswerComes
<1>8. CASE ReceivePart \/ Check
  <2>1. state = "CONNECTED" /\ alive /\ waiting /\ inbox' = inbox /\ owed' = owed
        /\ asked' = asked /\ sincePong' = sincePong /\ pc \in {"poll", "check"}
        /\ pc' \in {"frame", "poll"} /\ spent' = 0
    BY <1>8 DEF ReceivePart, Check
  <2>2. AnswerComes /\ Extra' = Extra
    BY <2>1 DEF PromptInv, Extra
  <2>3. QED
    BY <2>1, <2>2 DEF AnswerComes, AnswerAt, Room
<1>9. CASE NothingToRead
  <2>1. state = "CONNECTED" /\ alive /\ waiting /\ inbox = <<>> /\ owed' = owed
        /\ asked' = asked /\ sincePong' = sincePong
    BY <1>9 DEF NothingToRead
  <2>2. AnswerComes
    BY <2>1 DEF PromptInv
  <2>3. QED
    BY <2>1, <2>2 DEF AnswerComes
<1>10. CASE NextIteration
  <2>1. state = "CONNECTED" /\ alive /\ waiting /\ inbox' = inbox /\ owed' = owed
        /\ asked' = asked /\ sincePong' = sincePong /\ pc' = "switch"
        /\ Extra <= Busy /\ Extra \in Nat
    BY <1>1, <1>10 DEF NextIteration, Extra, TypeOK
  <2>2. AnswerComes
    BY <2>1 DEF PromptInv
  <2>3. ASSUME NEW k \in 1..Len(inbox), AnswerAt(k) PROVE AnswerComes'
    <3>1. Room(k) \in Nat
      BY <1>1, RoomNat DEF TypeOK
    <3>2. Extra' = Busy
      BY <2>1 DEF Extra
    <3>3. AnswerAt(k)'
      BY <1>1, <2>1, <2>3, <3>1, <3>2 DEF AnswerAt, Room, TypeOK
    <3>4. QED
      BY <2>1, <3>3 DEF AnswerComes
  <2>4. QED
    BY <2>1, <2>2, <2>3 DEF AnswerComes
<1>11. QED
  BY <1>2, <1>3, <1>4, <1>5, <1>6, <1>7, <1>8, <1>9, <1>10 DEF Task

\* What the server sends goes behind the answer, and the answer behind the rest.
LEMMA OtherPrompt ==
  ASSUME WholeInv, Application \/ Sends \/ Answers \/ Dies
  PROVE  PromptInv'
<1> USE TimesNat DEF WholeInv, BoundsInv
<1>1. TypeOK
  OBVIOUS
<1>2. CASE Application
  <2>1. CASE SendFails
    BY <2>1 DEF SendFails, Abort, PromptInv
  <2>2. CASE ~SendFails
    <3>1. UNCHANGED <<state, pc, clock, waiting, alive, owed, inbox>>
      BY <1>2, <2>2 DEF Application, SetPingInterval, SetReconnectTimeout, SendBegins,
                        SendReturns
    <3>2. QED
      BY <3>1 DEF clock, PromptInv, AnswerComes, AnswerAt, Extra, Room
  <2>3. QED
    BY <2>1, <2>2
<1>3. CASE Sends
  <2>1. /\ \A k \in 1..Len(inbox) : k \in 1..Len(inbox') /\ inbox'[k] = inbox[k]
        /\ Extra' = Extra /\ sincePong' = sincePong /\ owed' = owed /\ asked' = asked
        /\ UNCHANGED <<state, alive, waiting>>
    BY <1>1, <1>3 DEF Sends, Arrives, Extra, clock, TypeOK
  <2>2. QED
    BY <2>1 DEF PromptInv, AnswerComes, AnswerAt, Room
<1>4. CASE Answers
  <2>0. PICK k \in Nat : k = Len(inbox) + 1
    BY <1>1 DEF TypeOK
  <2>1. k \in 1..Len(inbox') /\ inbox'[k] = "pong" /\ k \in 1..MaxInbox
    BY <1>1, <1>4, <2>0 DEF Answers, Arrives, TypeOK
  <2>2. /\ sincePong' = sincePong /\ Extra' = Extra /\ Extra \in Nat
        /\ UNCHANGED <<state, alive, waiting>>
    BY <1>1, <1>4 DEF Answers, Extra, TypeOK
  <2>3. \A j \in 1..Len(inbox) : j \in 1..Len(inbox') /\ inbox'[j] = inbox[j]
    BY <1>1, <1>4 DEF Answers, Arrives, TypeOK
  <2>4. Room(k) \in Nat
    BY <2>1, RoomNat
  <2>5. sincePong <= asked => AnswerAt(k)'
    BY <1>1, <2>1, <2>2, <2>4 DEF AnswerAt, Room, TypeOK
  <2>6. \A j \in 1..Len(inbox) : AnswerAt(j) => AnswerAt(j)'
    BY <2>2, <2>3 DEF AnswerAt, Room
  <2>7. QED
    BY <2>1, <2>2, <2>3, <2>5, <2>6 DEF PromptInv, AnswerComes
<1>5. CASE Dies
  BY <1>5, Zenon DEF Dies, PromptInv
<1>6. QED
  BY <1>2, <1>3, <1>4, <1>5

LEMMA StepPrompt == WholeInv /\ [Next]_vars => WholeInv'
<1> SUFFICES ASSUME WholeInv, [Next]_vars PROVE WholeInv'
  OBVIOUS
<1>1. BoundsInv'
  BY StepBounds DEF WholeInv
<1>2. CASE Next
  BY <1>1, <1>2, TickPrompt, TaskPrompt, OtherPrompt DEF Next, WholeInv
<1>3. CASE UNCHANGED vars
  BY <1>1, <1>3 DEF vars, WholeInv, PromptInv, AnswerComes, AnswerAt, Extra, Room
<1>4. QED
  BY <1>2, <1>3

\* When the client gives up on the PONG, no answer of a live server is near.
LEMMA GivesUpOnTheDead == WholeInv /\ GiveUp => ~alive
<1> SUFFICES ASSUME WholeInv, GiveUp, alive PROVE FALSE
  OBVIOUS
<1> USE TimesNat DEF WholeInv, BoundsInv
<1>1. TypeOK /\ PlaceInv /\ AnswerComes /\ pc = "switch" /\ sincePong > PongMillis
  BY DEF GiveUp, PongOverdue, PromptInv
<1>2. AnswerWithin + MaxInbox * Busy <= PongMillis /\ PongMillis \in Nat
  BY <1>1, Prompt, PongBounded DEF GiveUp, PongOverdue, PlaceInv
<1>3. MaxInbox * Busy \in Nat
  OBVIOUS
<1>4. CASE owed /\ sincePong <= asked
  BY <1>1, <1>2, <1>3, <1>4 DEF TypeOK
<1>5. ASSUME NEW k \in 1..Len(inbox), AnswerAt(k) PROVE FALSE
  <2>1. Room(k) \in Nat /\ Room(k) + Busy <= MaxInbox * Busy
    BY <1>1, RoomNat, RoomStep DEF TypeOK
  <2>2. QED
    BY <1>1, <1>2, <1>3, <1>5, <2>1 DEF AnswerAt, Extra, TypeOK
<1>6. QED
  BY <1>1, <1>4, <1>5 DEF AnswerComes

\* A server that answers within AnswerWithin is never dropped for its silence,
\* whatever the settings are and however many frames wait before its answer.
THEOREM PromptNeverDropped == Spec => NoFalseAlarm
<1>1. WholeInv /\ [Next]_vars => [GiveUp => ~alive]_vars
  BY GivesUpOnTheDead
<1>2. QED
  BY <1>1, InitPrompt, StepPrompt, PTL DEF Spec, NoFalseAlarm

=============================================================================
