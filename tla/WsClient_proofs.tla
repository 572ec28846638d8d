--------------------------- MODULE WsClient_proofs ---------------------------
(***************************************************************************)
(* Theorems about WsClient for every set of tasks and senders, every       *)
(* configuration of the client and both schedulers.                        *)
(***************************************************************************)
EXTENDS WsClient, TLAPS

\* Type correctness needs where a call of abort_connection returns to: it is
\* always called with the lock held, and always returns to an unlock.
AfterInv ==
  /\ \A p \in Procs : pc[p] \in AbortPcs \union {"abortlock"} =>
                        after[p] \in {"unlock", "unlockLoop"}
  /\ pc[Owner] \in {"stopRun", "stopWait", "stopUnknow"} =>
       after[Owner] \in {"idle", "free"}

Inductive == TypeOK /\ AfterInv /\ LockInv

Pcs == TaskPcs \union OwnerPcs

LEMMA InitInductive == ASSUME Init PROVE Inductive
<1>1. pc \in [Procs -> Pcs]
  BY DEF Init, Pcs, TaskPcs, OwnerPcs, SenderPcs, WaitPcs
<1>2. after \in [Procs -> {"unlock", "unlockLoop", "idle", "free"}]
  BY DEF Init
<1>3. inbox \in Seq(Frames \union {Part})
  BY DEF Init
<1>4. TypeOK
  BY <1>1, <1>2, <1>3 DEF Init, TypeOK, States, Events, Pcs
<1>5. \A p \in Procs : pc[p] \in {"none", "idle"}
  BY DEF Init
<1>6. AfterInv
  BY <1>5 DEF Init, AfterInv, AbortPcs, Procs, Callers
<1>7. LockInv
  BY <1>5, ProcsDistinct DEF Init, LockInv, LockedPcs, AbortPcs
<1>. QED BY <1>4, <1>6, <1>7 DEF Inductive

LEMMA TaskInductive ==
  ASSUME Inductive, NEW t \in Tasks, TaskStep(t)
  PROVE  Inductive'
<1> USE ProcsDistinct
    DEF Inductive, TypeOK, AfterInv, LockInv, Procs, Callers, flags, net, Go, Acquire,
        Release, Started, States, Events, Frames, LockedPcs, AbortPcs, WaitPcs, TellPcs,
        AwaitLock, ExitPcs, TaskPcs, SenderPcs, OwnerPcs, HangUp, Written, Part, Lost
<1>1. CASE TaskBegin(t) BY <1>1 DEF TaskBegin
<1>2. CASE TaskToInit(t) BY <1>2 DEF TaskToInit
<1>3. CASE TaskClearBits(t)
  <2>1. stopped' \in BOOLEAN /\ closeSent' \in BOOLEAN
    BY <1>3, Zenon DEF TaskClearBits
  <2>. QED BY <1>3, <2>1 DEF TaskClearBits
<1>4. CASE TaskAnnounce(t) BY <1>4 DEF TaskAnnounce
<1>5. CASE TaskLoop(t) BY <1>5 DEF TaskLoop
<1>6. CASE TaskLock(t) BY <1>6 DEF TaskLock
<1>7. CASE TaskDial(t) BY <1>7 DEF TaskDial
<1>8. CASE TaskConnected(t)
  <2>1. pong' \in BOOLEAN
    BY <1>8, Zenon DEF TaskConnected
  <2>. QED BY <1>8, <2>1 DEF TaskConnected
<1>9. CASE TaskConnectFails(t) BY <1>9 DEF TaskConnectFails
<1>10. CASE TaskPing(t) BY <1>10 DEF TaskPing
<1>11. CASE TaskPongTimeout(t) BY <1>11 DEF TaskPongTimeout
<1>12. CASE TaskElapsed(t) BY <1>12 DEF TaskElapsed
<1>13. CASE TaskEchoClose(t) BY <1>13 DEF TaskEchoClose
<1>14. CASE TaskIdle(t) BY <1>14 DEF TaskIdle
<1>15. CASE TaskUnlock(t) BY <1>15 DEF TaskUnlock
<1>16. CASE TaskDispatch(t) BY <1>16 DEF TaskDispatch
<1>17. CASE TaskDelay(t) BY <1>17 DEF TaskDelay
<1>18. CASE TaskPoll(t) BY <1>18 DEF TaskPoll
<1>19. CASE TaskAbortLock(t) BY <1>19 DEF TaskAbortLock
<1>20. CASE RecvFails(t) BY <1>20 DEF RecvFails
<1>21. CASE RecvTimesOut(t) BY <1>21 DEF RecvTimesOut
<1>22. CASE RecvFrame(t) BY <1>22 DEF RecvFrame
<1>23. CASE RecvPong(t) BY <1>23 DEF RecvPong
<1>24. CASE RecvClose(t) BY <1>24 DEF RecvClose
<1>25. CASE TaskCloseWait(t) BY <1>25 DEF TaskCloseWait
<1>26. CASE TaskServerClose(t) BY <1>26 DEF TaskServerClose
<1>27. CASE TaskRearm(t)
  <2>1. stopped' \in BOOLEAN /\ closeSent' \in BOOLEAN
    BY <1>27, Zenon DEF TaskRearm
  <2>. QED BY <1>27, <2>1 DEF TaskRearm
<1>28. CASE TaskGiveUp(t)
  <2>1. run' \in BOOLEAN
    BY <1>28, Zenon DEF TaskGiveUp
  <2>. QED BY <1>28, <2>1 DEF TaskGiveUp
<1>29. CASE TaskClosed(t) BY <1>29 DEF TaskClosed
<1>30. CASE TaskFinish(t) BY <1>30 DEF TaskFinish
<1>31. CASE TaskExitClose(t) BY <1>31 DEF TaskExitClose
<1>32. CASE TaskSetStopped(t) BY <1>32 DEF TaskSetStopped
<1>33. CASE TaskUnknow(t) BY <1>33 DEF TaskUnknow
<1>34. CASE TaskExit(t) BY <1>34 DEF TaskExit
<1>35. CASE AbortCheck(t) BY <1>35 DEF AbortCheck
<1>36. CASE AbortDrop(t) BY <1>36 DEF AbortDrop
<1>37. CASE AbortNotify(t) BY <1>37 DEF AbortNotify
<1>38. CASE TaskToldUp(t) BY <1>38 DEF TaskToldUp
<1>39. CASE TaskToldClosed(t) BY <1>39 DEF TaskToldClosed
<1>40. CASE RecvHeader(t) BY <1>40 DEF RecvHeader
<1>41. CASE AbortQuit(t)
  <2>1. run' \in BOOLEAN
    BY <1>41, Zenon DEF AbortQuit
  <2>. QED BY <1>41, <2>1 DEF AbortQuit
<1>42. CASE AbortSettle(t) BY <1>42 DEF AbortSettle, AbortState
<1>. QED
  BY <1>1, <1>2, <1>3, <1>4, <1>5, <1>6, <1>7, <1>8, <1>9, <1>10, <1>11, <1>12,
     <1>13, <1>14, <1>15, <1>16, <1>17, <1>18, <1>19, <1>20, <1>21, <1>22,
     <1>23, <1>24, <1>25, <1>26, <1>27, <1>28, <1>29, <1>30, <1>31, <1>32,
     <1>33, <1>34, <1>35, <1>36, <1>37, <1>38, <1>39,
     <1>40, <1>41, <1>42 DEF TaskStep, TaskStart, TaskSwitch,
     TaskLocks, TaskEnd, Recv, Abort

LEMMA TransmitInductive ==
  ASSUME Inductive, NEW p \in Callers, Transmit(p)
  PROVE  Inductive'
<1> USE ProcsDistinct
    DEF Inductive, TypeOK, AfterInv, LockInv, Procs, Callers, flags, net, Go, Acquire,
        Release, Started, States, Events, Frames, LockedPcs, AbortPcs, WaitPcs, TellPcs,
        AwaitLock, ExitPcs, TaskPcs, SenderPcs, OwnerPcs, HangUp, Written, Part, Lost
<1>1. CASE TxLock(p) BY <1>1 DEF TxLock
<1>2. CASE TxSent(p) BY <1>2 DEF TxSent
<1>3. CASE TxFails(p) BY <1>3 DEF TxFails
<1>4. CASE TxUnlock(p) BY <1>4 DEF TxUnlock
<1>5. CASE AbortCheck(p) BY <1>5 DEF AbortCheck
<1>6. CASE AbortDrop(p) BY <1>6 DEF AbortDrop
<1>7. CASE AbortNotify(p) BY <1>7 DEF AbortNotify
<1>8. CASE AbortQuit(p)
  <2>1. run' \in BOOLEAN
    BY <1>8, Zenon DEF AbortQuit
  <2>. QED BY <1>8, <2>1 DEF AbortQuit
<1>9. CASE AbortSettle(p) BY <1>9 DEF AbortSettle, AbortState
<1>. QED BY <1>1, <1>2, <1>3, <1>4, <1>5, <1>6, <1>7, <1>8,
     <1>9 DEF Transmit, Abort

LEMMA SenderInductive ==
  ASSUME Inductive, NEW s \in Senders, SenderStep(s)
  PROVE  Inductive'
<1> USE ProcsDistinct
    DEF Inductive, TypeOK, AfterInv, LockInv, Procs, Callers, flags, net, Go, Acquire,
        Release, Started, States, Events, Frames, LockedPcs, AbortPcs, WaitPcs, TellPcs,
        AwaitLock, ExitPcs, TaskPcs, SenderPcs, OwnerPcs, HangUp, Written, Part, Lost
<1>1. CASE SendCall(s) BY <1>1 DEF SendCall
<1>2. CASE TxLockTimeout(s) BY <1>2 DEF TxLockTimeout
<1>3. CASE Transmit(s) BY <1>3, TransmitInductive
<1>. QED BY <1>1, <1>2, <1>3 DEF SenderStep

LEMMA OwnerInductive ==
  ASSUME Inductive, OwnerCall \/ OwnerStep \/ CloseTimeout
  PROVE  Inductive'
<1> USE ProcsDistinct
    DEF Inductive, TypeOK, AfterInv, LockInv, Procs, Callers, flags, net, Go, Acquire,
        Release, Started, States, Events, Frames, LockedPcs, AbortPcs, WaitPcs, TellPcs,
        AwaitLock, ExitPcs, TaskPcs, SenderPcs, OwnerPcs, HangUp, Written, Part, Lost
<1>1. CASE StartCall BY <1>1 DEF StartCall
<1>2. CASE Spawn BY <1>2 DEF Spawn
<1>3. CASE SpawnFails BY <1>3 DEF SpawnFails
<1>4. CASE StartClearBits
  <2>1. stopped' \in BOOLEAN /\ closeSent' \in BOOLEAN
    BY <1>4, Zenon DEF StartClearBits
  <2>. QED BY <1>4, <2>1 DEF StartClearBits
<1>5. CASE StopCall BY <1>5 DEF StopCall
<1>6. CASE StopRun
  <2>1. run' \in BOOLEAN
    BY <1>6, Zenon DEF StopRun
  <2>. QED BY <1>6, <2>1 DEF StopRun
<1>15. CASE StopWait BY <1>15 DEF StopWait
<1>16. CASE StopUnknow BY <1>16 DEF StopUnknow
<1>7. CASE DestroyCall BY <1>7 DEF DestroyCall
<1>8. CASE DestroyFree BY <1>8 DEF DestroyFree
<1>9. CASE DestroyOnExit BY <1>9 DEF DestroyOnExit
<1>10. CASE CloseCall BY <1>10 DEF CloseCall
<1>11. CASE CloseSetBit BY <1>11 DEF CloseSetBit
<1>12. CASE CloseAcked BY <1>12 DEF CloseAcked
<1>13. CASE CloseTimeout BY <1>13 DEF CloseTimeout
<1>14. CASE Transmit(Owner) BY <1>14, TransmitInductive
<1>. QED BY <1>1, <1>2, <1>3, <1>4, <1>5, <1>6, <1>7, <1>8, <1>9, <1>10, <1>11, <1>12, <1>13, <1>14, <1>15, <1>16 DEF OwnerCall, OwnerStep

LEMMA PeerInductive ==
  ASSUME Inductive, Peer
  PROVE  Inductive'
<1> USE ProcsDistinct
    DEF Inductive, TypeOK, AfterInv, LockInv, Procs, Callers, flags, net, Go, Acquire,
        Release, Started, States, Events, Frames, LockedPcs, AbortPcs, WaitPcs, TellPcs,
        AwaitLock, ExitPcs, TaskPcs, SenderPcs, OwnerPcs, HangUp, Written, Part, Lost
<1>1. CASE PeerSend BY <1>1 DEF PeerSend, Deliver, Begun
<1>2. CASE PeerAnswers BY <1>2 DEF PeerAnswers, Deliver, Begun
<1>3. CASE PeerVanishes BY <1>3 DEF PeerVanishes
<1>4. CASE PeerBegins BY <1>4 DEF PeerBegins
<1>. QED BY <1>1, <1>2, <1>3, <1>4 DEF Peer

LEMMA StepInductive == ASSUME Inductive, [Next]_vars PROVE Inductive'
<1>1. CASE UNCHANGED vars
  BY <1>1 DEF vars, flags, net, Inductive, TypeOK, AfterInv, LockInv
<1>. QED
  BY <1>1, TaskInductive, OwnerInductive, SenderInductive, PeerInductive DEF Next

\* The type invariant holds in every reachable state.
THEOREM TypeCorrect == Spec => []TypeOK
<1>. QED
  BY InitInductive, StepInductive, PTL DEF Spec, Inductive

\* The lock is held exactly inside the locked regions: no path of the client
\* task, of a sender or of close() leaks the lock or gives one it does not hold.
THEOREM LockCorrect == Spec => []LockInv
<1>. QED
  BY InitInductive, StepInductive, PTL DEF Spec, Inductive

-----------------------------------------------------------------------------
(* The invariants about the connection need no strengthening but the types. *)

LEMMA ConnectedHasSocketStep ==
  ASSUME TypeOK, ConnectedHasSocket, [Next]_vars
  PROVE  ConnectedHasSocket'
<1> USE ProcsDistinct DEF ConnectedHasSocket, flags, net, Go, Acquire, Release, Started, Procs,
    Callers, TypeOK, HangUp, Written
<1>1. ASSUME NEW t \in Tasks, TaskStep(t) PROVE ConnectedHasSocket'
  <2>1. CASE TaskBegin(t) BY <2>1 DEF TaskBegin
  <2>2. CASE TaskToInit(t) BY <2>2 DEF TaskToInit
  <2>3. CASE TaskClearBits(t) BY <2>3 DEF TaskClearBits
  <2>4. CASE TaskAnnounce(t) BY <2>4 DEF TaskAnnounce
  <2>5. CASE TaskLoop(t) BY <2>5 DEF TaskLoop
  <2>6. CASE TaskLock(t) BY <2>6 DEF TaskLock
  <2>7. CASE TaskDial(t) BY <2>7 DEF TaskDial
  <2>8. CASE TaskConnected(t) BY <2>8 DEF TaskConnected
  <2>9. CASE TaskConnectFails(t) BY <2>9 DEF TaskConnectFails
  <2>10. CASE TaskPing(t) BY <2>10 DEF TaskPing
  <2>11. CASE TaskPongTimeout(t) BY <2>11 DEF TaskPongTimeout
  <2>12. CASE TaskElapsed(t) BY <2>12 DEF TaskElapsed
  <2>13. CASE TaskEchoClose(t) BY <2>13 DEF TaskEchoClose
  <2>14. CASE TaskIdle(t) BY <2>14 DEF TaskIdle
  <2>15. CASE TaskUnlock(t) BY <2>15 DEF TaskUnlock
  <2>16. CASE TaskDispatch(t) BY <2>16 DEF TaskDispatch
  <2>17. CASE TaskDelay(t) BY <2>17 DEF TaskDelay
  <2>18. CASE TaskPoll(t) BY <2>18 DEF TaskPoll
  <2>19. CASE TaskAbortLock(t) BY <2>19 DEF TaskAbortLock
  <2>20. CASE RecvFails(t) BY <2>20 DEF RecvFails
  <2>21. CASE RecvTimesOut(t) BY <2>21 DEF RecvTimesOut
  <2>22. CASE RecvFrame(t) BY <2>22 DEF RecvFrame
  <2>23. CASE RecvPong(t) BY <2>23 DEF RecvPong
  <2>24. CASE RecvClose(t) BY <2>24 DEF RecvClose
  <2>25. CASE TaskCloseWait(t) BY <2>25 DEF TaskCloseWait
  <2>26. CASE TaskServerClose(t) BY <2>26 DEF TaskServerClose
  <2>27. CASE TaskRearm(t) BY <2>27 DEF TaskRearm
  <2>28. CASE TaskGiveUp(t) BY <2>28 DEF TaskGiveUp
  <2>29. CASE TaskClosed(t) BY <2>29 DEF TaskClosed
  <2>30. CASE TaskFinish(t) BY <2>30 DEF TaskFinish
  <2>31. CASE TaskExitClose(t) BY <2>31 DEF TaskExitClose
  <2>32. CASE TaskSetStopped(t) BY <2>32 DEF TaskSetStopped
  <2>33. CASE TaskUnknow(t) BY <2>33 DEF TaskUnknow
  <2>34. CASE TaskExit(t) BY <2>34 DEF TaskExit
  <2>35. CASE AbortCheck(t) BY <2>35 DEF AbortCheck
  <2>36. CASE AbortDrop(t) BY <2>36 DEF AbortDrop
  <2>37. CASE AbortNotify(t) BY <2>37 DEF AbortNotify
  <2>38. CASE TaskToldUp(t) BY <2>38 DEF TaskToldUp
  <2>39. CASE TaskToldClosed(t) BY <2>39 DEF TaskToldClosed
  <2>40. CASE RecvHeader(t) BY <2>40 DEF RecvHeader
  <2>41. CASE AbortQuit(t) BY <2>41 DEF AbortQuit
  <2>42. CASE AbortSettle(t) BY <2>42 DEF AbortSettle, AbortState
  <2>. QED BY <1>1, <2>1, <2>2, <2>3, <2>4, <2>5, <2>6, <2>7, <2>8, <2>9,
         <2>10, <2>11, <2>12, <2>13, <2>14, <2>15, <2>16, <2>17,
         <2>18, <2>19, <2>20, <2>21, <2>22, <2>23, <2>24, <2>25,
         <2>26, <2>27, <2>28, <2>29, <2>30, <2>31, <2>32, <2>33,
         <2>34, <2>35, <2>36, <2>37, <2>38, <2>39,
       <2>40, <2>41, <2>42 DEF TaskStep, TaskStart, TaskSwitch, TaskLocks,
         TaskEnd, Recv, Abort
<1>2. ASSUME NEW p \in Callers, Transmit(p) PROVE ConnectedHasSocket'
  <2>1. CASE TxLock(p) BY <2>1 DEF TxLock
  <2>2. CASE TxSent(p) BY <2>2 DEF TxSent
  <2>3. CASE TxFails(p) BY <2>3 DEF TxFails
  <2>4. CASE TxUnlock(p) BY <2>4 DEF TxUnlock
  <2>5. CASE AbortCheck(p) BY <2>5 DEF AbortCheck
  <2>6. CASE AbortDrop(p) BY <2>6 DEF AbortDrop
  <2>7. CASE AbortNotify(p) BY <2>7 DEF AbortNotify
  <2>8. CASE AbortQuit(p) BY <2>8 DEF AbortQuit
  <2>9. CASE AbortSettle(p) BY <2>9 DEF AbortSettle, AbortState
  <2>. QED BY <1>2, <2>1, <2>2, <2>3, <2>4, <2>5, <2>6, <2>7, <2>8,
       <2>9 DEF Transmit, Abort
<1>3. ASSUME NEW s \in Senders, SenderStep(s) PROVE ConnectedHasSocket'
  BY <1>2, <1>3 DEF SenderStep, SendCall, TxLockTimeout
<1>4. ASSUME OwnerCall \/ OwnerStep \/ CloseTimeout PROVE ConnectedHasSocket'
  <2>1. CASE StartCall BY <2>1 DEF StartCall
  <2>2. CASE Spawn BY <2>2 DEF Spawn
  <2>3. CASE SpawnFails BY <2>3 DEF SpawnFails
  <2>4. CASE StartClearBits BY <2>4 DEF StartClearBits
  <2>5. CASE StopCall BY <2>5 DEF StopCall
  <2>6. CASE StopRun BY <2>6 DEF StopRun
  <2>7. CASE StopWait BY <2>7 DEF StopWait
  <2>8. CASE StopUnknow BY <2>8 DEF StopUnknow
  <2>9. CASE DestroyCall BY <2>9 DEF DestroyCall
  <2>10. CASE DestroyFree BY <2>10 DEF DestroyFree
  <2>11. CASE DestroyOnExit BY <2>11 DEF DestroyOnExit
  <2>12. CASE CloseCall BY <2>12 DEF CloseCall
  <2>13. CASE CloseSetBit BY <2>13 DEF CloseSetBit
  <2>14. CASE CloseAcked BY <2>14 DEF CloseAcked
  <2>15. CASE CloseTimeout BY <2>15 DEF CloseTimeout
  <2>. QED BY <1>2, <1>4, <2>1, <2>2, <2>3, <2>4, <2>5, <2>6, <2>7, <2>8, <2>9,
         <2>10, <2>11, <2>12, <2>13, <2>14, <2>15 DEF OwnerCall, OwnerStep
<1>5. ASSUME Peer PROVE ConnectedHasSocket'
  <2>1. CASE PeerSend BY <2>1 DEF PeerSend, Deliver, Begun
  <2>2. CASE PeerAnswers BY <2>2 DEF PeerAnswers, Deliver, Begun
  <2>3. CASE PeerVanishes BY <2>3 DEF PeerVanishes
  <2>4. CASE PeerBegins BY <2>4 DEF PeerBegins
  <2>. QED BY <1>5, <2>1, <2>2, <2>3, <2>4 DEF Peer
<1>6. CASE UNCHANGED vars
  BY <1>6 DEF vars
<1>. QED BY <1>1, <1>3, <1>4, <1>5, <1>6 DEF Next

\* A client that says it is connected has not closed its transport, unless somebody
\* is just about to write the state that follows.
THEOREM SocketCorrect == Spec => []ConnectedHasSocket
<1>1. Init => ConnectedHasSocket
  BY DEF Init, ConnectedHasSocket
<1>. QED
  BY <1>1, TypeCorrect, ConnectedHasSocketStep, PTL DEF Spec


\* What the server sends comes behind what is there, or completes the last frame.
LEMMA DeliverArrives ==
  ASSUME TypeOK, Deliver("pong")
  PROVE  \E i \in DOMAIN inbox' : inbox'[i] = "pong"
<1>1. inbox \in Seq(Frames \union {Part})
  BY DEF TypeOK
<1>2. CASE Begun
  <2>1. Len(inbox) \in DOMAIN inbox
    BY <1>1, <1>2 DEF Begun
  <2>2. inbox' = [inbox EXCEPT ![Len(inbox)] = "pong"]
    BY <1>2 DEF Deliver
  <2>. QED BY <1>1, <2>1, <2>2
<1>3. CASE ~Begun
  <2>1. inbox' = Append(inbox, "pong")
    BY <1>3 DEF Deliver
  <2>2. Len(inbox) + 1 \in DOMAIN inbox' /\ inbox'[Len(inbox) + 1] = "pong"
    BY <1>1, <2>1
  <2>. QED BY <2>2
<1>. QED BY <1>2, <1>3

LEMMA DeliverKeepsPong ==
  ASSUME TypeOK, NEW f, Deliver(f), NEW i \in DOMAIN inbox, inbox[i] = "pong"
  PROVE  i \in DOMAIN inbox' /\ inbox'[i] = "pong"
<1>1. inbox \in Seq(Frames \union {Part})
  BY DEF TypeOK
<1>2. CASE Begun
  <2>1. i # Len(inbox)
    BY <1>2 DEF Begun, Part
  <2>2. inbox' = [inbox EXCEPT ![Len(inbox)] = f]
    BY <1>2 DEF Deliver
  <2>. QED BY <1>1, <2>1, <2>2
<1>3. CASE ~Begun
  <2>1. inbox' = Append(inbox, f)
    BY <1>3 DEF Deliver
  <2>. QED BY <1>1, <2>1
<1>. QED BY <1>2, <1>3

LEMMA PongPendingStep ==
  ASSUME TypeOK, PongPending, [Next]_vars
  PROVE  PongPending'
<1> USE ProcsDistinct DEF PongPending, flags, net, Go, Acquire, Release, Callers, TypeOK,
    HangUp, Written, Lost
<1>1. ASSUME NEW t \in Tasks, TaskStep(t) PROVE PongPending'
  <2>1. CASE TaskBegin(t) BY <2>1 DEF TaskBegin
  <2>2. CASE TaskToInit(t) BY <2>2 DEF TaskToInit
  <2>3. CASE TaskClearBits(t) BY <2>3 DEF TaskClearBits
  <2>4. CASE TaskAnnounce(t) BY <2>4 DEF TaskAnnounce
  <2>5. CASE TaskLoop(t) BY <2>5 DEF TaskLoop
  <2>6. CASE TaskLock(t) BY <2>6 DEF TaskLock
  <2>7. CASE TaskDial(t) BY <2>7 DEF TaskDial
  <2>8. CASE TaskConnected(t) BY <2>8 DEF TaskConnected
  <2>9. CASE TaskConnectFails(t) BY <2>9 DEF TaskConnectFails
  <2>10. CASE TaskPing(t) BY <2>10 DEF TaskPing
  <2>11. CASE TaskPongTimeout(t) BY <2>11 DEF TaskPongTimeout
  <2>12. CASE TaskElapsed(t) BY <2>12 DEF TaskElapsed
  <2>13. CASE TaskEchoClose(t) BY <2>13 DEF TaskEchoClose
  <2>14. CASE TaskIdle(t) BY <2>14 DEF TaskIdle
  <2>15. CASE TaskUnlock(t) BY <2>15 DEF TaskUnlock
  <2>16. CASE TaskDispatch(t) BY <2>16 DEF TaskDispatch
  <2>17. CASE TaskDelay(t) BY <2>17 DEF TaskDelay
  <2>18. CASE TaskPoll(t) BY <2>18 DEF TaskPoll
  <2>19. CASE TaskAbortLock(t) BY <2>19 DEF TaskAbortLock
  <2>20. CASE RecvFails(t) BY <2>20 DEF RecvFails
  <2>21. CASE RecvTimesOut(t) BY <2>21 DEF RecvTimesOut
  <2>22. CASE RecvFrame(t)
    <3>1. inbox \in Seq(Frames \union {Part}) /\ inbox # <<>> /\ inbox' = Tail(inbox)
      BY <2>22 DEF RecvFrame
    <3>2. UNCHANGED <<state, sock, toPeer>>
      BY <2>22 DEF RecvFrame
    <3>3. CASE Head(inbox) = "pong"
      BY <2>22, <3>3, Zenon DEF RecvFrame
    <3>4. CASE Head(inbox) # "pong"
      <4>1. SUFFICES ASSUME NEW i \in DOMAIN inbox, inbox[i] = "pong"
                     PROVE  \E j \in DOMAIN inbox' : inbox'[j] = "pong"
        BY <2>22, <3>2 DEF RecvFrame
      <4>2. i # 1
        BY <3>1, <3>4, <4>1
      <4>3. i - 1 \in DOMAIN inbox' /\ inbox'[i - 1] = "pong"
        BY <3>1, <4>1, <4>2
      <4>. QED BY <4>3
    <3>. QED BY <3>3, <3>4
  <2>23. CASE RecvPong(t) BY <2>23 DEF RecvPong
  <2>24. CASE RecvClose(t) BY <2>24 DEF RecvClose
  <2>25. CASE TaskCloseWait(t) BY <2>25 DEF TaskCloseWait
  <2>26. CASE TaskServerClose(t) BY <2>26 DEF TaskServerClose
  <2>27. CASE TaskRearm(t) BY <2>27 DEF TaskRearm
  <2>28. CASE TaskGiveUp(t) BY <2>28 DEF TaskGiveUp
  <2>29. CASE TaskClosed(t) BY <2>29 DEF TaskClosed
  <2>30. CASE TaskFinish(t) BY <2>30 DEF TaskFinish
  <2>31. CASE TaskExitClose(t) BY <2>31 DEF TaskExitClose
  <2>32. CASE TaskSetStopped(t) BY <2>32 DEF TaskSetStopped
  <2>33. CASE TaskUnknow(t) BY <2>33 DEF TaskUnknow
  <2>34. CASE TaskExit(t) BY <2>34 DEF TaskExit
  <2>35. CASE AbortCheck(t) BY <2>35 DEF AbortCheck
  <2>36. CASE AbortDrop(t) BY <2>36 DEF AbortDrop
  <2>37. CASE AbortNotify(t) BY <2>37 DEF AbortNotify
  <2>38. CASE TaskToldUp(t) BY <2>38 DEF TaskToldUp
  <2>39. CASE TaskToldClosed(t) BY <2>39 DEF TaskToldClosed
  <2>40. CASE RecvHeader(t) BY <2>40 DEF RecvHeader
  <2>41. CASE AbortQuit(t) BY <2>41 DEF AbortQuit
  <2>42. CASE AbortSettle(t) BY <2>42 DEF AbortSettle, AbortState
  <2>. QED BY <1>1, <2>1, <2>2, <2>3, <2>4, <2>5, <2>6, <2>7, <2>8, <2>9,
         <2>10, <2>11, <2>12, <2>13, <2>14, <2>15, <2>16, <2>17,
         <2>18, <2>19, <2>20, <2>21, <2>22, <2>23, <2>24, <2>25,
         <2>26, <2>27, <2>28, <2>29, <2>30, <2>31, <2>32, <2>33,
         <2>34, <2>35, <2>36, <2>37, <2>38, <2>39,
       <2>40, <2>41, <2>42 DEF TaskStep, TaskStart, TaskSwitch, TaskLocks,
         TaskEnd, Recv, Abort
<1>2. ASSUME NEW p \in Callers, Transmit(p) PROVE PongPending'
  <2>1. CASE TxLock(p) BY <2>1 DEF TxLock
  <2>2. CASE TxSent(p) BY <2>2 DEF TxSent
  <2>3. CASE TxFails(p) BY <2>3 DEF TxFails
  <2>4. CASE TxUnlock(p) BY <2>4 DEF TxUnlock
  <2>5. CASE AbortCheck(p) BY <2>5 DEF AbortCheck
  <2>6. CASE AbortDrop(p) BY <2>6 DEF AbortDrop
  <2>7. CASE AbortNotify(p) BY <2>7 DEF AbortNotify
  <2>8. CASE AbortQuit(p) BY <2>8 DEF AbortQuit
  <2>9. CASE AbortSettle(p) BY <2>9 DEF AbortSettle, AbortState
  <2>. QED BY <1>2, <2>1, <2>2, <2>3, <2>4, <2>5, <2>6, <2>7, <2>8,
       <2>9 DEF Transmit, Abort
<1>3. ASSUME NEW s \in Senders, SenderStep(s) PROVE PongPending'
  BY <1>2, <1>3 DEF SenderStep, SendCall, TxLockTimeout
<1>4. ASSUME OwnerCall \/ OwnerStep \/ CloseTimeout PROVE PongPending'
  <2>1. CASE StartCall BY <2>1 DEF StartCall
  <2>2. CASE Spawn BY <2>2 DEF Spawn
  <2>3. CASE SpawnFails BY <2>3 DEF SpawnFails
  <2>4. CASE StartClearBits BY <2>4 DEF StartClearBits
  <2>5. CASE StopCall BY <2>5 DEF StopCall
  <2>6. CASE StopRun BY <2>6 DEF StopRun
  <2>7. CASE StopWait BY <2>7 DEF StopWait
  <2>8. CASE StopUnknow BY <2>8 DEF StopUnknow
  <2>9. CASE DestroyCall BY <2>9 DEF DestroyCall
  <2>10. CASE DestroyFree BY <2>10 DEF DestroyFree
  <2>11. CASE DestroyOnExit BY <2>11 DEF DestroyOnExit
  <2>12. CASE CloseCall BY <2>12 DEF CloseCall
  <2>13. CASE CloseSetBit BY <2>13 DEF CloseSetBit
  <2>14. CASE CloseAcked BY <2>14 DEF CloseAcked
  <2>15. CASE CloseTimeout BY <2>15 DEF CloseTimeout
  <2>. QED BY <1>2, <1>4, <2>1, <2>2, <2>3, <2>4, <2>5, <2>6, <2>7, <2>8, <2>9,
         <2>10, <2>11, <2>12, <2>13, <2>14, <2>15 DEF OwnerCall, OwnerStep
<1>5. ASSUME Peer PROVE PongPending'
  <2>1. CASE PeerSend
    <3>1. PICK f \in {"data", "ping", "close"} : Deliver(f)
      BY <2>1 DEF PeerSend
    <3>. QED BY <2>1, <3>1, DeliverKeepsPong DEF PeerSend
  <2>2. CASE PeerAnswers
    <3>1. PICK f \in toPeer \ {Lost} : /\ toPeer' = toPeer \ {f}
                                      /\ Deliver(IF f = "ping" THEN "pong" ELSE "close")
      BY <2>2 DEF PeerAnswers
    <3>2. UNCHANGED <<state, sock, pong>>
      BY <2>2 DEF PeerAnswers
    <3>3. CASE f = "ping"
      BY <3>1, <3>3, DeliverArrives
    <3>4. CASE f # "ping"
      BY <3>1, <3>2, <3>4, DeliverKeepsPong
    <3>. QED BY <3>3, <3>4
  <2>3. CASE PeerVanishes BY <2>3 DEF PeerVanishes
  <2>4. CASE PeerBegins BY <2>4 DEF PeerBegins
  <2>. QED BY <1>5, <2>1, <2>2, <2>3, <2>4 DEF Peer
<1>6. CASE UNCHANGED vars
  BY <1>6 DEF vars
<1>. QED BY <1>1, <1>3, <1>4, <1>5, <1>6 DEF Next

\* The PONG timeout only ever ends a connection on which the client asked for a PONG.
THEOREM PongCorrect == Spec => []PongPending
<1>1. Init => PongPending
  BY DEF Init, PongPending
<1>. QED
  BY <1>1, TypeCorrect, PongPendingStep, PTL DEF Spec

=============================================================================
