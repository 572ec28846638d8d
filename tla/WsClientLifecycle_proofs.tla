---------------------- MODULE WsClientLifecycle_proofs ----------------------
(***************************************************************************)
(* The life of one client task, for every set of tasks and senders.  The   *)
(* first parts hold under every scheduler, most of them as long as there   *)
(* is one client task at a time, which is so if start is called only when  *)
(* no task is left: stop and destroy_on_exit wait for something that a     *)
(* task will do, events come in order (the client implements WsEvents),    *)
(* and a client given to destroy_on_exit is freed alone.  The last part is *)
(* what the priorities of one core add: no caller runs between two steps   *)
(* of a client task that does not block.  A client that always reconnects  *)
(* does not block while its state or its bit says that it is stopped, so   *)
(* start, stop and destroy never meet its task in its first or last steps, *)
(* and one task at a time, and a safe destroy, come for nothing.  Without  *)
(* close_reconnect its last handler runs under the state UNKNOW, and on    *)
(* two cores (run destroy_smp) nothing holds a caller back.                *)
(***************************************************************************)
EXTENDS WsClient_proofs

LeavingPcs == {"none", "unknow", "exit"}
StoppedPcs == LeavingPcs \union {"begin", "toInit", "toClear"}
UnknowPcs  == {"none", "begin", "toInit", "exit"}

Quiet       == \A t \in Tasks : pc[t] = "none"
SendersIdle == \A s \in Senders : pc[s] = "idle"

\* start was called when no client task was left.
SpawnInv == SingleTask /\ (pc[Owner] = "spawn" => Quiet)

\* Where the client task can be when its bit says that it is stopped: on its way
\* out, or, until start has cleared the bit, on its way in.
StopInv ==
  \A t \in Tasks :
    /\ stopped => pc[t] \in StoppedPcs
    /\ stopped /\ pc[Owner] # "clearbits" => pc[t] \in LeavingPcs
    /\ pc[Owner] = "stopUnknow" => pc[t] \in LeavingPcs

-----------------------------------------------------------------------------
(* What one step of a client task does to what the invariants look at.     *)

LEMMA TaskEffect ==
  ASSUME TypeOK, NEW t \in Tasks, TaskStep(t)
  PROVE  /\ pc[t] # "none"
         /\ pc' = [pc EXCEPT ![t] = pc'[t]]
         /\ after'[Owner] = after[Owner]
         /\ selected' = selected
         /\ freed' # freed => selected /\ pc[t] = "exit" /\ pc'[t] = "none"
         /\ CloseReconnect /\ pc[t] # "giveup" => pc'[t] \notin {"giveup", "giveup2"}
         /\ AutoReconnect /\ pc[t] # "giveup2" /\ state' = "UNKNOW" =>
              pc'[t] \in UnknowPcs \/ (state = "UNKNOW" /\ pc[t] \notin UnknowPcs)
         /\ stopped' =>
              pc'[t] \in StoppedPcs \/ (stopped /\ pc[t] \notin StoppedPcs)
         /\ stopped' => stopped \/ pc'[t] \in LeavingPcs
         /\ pc[t] \in LeavingPcs => pc'[t] \in LeavingPcs
         /\ stopped' \/ pc'[t] \notin LeavingPcs \/ (~stopped /\ pc[t] \in LeavingPcs)
         /\ pc'[t] = "none" /\ selected => freed'
<1> USE ProcsDistinct
    DEF TypeOK, Procs, Callers, flags, net, Go, Acquire, Release, Started, UnknowPcs,
        StoppedPcs, LeavingPcs, ExitPcs
<1>1. CASE TaskBegin(t) BY <1>1 DEF TaskBegin
<1>2. CASE TaskToInit(t) BY <1>2 DEF TaskToInit
<1>3. CASE TaskClearBits(t) BY <1>3 DEF TaskClearBits
<1>4. CASE TaskAnnounce(t) BY <1>4 DEF TaskAnnounce
<1>5. CASE TaskLoop(t) BY <1>5 DEF TaskLoop
<1>6. CASE TaskLock(t) BY <1>6 DEF TaskLock
<1>7. CASE TaskDial(t) BY <1>7 DEF TaskDial
<1>8. CASE TaskConnected(t) BY <1>8 DEF TaskConnected
<1>9. CASE TaskConnectFails(t) BY <1>9 DEF TaskConnectFails
<1>10. CASE TaskPing(t) BY <1>10 DEF TaskPing
<1>11. CASE TaskPongTimeout(t) BY <1>11 DEF TaskPongTimeout
<1>12. CASE TaskElapsed(t) BY <1>12 DEF TaskElapsed
<1>13. CASE TaskEchoClose(t) BY <1>13 DEF TaskEchoClose
<1>14. CASE TaskIdle(t) BY <1>14 DEF TaskIdle
<1>15. CASE TaskUnlock(t) BY <1>15 DEF TaskUnlock
<1>16. CASE TaskDispatch(t) BY <1>16 DEF TaskDispatch
<1>17. CASE TaskDelay(t) BY <1>17 DEF TaskDelay
<1>18. CASE TaskPoll(t) BY <1>18 DEF TaskPoll
<1>19. CASE TaskAbortLock(t) BY <1>19 DEF TaskAbortLock
<1>20. CASE RecvFails(t) BY <1>20 DEF RecvFails
<1>21. CASE RecvTimesOut(t) BY <1>21 DEF RecvTimesOut
<1>22. CASE RecvFrame(t) BY <1>22 DEF RecvFrame
<1>23. CASE RecvPong(t) BY <1>23 DEF RecvPong
<1>24. CASE RecvClose(t) BY <1>24 DEF RecvClose
<1>25. CASE TaskCloseWait(t) BY <1>25 DEF TaskCloseWait
<1>26. CASE TaskServerClose(t) BY <1>26 DEF TaskServerClose
<1>27. CASE TaskRearm(t) BY <1>27 DEF TaskRearm
<1>28. CASE TaskGiveUp(t) BY <1>28 DEF TaskGiveUp
<1>29. CASE TaskClosed(t) BY <1>29 DEF TaskClosed
<1>30. CASE TaskFinish(t) BY <1>30 DEF TaskFinish
<1>31. CASE TaskExitClose(t) BY <1>31 DEF TaskExitClose
<1>32. CASE TaskSetStopped(t) BY <1>32 DEF TaskSetStopped
<1>33. CASE TaskUnknow(t) BY <1>33 DEF TaskUnknow
<1>34. CASE TaskExit(t) BY <1>34 DEF TaskExit
<1>35. CASE AbortCheck(t) BY <1>35 DEF AbortCheck
<1>36. CASE AbortDrop(t) BY <1>36 DEF AbortDrop
<1>38. CASE TaskToldUp(t) BY <1>38 DEF TaskToldUp
<1>39. CASE TaskToldClosed(t) BY <1>39 DEF TaskToldClosed
<1>40. CASE RecvHeader(t) BY <1>40 DEF RecvHeader
<1>41. CASE AbortQuit(t) BY <1>41 DEF AbortQuit
<1>42. CASE AbortSettle(t) BY <1>42 DEF AbortSettle, AbortState
<1>37. CASE AbortNotify(t) BY <1>37 DEF AbortNotify
<1>. QED
  BY <1>1, <1>2, <1>3, <1>4, <1>5, <1>6, <1>7, <1>8, <1>9, <1>10, <1>11, <1>12,
     <1>13, <1>14, <1>15, <1>16, <1>17, <1>18, <1>19, <1>20, <1>21, <1>22,
     <1>23, <1>24, <1>25, <1>26, <1>27, <1>28, <1>29, <1>30, <1>31, <1>32,
     <1>33, <1>34, <1>35, <1>36, <1>37, <1>38, <1>39, <1>40,
     <1>41, <1>42 DEF TaskStep, TaskStart, TaskSwitch,
       TaskLocks, TaskEnd, Recv, Abort

-----------------------------------------------------------------------------
(* One client task at a time.                                              *)

LEMMA AloneTask ==
  ASSUME TypeOK, SingleTask, NEW t \in Tasks, TaskStep(t)
  PROVE  /\ pc[t] # "none" /\ pc' = [pc EXCEPT ![t] = pc'[t]]
         /\ \A u \in Tasks : u # t => pc[u] = "none" /\ pc'[u] = "none"
         /\ \A p \in Callers : pc'[p] = pc[p]
<1>. QED BY TaskEffect, ProcsDistinct DEF SingleTask, TypeOK, Procs, Callers

\* What a caller does to what the invariants of this part look at.
CallerEffect ==
  /\ \A t \in Tasks : pc'[t] = pc[t]
  /\ pc'[Owner] \notin {"spawn", "stopUnknow"} \/ pc'[Owner] = pc[Owner]
  /\ pc'[Owner] = pc[Owner] \/ pc[Owner] # "clearbits"
  /\ UNCHANGED <<stopped, selected, freed>>

LEMMA TransmitEffect ==
  ASSUME TypeOK, AfterInv, NEW p \in Callers, Transmit(p)
  PROVE  CallerEffect
<1> USE ProcsDistinct
    DEF CallerEffect, AfterInv, TypeOK, Procs, Callers, flags, net, Go, Acquire,
        Release, AbortPcs
<1>1. CASE TxLock(p) BY <1>1 DEF TxLock
<1>2. CASE TxSent(p) BY <1>2 DEF TxSent
<1>3. CASE TxFails(p) BY <1>3 DEF TxFails
<1>4. CASE TxUnlock(p) BY <1>4 DEF TxUnlock
<1>5. CASE AbortCheck(p) BY <1>5 DEF AbortCheck
<1>6. CASE AbortDrop(p) BY <1>6 DEF AbortDrop
<1>30. CASE AbortQuit(p) BY <1>30 DEF AbortQuit
<1>31. CASE AbortSettle(p) BY <1>31 DEF AbortSettle, AbortState
<1>7. CASE AbortNotify(p) BY <1>7 DEF AbortNotify
<1>. QED
  BY <1>1, <1>2, <1>3, <1>4, <1>5, <1>6, <1>7, <1>30, <1>31
     DEF Transmit, Abort

LEMMA SenderEffect ==
  ASSUME TypeOK, AfterInv, NEW s \in Senders, SenderStep(s)
  PROVE  CallerEffect
<1> USE ProcsDistinct DEF CallerEffect, TypeOK, Procs, Callers, flags, net, Go
<1>1. CASE SendCall(s) BY <1>1 DEF SendCall
<1>2. CASE TxLockTimeout(s) BY <1>2 DEF TxLockTimeout
<1>3. CASE Transmit(s) BY <1>3, TransmitEffect
<1>. QED BY <1>1, <1>2, <1>3 DEF SenderStep

LEMMA SpawnOwner ==
  ASSUME TypeOK, AfterInv, SpawnInv, OwnerCall \/ OwnerStep \/ CloseTimeout, StartCall => Quiet
  PROVE  SpawnInv'
<1> USE ProcsDistinct
    DEF SpawnInv, SingleTask, Quiet, AfterInv, TypeOK, Procs, Callers, flags, net, Go
<1>1. CASE StartCall BY <1>1 DEF StartCall
<1>2. CASE Spawn BY <1>2 DEF Spawn
<1>3. CASE SpawnFails BY <1>3 DEF SpawnFails
<1>4. CASE StartClearBits BY <1>4 DEF StartClearBits
<1>5. CASE StopCall BY <1>5 DEF StopCall
<1>6. CASE StopRun BY <1>6 DEF StopRun
<1>7. CASE StopWait BY <1>7 DEF StopWait
<1>8. CASE StopUnknow BY <1>8 DEF StopUnknow
<1>9. CASE DestroyCall BY <1>9 DEF DestroyCall
<1>10. CASE DestroyFree BY <1>10 DEF DestroyFree
<1>11. CASE DestroyOnExit BY <1>11 DEF DestroyOnExit
<1>12. CASE CloseCall BY <1>12 DEF CloseCall
<1>13. CASE CloseSetBit BY <1>13 DEF CloseSetBit
<1>14. CASE CloseAcked BY <1>14 DEF CloseAcked
<1>15. CASE CloseTimeout BY <1>15 DEF CloseTimeout
<1>16. CASE Transmit(Owner) BY <1>16, TransmitEffect DEF CallerEffect
<1>. QED
  BY <1>1, <1>2, <1>3, <1>4, <1>5, <1>6, <1>7, <1>8, <1>9, <1>10, <1>11, <1>12,
     <1>13, <1>14, <1>15, <1>16 DEF OwnerCall, OwnerStep

LEMMA SpawnStep ==
  ASSUME TypeOK, AfterInv, SpawnInv, [Next]_vars, [StartCall => Quiet]_vars
  PROVE  SpawnInv'
<1>1. CASE Peer \/ UNCHANGED vars
  BY <1>1 DEF Peer, PeerSend, PeerAnswers, PeerVanishes, PeerBegins, vars, SpawnInv, SingleTask, Quiet
<1>2. ASSUME NEW t \in Tasks, TaskStep(t) PROVE SpawnInv'
  BY <1>2, AloneTask DEF SpawnInv, SingleTask, Quiet, Callers
<1>3. ASSUME NEW s \in Senders, SenderStep(s) PROVE SpawnInv'
  BY <1>3, SenderEffect DEF CallerEffect, SpawnInv, SingleTask, Quiet
<1>4. CASE OwnerCall \/ OwnerStep \/ CloseTimeout
  <2>1. StartCall => Quiet
    <3>1. ASSUME StartCall PROVE vars' # vars
      BY <3>1, ProcsDistinct DEF StartCall, Go, vars, TypeOK, Procs, Callers
    <3>. QED BY <3>1
  <2>. QED BY <1>4, <2>1, SpawnOwner
<1>. QED
  BY <1>1, <1>2, <1>3, <1>4 DEF Next

\* Two client tasks exist only if start was called while one was left: under every
\* scheduler and configuration, if start is never called then, there is never more
\* than one.
THEOREM OneTaskAtATime == Spec /\ CreateIsQuiet => []SingleTask
<1>1. Init => SpawnInv
  BY ProcsDistinct DEF Init, SpawnInv, SingleTask, Quiet, Procs, Callers
<1>2. Inductive /\ SpawnInv /\ [Next]_vars /\ [StartCall => Quiet]_vars => SpawnInv'
  BY SpawnStep DEF Inductive
<1>3. SpawnInv => SingleTask
  BY DEF SpawnInv
<1>4. CreateIsQuiet <=> [][StartCall => Quiet]_vars
  BY DEF CreateIsQuiet, Quiet
<1>. QED
  BY <1>1, <1>2, <1>3, <1>4, InitInductive, StepInductive, PTL DEF Spec

LEMMA StopInit == ASSUME Init PROVE StopInv
<1>. QED BY ProcsDistinct DEF Init, StopInv, StoppedPcs, LeavingPcs, Procs, Callers

LEMMA StopOwner ==
  ASSUME TypeOK, AfterInv, StopInv, SingleTask', OwnerCall \/ OwnerStep \/ CloseTimeout
  PROVE  StopInv'
<1> USE ProcsDistinct
    DEF StopInv, SingleTask, StoppedPcs, LeavingPcs, AfterInv, TypeOK, Procs, Callers,
        flags, net, Go
<1>1. CASE StartCall BY <1>1 DEF StartCall
<1>2. CASE Spawn BY <1>2 DEF Spawn
<1>3. CASE SpawnFails BY <1>3 DEF SpawnFails
<1>4. CASE StartClearBits BY <1>4 DEF StartClearBits
<1>5. CASE StopCall BY <1>5 DEF StopCall
<1>6. CASE StopRun BY <1>6 DEF StopRun
<1>7. CASE StopWait BY <1>7 DEF StopWait
<1>8. CASE StopUnknow BY <1>8 DEF StopUnknow
<1>9. CASE DestroyCall BY <1>9 DEF DestroyCall
<1>10. CASE DestroyFree BY <1>10 DEF DestroyFree
<1>11. CASE DestroyOnExit BY <1>11 DEF DestroyOnExit
<1>12. CASE CloseCall BY <1>12 DEF CloseCall
<1>13. CASE CloseSetBit BY <1>13 DEF CloseSetBit
<1>14. CASE CloseAcked BY <1>14 DEF CloseAcked
<1>15. CASE CloseTimeout BY <1>15 DEF CloseTimeout
<1>16. CASE Transmit(Owner) BY <1>16, TransmitEffect DEF CallerEffect
<1>. QED
  BY <1>1, <1>2, <1>3, <1>4, <1>5, <1>6, <1>7, <1>8, <1>9, <1>10, <1>11, <1>12,
     <1>13, <1>14, <1>15, <1>16 DEF OwnerCall, OwnerStep

LEMMA StopStep ==
  ASSUME TypeOK, AfterInv, SingleTask, SingleTask', StopInv, [Next]_vars
  PROVE  StopInv'
<1>1. CASE Peer \/ UNCHANGED vars
  BY <1>1 DEF Peer, PeerSend, PeerAnswers, PeerVanishes, PeerBegins, vars, flags, StopInv
<1>2. ASSUME NEW t \in Tasks, TaskStep(t) PROVE StopInv'
  BY <1>2, TaskEffect, AloneTask DEF StopInv, StoppedPcs, LeavingPcs, Callers
<1>3. ASSUME NEW s \in Senders, SenderStep(s) PROVE StopInv'
  BY <1>3, SenderEffect DEF CallerEffect, StopInv
<1>. QED
  BY <1>1, <1>2, <1>3, StopOwner DEF Next

-----------------------------------------------------------------------------
(* Whoever waits for the end of the task is not forgotten.                 *)

\* What start has to do for that: clear the bits before a client task ends.
ClearsInTime == [][StartClearBits => \E t \in Tasks : pc[t] \notin LeavingPcs]_vars

\* STOPPED_BIT is set, or a client task has yet to set it.
BitWillBeSet == ~stopped => \E t \in Tasks : pc[t] \notin LeavingPcs

\* What the application has to do for that: call destroy_on_exit while a task is left.
GivenInTime == [][DestroyOnExit => ~Quiet]_vars

\* A client given to destroy_on_exit is freed, or a client task has yet to free it.
WillBeFreed == selected => freed \/ ~Quiet

LEMMA BitOwner ==
  ASSUME TypeOK, AfterInv, BitWillBeSet, OwnerCall \/ OwnerStep \/ CloseTimeout,
         StartClearBits => \E t \in Tasks : pc[t] \notin LeavingPcs
  PROVE  BitWillBeSet'
<1> USE ProcsDistinct
    DEF BitWillBeSet, LeavingPcs, AfterInv, TypeOK, Procs, Callers, flags, net, Go
<1>1. CASE StartCall BY <1>1 DEF StartCall
<1>2. CASE Spawn BY <1>2 DEF Spawn
<1>3. CASE SpawnFails BY <1>3 DEF SpawnFails
<1>4. CASE StartClearBits BY <1>4 DEF StartClearBits
<1>5. CASE StopCall BY <1>5 DEF StopCall
<1>6. CASE StopRun BY <1>6 DEF StopRun
<1>7. CASE StopWait BY <1>7 DEF StopWait
<1>8. CASE StopUnknow BY <1>8 DEF StopUnknow
<1>9. CASE DestroyCall BY <1>9 DEF DestroyCall
<1>10. CASE DestroyFree BY <1>10 DEF DestroyFree
<1>11. CASE DestroyOnExit BY <1>11 DEF DestroyOnExit
<1>12. CASE CloseCall BY <1>12 DEF CloseCall
<1>13. CASE CloseSetBit BY <1>13 DEF CloseSetBit
<1>14. CASE CloseAcked BY <1>14 DEF CloseAcked
<1>15. CASE CloseTimeout BY <1>15 DEF CloseTimeout
<1>16. CASE Transmit(Owner) BY <1>16, TransmitEffect DEF CallerEffect
<1>. QED
  BY <1>1, <1>2, <1>3, <1>4, <1>5, <1>6, <1>7, <1>8, <1>9, <1>10, <1>11, <1>12,
     <1>13, <1>14, <1>15, <1>16 DEF OwnerCall, OwnerStep

LEMMA BitStep ==
  ASSUME TypeOK, AfterInv, BitWillBeSet, [Next]_vars,
         [StartClearBits => \E t \in Tasks : pc[t] \notin LeavingPcs]_vars
  PROVE  BitWillBeSet'
<1>1. CASE Peer \/ UNCHANGED vars
  BY <1>1 DEF Peer, PeerSend, PeerAnswers, PeerVanishes, PeerBegins, vars, flags,
              BitWillBeSet
<1>2. ASSUME NEW s \in Senders, SenderStep(s) PROVE BitWillBeSet'
  BY <1>2, SenderEffect DEF CallerEffect, BitWillBeSet
<1>3. CASE OwnerCall \/ OwnerStep \/ CloseTimeout
  <2>1. StartClearBits => \E t \in Tasks : pc[t] \notin LeavingPcs
    <3>1. ASSUME StartClearBits PROVE vars' # vars
      BY <3>1, ProcsDistinct DEF StartClearBits, Go, vars, TypeOK, Procs, Callers
    <3>. QED BY <3>1
  <2>. QED BY <1>3, <2>1, BitOwner
<1>4. ASSUME NEW t \in Tasks, TaskStep(t) PROVE BitWillBeSet'
  <2>1. \A u \in Tasks : u # t => pc'[u] = pc[u]
    BY <1>4, TaskEffect DEF TypeOK, Procs
  <2>. QED BY <1>4, <2>1, TaskEffect DEF BitWillBeSet
<1>. QED
  BY <1>1, <1>2, <1>3, <1>4 DEF Next

\* A stop, or the stop in a close or destroy, waits for STOPPED_BIT only while it is
\* set or a task has yet to set it, under every scheduler and configuration, with
\* any number of tasks, provided that no start clears the bit after its task has set
\* it (run stop_hang shows what happens otherwise).
THEOREM StopIsAnswered == Spec /\ ClearsInTime => []BitWillBeSet
<1>1. Init => BitWillBeSet
  BY DEF Init, BitWillBeSet
<1>2. Inductive /\ BitWillBeSet /\ [Next]_vars
        /\ [StartClearBits => \E t \in Tasks : pc[t] \notin LeavingPcs]_vars
        => BitWillBeSet'
  BY BitStep DEF Inductive
<1>. QED
  BY <1>1, <1>2, InitInductive, StepInductive, PTL DEF Spec, ClearsInTime

LEMMA GivenOwner ==
  ASSUME TypeOK, AfterInv, WillBeFreed, OwnerCall \/ OwnerStep \/ CloseTimeout,
         DestroyOnExit => ~Quiet
  PROVE  WillBeFreed'
<1> USE ProcsDistinct
    DEF WillBeFreed, Quiet, AfterInv, TypeOK, Procs, Callers, flags, net, Go
<1>1. CASE StartCall BY <1>1 DEF StartCall
<1>2. CASE Spawn BY <1>2 DEF Spawn
<1>3. CASE SpawnFails BY <1>3 DEF SpawnFails
<1>4. CASE StartClearBits BY <1>4 DEF StartClearBits
<1>5. CASE StopCall BY <1>5 DEF StopCall
<1>6. CASE StopRun BY <1>6 DEF StopRun
<1>7. CASE StopWait BY <1>7 DEF StopWait
<1>8. CASE StopUnknow BY <1>8 DEF StopUnknow
<1>9. CASE DestroyCall BY <1>9 DEF DestroyCall
<1>10. CASE DestroyFree BY <1>10 DEF DestroyFree
<1>11. CASE DestroyOnExit BY <1>11 DEF DestroyOnExit
<1>12. CASE CloseCall BY <1>12 DEF CloseCall
<1>13. CASE CloseSetBit BY <1>13 DEF CloseSetBit
<1>14. CASE CloseAcked BY <1>14 DEF CloseAcked
<1>15. CASE CloseTimeout BY <1>15 DEF CloseTimeout
<1>16. CASE Transmit(Owner) BY <1>16, TransmitEffect DEF CallerEffect
<1>. QED
  BY <1>1, <1>2, <1>3, <1>4, <1>5, <1>6, <1>7, <1>8, <1>9, <1>10, <1>11, <1>12,
     <1>13, <1>14, <1>15, <1>16 DEF OwnerCall, OwnerStep

LEMMA GivenStep ==
  ASSUME TypeOK, AfterInv, WillBeFreed, [Next]_vars, [DestroyOnExit => ~Quiet]_vars
  PROVE  WillBeFreed'
<1>1. CASE Peer \/ UNCHANGED vars
  BY <1>1 DEF Peer, PeerSend, PeerAnswers, PeerVanishes, PeerBegins, vars, flags,
              WillBeFreed, Quiet
<1>2. ASSUME NEW s \in Senders, SenderStep(s) PROVE WillBeFreed'
  BY <1>2, SenderEffect DEF CallerEffect, WillBeFreed, Quiet
<1>3. CASE OwnerCall \/ OwnerStep \/ CloseTimeout
  <2>1. DestroyOnExit => ~Quiet
    <3>1. ASSUME DestroyOnExit PROVE vars' # vars
      BY <3>1, ProcsDistinct DEF DestroyOnExit, Go, vars, TypeOK, Procs, Callers
    <3>. QED BY <3>1
  <2>. QED BY <1>3, <2>1, GivenOwner
<1>4. ASSUME NEW t \in Tasks, TaskStep(t) PROVE WillBeFreed'
  <2>1. CASE pc'[t] # "none" BY <2>1 DEF WillBeFreed, Quiet
  <2>2. CASE pc'[t] = "none"
    <3>1. selected => freed'
      BY <1>4, <2>2, TaskEffect
    <3>. QED BY <1>4, <3>1, TaskEffect DEF WillBeFreed
  <2>. QED BY <2>1, <2>2
<1>. QED
  BY <1>1, <1>2, <1>3, <1>4 DEF Next

\* destroy_on_exit never leaks a client whose task was not gone yet when it was called:
\* until the client is freed a client task is left that will free it, however many
\* tasks there are and whatever the sessions were, under every scheduler.
THEOREM ExitIsAnswered == Spec /\ GivenInTime => []WillBeFreed
<1>1. Init => WillBeFreed
  BY DEF Init, WillBeFreed
<1>2. Inductive /\ WillBeFreed /\ [Next]_vars /\ [DestroyOnExit => ~Quiet]_vars
        => WillBeFreed'
  BY GivenStep DEF Inductive
<1>. QED
  BY <1>1, <1>2, InitInductive, StepInductive, PTL DEF Spec, GivenInTime

-----------------------------------------------------------------------------
(* A client that always reconnects.                                        *)

\* The way out of a task that gives up.
GivingUp == {"giveup", "giveup2", "tellclosed"}

\* With close_reconnect the task leaves its loop only when it was told to; and it has
\* not left when start clears the bits.
RunInv ==
  /\ \A t \in Tasks : /\ pc[t] \notin GivingUp
                      /\ pc[t] \in ExitPcs => ~run
  /\ run => ~Quiet
  /\ pc[Owner] = "clearbits" => run \/ \E t \in Tasks : pc[t] = "begin"

LEMMA RunEffect ==
  ASSUME AutoReconnect, CloseReconnect, TypeOK, AfterInv, NEW t \in Tasks, TaskStep(t),
         pc[t] \notin GivingUp, pc[t] \in ExitPcs => ~run
  PROVE  /\ pc'[t] \notin GivingUp
         /\ pc'[t] \in ExitPcs => ~run'
         /\ run => run'
         /\ pc[t] = "begin" => run'
         /\ pc'[t] = "none" => ~run'
<1> USE ProcsDistinct
    DEF AfterInv, TypeOK, Procs, Callers, flags, net, Go, Acquire, Release, Started,
        ExitPcs, AbortPcs, GivingUp
<1>1. CASE TaskBegin(t) BY <1>1 DEF TaskBegin
<1>2. CASE TaskToInit(t) BY <1>2 DEF TaskToInit
<1>3. CASE TaskClearBits(t) BY <1>3 DEF TaskClearBits
<1>4. CASE TaskAnnounce(t) BY <1>4 DEF TaskAnnounce
<1>5. CASE TaskLoop(t) BY <1>5 DEF TaskLoop
<1>6. CASE TaskLock(t) BY <1>6 DEF TaskLock
<1>7. CASE TaskDial(t) BY <1>7 DEF TaskDial
<1>8. CASE TaskConnected(t) BY <1>8 DEF TaskConnected
<1>9. CASE TaskConnectFails(t) BY <1>9 DEF TaskConnectFails
<1>10. CASE TaskPing(t) BY <1>10 DEF TaskPing
<1>11. CASE TaskPongTimeout(t) BY <1>11 DEF TaskPongTimeout
<1>12. CASE TaskElapsed(t) BY <1>12 DEF TaskElapsed
<1>13. CASE TaskEchoClose(t) BY <1>13 DEF TaskEchoClose
<1>14. CASE TaskIdle(t) BY <1>14 DEF TaskIdle
<1>15. CASE TaskUnlock(t) BY <1>15 DEF TaskUnlock
<1>16. CASE TaskDispatch(t) BY <1>16 DEF TaskDispatch
<1>17. CASE TaskDelay(t) BY <1>17 DEF TaskDelay
<1>18. CASE TaskPoll(t) BY <1>18 DEF TaskPoll
<1>19. CASE TaskAbortLock(t) BY <1>19 DEF TaskAbortLock
<1>20. CASE RecvFails(t) BY <1>20 DEF RecvFails
<1>21. CASE RecvTimesOut(t) BY <1>21 DEF RecvTimesOut
<1>22. CASE RecvFrame(t) BY <1>22 DEF RecvFrame
<1>23. CASE RecvPong(t) BY <1>23 DEF RecvPong
<1>24. CASE RecvClose(t) BY <1>24 DEF RecvClose
<1>25. CASE TaskCloseWait(t) BY <1>25 DEF TaskCloseWait
<1>26. CASE TaskServerClose(t) BY <1>26 DEF TaskServerClose
<1>27. CASE TaskRearm(t) BY <1>27 DEF TaskRearm
<1>28. CASE TaskGiveUp(t) BY <1>28 DEF TaskGiveUp
<1>29. CASE TaskClosed(t) BY <1>29 DEF TaskClosed
<1>30. CASE TaskFinish(t) BY <1>30 DEF TaskFinish
<1>31. CASE TaskExitClose(t) BY <1>31 DEF TaskExitClose
<1>32. CASE TaskSetStopped(t) BY <1>32 DEF TaskSetStopped
<1>33. CASE TaskUnknow(t) BY <1>33 DEF TaskUnknow
<1>34. CASE TaskExit(t) BY <1>34 DEF TaskExit
<1>35. CASE AbortCheck(t) BY <1>35 DEF AbortCheck
<1>36. CASE AbortDrop(t) BY <1>36 DEF AbortDrop
<1>38. CASE TaskToldUp(t) BY <1>38 DEF TaskToldUp
<1>39. CASE TaskToldClosed(t) BY <1>39 DEF TaskToldClosed
<1>40. CASE RecvHeader(t) BY <1>40 DEF RecvHeader
<1>41. CASE AbortQuit(t) BY <1>41 DEF AbortQuit
<1>42. CASE AbortSettle(t) BY <1>42 DEF AbortSettle, AbortState
<1>37. CASE AbortNotify(t) BY <1>37 DEF AbortNotify
<1>. QED
  BY <1>1, <1>2, <1>3, <1>4, <1>5, <1>6, <1>7, <1>8, <1>9, <1>10, <1>11, <1>12,
   <1>13, <1>14, <1>15, <1>16, <1>17, <1>18, <1>19, <1>20, <1>21, <1>22,
   <1>23, <1>24, <1>25, <1>26, <1>27, <1>28, <1>29, <1>30, <1>31, <1>32,
   <1>33, <1>34, <1>35, <1>36, <1>37, <1>38, <1>39, <1>40,
     <1>41, <1>42 DEF TaskStep, TaskStart, TaskSwitch,
       TaskLocks, TaskEnd, Recv, Abort

LEMMA RunTask ==
  ASSUME AutoReconnect, CloseReconnect, TypeOK, AfterInv, SingleTask, RunInv,
         NEW t \in Tasks, TaskStep(t)
  PROVE  RunInv'
<1>1. /\ pc[t] # "none" /\ pc' = [pc EXCEPT ![t] = pc'[t]]
      /\ \A u \in Tasks : u # t => pc[u] = "none" /\ pc'[u] = "none"
      /\ pc'[Owner] = pc[Owner]
  BY AloneTask DEF Callers
<1>2. /\ pc'[t] \notin GivingUp /\ (pc'[t] \in ExitPcs => ~run')
      /\ (run => run') /\ (pc[t] = "begin" => run') /\ (pc'[t] = "none" => ~run')
  BY RunEffect DEF RunInv
<1>3. run' => ~Quiet'
  BY <1>2 DEF Quiet
<1>4. pc'[Owner] = "clearbits" => run'
  BY <1>1, <1>2 DEF RunInv
<1>. QED
  BY <1>1, <1>2, <1>3, <1>4 DEF RunInv, ExitPcs, GivingUp

LEMMA RunTransmit ==
  ASSUME AutoReconnect, TypeOK, AfterInv, RunInv, NEW p \in Callers, Transmit(p)
  PROVE  RunInv'
<1> USE ProcsDistinct
    DEF RunInv, Quiet, AfterInv, TypeOK, Procs, Callers, flags, net, Go, Acquire,
        Release, AbortPcs
<1>1. CASE TxLock(p) BY <1>1 DEF TxLock
<1>2. CASE TxSent(p) BY <1>2 DEF TxSent
<1>3. CASE TxFails(p) BY <1>3 DEF TxFails
<1>4. CASE TxUnlock(p) BY <1>4 DEF TxUnlock
<1>5. CASE AbortCheck(p) BY <1>5 DEF AbortCheck
<1>6. CASE AbortDrop(p) BY <1>6 DEF AbortDrop
<1>30. CASE AbortQuit(p) BY <1>30 DEF AbortQuit
<1>31. CASE AbortSettle(p) BY <1>31 DEF AbortSettle, AbortState
<1>7. CASE AbortNotify(p) BY <1>7 DEF AbortNotify
<1>. QED
  BY <1>1, <1>2, <1>3, <1>4, <1>5, <1>6, <1>7, <1>30, <1>31
     DEF Transmit, Abort

LEMMA RunSender ==
  ASSUME AutoReconnect, TypeOK, AfterInv, RunInv, NEW s \in Senders, SenderStep(s)
  PROVE  RunInv'
<1> USE ProcsDistinct DEF RunInv, Quiet, TypeOK, Procs, Callers, flags, net, Go
<1>1. CASE SendCall(s) BY <1>1 DEF SendCall
<1>2. CASE TxLockTimeout(s) BY <1>2 DEF TxLockTimeout
<1>3. CASE Transmit(s) BY <1>3, RunTransmit
<1>. QED BY <1>1, <1>2, <1>3 DEF SenderStep

LEMMA RunOwner ==
  ASSUME AutoReconnect, TypeOK, AfterInv, RunInv, OwnerCall \/ OwnerStep \/ CloseTimeout
  PROVE  RunInv'
<1> USE ProcsDistinct
    DEF RunInv, Quiet, ExitPcs, GivingUp, AfterInv, TypeOK, Procs, Callers, flags, net,
        Go
<1>1. CASE StartCall BY <1>1 DEF StartCall
<1>2. CASE Spawn BY <1>2 DEF Spawn
<1>3. CASE SpawnFails BY <1>3 DEF SpawnFails
<1>4. CASE StartClearBits BY <1>4 DEF StartClearBits
<1>5. CASE StopCall BY <1>5 DEF StopCall
<1>6. CASE StopRun BY <1>6 DEF StopRun
<1>7. CASE StopWait BY <1>7 DEF StopWait
<1>8. CASE StopUnknow BY <1>8 DEF StopUnknow
<1>9. CASE DestroyCall BY <1>9 DEF DestroyCall
<1>10. CASE DestroyFree BY <1>10 DEF DestroyFree
<1>11. CASE DestroyOnExit BY <1>11 DEF DestroyOnExit
<1>12. CASE CloseCall BY <1>12 DEF CloseCall
<1>13. CASE CloseSetBit BY <1>13 DEF CloseSetBit
<1>14. CASE CloseAcked BY <1>14 DEF CloseAcked
<1>15. CASE CloseTimeout BY <1>15 DEF CloseTimeout
<1>16. CASE Transmit(Owner) BY <1>16, RunTransmit
<1>. QED
  BY <1>1, <1>2, <1>3, <1>4, <1>5, <1>6, <1>7, <1>8, <1>9, <1>10, <1>11, <1>12,
     <1>13, <1>14, <1>15, <1>16 DEF OwnerCall, OwnerStep

LEMMA RunInit == ASSUME Init PROVE RunInv
<1>. QED
  BY ProcsDistinct DEF Init, RunInv, Quiet, ExitPcs, GivingUp, Procs, Callers

LEMMA RunStep ==
  ASSUME AutoReconnect, CloseReconnect, TypeOK, AfterInv, SingleTask, RunInv, [Next]_vars
  PROVE  RunInv'
<1>1. CASE Peer \/ UNCHANGED vars
  BY <1>1 DEF Peer, PeerSend, PeerAnswers, PeerVanishes, PeerBegins, vars, flags, RunInv, Quiet
<1>. QED
  BY <1>1, RunTask, RunOwner, RunSender DEF Next

\* A client that dials again after every loss and every close does clear the bits in
\* time, under every scheduler, as long as there is one task at a time: its stops are
\* answered.
THEOREM AlwaysAnswered ==
  ASSUME AutoReconnect, CloseReconnect
  PROVE  Spec /\ []SingleTask => []BitWillBeSet
<1>1. Inductive /\ SingleTask /\ RunInv /\ [Next]_vars => RunInv'
  BY RunStep DEF Inductive
<1>2. Inductive /\ RunInv
        => [StartClearBits => \E t \in Tasks : pc[t] \notin LeavingPcs]_vars
  <2>. SUFFICES ASSUME Inductive, RunInv, StartClearBits
                PROVE  \E t \in Tasks : pc[t] \notin LeavingPcs
    OBVIOUS
  <2>1. run \/ \E t \in Tasks : pc[t] = "begin"
    BY DEF StartClearBits, Go, RunInv
  <2>. QED BY <2>1 DEF RunInv, Quiet, LeavingPcs, ExitPcs
<1>3. Spec /\ []SingleTask => ClearsInTime
  BY <1>1, <1>2, RunInit, InitInductive, StepInductive, PTL DEF Spec, ClearsInTime
<1>. QED BY <1>3, StopIsAnswered, PTL

-----------------------------------------------------------------------------
(* The order of the events: WsClient implements WsEvents.                  *)

Live == \E t \in Tasks : InSession(t)

\* Callers that write on the connection report its loss, too.
LateEvents == Senders # {} \/ "close" \in Ops
WritePcs   == {"txlock", "tx", "unlock"} \union AbortPcs

\* Where the client task has a connection, or has just lost one.
OnlinePcs == {"poll", "recv", "inframe", "pong", "closing", "closewait", "serverclose",
              "giveup", "giveup2", "abortlock"}
OnlineEvs == IF LateEvents THEN {"CONNECTED", "DISCONNECTED"} ELSE {"CONNECTED"}

\* Where a task is in an attempt to connect that was announced.
Attempting(t) ==
  \/ pc[t] \in {"connect", "check"} /\ state = "INIT"
  \/ pc[t] \in AbortPcs \ {"check"}

\* What the last event says of the state and of where the processes are.
OrderInv ==
  /\ Live => ev \notin {"none", "FINISH"}
  /\ ~Live => ev \in {"none", "FINISH", "DISCONNECTED"}
  /\ ev = "none" => /\ state \in {"UNKNOW", "INIT"}
                    /\ \A p \in Callers : pc[p] \notin WritePcs
  /\ ev = "BEFORE_CONNECT" => \E t \in Tasks : Attempting(t)
  /\ \A t \in Tasks :
       /\ pc[t] = "connect" => ev = "BEFORE_CONNECT" /\ state = "INIT"
       /\ pc[t] \in OnlinePcs => ev \in OnlineEvs
       /\ pc[t] \in AbortPcs /\ ~LateEvents => ev \in {"BEFORE_CONNECT", "CONNECTED"}
       /\ pc[t] = "notify" => state = AbortState
  /\ Live /\ state \in {"CONNECTED", "CLOSING"} => ev \in OnlineEvs
  /\ state \in {"CONNECTED", "CLOSING"} =>
       \E t \in Tasks : InSession(t) \/ pc[t] \in {"exitclose", "setbit", "unknow"}
  /\ Live /\ state \in {"INIT", "WAIT_TIMEOUT"} /\ ev = "CONNECTED" =>
       \E p \in Procs : pc[p] = "notify"
  /\ ~LateEvents => \A p \in Callers : pc[p] \notin WritePcs

\* The same when every other client task is gone.
OneOrderInv(t) ==
  /\ InSession(t) => ev \notin {"none", "FINISH"}
  /\ ~InSession(t) => ev \in {"none", "FINISH", "DISCONNECTED"}
  /\ ev = "none" => /\ state \in {"UNKNOW", "INIT"}
                    /\ \A p \in Callers : pc[p] \notin WritePcs
  /\ ev = "BEFORE_CONNECT" => Attempting(t)
  /\ pc[t] = "connect" => ev = "BEFORE_CONNECT" /\ state = "INIT"
  /\ pc[t] \in OnlinePcs => ev \in OnlineEvs
  /\ pc[t] \in AbortPcs /\ ~LateEvents => ev \in {"BEFORE_CONNECT", "CONNECTED"}
  /\ pc[t] = "notify" => state = AbortState
  /\ InSession(t) /\ state \in {"CONNECTED", "CLOSING"} => ev \in OnlineEvs
  /\ state \in {"CONNECTED", "CLOSING"} =>
       InSession(t) \/ pc[t] \in {"exitclose", "setbit", "unknow"}
  /\ InSession(t) /\ state \in {"INIT", "WAIT_TIMEOUT"} /\ ev = "CONNECTED" =>
       \E p \in Procs : pc[p] = "notify"
  /\ ~LateEvents => \A p \in Callers : pc[p] \notin WritePcs

\* What a step of the client task may do to the order.
EventStep(t) ==
  \/ ev' = ev /\ (InSession(t)' <=> InSession(t))
  \/ ~InSession(t) /\ InSession(t)' /\ ev' = "BEGIN"
  \/ /\ InSession(t) /\ ~InSession(t)'
     /\ ev # "BEFORE_CONNECT" /\ ev' = "FINISH"
  \/ /\ InSession(t) /\ InSession(t)'
     /\ \/ ev \in {"BEGIN", "DISCONNECTED", "CLOSED"} /\ ev' = "BEFORE_CONNECT"
        \/ ev = "BEFORE_CONNECT" /\ ev' = "CONNECTED"
        \/ ev \in {"BEFORE_CONNECT", "CONNECTED"} /\ ev' = "DISCONNECTED"
        \/ ev \in {"BEGIN", "CLOSED"} /\ LateEvents /\ ev' = "DISCONNECTED"
        \/ ev = "CONNECTED" /\ ev' = "CLOSED"
        \/ ev = "DISCONNECTED" /\ LateEvents /\ ev' = "CLOSED"

LEMMA OrderInit == ASSUME Init PROVE OrderInv /\ Order!Init
<1>. QED
  BY ProcsDistinct
     DEF Init, OrderInv, Order!Init, Live, InSession, Attempting, WritePcs, OnlinePcs,
         AbortPcs, ExitPcs, Procs, Callers

LEMMA OrderTask ==
  ASSUME Inductive, SingleTask, OrderInv, NEW t \in Tasks, TaskStep(t)
  PROVE  OrderInv' /\ [Order!Next]_(Order!vars)
<1>1. /\ pc[t] # "none"
      /\ \A u \in Tasks : u # t => pc[u] = "none" /\ pc'[u] = "none"
  BY AloneTask DEF Inductive
<1>2. Live = InSession(t) /\ Live' = InSession(t)'
  BY <1>1 DEF Live, InSession
<1>3. OneOrderInv(t)
  BY <1>1, <1>2 DEF OneOrderInv, OrderInv, Attempting, InSession, AbortPcs
<1>4. OneOrderInv(t)' => OrderInv'
  BY <1>1, <1>2
     DEF OneOrderInv, OrderInv, Attempting, InSession, OnlinePcs, AbortPcs
<1>5. OneOrderInv(t)' /\ EventStep(t)
  <2> USE <1>1, <1>3, ProcsDistinct
      DEF Inductive, TypeOK, Events, LockInv, AfterInv, LockedPcs, OneOrderInv,
          EventStep, InSession, Attempting, WritePcs, OnlinePcs, OnlineEvs, AbortPcs,
          ExitPcs, AbortState, Procs, Callers, flags, net, Go, Acquire, Release, Started
  <2>1. CASE TaskBegin(t) BY <2>1 DEF TaskBegin
  <2>2. CASE TaskToInit(t) BY <2>2 DEF TaskToInit
  <2>3. CASE TaskClearBits(t) BY <2>3 DEF TaskClearBits
  <2>4. CASE TaskAnnounce(t) BY <2>4 DEF TaskAnnounce
  <2>5. CASE TaskLoop(t) BY <2>5 DEF TaskLoop
  <2>6. CASE TaskLock(t) BY <2>6 DEF TaskLock
  <2>7. CASE TaskDial(t) BY <2>7 DEF TaskDial
  <2>8. CASE TaskConnected(t) BY <2>8 DEF TaskConnected
  <2>9. CASE TaskConnectFails(t) BY <2>9 DEF TaskConnectFails
  <2>10. CASE TaskPing(t) BY <2>10 DEF TaskPing
  <2>11. CASE TaskPongTimeout(t) BY <2>11 DEF TaskPongTimeout
  <2>12. CASE TaskElapsed(t) BY <2>12 DEF TaskElapsed
  <2>13. CASE TaskEchoClose(t) BY <2>13 DEF TaskEchoClose
  <2>14. CASE TaskIdle(t) BY <2>14 DEF TaskIdle
  <2>15. CASE TaskUnlock(t) BY <2>15 DEF TaskUnlock
  <2>16. CASE TaskDispatch(t) BY <2>16 DEF TaskDispatch
  <2>17. CASE TaskDelay(t) BY <2>17 DEF TaskDelay
  <2>18. CASE TaskPoll(t) BY <2>18 DEF TaskPoll
  <2>19. CASE TaskAbortLock(t) BY <2>19 DEF TaskAbortLock
  <2>20. CASE RecvFails(t) BY <2>20 DEF RecvFails
  <2>21. CASE RecvTimesOut(t) BY <2>21 DEF RecvTimesOut
  <2>22. CASE RecvFrame(t) BY <2>22 DEF RecvFrame
  <2>23. CASE RecvPong(t) BY <2>23 DEF RecvPong
  <2>24. CASE RecvClose(t) BY <2>24 DEF RecvClose
  <2>25. CASE TaskCloseWait(t) BY <2>25 DEF TaskCloseWait
  <2>26. CASE TaskServerClose(t) BY <2>26 DEF TaskServerClose
  <2>27. CASE TaskRearm(t) BY <2>27 DEF TaskRearm
  <2>28. CASE TaskGiveUp(t) BY <2>28 DEF TaskGiveUp
  <2>29. CASE TaskClosed(t) BY <2>29 DEF TaskClosed
  <2>30. CASE TaskFinish(t) BY <2>30 DEF TaskFinish
  <2>31. CASE TaskExitClose(t) BY <2>31 DEF TaskExitClose
  <2>32. CASE TaskSetStopped(t) BY <2>32 DEF TaskSetStopped
  <2>33. CASE TaskUnknow(t) BY <2>33 DEF TaskUnknow
  <2>34. CASE TaskExit(t) BY <2>34 DEF TaskExit
  <2>35. CASE AbortCheck(t) BY <2>35 DEF AbortCheck
  <2>36. CASE AbortDrop(t) BY <2>36 DEF AbortDrop
  <2>38. CASE TaskToldUp(t) BY <2>38 DEF TaskToldUp
  <2>39. CASE TaskToldClosed(t) BY <2>39 DEF TaskToldClosed
  <2>40. CASE RecvHeader(t) BY <2>40 DEF RecvHeader
  <2>41. CASE AbortQuit(t) BY <2>41 DEF AbortQuit
  <2>42. CASE AbortSettle(t) BY <2>42 DEF AbortSettle, AbortState
  <2>37. CASE AbortNotify(t)
    <3>1. /\ pc[t] = "notify" /\ pc'[t] \in {"unlock", "unlockLoop"}
          /\ ev' = "DISCONNECTED" /\ UNCHANGED <<state, lock>> /\ lock = t
          /\ \A p \in Callers : pc'[p] = pc[p]
      BY <2>37 DEF AbortNotify
    <3>2. InSession(t) /\ InSession(t)'
      BY <3>1
    <3>3. \/ ev \in {"BEFORE_CONNECT", "CONNECTED"}
          \/ LateEvents /\ ev \in {"BEGIN", "CLOSED", "DISCONNECTED"}
      BY <3>1, <3>2
    <3>4. EventStep(t)
      BY <3>1, <3>2, <3>3
    <3>5. OneOrderInv(t)'
      BY <3>1, <3>2, <3>3 DEF LateEvents
    <3>. QED BY <3>4, <3>5
  <2>. QED
    BY <2>1, <2>2, <2>3, <2>4, <2>5, <2>6, <2>7, <2>8, <2>9, <2>10, <2>11, <2>12,
       <2>13, <2>14, <2>15, <2>16, <2>17, <2>18, <2>19, <2>20, <2>21, <2>22,
       <2>23, <2>24, <2>25, <2>26, <2>27, <2>28, <2>29, <2>30, <2>31, <2>32,
       <2>33, <2>34, <2>35, <2>36, <2>37, <2>38, <2>39, <2>40,
     <2>41, <2>42 DEF TaskStep, TaskStart, TaskSwitch,
         TaskLocks, TaskEnd, Recv, Abort
<1>6. [Order!Next]_(Order!vars)
  BY <1>2, <1>5 DEF EventStep, Live, LateEvents,
         Order!Next, Order!vars, Order!Begin, Order!Attempt, Order!Up,
         Order!Down, Order!Closed, Order!Finish, Order!LateDown, Order!LateClosed
<1>. QED BY <1>4, <1>5, <1>6

LEMMA OrderNotify ==
  ASSUME Inductive, OrderInv, NEW p \in Callers, AbortNotify(p)
  PROVE  OrderInv' /\ [Order!Next]_(Order!vars)
<1>1. LateEvents /\ lock = p /\ p \notin Tasks /\ ev' = "DISCONNECTED"
  BY ProcsDistinct
     DEF AbortNotify, Go, OrderInv, Inductive, LockInv, LockedPcs, AbortPcs, WritePcs,
         Procs, Callers
<1>2. \A t \in Tasks : pc'[t] = pc[t] /\ pc[t] \notin LockedPcs
  BY <1>1, ProcsDistinct DEF AbortNotify, Go, Inductive, LockInv, TypeOK, Procs
<1>3. Live' <=> Live
  BY <1>2 DEF Live, InSession
<1>4. ev \notin {"none", "BEFORE_CONNECT"}
  BY <1>1, <1>2, ProcsDistinct
     DEF AbortNotify, Go, OrderInv, Attempting, WritePcs, LockedPcs, AbortPcs
<1>5. OrderInv'
  BY <1>1, <1>2, <1>3, <1>4
     DEF OrderInv, AbortNotify, Go, Attempting, OnlineEvs, LockedPcs, InSession, flags,
         LateEvents, AbortPcs
<1>6. [Order!Next]_(Order!vars)
  BY <1>1, <1>3, <1>4
     DEF OrderInv, Inductive, TypeOK, Events, Live, LateEvents,
         Order!Next, Order!vars, Order!Begin, Order!Attempt, Order!Up,
         Order!Down, Order!Closed, Order!Finish, Order!LateDown, Order!LateClosed
<1>. QED BY <1>5, <1>6

\* Any other step of a caller leaves the order alone.
Quietly ==
  /\ ev' = ev
  /\ \A t \in Tasks : InSession(t)' <=> InSession(t)

LEMMA QuietlyStutters == ASSUME Quietly PROVE [Order!Next]_(Order!vars)
<1>. QED BY DEF Quietly, Order!vars

LEMMA OrderTransmit ==
  ASSUME Inductive, OrderInv, NEW p \in Callers, Transmit(p)
  PROVE  OrderInv' /\ [Order!Next]_(Order!vars)
<1>1. CASE AbortNotify(p) BY <1>1, OrderNotify
<1>2. CASE ~AbortNotify(p)
  <2>1. OrderInv' /\ Quietly
    <3> USE ProcsDistinct
        DEF Inductive, TypeOK, LockInv, AfterInv, LockedPcs, OrderInv, Live,
            Quietly, InSession, Attempting, WritePcs, OnlinePcs, OnlineEvs, AbortPcs,
            ExitPcs, Procs, Callers, flags, net, Go, Acquire, Release, Started
    <3>1. CASE TxLock(p) BY <3>1 DEF TxLock
    <3>2. CASE TxSent(p) BY <3>2 DEF TxSent
    <3>3. CASE TxFails(p) BY <3>3 DEF TxFails
    <3>4. CASE TxUnlock(p) BY <3>4 DEF TxUnlock
    <3>5. CASE AbortCheck(p) BY <3>5 DEF AbortCheck
    <3>6. CASE AbortDrop(p) BY <3>6 DEF AbortDrop
    <3>30. CASE AbortQuit(p) BY <3>30 DEF AbortQuit
    <3>31. CASE AbortSettle(p) BY <3>31 DEF AbortSettle, AbortState
    <3>. QED
      BY <1>2, <3>1, <3>2, <3>3, <3>4, <3>5, <3>6, <3>30, <3>31 DEF Transmit, Abort
  <2>. QED BY <2>1, QuietlyStutters
<1>. QED BY <1>1, <1>2

LEMMA OrderSender ==
  ASSUME Inductive, OrderInv, NEW s \in Senders, SenderStep(s)
  PROVE  OrderInv' /\ [Order!Next]_(Order!vars)
<1>1. CASE Transmit(s) BY <1>1, OrderTransmit DEF Callers
<1>2. CASE SendCall(s) \/ TxLockTimeout(s)
  <2>1. OrderInv' /\ Quietly
    BY <1>2, ProcsDistinct
       DEF Inductive, TypeOK, OrderInv, Live, Quietly, InSession, Attempting, WritePcs,
           OnlinePcs, OnlineEvs, AbortPcs, LateEvents, Procs, Callers, flags, Go,
           SendCall, TxLockTimeout
  <2>. QED BY <2>1, QuietlyStutters
<1>. QED BY <1>1, <1>2 DEF SenderStep

LEMMA OrderOwner ==
  ASSUME Inductive, SingleTask, SingleTask', StopInv, OrderInv,
         OwnerCall \/ OwnerStep \/ CloseTimeout
  PROVE  OrderInv' /\ [Order!Next]_(Order!vars)
<1>1. CASE Transmit(Owner) BY <1>1, OrderTransmit DEF Callers
<1>2. CASE ~Transmit(Owner)
  <2>1. OrderInv' /\ Quietly
    <3> USE ProcsDistinct
        DEF Inductive, TypeOK, LockInv, AfterInv, StopInv, SingleTask, LeavingPcs,
            LockedPcs, OrderInv, Live, Quietly, InSession, Attempting, WritePcs,
            OnlinePcs, OnlineEvs, AbortPcs, ExitPcs, LateEvents, Procs, Callers, flags,
            net, Go, Started
    <3>1. CASE StartCall BY <3>1 DEF StartCall
    <3>2. CASE Spawn BY <3>2 DEF Spawn
    <3>3. CASE SpawnFails BY <3>3 DEF SpawnFails
    <3>4. CASE StartClearBits BY <3>4 DEF StartClearBits
    <3>5. CASE StopCall BY <3>5 DEF StopCall
    <3>6. CASE StopRun BY <3>6 DEF StopRun
    <3>7. CASE StopWait BY <3>7 DEF StopWait
    <3>8. CASE StopUnknow BY <3>8 DEF StopUnknow
    <3>9. CASE DestroyCall BY <3>9 DEF DestroyCall
    <3>10. CASE DestroyFree BY <3>10 DEF DestroyFree
    <3>11. CASE DestroyOnExit BY <3>11 DEF DestroyOnExit
    <3>12. CASE CloseCall BY <3>12 DEF CloseCall
    <3>13. CASE CloseSetBit BY <3>13 DEF CloseSetBit
    <3>14. CASE CloseAcked BY <3>14 DEF CloseAcked
    <3>15. CASE CloseTimeout BY <3>15 DEF CloseTimeout
    <3>. QED
      BY <1>2, <3>1, <3>2, <3>3, <3>4, <3>5, <3>6, <3>7, <3>8, <3>9, <3>10, <3>11,
         <3>12, <3>13, <3>14, <3>15 DEF OwnerCall, OwnerStep
  <2>. QED BY <2>1, QuietlyStutters
<1>. QED BY <1>1, <1>2

LEMMA OrderStep ==
  ASSUME Inductive, SingleTask, SingleTask', StopInv, OrderInv, [Next]_vars
  PROVE  OrderInv' /\ [Order!Next]_(Order!vars)
<1>1. CASE Peer \/ UNCHANGED vars
  <2>1. UNCHANGED <<state, ev, pc>>
    BY <1>1 DEF Peer, PeerSend, PeerAnswers, PeerVanishes, PeerBegins, vars
  <2>2. OrderInv' /\ Quietly
    BY <2>1
       DEF OrderInv, Live, Quietly, InSession, Attempting, WritePcs, OnlinePcs, AbortPcs
  <2>. QED BY <2>2, QuietlyStutters
<1>. QED
  BY <1>1, OrderTask, OrderOwner, OrderSender DEF Next

\* As long as there is one client task at a time the client implements the order of
\* events that WsEvents states: an application's handler never sees another order,
\* over any number of sessions, connections and senders, under every scheduler and
\* every configuration, with the reconnection of the client switched off, too.
THEOREM OrderOfOneTask == Spec /\ []SingleTask => EventOrder
<1>1. Init => StopInv /\ OrderInv /\ Order!Init
  BY StopInit, OrderInit
<1>2. Inductive /\ SingleTask /\ SingleTask' /\ StopInv /\ OrderInv /\ [Next]_vars
        => StopInv' /\ OrderInv' /\ [Order!Next]_(Order!vars)
  BY StopStep, OrderStep DEF Inductive
<1>. QED
  BY <1>1, <1>2, InitInductive, StepInductive, PTL DEF Spec, EventOrder, Order!Spec

-----------------------------------------------------------------------------
(* Who is inside a client that was given up.                               *)

\* Who can still be inside a client that is given up.
FreeInv ==
  /\ pc[Owner] # "gone" => ~selected /\ ~freed
  /\ selected => SendersIdle
  /\ freed => Quiet /\ SendersIdle
  /\ after[Owner] = "free" =>
       /\ "destroy" \in Ops
       /\ pc[Owner] \in {"stopRun", "stopWait", "stopUnknow", "free", "gone"}
       /\ SendersIdle
  /\ pc[Owner] = "free" => after[Owner] = "free" /\ Quiet

LEMMA FreeInit == ASSUME Init PROVE FreeInv
<1>. QED BY ProcsDistinct DEF Init, FreeInv, Quiet, SendersIdle, Procs, Callers

LEMMA FreeTask ==
  ASSUME TypeOK, SingleTask, FreeInv, NEW t \in Tasks, TaskStep(t)
  PROVE  FreeInv'
<1>1. \A p \in Callers : pc'[p] = pc[p]
  BY AloneTask
<1>2. pc'[Owner] = pc[Owner] /\ (SendersIdle => SendersIdle')
  BY <1>1 DEF SendersIdle, Callers
<1>3. ~Quiet /\ ~freed /\ pc[Owner] # "free"
  BY AloneTask DEF Quiet, FreeInv
<1>4. freed' => selected /\ pc'[t] = "none"
  BY <1>3, TaskEffect
<1>5. pc'[t] = "none" => Quiet'
  BY AloneTask DEF Quiet
<1>6. freed' => Quiet' /\ SendersIdle' /\ pc[Owner] = "gone"
  BY <1>2, <1>3, <1>4, <1>5 DEF FreeInv
<1>. QED
  BY <1>2, <1>3, <1>6, TaskEffect DEF FreeInv

LEMMA FreeTransmit ==
  ASSUME TypeOK, AfterInv, FreeInv, NEW p \in Callers, Transmit(p)
  PROVE  FreeInv'
<1> USE ProcsDistinct
    DEF FreeInv, SendersIdle, Quiet, AfterInv, TypeOK, Procs, Callers, flags, net, Go,
        Acquire, Release, AbortPcs
<1>1. CASE TxLock(p) BY <1>1 DEF TxLock
<1>2. CASE TxSent(p) BY <1>2 DEF TxSent
<1>3. CASE TxFails(p) BY <1>3 DEF TxFails
<1>4. CASE TxUnlock(p) BY <1>4 DEF TxUnlock
<1>5. CASE AbortCheck(p) BY <1>5 DEF AbortCheck
<1>6. CASE AbortDrop(p) BY <1>6 DEF AbortDrop
<1>30. CASE AbortQuit(p) BY <1>30 DEF AbortQuit
<1>31. CASE AbortSettle(p) BY <1>31 DEF AbortSettle, AbortState
<1>7. CASE AbortNotify(p) BY <1>7 DEF AbortNotify
<1>. QED
  BY <1>1, <1>2, <1>3, <1>4, <1>5, <1>6, <1>7, <1>30, <1>31
     DEF Transmit, Abort

LEMMA FreeSender ==
  ASSUME TypeOK, AfterInv, FreeInv, NEW s \in Senders, SenderStep(s)
  PROVE  FreeInv'
<1> USE ProcsDistinct
    DEF FreeInv, SendersIdle, Quiet, TypeOK, Procs, Callers, flags, net, Go
<1>1. CASE SendCall(s) BY <1>1 DEF SendCall, HandleValid
<1>2. CASE TxLockTimeout(s) BY <1>2 DEF TxLockTimeout
<1>3. CASE Transmit(s) BY <1>3, FreeTransmit
<1>. QED BY <1>1, <1>2, <1>3 DEF SenderStep

\* destroy finds no client task where it skips or ends its wait for the task.
DestroyFindsNone ==
  /\ "destroy" \in Ops /\ stopped => Quiet
  /\ pc[Owner] = "stopUnknow" /\ after[Owner] = "free" => Quiet

LEMMA FreeOwner ==
  ASSUME TypeOK, AfterInv, FreeInv, DestroyFindsNone, OwnerCall \/ OwnerStep \/ CloseTimeout
  PROVE  FreeInv'
<1> USE ProcsDistinct
    DEF FreeInv, SendersIdle, Quiet, AfterInv, TypeOK, Procs, Callers, flags, net, Go,
        Acquire, Release, HandleValid
<1>1. CASE StartCall BY <1>1 DEF StartCall
<1>2. CASE Spawn BY <1>2 DEF Spawn
<1>3. CASE SpawnFails BY <1>3 DEF SpawnFails
<1>4. CASE StartClearBits BY <1>4 DEF StartClearBits
<1>5. CASE StopCall BY <1>5 DEF StopCall
<1>6. CASE StopRun BY <1>6 DEF StopRun
<1>7. CASE StopWait BY <1>7 DEF StopWait
<1>8. CASE StopUnknow
  BY <1>8 DEF StopUnknow, DestroyFindsNone
<1>9. CASE DestroyCall
  BY <1>9 DEF DestroyCall, DestroyFindsNone
<1>10. CASE DestroyFree BY <1>10 DEF DestroyFree
<1>11. CASE DestroyOnExit BY <1>11 DEF DestroyOnExit
<1>12. CASE CloseCall BY <1>12 DEF CloseCall
<1>13. CASE CloseSetBit BY <1>13 DEF CloseSetBit
<1>14. CASE CloseAcked BY <1>14 DEF CloseAcked
<1>15. CASE CloseTimeout BY <1>15 DEF CloseTimeout
<1>. QED
  BY FreeTransmit, <1>1, <1>2, <1>3, <1>4, <1>5, <1>6, <1>7, <1>8, <1>9, <1>10,
     <1>11, <1>12, <1>13, <1>14, <1>15 DEF OwnerCall, OwnerStep

LEMMA FreeStep ==
  ASSUME TypeOK, AfterInv, SingleTask, FreeInv, [Next]_vars,
         Scheduled => DestroyFindsNone
  PROVE  FreeInv'
<1>1. CASE Peer \/ UNCHANGED vars
  BY <1>1 DEF Peer, PeerSend, PeerAnswers, PeerVanishes, PeerBegins, vars, flags, FreeInv,
              SendersIdle, Quiet
<1>. QED
  BY <1>1, FreeTask, FreeOwner, FreeSender DEF Next

\* Under every scheduler, and with every configuration, nobody is left inside a client
\* that was given to destroy_on_exit when it is freed, neither its task nor a sender:
\* as long as there is one client task at a time, and destroy is not called.
THEOREM FreedOfOneTask ==
  ASSUME "destroy" \notin Ops
  PROVE  Spec /\ []SingleTask => []NoUseAfterFree
<1>1. Init => FreeInv
  BY FreeInit
<1>2. Inductive /\ SingleTask /\ FreeInv /\ [Next]_vars => FreeInv'
  BY FreeStep DEF Inductive, FreeInv, DestroyFindsNone
<1>3. FreeInv => NoUseAfterFree
  BY DEF FreeInv, NoUseAfterFree, Quiet, SendersIdle
<1>. QED
  BY <1>1, <1>2, <1>3, InitInductive, StepInductive, PTL DEF Spec

-----------------------------------------------------------------------------
(* One core.                                                               *)

\* Where a client task can be under a state or a status bit that says it is not
\* there.  It blocks at none of these places, if it never gives up: then it would
\* say UNKNOW and tell the application of the CLOSED connection, which may block.
SoloInv ==
  /\ SingleTask
  /\ \A t \in Tasks : pc[t] \notin {"giveup", "giveup2"}
  /\ \A t \in Tasks : state = "UNKNOW" => pc[t] \in UnknowPcs
  /\ \A t \in Tasks : stopped => pc[t] \in StoppedPcs
  /\ pc[Owner] \in {"spawn", "stopUnknow"} => Quiet

LEMMA SoloInit == ASSUME Init PROVE SoloInv
<1>. QED
  BY ProcsDistinct
     DEF Init, SoloInv, SingleTask, UnknowPcs, StoppedPcs, LeavingPcs, Quiet, Procs,
         Callers

LEMMA SoloTask ==
  ASSUME AutoReconnect, CloseReconnect, TypeOK, SoloInv, NEW t \in Tasks, TaskStep(t)
  PROVE  SoloInv'
<1>1. \A u \in Tasks : u # t => pc[u] = "none" /\ pc'[u] = "none"
  BY AloneTask DEF SoloInv
<1>2. SingleTask'
  BY <1>1 DEF SingleTask
<1>3. \A u \in Tasks : state' = "UNKNOW" => pc'[u] \in UnknowPcs
  BY <1>1, TaskEffect DEF SoloInv, UnknowPcs
<1>4. \A u \in Tasks : stopped' => pc'[u] \in StoppedPcs
  BY <1>1, TaskEffect DEF SoloInv, StoppedPcs, LeavingPcs
<1>5. pc'[Owner] \notin {"spawn", "stopUnknow"}
  BY AloneTask DEF SoloInv, Quiet, Callers
<1>6. \A u \in Tasks : pc'[u] \notin {"giveup", "giveup2"}
  BY <1>1, TaskEffect DEF SoloInv
<1>. QED BY <1>2, <1>3, <1>4, <1>5, <1>6 DEF SoloInv

\* A caller that finds the client stopped, or its state UNKNOW, finds no task.
LEMMA CallerFindsNone ==
  ASSUME Priority, SoloInv, Scheduled, state = "UNKNOW" \/ stopped
  PROVE  Quiet
<1>. QED
  BY DEF SoloInv, Scheduled, Blocked, Quiet, UnknowPcs, StoppedPcs, LeavingPcs, WaitPcs,
         TellPcs, AwaitLock

LEMMA SoloTransmit ==
  ASSUME AutoReconnect, TypeOK, SoloInv, NEW p \in Callers, Transmit(p)
  PROVE  SoloInv'
<1> USE ProcsDistinct
    DEF SoloInv, SingleTask, Quiet, TypeOK, Procs, Callers, flags, net, Go, Acquire,
        Release, AbortPcs
<1>1. CASE TxLock(p) BY <1>1 DEF TxLock
<1>2. CASE TxSent(p) BY <1>2 DEF TxSent
<1>3. CASE TxFails(p) BY <1>3 DEF TxFails
<1>4. CASE TxUnlock(p) BY <1>4 DEF TxUnlock
<1>5. CASE AbortCheck(p) BY <1>5 DEF AbortCheck
<1>6. CASE AbortDrop(p) BY <1>6 DEF AbortDrop
<1>30. CASE AbortQuit(p) BY <1>30 DEF AbortQuit
<1>31. CASE AbortSettle(p) BY <1>31 DEF AbortSettle, AbortState
<1>7. CASE AbortNotify(p) BY <1>7 DEF AbortNotify
<1>. QED
  BY <1>1, <1>2, <1>3, <1>4, <1>5, <1>6, <1>7, <1>30, <1>31
     DEF Transmit, Abort

LEMMA SoloSender ==
  ASSUME AutoReconnect, TypeOK, SoloInv, NEW s \in Senders, SenderStep(s)
  PROVE  SoloInv'
<1> USE ProcsDistinct
    DEF SoloInv, SingleTask, Quiet, TypeOK, Procs, Callers, flags, net, Go
<1>1. CASE SendCall(s) BY <1>1 DEF SendCall
<1>2. CASE TxLockTimeout(s) BY <1>2 DEF TxLockTimeout
<1>3. CASE Transmit(s) BY <1>3, SoloTransmit
<1>. QED BY <1>1, <1>2, <1>3 DEF SenderStep

LEMMA SoloOwner ==
  ASSUME Priority, AutoReconnect, TypeOK, AfterInv, SoloInv, Scheduled,
         OwnerCall \/ OwnerStep \/ CloseTimeout
  PROVE  SoloInv'
<1> USE ProcsDistinct
    DEF SoloInv, SingleTask, Quiet, UnknowPcs, StoppedPcs, LeavingPcs, AfterInv, TypeOK,
        Procs, Callers, flags, net, Go, Acquire, Release, Started
<1>1. CASE StartCall
  BY <1>1, CallerFindsNone DEF StartCall
<1>2. CASE Spawn BY <1>2 DEF Spawn
<1>3. CASE SpawnFails BY <1>3 DEF SpawnFails
<1>4. CASE StartClearBits BY <1>4 DEF StartClearBits
<1>5. CASE StopCall BY <1>5 DEF StopCall
<1>6. CASE StopRun BY <1>6 DEF StopRun
<1>7. CASE StopWait
  BY <1>7, CallerFindsNone DEF StopWait
<1>8. CASE StopUnknow BY <1>8 DEF StopUnknow
<1>9. CASE DestroyCall BY <1>9 DEF DestroyCall
<1>10. CASE DestroyFree BY <1>10 DEF DestroyFree
<1>11. CASE DestroyOnExit BY <1>11 DEF DestroyOnExit
<1>12. CASE CloseCall BY <1>12 DEF CloseCall
<1>13. CASE CloseSetBit BY <1>13 DEF CloseSetBit
<1>14. CASE CloseAcked BY <1>14 DEF CloseAcked
<1>15. CASE CloseTimeout BY <1>15 DEF CloseTimeout
<1>. QED
  BY SoloTransmit, <1>1, <1>2, <1>3, <1>4, <1>5, <1>6, <1>7, <1>8, <1>9, <1>10,
     <1>11, <1>12, <1>13, <1>14, <1>15 DEF OwnerCall, OwnerStep

LEMMA SoloStep ==
  ASSUME Priority, AutoReconnect, CloseReconnect, TypeOK, AfterInv, SoloInv, [Next]_vars
  PROVE  SoloInv'
<1>1. CASE Peer \/ UNCHANGED vars
  BY <1>1 DEF Peer, PeerSend, PeerAnswers, PeerVanishes, PeerBegins, vars, flags, SoloInv, SingleTask,
              Quiet
<1>. QED
  BY <1>1, SoloTask, SoloOwner, SoloSender DEF Next

\* On one core a client that always reconnects never has more than one client task.
THEOREM OneTask ==
  ASSUME Priority, AutoReconnect, CloseReconnect
  PROVE  Spec => []SingleTask
<1>1. Init => SoloInv
  BY SoloInit
<1>2. Inductive /\ SoloInv /\ [Next]_vars => SoloInv'
  BY SoloStep DEF Inductive
<1>. QED
  BY <1>1, <1>2, InitInductive, StepInductive, PTL DEF Spec, SoloInv

\* start replaces its transports when no client task is left to use them.
THEOREM CreateQuietly ==
  ASSUME Priority, AutoReconnect, CloseReconnect
  PROVE  Spec => CreateIsQuiet
<1>1. Init => SoloInv
  BY SoloInit
<1>2. Inductive /\ SoloInv /\ [Next]_vars => SoloInv'
  BY SoloStep DEF Inductive
<1>3. ASSUME SoloInv, TypeOK, [Next]_vars
      PROVE  [StartCall => \A t \in Tasks : pc[t] = "none"]_vars
  <2>. SUFFICES ASSUME StartCall, Next PROVE Quiet
    BY <1>3 DEF Quiet
  <2>1. state = "UNKNOW" /\ pc[Owner] = "idle" /\ pc'[Owner] = "spawn"
    BY <1>3, ProcsDistinct DEF StartCall, Started, Go, TypeOK, Procs, Callers
  <2>2. ~ \E t \in Tasks : TaskStep(t)
    BY <1>3, <2>1, TaskEffect, ProcsDistinct DEF TypeOK, Procs, Callers
  <2>3. ~ Peer
    BY <2>1 DEF Peer, PeerSend, PeerAnswers, PeerVanishes, PeerBegins
  <2>4. Scheduled
    BY <2>2, <2>3 DEF Next
  <2>. QED BY <1>3, <2>1, <2>4, CallerFindsNone
<1>. QED
  BY <1>1, <1>2, <1>3, InitInductive, StepInductive, PTL
     DEF Spec, Inductive, CreateIsQuiet

\* On one core nobody is left inside a client that is freed: neither its task nor
\* a sender, whether destroy freed it or its own task after destroy_on_exit.
THEOREM FreedAlone ==
  ASSUME Priority, AutoReconnect, CloseReconnect
  PROVE  Spec => []NoUseAfterFree
<1>1. Init => SoloInv /\ FreeInv
  BY SoloInit, FreeInit
<1>2. ASSUME SoloInv, Scheduled PROVE DestroyFindsNone
  BY <1>2, CallerFindsNone DEF DestroyFindsNone, SoloInv
<1>3. Inductive /\ SoloInv /\ FreeInv /\ [Next]_vars => SoloInv' /\ FreeInv'
  BY <1>2, SoloStep, FreeStep DEF Inductive, SoloInv
<1>4. FreeInv => NoUseAfterFree
  BY DEF FreeInv, NoUseAfterFree, Quiet, SendersIdle
<1>. QED
  BY <1>1, <1>3, <1>4, InitInductive, StepInductive, PTL DEF Spec

\* On one core every stop of such a client, whoever else uses it, is answered.
THEOREM AnsweredAlone ==
  ASSUME Priority, AutoReconnect, CloseReconnect
  PROVE  Spec => []BitWillBeSet
<1>. QED BY OneTask, AlwaysAnswered, PTL

\* On one core such a client implements the order of events that WsEvents states.
THEOREM OrderImplemented ==
  ASSUME Priority, AutoReconnect, CloseReconnect
  PROVE  Spec => EventOrder
<1>. QED BY OneTask, OrderOfOneTask, PTL

=============================================================================
