------------------------------ MODULE WsClient ------------------------------
(***************************************************************************)
(* The core of esp_websocket_client.c: the client task with its state      *)
(* machine and recursive lock, the lifecycle calls an application makes    *)
(* from one owner task (start, stop, close, destroy, destroy_on_exit), the *)
(* tasks that send messages, and the server with the TCP connection        *)
(* between them.  One step is one access to what the tasks share, or a     *)
(* block of accesses made while the lock keeps every other writer out.     *)
(*                                                                         *)
(* The lock is the one lock of the default build                           *)
(* (CONFIG_ESP_WS_CLIENT_SEPARATE_TX_LOCK unset).  Clocks are abstract: a  *)
(* period that the code compares with a tick count may have elapsed or not *)
(* at every check.  Events of type DATA and ERROR, and what frames carry,  *)
(* are left out; `ev' is the last lifecycle event that was dispatched.     *)
(***************************************************************************)
EXTENDS Naturals, Sequences

CONSTANTS
  Owner,          \* the application task that makes the lifecycle calls
  Senders,        \* application tasks that call esp_websocket_client_send_*
  Tasks,          \* client tasks that can exist at the same time
  None,           \* the holder of a lock that is free
  Ops,            \* the lifecycle calls the owner makes
  AutoReconnect,  \* config->auto_reconnect
  CloseReconnect, \* config->close_reconnect
  Priority,       \* one core, client task above its callers; FALSE: dual core
  Faults,         \* connecting, reading or writing may fail, the peer may vanish
  MaxInbox        \* bound: frames of the server waiting to be read

Callers == Senders \union {Owner}
Procs   == Callers \union Tasks

ASSUME ProcsDistinct ==
  /\ Owner \notin Senders
  /\ Callers \intersect Tasks = {}
  /\ None \notin Procs
ASSUME OpsKnown == Ops \subseteq {"start", "stop", "close", "destroy", "exit"}
ASSUME FlagsBoolean ==
  {AutoReconnect, CloseReconnect, Priority, Faults} \subseteq BOOLEAN
ASSUME InboxBound == MaxInbox \in Nat \ {0}

VARIABLES
  state,      \* client->state
  run,        \* client->run
  stopped,    \* STOPPED_BIT of client->status_bits
  closeSent,  \* CLOSE_FRAME_SENT_BIT of client->status_bits
  selected,   \* client->selected_for_destroying
  freed,      \* destroy_and_free_resources has run
  lock,       \* holder of client->lock, or None
  pong,       \* client->wait_for_pong_resp
  sock,       \* the transport's TCP connection as this end knows it
  inbox,      \* frames the server sent that were not read yet
  toPeer,     \* control frames the server has not answered, or that were lost
  ev,         \* the last lifecycle event dispatched to the application
  pc,         \* where each process is
  after       \* where a call of abort_connection or stop_wait_task returns to

flags == <<run, stopped, closeSent, selected, freed>>
net   == <<sock, inbox, toPeer, pong>>
vars  == <<state, flags, lock, net, ev, pc, after>>

States == {"UNKNOW", "INIT", "CONNECTED", "WAIT_TIMEOUT", "CLOSING"}
Events == {"none", "BEGIN", "BEFORE_CONNECT", "CONNECTED", "DISCONNECTED",
           "CLOSED", "FINISH"}
Frames == {"data", "ping", "pong", "close"}

\* The last frame of inbox when only its beginning has arrived, and a control
\* frame of this connection that could not be written, unnoticed.
Part == "part"
Lost == "lost"

\* Places where the lock is held, whoever is there.
AbortPcs  == {"check", "drop", "quit", "settle", "notify"}
LockedPcs == {"switch", "connect", "tellup", "unlock", "unlockLoop", "tx", "rearm"}
               \union AbortPcs
\* Places of the client task that block on the network or on a delay.
WaitPcs   == {"none", "connect", "poll", "recv", "inframe", "pong", "delay",
              "closewait"}
\* ... that block while an event is handled or a transport is closed.
TellPcs   == {"announce", "check", "drop", "notify", "tellup", "rearm",
              "tellclosed", "finish", "exitclose"}
AwaitLock == {"lock", "abortlock", "serverclose"}
ExitPcs   == {"finish", "exitclose", "setbit", "unknow", "exit"}
TaskPcs   == WaitPcs \union TellPcs \union AwaitLock \union ExitPcs \union AbortPcs
             \union {"begin", "toInit", "toClear", "loop", "switch", "unlock",
                     "unlockLoop", "dispatch", "closing", "giveup", "giveup2"}
SenderPcs == {"idle", "txlock", "tx", "unlock"} \union AbortPcs
OwnerPcs  == SenderPcs \union
             {"spawn", "clearbits", "stopRun", "stopWait", "stopUnknow",
              "free", "gone", "closebit", "ackwait"}

Init ==
  /\ state = "UNKNOW"
  /\ run = FALSE /\ stopped = TRUE /\ closeSent = FALSE
  /\ selected = FALSE /\ freed = FALSE
  /\ lock = None /\ pong = FALSE
  /\ sock = "closed" /\ inbox = <<>> /\ toPeer = {}
  /\ ev = "none"
  /\ pc = [p \in Procs |-> IF p \in Tasks THEN "none" ELSE "idle"]
  /\ after = [p \in Procs |-> "unlock"]

-----------------------------------------------------------------------------
(* Helpers                                                                 *)

\* The test of ESP_WS_CLIENT_STATE_CHECK and of start: not yet stopped.
Started_OffByOne == state \notin {"UNKNOW", "INIT"}   \* mutant: > for >=
Started == state # "UNKNOW"

\* xSemaphoreTakeRecursive / xSemaphoreGiveRecursive.  No process of the
\* model takes the lock twice.
Acquire(p) == lock = None /\ lock' = p
Release(p) == lock = p /\ lock' = None

Go(p, from, to) == pc[p] = from /\ pc' = [pc EXCEPT ![p] = to]

\* A frame that the task writes for itself, in `switch', may block as well.
Blocked(t) ==
  \/ pc[t] \in WaitPcs \union TellPcs
  \/ pc[t] = "switch" /\ state \in {"CONNECTED", "CLOSING"}
  \/ pc[t] \in AwaitLock /\ lock \notin {None, t}

\* On one core a caller runs only while every client task is blocked.
Scheduled == Priority => \A t \in Tasks : Blocked(t)

\* The header makes the caller answerable for not using a handle it gave up.
HandleValid == ~freed /\ ~selected /\ after[Owner] # "free"

\* The connection is gone, and what was on its way with it.
HangUp == sock' = "closed" /\ inbox' = <<>> /\ toPeer' = {}

\* The client task writes a control frame and ignores what became of it.
Written(f) ==
  IF sock # "open" THEN {toPeer}
  ELSE {toPeer \union {f}} \union (IF Faults THEN {toPeer \union {Lost}} ELSE {})
-----------------------------------------------------------------------------
(* esp_websocket_client_abort_connection, run by whoever holds the lock    *)

AbortCheck(p) ==
  /\ Go(p, "check", IF Started THEN "drop" ELSE after[p])
  /\ UNCHANGED <<state, flags, lock, net, ev, after>>

AbortState_Error == "ERROR"     \* mutant: WEBSOCKET_STATE_ERROR
AbortState_Kept == state        \* mutant: the state is not changed
AbortState == IF AutoReconnect THEN "WAIT_TIMEOUT" ELSE "UNKNOW"

\* Close the transport, and only then choose between reconnecting and giving up:
\* whoever reads the state without the lock may still find it CONNECTED.
AbortDrop(p) ==
  /\ Go(p, "drop", "quit")
  /\ HangUp
  /\ UNCHANGED <<state, flags, lock, pong, ev, after>>

\* With auto_reconnect the step only stamps reconnect_tick_ms (see WsKeepAlive).
AbortQuit(p) ==
  /\ Go(p, "quit", "settle")
  /\ run' = (run /\ AutoReconnect)
  /\ UNCHANGED <<state, stopped, closeSent, selected, freed, lock, net, ev, after>>

AbortSettle(p) ==
  /\ Go(p, "settle", "notify")
  /\ state' = AbortState
  /\ UNCHANGED <<flags, lock, net, ev, after>>

\* Mutant: the application is not told.
AbortNotify_Silent(p) ==
  /\ Go(p, "notify", after[p])
  /\ UNCHANGED <<state, flags, lock, net, ev, after>>

AbortNotify(p) ==
  /\ Go(p, "notify", after[p])
  /\ ev' = "DISCONNECTED"
  /\ UNCHANGED <<state, flags, lock, net, after>>

Abort(p) ==
  \/ AbortCheck(p) \/ AbortDrop(p) \/ AbortQuit(p) \/ AbortSettle(p)
  \/ AbortNotify(p)

-----------------------------------------------------------------------------
(* esp_websocket_client_task                                               *)

\* start has found a transport for its task (TransportLives of WsConfig), so that
\* the two ways out for a task without one are never taken.
TaskBegin(t) ==
  /\ Go(t, "begin", "toInit")
  /\ run' = TRUE
  /\ UNCHANGED <<state, stopped, closeSent, selected, freed, lock, net, ev, after>>

TaskToInit(t) ==
  /\ Go(t, "toInit", "toClear")
  /\ state' = "INIT"
  /\ UNCHANGED <<flags, lock, net, ev, after>>

TaskClearBits(t) ==
  /\ Go(t, "toClear", "announce")
  /\ stopped' = FALSE /\ closeSent' = FALSE
  /\ UNCHANGED <<state, run, selected, freed, lock, net, ev, after>>

TaskAnnounce(t) ==
  /\ Go(t, "announce", "loop")
  /\ ev' = "BEGIN"
  /\ UNCHANGED <<state, flags, lock, net, after>>

TaskLoop(t) ==
  /\ Go(t, "loop", IF run THEN "lock" ELSE "finish")
  /\ UNCHANGED <<state, flags, lock, net, ev, after>>

TaskLock(t) ==
  /\ Go(t, "lock", "switch") /\ Acquire(t)
  /\ UNCHANGED <<state, flags, net, ev, after>>

\* case WEBSOCKET_STATE_INIT: esp_transport_connect blocks with the lock held.
TaskDial(t) ==
  /\ state = "INIT"
  /\ Go(t, "switch", "connect")
  /\ ev' = "BEFORE_CONNECT"
  /\ UNCHANGED <<state, flags, lock, net, after>>

\* Mutant: wait_for_pong_resp is not reset.
TaskConnected_StalePong(t) ==
  /\ Go(t, "connect", "tellup")
  /\ sock' = "open" /\ inbox' = <<>> /\ toPeer' = {}
  /\ state' = "CONNECTED" /\ UNCHANGED pong
  /\ ev' = "CONNECTED"
  /\ UNCHANGED <<flags, lock, after>>

TaskConnected(t) ==
  /\ Go(t, "connect", "tellup")
  /\ sock' = "open" /\ inbox' = <<>> /\ toPeer' = {}
  /\ state' = "CONNECTED" /\ pong' = FALSE
  /\ ev' = "CONNECTED"
  /\ UNCHANGED <<flags, lock, after>>

TaskToldUp(t) ==
  /\ Go(t, "tellup", "unlock")
  /\ UNCHANGED <<state, flags, lock, net, ev, after>>

TaskConnectFails(t) ==
  /\ Faults
  /\ Go(t, "connect", "check")
  /\ after' = [after EXCEPT ![t] = "unlock"]
  /\ UNCHANGED <<state, flags, lock, net, ev>>

\* case WEBSOCKET_STATE_CONNECTED: a PING is due.  The timer of its PONG is started
\* whether the PING could be written or not.
TaskPing(t) ==
  /\ state = "CONNECTED" /\ ~closeSent
  /\ Go(t, "switch", "unlock")
  /\ toPeer' \in Written("ping")
  /\ pong' = TRUE
  /\ UNCHANGED <<state, flags, lock, sock, inbox, ev, after>>

\* ... or the PONG is overdue, which a server that answers in time prevents.
TaskPongTimeout(t) ==
  /\ state = "CONNECTED" /\ ~closeSent /\ pong /\ Faults
  /\ Go(t, "switch", "check")
  /\ after' = [after EXCEPT ![t] = "unlock"]
  /\ UNCHANGED <<state, flags, lock, net, ev>>

\* Mutant: the state is not set back to INIT.
TaskElapsed_Stuck(t) ==
  /\ state = "WAIT_TIMEOUT"
  /\ Go(t, "switch", "unlock")
  /\ UNCHANGED <<state, flags, lock, net, ev, after>>

\* case WEBSOCKET_STATE_WAIT_TIMEOUT: the reconnect period has elapsed.
TaskElapsed(t) ==
  /\ state = "WAIT_TIMEOUT"
  /\ Go(t, "switch", "unlock")
  /\ state' = "INIT"
  /\ UNCHANGED <<flags, lock, net, ev, after>>

\* case WEBSOCKET_STATE_CLOSING: echo the server's CLOSE.
TaskEchoClose(t) ==
  /\ state = "CLOSING" /\ ~closeSent
  /\ Go(t, "switch", "unlock")
  /\ toPeer' \in Written("close")
  /\ closeSent' = TRUE
  /\ UNCHANGED <<state, run, stopped, selected, freed, lock, sock, inbox, pong,
                 ev, after>>

\* Nothing to do in this iteration.
TaskIdle(t) ==
  /\ \/ state \in {"CONNECTED", "WAIT_TIMEOUT", "UNKNOW"}
     \/ state = "CLOSING" /\ closeSent
  /\ Go(t, "switch", "unlock")
  /\ UNCHANGED <<state, flags, lock, net, ev, after>>

TaskUnlock(t) ==
  /\ \/ Go(t, "unlock", "dispatch")
     \/ Go(t, "unlockLoop", "loop")
  /\ Release(t)
  /\ UNCHANGED <<state, flags, net, ev, after>>

\* After the lock is given: what this iteration waits for.
TaskDispatch(t) ==
  /\ Go(t, "dispatch",
        CASE state = "CONNECTED"             -> "poll"
          [] state = "WAIT_TIMEOUT"          -> "delay"
          [] state = "CLOSING" /\ closeSent  -> "closewait"
          [] OTHER                           -> "loop")
  /\ UNCHANGED <<state, flags, lock, net, ev, after>>

TaskDelay(t) ==
  /\ Go(t, "delay", "loop")
  /\ UNCHANGED <<state, flags, lock, net, ev, after>>

\* esp_transport_poll_read returns 0, a positive value, or a negative one.
TaskPoll(t) ==
  /\ \/ sock = "open" /\ inbox = <<>> /\ Go(t, "poll", "loop")
        /\ UNCHANGED after
     \/ sock # "closed" /\ (inbox # <<>> \/ sock = "dead") /\ Go(t, "poll", "recv")
        /\ UNCHANGED after
     \/ sock # "open" /\ Go(t, "poll", "abortlock")
        /\ after' = [after EXCEPT ![t] = "unlockLoop"]
  /\ UNCHANGED <<state, flags, lock, net, ev>>

TaskAbortLock(t) ==
  /\ Go(t, "abortlock", "check") /\ Acquire(t)
  /\ UNCHANGED <<state, flags, net, ev, after>>

(* esp_websocket_client_recv, without the lock.                            *)

RecvFails(t) ==
  /\ Faults \/ sock # "open"
  /\ Go(t, "recv", "abortlock") \/ Go(t, "inframe", "abortlock")
  /\ after' = [after EXCEPT ![t] = "unlockLoop"]
  /\ UNCHANGED <<state, flags, lock, net, ev>>

\* Not even the header of a frame comes within network_timeout_ms.
RecvTimesOut(t) ==
  /\ sock = "open" /\ inbox # <<>> /\ Head(inbox) = Part
  /\ Go(t, "recv", "loop")
  /\ UNCHANGED <<state, flags, lock, net, ev, after>>

\* The header came: from here on recv returns only with the whole frame, or with
\* the connection lost, and does not look at run.
RecvHeader(t) ==
  /\ sock # "closed" /\ inbox # <<>> /\ Head(inbox) = Part
  /\ Go(t, "recv", "inframe")
  /\ UNCHANGED <<state, flags, lock, net, ev, after>>

RecvFrame(t) ==
  /\ sock # "closed" /\ inbox # <<>> /\ Head(inbox) # Part
  /\ LET f    == Head(inbox)
         next == CASE f = "ping" -> "pong" [] f = "close" -> "closing"
                   [] OTHER -> "loop"
     IN /\ Go(t, "recv", next) \/ Go(t, "inframe", next)
        /\ pong' = (pong /\ f # "pong")
  /\ inbox' = Tail(inbox)
  /\ UNCHANGED <<state, flags, lock, sock, toPeer, ev, after>>

\* The PONG is written without the lock, and its result is ignored.
RecvPong(t) ==
  /\ Go(t, "pong", "loop")
  /\ UNCHANGED <<state, flags, lock, net, ev, after>>

\* Mutant: the CLOSE frame does not change the state.
RecvClose_Ignored(t) ==
  /\ Go(t, "closing", "loop")
  /\ UNCHANGED <<state, flags, lock, net, ev, after>>

RecvClose(t) ==
  /\ Go(t, "closing", "loop")
  /\ state' = "CLOSING"
  /\ UNCHANGED <<flags, lock, net, ev, after>>

Recv(t) ==
  \/ RecvFails(t) \/ RecvTimesOut(t) \/ RecvHeader(t) \/ RecvFrame(t)
  \/ RecvPong(t) \/ RecvClose(t)

\* esp_transport_ws_poll_connection_closed: every result leads on.
TaskCloseWait(t) ==
  /\ Go(t, "closewait", IF CloseReconnect THEN "serverclose" ELSE "giveup")
  /\ UNCHANGED <<state, flags, lock, net, ev, after>>

TaskServerClose(t) ==
  /\ Go(t, "serverclose", "rearm") /\ Acquire(t)
  /\ state' = "WAIT_TIMEOUT"
  /\ HangUp
  /\ ev' = "CLOSED"
  /\ UNCHANGED <<flags, pong, after>>

TaskRearm(t) ==
  /\ Go(t, "rearm", "loop") /\ Release(t)
  /\ stopped' = FALSE /\ closeSent' = FALSE
  /\ UNCHANGED <<state, run, selected, freed, net, ev, after>>

\* Without close_reconnect the client gives up, and writes without the lock.
TaskGiveUp(t) ==
  /\ Go(t, "giveup", "giveup2")
  /\ run' = FALSE
  /\ UNCHANGED <<state, stopped, closeSent, selected, freed, lock, net, ev, after>>

TaskClosed(t) ==
  /\ Go(t, "giveup2", "tellclosed")
  /\ state' = "UNKNOW" /\ ev' = "CLOSED"
  /\ UNCHANGED <<flags, lock, net, after>>

TaskToldClosed(t) ==
  /\ Go(t, "tellclosed", "finish")
  /\ UNCHANGED <<state, flags, lock, net, ev, after>>

\* Out of the loop.  None of these steps takes the lock.
TaskFinish(t) ==
  /\ Go(t, "finish", "exitclose")
  /\ ev' = "FINISH"
  /\ UNCHANGED <<state, flags, lock, net, after>>

TaskExitClose(t) ==
  /\ Go(t, "exitclose", "setbit")
  /\ HangUp
  /\ UNCHANGED <<state, flags, lock, pong, ev, after>>

\* Mutant: the bit is not set.
TaskSetStopped_Skipped(t) ==
  /\ Go(t, "setbit", "unknow")
  /\ UNCHANGED <<state, flags, lock, net, ev, after>>

TaskSetStopped(t) ==
  /\ Go(t, "setbit", "unknow")
  /\ stopped' = TRUE
  /\ UNCHANGED <<state, run, closeSent, selected, freed, lock, net, ev, after>>

TaskUnknow(t) ==
  /\ Go(t, "unknow", "exit")
  /\ state' = "UNKNOW"
  /\ UNCHANGED <<flags, lock, net, ev, after>>

\* Mutant: selected_for_destroying is not looked at.
TaskExit_Leaks(t) ==
  /\ Go(t, "exit", "none")
  /\ UNCHANGED <<state, flags, lock, net, ev, after>>

TaskExit(t) ==
  /\ Go(t, "exit", "none")
  /\ freed' = (freed \/ selected)
  /\ UNCHANGED <<state, run, stopped, closeSent, selected, lock, net, ev, after>>

TaskStart(t) == TaskBegin(t) \/ TaskToInit(t) \/ TaskClearBits(t) \/ TaskAnnounce(t)
TaskSwitch(t) ==
  \/ TaskDial(t) \/ TaskConnected(t) \/ TaskToldUp(t) \/ TaskConnectFails(t)
  \/ TaskPing(t) \/ TaskPongTimeout(t) \/ TaskElapsed(t) \/ TaskEchoClose(t) \/ TaskIdle(t)
TaskLocks(t) == TaskLock(t) \/ TaskAbortLock(t) \/ TaskServerClose(t)
TaskEnd(t) ==
  \/ TaskFinish(t) \/ TaskExitClose(t) \/ TaskSetStopped(t) \/ TaskUnknow(t)
  \/ TaskExit(t)
TaskStep(t) ==
  \/ TaskStart(t) \/ TaskLoop(t) \/ TaskLocks(t) \/ TaskSwitch(t) \/ TaskUnlock(t)
  \/ TaskDispatch(t) \/ TaskDelay(t) \/ TaskPoll(t) \/ Recv(t) \/ TaskCloseWait(t)
  \/ TaskRearm(t) \/ TaskGiveUp(t) \/ TaskClosed(t) \/ TaskToldClosed(t)
  \/ TaskEnd(t) \/ Abort(t)

-----------------------------------------------------------------------------
(* esp_websocket_client_send_with_exact_opcode, one frame                  *)

\* The check of is_connected is made before the lock is taken.
SendCall(s) ==
  /\ HandleValid /\ state = "CONNECTED"
  /\ Go(s, "idle", "txlock")
  /\ UNCHANGED <<state, flags, lock, net, ev, after>>

TxLock(p) ==
  /\ Go(p, "txlock", "tx") /\ Acquire(p)
  /\ UNCHANGED <<state, flags, net, ev, after>>

\* Mutant: the lock that was not taken is given.
TxLockTimeout_Gives(s) ==
  /\ lock # None
  /\ Go(s, "txlock", "idle")
  /\ lock' = None
  /\ UNCHANGED <<state, flags, net, ev, after>>

\* A sender gives a finite timeout; close() waits without limit.
TxLockTimeout(s) ==
  /\ lock # None
  /\ Go(s, "txlock", "idle")
  /\ UNCHANGED <<state, flags, lock, net, ev, after>>

TxSent(p) ==
  /\ sock # "closed"
  /\ Go(p, "tx", "unlock")
  /\ toPeer' = IF p = Owner /\ sock = "open" THEN toPeer \union {"close"} ELSE toPeer
  /\ UNCHANGED <<state, flags, lock, sock, inbox, pong, ev, after>>

TxFails(p) ==
  /\ Faults \/ sock # "open"
  /\ Go(p, "tx", "check")
  /\ after' = [after EXCEPT ![p] = "unlock"]
  /\ UNCHANGED <<state, flags, lock, net, ev>>

TxUnlock(p) ==
  /\ Go(p, "unlock", IF p = Owner THEN "closebit" ELSE "idle") /\ Release(p)
  /\ UNCHANGED <<state, flags, net, ev, after>>

Transmit(p) == TxLock(p) \/ TxSent(p) \/ TxFails(p) \/ TxUnlock(p) \/ Abort(p)

-----------------------------------------------------------------------------
(* The lifecycle calls of the owner                                        *)

\* start: the state check and esp_websocket_client_create_transport, which
\* replaces the transports of an earlier session.
StartCall ==
  /\ "start" \in Ops /\ HandleValid /\ ~Started
  /\ \E t \in Tasks : pc[t] = "none"   \* bound: the size of Tasks
  /\ Go(Owner, "idle", "spawn")
  /\ HangUp
  /\ UNCHANGED <<state, flags, lock, pong, ev, after>>

Spawn ==
  /\ pc[Owner] = "spawn"
  /\ \E t \in Tasks :
       /\ pc[t] = "none"
       /\ pc' = [pc EXCEPT ![t] = "begin", ![Owner] = "clearbits"]
  /\ UNCHANGED <<state, flags, lock, net, ev, after>>

\* xTaskCreate fails, and start returns ESP_FAIL.
SpawnFails ==
  /\ Faults
  /\ Go(Owner, "spawn", "idle")
  /\ UNCHANGED <<state, flags, lock, net, ev, after>>

StartClearBits ==
  /\ Go(Owner, "clearbits", "idle")
  /\ stopped' = FALSE /\ closeSent' = FALSE
  /\ UNCHANGED <<state, run, selected, freed, lock, net, ev, after>>

StopCall ==
  /\ "stop" \in Ops /\ HandleValid /\ ~stopped
  /\ Go(Owner, "idle", "stopRun")
  /\ after' = [after EXCEPT ![Owner] = "idle"]
  /\ UNCHANGED <<state, flags, lock, net, ev>>

\* The body of stop_wait_task, also the end of close() after its timeout.
StopRun ==
  /\ Go(Owner, "stopRun", "stopWait")
  /\ run' = FALSE
  /\ UNCHANGED <<state, stopped, closeSent, selected, freed, lock, net, ev, after>>

StopWait ==
  /\ stopped
  /\ Go(Owner, "stopWait", "stopUnknow")
  /\ UNCHANGED <<state, flags, lock, net, ev, after>>

StopUnknow ==
  /\ Go(Owner, "stopUnknow", after[Owner])
  /\ state' = "UNKNOW"
  /\ UNCHANGED <<flags, lock, net, ev, after>>

\* Mutant: the task is not waited for.
DestroyCall_NoWait ==
  /\ "destroy" \in Ops /\ HandleValid /\ \A s \in Senders : pc[s] = "idle"
  /\ Go(Owner, "idle", "free")
  /\ after' = [after EXCEPT ![Owner] = "free"]
  /\ UNCHANGED <<state, flags, lock, net, ev>>

\* destroy, called when no send is in progress.
DestroyCall ==
  /\ "destroy" \in Ops /\ HandleValid /\ \A s \in Senders : pc[s] = "idle"
  /\ Go(Owner, "idle", IF stopped THEN "free" ELSE "stopRun")
  /\ after' = [after EXCEPT ![Owner] = "free"]
  /\ UNCHANGED <<state, flags, lock, net, ev>>

DestroyFree ==
  /\ Go(Owner, "free", "gone")
  /\ freed' = TRUE
  /\ UNCHANGED <<state, run, stopped, closeSent, selected, lock, net, ev, after>>

\* destroy_on_exit: from here on the handle belongs to the client task, if there
\* is one.
DestroyOnExit ==
  /\ "exit" \in Ops /\ HandleValid /\ \A s \in Senders : pc[s] = "idle"
  /\ Go(Owner, "idle", "gone")
  /\ selected' = TRUE
  /\ UNCHANGED <<state, run, stopped, closeSent, freed, lock, net, ev, after>>

CloseCall ==
  /\ "close" \in Ops /\ HandleValid /\ run
  /\ Go(Owner, "idle", IF state = "CONNECTED" THEN "txlock" ELSE "closebit")
  /\ UNCHANGED <<state, flags, lock, net, ev, after>>

CloseSetBit ==
  /\ Go(Owner, "closebit", "ackwait")
  /\ closeSent' = TRUE
  /\ UNCHANGED <<state, run, stopped, selected, freed, lock, net, ev, after>>

CloseAcked ==
  /\ stopped
  /\ Go(Owner, "ackwait", "idle")
  /\ UNCHANGED <<state, flags, lock, net, ev, after>>

\* Mutant: run is not reset before the second wait.
CloseTimeout_StillRunning ==
  /\ Go(Owner, "ackwait", "stopWait")
  /\ after' = [after EXCEPT ![Owner] = "idle"]
  /\ UNCHANGED <<state, flags, lock, net, ev>>

\* A finite timeout; with portMAX_DELAY this step is not taken.
CloseTimeout ==
  /\ Go(Owner, "ackwait", "stopRun")
  /\ after' = [after EXCEPT ![Owner] = "idle"]
  /\ UNCHANGED <<state, flags, lock, net, ev>>

OwnerCall == StartCall \/ StopCall \/ DestroyCall \/ DestroyOnExit \/ CloseCall
OwnerStep ==
  \/ Spawn \/ SpawnFails \/ StartClearBits \/ StopRun \/ StopWait \/ StopUnknow
  \/ DestroyFree \/ CloseSetBit \/ CloseAcked \/ Transmit(Owner)

-----------------------------------------------------------------------------
(* The server and the network                                              *)

\* The last frame the server began is still under way.
Begun == inbox # <<>> /\ inbox[Len(inbox)] = Part

\* A frame arrives as a whole, or the rest of it does.
Deliver(f) ==
  /\ Begun \/ Len(inbox) < MaxInbox
  /\ inbox' = IF Begun THEN [inbox EXCEPT ![Len(inbox)] = f] ELSE Append(inbox, f)

PeerBegins ==
  /\ sock = "open" /\ ~Begun /\ Len(inbox) < MaxInbox
  /\ inbox' = Append(inbox, Part)
  /\ UNCHANGED <<state, flags, lock, sock, toPeer, pong, ev, pc, after>>

PeerSend ==
  /\ sock = "open"
  /\ \E f \in {"data", "ping", "close"} : Deliver(f)
  /\ UNCHANGED <<state, flags, lock, sock, toPeer, pong, ev, pc, after>>

PeerAnswers ==
  /\ sock = "open"
  /\ \E f \in toPeer \ {Lost} :
       /\ toPeer' = toPeer \ {f}
       /\ Deliver(IF f = "ping" THEN "pong" ELSE "close")
  /\ UNCHANGED <<state, flags, lock, sock, pong, ev, pc, after>>

\* The connection is reset, which the next access to it finds.  A server that only
\* falls silent takes no step.
PeerVanishes ==
  /\ Faults /\ sock = "open"
  /\ sock' = "dead"
  /\ UNCHANGED <<state, flags, lock, inbox, toPeer, pong, ev, pc, after>>

Peer == PeerBegins \/ PeerSend \/ PeerAnswers \/ PeerVanishes

PeerGoesOn == Begun /\ (PeerSend \/ PeerAnswers)

-----------------------------------------------------------------------------
SenderStep(s) == SendCall(s) \/ TxLockTimeout(s) \/ Transmit(s)

Next ==
  \/ \E t \in Tasks : TaskStep(t)
  \/ Scheduled /\ (OwnerCall \/ OwnerStep \/ CloseTimeout)
  \/ Scheduled /\ \E s \in Senders : SenderStep(s)
  \/ Peer

Spec == Init /\ [][Next]_vars

(***************************************************************************)
(* Fairness.  The client task is runnable whenever it is not blocked.  A   *)
(* FreeRTOS mutex goes to the waiter of highest priority, so a waiter that *)
(* finds it free again and again gets it.  A caller gets the processor     *)
(* while the client task blocks, which it does in every iteration.  The    *)
(* clock passes the reconnect period, and a handler of events returns.     *)
(* One thing is assumed of the server: it goes on with a frame whose       *)
(* beginning has arrived, as long as the connection lasts, because recv    *)
(* waits for the rest without a limit.  Between frames it may be silent    *)
(* for good.  Nothing is assumed of when the application makes a call.     *)
(***************************************************************************)
Fairness ==
  /\ \A t \in Tasks : /\ WF_vars(TaskStep(t))
                      /\ SF_vars(TaskLocks(t))
                      /\ SF_vars(TaskElapsed(t))
  /\ WF_vars(PeerGoesOn)
  /\ SF_vars(Scheduled /\ OwnerStep)
  /\ \A s \in Senders : SF_vars(Scheduled /\ (TxLockTimeout(s) \/ Transmit(s)))

FairSpec == Spec /\ Fairness

\* What a close may rely on besides: a finite timeout passes, or the server answers
\* the control frames that reach it.
Bounded  == SF_vars(Scheduled /\ CloseTimeout)
Answered == SF_vars(PeerAnswers)

-----------------------------------------------------------------------------
(* Correctness                                                             *)

\* Every variable stays in its range.
TypeOK ==
  /\ state \in States
  /\ run \in BOOLEAN /\ stopped \in BOOLEAN /\ closeSent \in BOOLEAN
  /\ selected \in BOOLEAN /\ freed \in BOOLEAN /\ pong \in BOOLEAN
  /\ lock \in Procs \union {None}
  /\ sock \in {"closed", "open", "dead"}
  /\ inbox \in Seq(Frames \union {Part})
  /\ toPeer \subseteq {"ping", "close", Lost}
  /\ ev \in Events
  /\ pc \in [Procs -> TaskPcs \union OwnerPcs]
  /\ after \in [Procs -> {"unlock", "unlockLoop", "idle", "free"}]

\* The lock is held exactly by the process that is inside a locked region: it
\* is given back on every path out, the error paths and breaks included, and no
\* two processes are ever inside at once.
LockInv == \A p \in Procs : pc[p] \in LockedPcs <=> lock = p

\* is_connected answers TRUE over a transport that was closed only while somebody who
\* holds the lock is between his esp_transport_close and the state that follows from
\* it, or the client task, leaving, is.  So whoever takes the lock after a check of
\* is_connected and is not in a race with the task's end finds either the transport
\* he asked about or another state.
ConnectedHasSocket ==
  state = "CONNECTED" /\ sock = "closed" =>
    \/ \E p \in Procs : pc[p] \in {"quit", "settle"}
    \/ \E t \in Tasks : pc[t] \in {"setbit", "unknow"}

\* While the client waits for a PONG on a live connection, it has asked for it on that
\* connection: the PING or the PONG that answers it is on its way, or the PING could
\* not be written.  The flag never survives from an earlier connection, where it would
\* end a healthy one.
PongPending ==
  state = "CONNECTED" /\ sock = "open" /\ pong =>
    \/ toPeer \intersect {"ping", Lost} # {}
    \/ \E i \in DOMAIN inbox : inbox[i] = "pong"

\* At most one client task exists.
SingleTask ==
  \A t, u \in Tasks : pc[t] # "none" /\ pc[u] # "none" => t = u

\* Once the client is freed nobody is left that would touch it.
NoUseAfterFree ==
  freed => /\ \A t \in Tasks : pc[t] = "none"
           /\ \A s \in Senders : pc[s] = "idle"

\* start replaces the transports only when no client task can be using them.
CreateIsQuiet == [][StartCall => \A t \in Tasks : pc[t] = "none"]_vars

\* A lost connection, whichever way it was lost, is dialled again unless the
\* application tells the client to end.
Reconnects == state = "WAIT_TIMEOUT" ~> ev = "BEFORE_CONNECT" \/ ~run

\* stop, and the stop inside destroy and close, comes back.
StopReturns == pc[Owner] = "stopRun" ~> pc[Owner] \in {"idle", "gone"}

\* It does whenever there is a task to stop.
TaskStops ==
  pc[Owner] = "stopRun" /\ (\E t \in Tasks : pc[t] # "none")
    ~> pc[Owner] \in {"idle", "gone"}

\* close with a finite timeout comes back.
CloseReturns == Bounded => (pc[Owner] = "closebit" ~> pc[Owner] = "idle")

\* close comes back, even without a timeout, when its CLOSE frame went out and a server
\* that answers keeps the connection until then.
ClosesCleanly ==
  Answered => (pc[Owner] = "ackwait" /\ "close" \in toPeer
                 ~> pc[Owner] = "idle" \/ sock = "dead" \/ ev = "DISCONNECTED")

\* A client that was given to destroy_on_exit while its task lives is freed once
\* the task was told to end.
FreedOnExit ==
  selected /\ ~run /\ (\E t \in Tasks : pc[t] # "none") ~> freed

\* The client implements the order of events that WsEvents states; callers that
\* write on the connection add the late reports.
InSession(t) ==
  pc[t] \notin {"none", "begin", "toInit", "toClear", "announce"} \union
               (ExitPcs \ {"finish"})
Order == INSTANCE WsEvents
           WITH Late <- Senders # {} \/ "close" \in Ops,
                live <- \E t \in Tasks : InSession(t)
EventOrder == Order!Spec

=============================================================================
