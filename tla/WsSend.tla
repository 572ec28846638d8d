------------------------------- MODULE WsSend -------------------------------
(***************************************************************************)
(* What esp_websocket_client_send_with_exact_opcode puts on the wire.  A   *)
(* message longer than the buffer goes out in fragments, and a message may *)
(* be sent by several calls (_partial, _cont_msg, _fin); the server puts   *)
(* together again what arrives on one connection.  Meanwhile the client    *)
(* task loses, replaces and closes connections, the last without the lock. *)
(*                                                                         *)
(* The transport writes a frame, a part of it, or fails.  What a short    *)
(* write left out is not part of the frame, as the code counts it; that it *)
(* spoils the stream is a step of the server here (PeerCloses).  A frame   *)
(* that was written may be lost with its connection, but none before it    *)
(* is.  The application sends one fragmented message at a time and nothing *)
(* else while it is open; it may give the message up after any call.       *)
(***************************************************************************)
EXTENDS Naturals

CONSTANTS
  Senders,    \* tasks that send
  None,       \* nobody
  BufferSize, \* client->buffer_size
  Lengths,    \* lengths given to the calls
  MaxTotal    \* bound: bytes of a fragmented message

ASSUME SendersSome == None \notin Senders
ASSUME BufferPositive == BufferSize \in Nat \ {0}
ASSUME LengthsNat == Lengths \subseteq Nat /\ MaxTotal \in Nat

VARIABLES
  task,       \* where the client task is
  state,      \* client->state; DOWN is INIT or WAIT_TIMEOUT
  up,         \* the transport is open
  lock,       \* holder of client->lock, or None
  pc,         \* where each sender is: idle, lock, send or abort
  call,       \* opcode, FIN and length of its call
  widx,       \* bytes of this call that were sent
  lead,       \* the code's opcode is not 0: the next frame is sent in any case
  frag,       \* the task whose fragmented message is open, or None
  total,      \* bytes that the calls for it have returned
  left,       \* history: who left his message open on this connection, or None
  asm,        \* what the server has of the message it is receiving
  arrived     \* the last message that was complete for the server

conn == <<task, state, up>>
send == <<pc, call, widx, lead>>
app  == <<frag, total>>
peer == <<left, asm, arrived>>
vars == <<conn, lock, send, app, peer>>

Calls     == [op : {"data", "cont"}, fin : BOOLEAN, len : Nat]
NoMessage == [by |-> None, size |-> 0]
\* The server saw a frame out of order, or has sent its CLOSE: it drops the rest.
Deaf      == [by |-> None, size |-> 1]
Messages  == [by : Senders, size : Nat]

Init ==
  /\ task = "gone" /\ state = "UNKNOW" /\ up = FALSE /\ lock = None
  /\ pc = [s \in Senders |-> "idle"]
  /\ call = [s \in Senders |-> [op |-> "cont", fin |-> FALSE, len |-> 0]]
  /\ widx = [s \in Senders |-> 0] /\ lead = [s \in Senders |-> FALSE]
  /\ frag = None /\ total = 0
  /\ left = None /\ asm = NoMessage /\ arrived = NoMessage
-----------------------------------------------------------------------------
(* The calls of the application                                            *)

\* is_connected is checked, then the lock is waited for.
Begin(s, c) ==
  /\ pc[s] = "idle" /\ state = "CONNECTED"
  /\ pc' = [pc EXCEPT ![s] = "lock"]
  /\ call' = [call EXCEPT ![s] = c]
  /\ widx' = [widx EXCEPT ![s] = 0]
  /\ lead' = [lead EXCEPT ![s] = c.op = "data" \/ c.fin]

\* send_text, send_bin and send_with_opcode: a whole message.
SendWhole(s) ==
  /\ frag = None
  /\ \E n \in Lengths : Begin(s, [op |-> "data", fin |-> TRUE, len |-> n])
  /\ UNCHANGED <<conn, lock, app, peer>>

\* send_text_partial and send_bin_partial begin a fragmented message.
SendPartial(s) ==
  /\ frag = None /\ \A r \in Senders : pc[r] = "idle"
  /\ \E n \in Lengths : Begin(s, [op |-> "data", fin |-> FALSE, len |-> n])
  /\ frag' = s /\ total' = 0
  /\ UNCHANGED <<conn, lock, peer>>

\* send_cont_msg and send_fin.
SendMore(s) ==
  /\ frag = s
  /\ \/ \E n \in Lengths : /\ total + n <= MaxTotal
                            /\ Begin(s, [op |-> "cont", fin |-> FALSE, len |-> n])
     \/ Begin(s, [op |-> "cont", fin |-> TRUE, len |-> 0])
  /\ UNCHANGED <<conn, lock, app, peer>>

\* A call for the fragmented message returned -1, by a time limit or because the
\* client is not connected, and its author gives the message up.
Abandon(s) ==
  /\ frag = s /\ pc[s] = "idle"
  /\ frag' = None /\ total' = 0
  /\ left' = IF asm \in Messages THEN s ELSE left
  /\ UNCHANGED <<conn, lock, send, asm, arrived>>

-----------------------------------------------------------------------------
(* esp_websocket_client_send_with_exact_opcode                             *)

TakeLock(s) ==
  /\ pc[s] = "lock" /\ lock = None
  /\ lock' = s /\ pc' = [pc EXCEPT ![s] = "send"]
  /\ UNCHANGED <<conn, call, widx, lead, app, peer>>

\* Another sender has the lock, or the client task: it dials, sends a PING or runs
\* a handler under it.  A call that was to begin a message has begun none.
LockTimeout(s) ==
  /\ pc[s] = "lock"
  /\ pc' = [pc EXCEPT ![s] = "idle"]
  /\ IF frag = s /\ call[s].op = "data" THEN frag' = None /\ UNCHANGED total
                                        ELSE UNCHANGED app
  /\ UNCHANGED <<conn, lock, call, widx, lead, peer>>

More(s) == widx[s] < call[s].len \/ lead[s]

Rest_Whole(s) == call[s].len      \* mutant: need_write is not reduced
Rest(s) == call[s].len - widx[s]

IsLast_Kept(s) == call[s].fin     \* mutant: FIN is not masked out
IsLast(s) == call[s].fin /\ Rest(s) <= BufferSize

NeedWrite(s) == IF Rest(s) > BufferSize THEN BufferSize ELSE Rest(s)

\* How the server takes a frame: RFC 6455 allows no new message inside another,
\* and no continuation of nothing.
Receive(s, start, n, fin) ==
  IF asm = Deaf \/ start # (asm = NoMessage)
  THEN asm' = Deaf /\ UNCHANGED arrived
  ELSE LET m == [by |-> IF start THEN s ELSE asm.by, size |-> asm.size + n]
       IN IF fin THEN arrived' = m /\ asm' = NoMessage
                 ELSE asm' = m /\ UNCHANGED arrived

\* The transport takes what it is given, or a part that is not empty.
Written(s) == {NeedWrite(s)} \union 1..NeedWrite(s)

\* One turn of the loop.
Fragment(s) ==
  /\ pc[s] = "send" /\ More(s) /\ up
  /\ \E n \in Written(s) :
       /\ Receive(s, lead[s] /\ call[s].op = "data", n, IsLast(s))
       /\ widx' = [widx EXCEPT ![s] = @ + n]
  /\ lead' = [lead EXCEPT ![s] = FALSE]
  /\ UNCHANGED <<conn, lock, pc, call, app, left>>

\* The call returns its length.
Return(s) ==
  /\ pc[s] = "send" /\ ~More(s)
  /\ pc' = [pc EXCEPT ![s] = "idle"] /\ lock' = None
  /\ IF frag = s /\ ~call[s].fin
     THEN total' = total + widx[s] /\ UNCHANGED frag
     ELSE IF frag = s THEN frag' = None /\ total' = 0 ELSE UNCHANGED app
  /\ UNCHANGED <<conn, call, widx, lead, peer>>

HangUp == up' = FALSE /\ asm' = NoMessage /\ left' = None /\ UNCHANGED arrived

\* esp_websocket_client_abort_connection, without auto_reconnect or with it.
Down == state' \in {"UNKNOW", "DOWN"}

\* The call returns -1.
End(s) ==
  /\ pc' = [pc EXCEPT ![s] = "idle"] /\ lock' = None
  /\ IF frag = s THEN frag' = None /\ total' = 0 ELSE UNCHANGED app

\* Mutant: the transport is not closed.
Fail_KeepsOpen(s) ==
  /\ pc[s] = "send" /\ More(s)
  /\ End(s)
  /\ UNCHANGED <<conn, peer, call, widx, lead>>

\* The write fails: the connection is aborted.  The transport is closed ...
Fail(s) ==
  /\ pc[s] = "send" /\ More(s)
  /\ IF state = "UNKNOW"
     THEN End(s) /\ UNCHANGED <<conn, peer>>
     ELSE /\ HangUp /\ pc' = [pc EXCEPT ![s] = "abort"]
          /\ UNCHANGED <<task, state, lock, app>>
  /\ UNCHANGED <<call, widx, lead>>

\* ... and the state written, whatever the client task has made of it meanwhile.
FailState(s) ==
  /\ pc[s] = "abort"
  /\ Down /\ End(s)
  /\ UNCHANGED <<task, up, call, widx, lead, peer>>

Call(s) == SendWhole(s) \/ SendPartial(s) \/ SendMore(s) \/ Abandon(s)
Transmit(s) ==
  \/ TakeLock(s) \/ LockTimeout(s) \/ Fragment(s) \/ Return(s)
  \/ Fail(s) \/ FailState(s)
-----------------------------------------------------------------------------
(* The client task.  Connect, AbortConnection and CloseReconnect hold the  *)
(* lock from end to end: what others do meanwhile they may do before.      *)

Connect ==
  /\ task = "loop" /\ state = "DOWN" /\ lock = None
  /\ state' = "CONNECTED" /\ up' = TRUE /\ asm' = NoMessage /\ left' = None
  /\ UNCHANGED <<task, lock, send, app, arrived>>

\* A failed connect, read or poll, or a missing PONG.
AbortConnection ==
  /\ task = "loop" /\ state # "UNKNOW" /\ lock = None
  /\ HangUp /\ Down
  /\ UNCHANGED <<task, lock, send, app>>

\* recv has read the server's CLOSE ...
ReadClose ==
  /\ task = "loop" /\ state = "CONNECTED" /\ asm = Deaf
  /\ task' = "recv"
  /\ UNCHANGED <<state, up, lock, send, app, peer>>

\* ... and writes the state, which an abort may have changed.
RecvClose ==
  /\ task = "recv"
  /\ task' = "loop" /\ state' = "CLOSING"
  /\ UNCHANGED <<up, lock, send, app, peer>>

\* The handshake of the close is over, as far as the client waits for it.
PollClosed ==
  /\ task = "loop" /\ state = "CLOSING"
  /\ task' = "polled"
  /\ UNCHANGED <<state, up, lock, send, app, peer>>

\* With close_reconnect ...
CloseReconnect ==
  /\ task = "polled" /\ lock = None
  /\ task' = "loop" /\ HangUp /\ state' = "DOWN"
  /\ UNCHANGED <<lock, send, app>>

\* ... and without it, or if the lock is not had in time.
GiveUp ==
  /\ task = "polled"
  /\ task' = "giveup" /\ state' = "UNKNOW"
  /\ UNCHANGED <<up, lock, send, app, peer>>

\* The end of the task, told to stop or giving up: esp_transport_close ...
ExitClose ==
  /\ task \in {"loop", "giveup"}
  /\ task' = "leaving" /\ HangUp
  /\ UNCHANGED <<state, lock, send, app>>

\* ... and the state.
Exit ==
  /\ task = "leaving"
  /\ task' = "gone" /\ state' = "UNKNOW"
  /\ UNCHANGED <<up, lock, send, app, peer>>

\* The client is started, again perhaps.
Start ==
  /\ task = "gone" /\ state = "UNKNOW"
  /\ task' = "loop" /\ state' = "DOWN" /\ HangUp
  /\ UNCHANGED <<lock, send, app>>

\* The server sends its CLOSE, after a frame out of order or of its own accord.
PeerCloses ==
  /\ up /\ asm' = Deaf
  /\ UNCHANGED <<conn, lock, send, app, left, arrived>>

Task ==
  \/ Connect \/ AbortConnection \/ ReadClose \/ RecvClose
  \/ PollClosed \/ CloseReconnect \/ GiveUp \/ ExitClose \/ Exit \/ Start

Next == (\E s \in Senders : Call(s) \/ Transmit(s)) \/ Task \/ PeerCloses

Spec == Init /\ [][Next]_vars
-----------------------------------------------------------------------------
(* Correctness                                                             *)

TypeOK ==
  /\ task \in {"loop", "recv", "polled", "giveup", "leaving", "gone"}
  /\ state \in {"CONNECTED", "DOWN", "CLOSING", "UNKNOW"} /\ up \in BOOLEAN
  /\ lock \in Senders \union {None} 
  /\ frag \in Senders \union {None} /\ left \in Senders \union {None}
  /\ pc \in [Senders -> {"idle", "lock", "send", "abort"}]
  /\ call \in [Senders -> Calls] /\ lead \in [Senders -> BOOLEAN]
  /\ widx \in [Senders -> Nat] /\ total \in Nat
  /\ \A s \in Senders : widx[s] <= call[s].len
  /\ asm \in Messages \union {NoMessage, Deaf}
  /\ arrived \in Messages \union {NoMessage}

\* What the server has of a message it completes is all that its author has
\* written of it, in every call that returned a length, however the connection
\* changed and whichever calls were refused meanwhile; and it is the whole message,
\* unless the transport cut short the very frame that ends it.
ArrivesWhole ==
  [][\A s \in Senders :
       arrived' # arrived /\ Fragment(s) =>
         /\ arrived'.by = s /\ call[s].fin
         /\ arrived'.size = widx'[s] + IF frag = s THEN total ELSE 0
         /\ widx'[s] = widx[s] + NeedWrite(s) => widx'[s] = call[s].len]_vars

\* No message begins inside another one, whoever failed or timed out in the middle
\* of it, unless its author gave it up on a connection that is still open.
NeverMixed ==
  [][\A s \in Senders :
       Fragment(s) /\ lead[s] /\ call[s].op = "data" =>
         asm \in {NoMessage, Deaf} \/ left # None]_vars

=============================================================================
