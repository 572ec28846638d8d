----------------------------- MODULE WsReceive -----------------------------
(***************************************************************************)
(* Frames become events, and events reach the application's handler: the   *)
(* loop of esp_websocket_client_recv, esp_websocket_client_dispatch_event, *)
(* and the event loop that all tasks of a client share.                    *)
(*                                                                         *)
(* An event points into rx_buffer, and the loop has no task of its own:    *)
(* the task that posts an event runs the loop next and handles one event,  *)
(* whoever posted it.  A handler may send, with a finite timeout; when the *)
(* write fails it dispatches two events from inside its own.  What opcodes *)
(* and the lifecycle do is in WsClient and WsKeepAlive, what a message is  *)
(* made of in WsSend.  The transport keeps its place in a frame.           *)
(***************************************************************************)
EXTENDS Naturals, Sequences

CONSTANTS
  Client,         \* the client task
  Senders,        \* tasks that send
  None,           \* no task
  BufferSize,     \* client->buffer_size
  Sizes,          \* payload sizes of frames
  QueueSize       \* WEBSOCKET_EVENT_QUEUE_SIZE

Tasks == {Client} \cup Senders
Levels == 1..2    \* a dispatch, and one from inside its handler

ASSUME TasksDiffer == Client \notin Senders /\ None \notin Tasks
ASSUME SizesNat == BufferSize \in Nat \ {0} /\ Sizes \subseteq Nat
ASSUME QueueOfOne == QueueSize = 1

VARIABLES
  run,            \* client->run
  connected,      \* client->state is CONNECTED
  pc,             \* of the client task: poll, read, next or done
  frame,          \* the frame the transport reads: its size, and a bit that
                  \* tells it from the one before
  got,            \* how much of it was read
  rx,             \* which part of which frame is in rx_buffer
  offset, total,  \* client->payload_offset and client->payload_len
  lock, holds,    \* who holds client->lock, and how many times
  queue,          \* of the event loop
  mutex,          \* of the event loop: who handles an event
  calls           \* of each task: its dispatches in progress

reader == <<pc, frame, got, rx, offset, total>>
locks  == <<lock, holds>>
loop   == <<queue, mutex, calls>>
vars   == <<run, connected, pc, frame, got, rx, offset, total, lock, holds,
            queue, mutex, calls>>

Kinds == {"CONNECTED", "DATA", "ERROR", "DISCONNECTED", "FINISH"}
Empty == [odd |-> FALSE, at |-> 0, len |-> 0, of |-> 0]

\* What a dispatch tells the handler; chunk is what data_ptr points to just then.
Event(kind, chunk) ==
  [kind |-> kind, off |-> offset, len |-> chunk.len, total |-> chunk.of,
   chunk |-> chunk]
Plain(kind) == [kind |-> kind, off |-> 0, len |-> 0, total |-> 0, chunk |-> Empty]

\* kind is what the task dispatched, event what it posts and then handles.
NoCall == [step |-> "none", kind |-> "none", event |-> Plain("none")]
CallOf(e) == [step |-> "ask", kind |-> e.kind, event |-> e]

Init ==
  /\ run = TRUE /\ connected = FALSE /\ pc = "poll"
  /\ frame = [size |-> 0, odd |-> FALSE] /\ got = 0 /\ rx = Empty
  /\ offset = 0 /\ total = 0
  /\ lock = None /\ holds = 0
  /\ queue = <<>> /\ mutex = None
  /\ calls = [t \in Tasks |-> [d \in Levels |-> NoCall]]

-----------------------------------------------------------------------------
(* The lock and the calls of a task                                        *)

Idle(t) == calls[t][1].step = "none"
Nested(t) == calls[t][2].step # "none"
At(t, d, step) == calls[t][d].step = step /\ (d = 1 => ~Nested(t))

Go(t, d, step) == calls' = [calls EXCEPT ![t][d].step = step]

Free(t) == lock \in {None, t}
Take(t) == Free(t) /\ lock' = t /\ holds' = holds + 1
Give(t) ==
  IF lock # t THEN UNCHANGED locks
  ELSE holds' = holds - 1 /\ lock' = IF holds = 1 THEN None ELSE lock

-----------------------------------------------------------------------------
(* esp_websocket_client_dispatch_event                                     *)

\* esp_event_post_to first takes and gives the mutex, to see who asks.
Ask(t, d) ==
  /\ At(t, d, "ask") /\ mutex \in {None, t}
  /\ Go(t, d, "post")
  /\ UNCHANGED <<run, connected, reader, locks, queue, mutex>>

Room_Two == Len(queue) < QueueSize + 1       \* mutant: a queue of two
Room == Len(queue) < QueueSize

Post(t, d) ==
  /\ At(t, d, "post") /\ Room
  /\ queue' = Append(queue, calls[t][d].event)
  /\ Go(t, d, "run")
  /\ UNCHANGED <<run, connected, reader, locks, mutex>>

\* A handler, which others wait for, does not wait for room: its event is lost,
\* and esp_event_loop_run is not called.
Lost(t, d) ==
  /\ At(t, d, "post") /\ d = 2 /\ ~Room
  /\ Go(t, d, "handled")
  /\ UNCHANGED <<run, connected, reader, locks, queue, mutex>>

\* esp_event_loop_run(loop, 0) takes what is in the queue, or returns.
Run(t, d) ==
  /\ At(t, d, "run")
  /\ IF queue = <<>>
     THEN Go(t, d, "handled") /\ UNCHANGED queue
     ELSE /\ calls' = [calls EXCEPT ![t][d].step = "taken",
                                    ![t][d].event = Head(queue)]
          /\ queue' = Tail(queue)
  /\ UNCHANGED <<run, connected, reader, locks, mutex>>

Handle(t, d) ==
  /\ At(t, d, "taken") /\ mutex \in {None, t}
  /\ mutex' = t
  /\ Go(t, d, "handle")
  /\ UNCHANGED <<run, connected, reader, locks, queue>>

\* The handler of the application: a send or not.
HandlerReturns(t, d) ==
  /\ At(t, d, "handle")
  /\ Go(t, d, "handled")
  /\ UNCHANGED <<run, connected, reader, locks, queue, mutex>>

HandlerSends(t) ==
  /\ At(t, 1, "handle") /\ connected
  /\ Go(t, 1, "send")
  /\ UNCHANGED <<run, connected, reader, locks, queue, mutex>>

\* send_with_exact_opcode in a handler: it writes ...
HandlerWrites(t) ==
  /\ At(t, 1, "send") /\ Free(t)
  /\ Go(t, 1, "handled")
  /\ UNCHANGED <<run, connected, reader, locks, queue, mutex>>

\* ... or does not get the lock in time ...
SendTimesOut_Again(t) ==        \* mutant: it tries again, for ever
  /\ At(t, 1, "send") /\ ~Free(t)
  /\ Go(t, 1, "handle")
  /\ UNCHANGED <<run, connected, reader, locks, queue, mutex>>

SendTimesOut(t) ==
  /\ At(t, 1, "send") /\ ~Free(t)
  /\ Go(t, 1, "handled")
  /\ UNCHANGED <<run, connected, reader, locks, queue, mutex>>

\* ... or the write fails, and the rest is Abort.
HandlerWriteFails(t) ==
  /\ At(t, 1, "send") /\ Take(t)
  /\ calls' = [calls EXCEPT ![t][1].step = "handled",
                            ![t][2] = CallOf(Plain("ERROR"))]
  /\ UNCHANGED <<run, connected, reader, queue, mutex>>

\* After the ERROR of a send comes the abort; a read holds no lock yet.
AfterError(t, d) ==
  [step |-> IF t = Client /\ d = 1 THEN "lock" ELSE "abort",
   kind |-> "DISCONNECTED", event |-> Plain("DISCONNECTED")]

Return(t, d) ==
  /\ At(t, d, "handled")
  /\ mutex' = IF d = 1 /\ mutex = t THEN None ELSE mutex
  /\ calls' = [calls EXCEPT ![t][d] =
                 IF @.kind = "ERROR" THEN AfterError(t, d) ELSE NoCall]
  /\ IF calls[t][d].kind \in {"DISCONNECTED", "CONNECTED"}
     THEN Give(t) ELSE UNCHANGED locks
  /\ UNCHANGED <<run, connected, reader, queue>>

\* The client task takes the lock after a read or poll that failed.
AbortLock(t) ==
  /\ At(t, 1, "lock") /\ Take(t)
  /\ Go(t, 1, "abort")
  /\ UNCHANGED <<run, connected, reader, queue, mutex>>

\* esp_websocket_client_abort_connection, and its check of client->state.
TooLate(t, d) ==
  /\ At(t, d, "abort") /\ pc = "done" /\ Idle(Client)
  /\ Go(t, d, "handled")
  /\ UNCHANGED <<run, connected, reader, locks, queue, mutex>>

Abort(t, d) ==
  /\ At(t, d, "abort") /\ ~(pc = "done" /\ Idle(Client))
  /\ connected' = FALSE
  /\ frame' = [frame EXCEPT !.size = 0] /\ got' = 0
  /\ Go(t, d, "ask")
  /\ UNCHANGED <<run, pc, rx, offset, total, locks, queue, mutex>>

DispatchStep(t, d) ==
  \/ Ask(t, d) \/ Post(t, d) \/ Lost(t, d) \/ Run(t, d) \/ Handle(t, d)
  \/ HandlerReturns(t, d) \/ Return(t, d) \/ TooLate(t, d) \/ Abort(t, d)

HandlerStep(t) ==
  \/ HandlerSends(t) \/ HandlerWrites(t) \/ SendTimesOut(t)
  \/ HandlerWriteFails(t) \/ AbortLock(t)

Turn(t) == HandlerStep(t) \/ \E d \in Levels : DispatchStep(t, d)

-----------------------------------------------------------------------------
(* esp_websocket_client_task                                               *)

Dispatch(t, e) == Idle(t) /\ calls' = [calls EXCEPT ![t][1] = CallOf(e)]

\* The top of the loop, with the lock: a connection is made ...
Connect ==
  /\ pc = "poll" /\ run /\ ~connected /\ Take(Client)
  /\ connected' = TRUE
  /\ Dispatch(Client, Plain("CONNECTED"))
  /\ UNCHANGED <<run, reader, queue, mutex>>

\* ... or poll_read sees that a frame comes, and recv begins.
Poll_KeepsOffset ==             \* mutant: payload_offset is not reset
  /\ pc = "poll" /\ run /\ connected /\ Free(Client) /\ Idle(Client)
  /\ pc' = "read" /\ UNCHANGED offset
  /\ UNCHANGED <<run, connected, frame, got, rx, total, locks, loop>>

Poll ==
  /\ pc = "poll" /\ run /\ connected /\ Free(Client) /\ Idle(Client)
  /\ pc' = "read" /\ offset' = 0
  /\ UNCHANGED <<run, connected, frame, got, rx, total, locks, loop>>

InFrame == got < frame.size

\* The first read of a frame reads its header and a part of it, a later one goes on.
Frames == IF InFrame THEN {frame}
          ELSE {[size |-> n, odd |-> ~frame.odd] : n \in Sizes}
Place == IF InFrame THEN got ELSE 0

\* rx_buffer gets so many bytes of the frame.
Read(f, bytes) ==
  LET chunk == [odd |-> f.odd, at |-> Place, len |-> bytes, of |-> f.size]
  IN /\ pc = "read" /\ connected
     /\ Dispatch(Client, Event("DATA", chunk))
     /\ rx' = chunk /\ frame' = f /\ got' = Place + bytes /\ total' = f.size
     /\ pc' = "next"
     /\ UNCHANGED <<run, connected, offset, locks, queue, mutex>>

Progress(f, bytes) ==
  bytes <= BufferSize /\ bytes <= f.size - Place /\ (bytes = 0 => f.size = 0)

ReadPart == \E f \in Frames : \E bytes \in 0..BufferSize :
              Progress(f, bytes) /\ Read(f, bytes)

\* In network_timeout_ms no more of the frame came.
ReadNothing == \E f \in Frames : f.size > 0 /\ Read(f, 0)

\* Nor a new frame: last_opcode is NONE.
ReadTimesOut ==
  /\ pc = "read" /\ Idle(Client) /\ connected /\ ~InFrame
  /\ pc' = "poll"
  /\ UNCHANGED <<run, connected, frame, got, rx, offset, total, locks, loop>>

\* poll_read or the read fails; a closed connection always does.
ReadFails ==
  /\ \/ pc = "poll" /\ run /\ connected /\ Free(Client)
     \/ pc = "read"
  /\ Dispatch(Client, Plain("ERROR"))
  /\ pc' = "poll"
  /\ frame' = [frame EXCEPT !.size = 0] /\ got' = 0
  /\ UNCHANGED <<run, connected, rx, offset, total, locks, queue, mutex>>

\* The end of the loop of recv.
More_AtEnd == offset' <= total  \* mutant: <= for <
More == offset' < total

Advance ==
  /\ pc = "next" /\ Idle(Client)
  /\ offset' = offset + rx.len
  /\ pc' = IF More THEN "read" ELSE "poll"
  /\ UNCHANGED <<run, connected, frame, got, rx, total, locks, loop>>

\* run is only looked at here.
Leave ==
  /\ pc = "poll" /\ ~run
  /\ Dispatch(Client, Plain("FINISH"))
  /\ pc' = "done"
  /\ connected' = FALSE
  /\ UNCHANGED <<run, frame, got, rx, offset, total, locks, queue, mutex>>

TaskStep ==
  \/ Connect \/ Poll \/ ReadPart \/ ReadNothing \/ ReadTimesOut \/ ReadFails
  \/ Advance \/ Leave

-----------------------------------------------------------------------------
(* The application                                                         *)

\* A send whose write fails; the others change nothing here.
SendFails(s) ==
  /\ connected /\ Take(s)
  /\ Dispatch(s, Plain("ERROR"))
  /\ UNCHANGED <<run, connected, reader, queue, mutex>>

Stop ==
  /\ run /\ pc # "done" /\ run' = FALSE
  /\ UNCHANGED <<connected, reader, locks, loop>>

Start ==
  /\ pc = "done" /\ Idle(Client)
  /\ run' = TRUE /\ pc' = "poll"
  /\ frame' = [frame EXCEPT !.size = 0] /\ got' = 0
  /\ UNCHANGED <<connected, rx, offset, total, locks, loop>>

Next ==
  \/ \E t \in Tasks : Turn(t)
  \/ TaskStep
  \/ \E s \in Senders : SendFails(s)
  \/ Stop \/ Start

Spec == Init /\ [][Next]_vars

\* Blocked tasks get the mutex, the room in the queue and the lock in turn; a
\* handler comes to its end; a server that began a frame goes on with it.
Fairness ==
  /\ \A t \in Tasks : SF_vars(Turn(t))
  /\ SF_vars(TaskStep) /\ SF_vars(ReadPart)

FairSpec == Spec /\ Fairness
-----------------------------------------------------------------------------
(* Correctness                                                             *)

Chunks == [odd : BOOLEAN, at : Nat, len : Nat, of : Nat]
Events == [kind : Kinds \cup {"none"}, off : Nat, len : Nat, total : Nat, chunk : Chunks]
Steps == {"none", "ask", "post", "run", "taken", "handle", "send", "handled",
          "lock", "abort"}

TypeOK ==
  /\ run \in BOOLEAN /\ connected \in BOOLEAN
  /\ pc \in {"poll", "read", "next", "done"}
  /\ frame \in [size : Nat, odd : BOOLEAN] /\ got \in Nat /\ rx \in Chunks
  /\ offset \in Nat /\ total \in Nat
  /\ lock \in Tasks \cup {None} /\ holds \in Nat /\ mutex \in Tasks \cup {None}
  /\ queue \in Seq(Events) /\ Len(queue) <= QueueSize
  /\ calls \in [Tasks -> [Levels -> [step : Steps, kind : Kinds \cup {"none"},
                                     event : Events]]]

\* A handler has the event.
Handling(t, d) == calls[t][d].step \in {"handle", "send", "handled"} /\ mutex = t

\* A handler finds in rx_buffer the very bytes its event is about: no other task
\* is made to handle it while the client task reads on into the buffer.
ChunkIntact ==
  \A t \in Tasks, d \in Levels :
    Handling(t, d) /\ calls[t][d].event.kind = "DATA" => rx = calls[t][d].event.chunk

\* The events of a frame tile it: each tells its place and the whole length, and
\* recv does not end inside a frame of a connection that is still up.
ChunksTile ==
  /\ \A t \in Tasks, d \in Levels :
       LET e == calls[t][d].event
       IN /\ e.off = e.chunk.at /\ e.total = e.chunk.of
          /\ e.off + e.len <= e.total
  /\ pc = "poll" => ~InFrame

\* A dispatch comes back, whatever the tasks hold that meet in it, as long as no
\* handler sends without a timeout.
DispatchReturns ==
  \A t \in Tasks : calls[t][1].step # "none" ~> calls[t][1].step = "none"

\* The client task leaves once run is reset, if the server does not stall for ever
\* inside a frame: recv itself never looks at run.
StopHeard == ~run ~> pc = "done"
=============================================================================
