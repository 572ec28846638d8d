-------------------------- MODULE WsReceive_proofs --------------------------
(***************************************************************************)
(* Why a handler finds the bytes of its event in rx_buffer: with room for  *)
(* one event, the task that runs the loop is handed its own event, so the  *)
(* client task waits for every handler that looks into the buffer.  And    *)
(* why no dispatch waits for ever: the mutex and the queue of the loop and *)
(* the lock of the client are never held in a circle.                      *)
(***************************************************************************)
EXTENDS WsReceive, TLAPS

Calls == [step : Steps, kind : Kinds \cup {"none"}, event : Events]

\* A task goes on to another step of a dispatch; or a dispatch becomes another.
Becomes(t, d, call) == calls' = [calls EXCEPT ![t][d] = call]

LEMMA CallsAfter ==
  ASSUME calls \in [Tasks -> [Levels -> Calls]],
         NEW t \in Tasks, NEW d \in Levels, NEW call \in Calls, Becomes(t, d, call)
  PROVE  /\ calls' \in [Tasks -> [Levels -> Calls]]
         /\ \A u \in Tasks, e \in Levels :
              calls'[u][e] = IF u = t /\ e = d THEN call ELSE calls[u][e]
  BY DEF Becomes

LEMMA GoBecomes ==
  ASSUME calls \in [Tasks -> [Levels -> Calls]],
         NEW t \in Tasks, NEW d \in Levels, NEW step \in Steps, Go(t, d, step)
  PROVE  /\ [calls[t][d] EXCEPT !.step = step] \in Calls
         /\ Becomes(t, d, [calls[t][d] EXCEPT !.step = step])
<1>1. calls[t][d] \in Calls
  OBVIOUS
<1>2. [calls[t][d] EXCEPT !.step = step] \in Calls
  BY <1>1 DEF Calls
<1>3. calls' = [calls EXCEPT ![t][d] = [calls[t][d] EXCEPT !.step = step]]
  BY DEF Go
<1>4. QED
  BY <1>2, <1>3 DEF Becomes

-----------------------------------------------------------------------------
(* Who posted what is handled                                              *)

\* The event of the task that runs the loop next is the one in the queue.
PostedInv ==
  \A t \in Tasks, d \in Levels :
    calls[t][d].step = "run" => queue = <<calls[t][d].event>>

OneRuns ==
  \A t, u \in Tasks, d, e \in Levels :
    calls[t][d].step = "run" /\ calls[u][e].step = "run" => t = u /\ d = e

KindInv == \A t \in Tasks, d \in Levels : calls[t][d].event.kind = calls[t][d].kind

OwnInv == PostedInv /\ OneRuns /\ KindInv

\* While a DATA event is under way the client task waits for it.
DataInv ==
  \A t \in Tasks, d \in Levels :
    calls[t][d].kind = "DATA" =>
      /\ t = Client /\ d = 1 /\ pc = "next" /\ calls[t][d].step # "none"
      /\ calls[t][d].event.chunk = rx

\* Where recv stands in a frame.
FrameInv ==
  /\ pc \in {"poll", "done"} => ~InFrame
  /\ ~connected => ~InFrame
  /\ pc = "read" /\ connected => offset = Place
  /\ pc = "next" /\ connected => got = offset + rx.len /\ total = frame.size

Tile(e) == e.off = e.chunk.at /\ e.total = e.chunk.of /\ e.off + e.len <= e.total

TileInv == \A t \in Tasks, d \in Levels : Tile(calls[t][d].event)

\* Who has the lock holds it at least once.
HeldInv == lock # None => holds > 0

CallsInv == OwnInv /\ DataInv /\ TileInv

Inv == TypeOK /\ CallsInv /\ FrameInv /\ HeldInv

\* One call of one task is now this one.
Replaced(t, d, call) ==
  /\ calls' \in [Tasks -> [Levels -> Calls]]
  /\ \A u \in Tasks, e \in Levels :
       calls'[u][e] = IF u = t /\ e = d THEN call ELSE calls[u][e]

\* A call that only gets further, not to the run, keeps what is said of calls.
LEMMA SameInv ==
  ASSUME CallsInv, NEW t \in Tasks, NEW d \in Levels, NEW call, Replaced(t, d, call),
         call.step \notin {"run", "none"}, call.kind = calls[t][d].kind,
         call.event = calls[t][d].event, UNCHANGED <<rx, pc>>,
         queue' = queue \/ calls[t][d].step = "run"
  PROVE  CallsInv'
<1> USE DEF Replaced, CallsInv, OwnInv
<1>1. PostedInv'
  BY DEF PostedInv, OneRuns
<1>2. OneRuns'
  BY DEF OneRuns
<1>3. KindInv'
  BY DEF KindInv
<1>4. DataInv'
  BY DEF DataInv
<1>5. TileInv'
  BY DEF TileInv, Tile
<1>6. QED
  BY <1>1, <1>2, <1>3, <1>4, <1>5

\* A step of a dispatch that changes only where it stands, and not the queue.
LEMMA GoInv ==
  ASSUME Inv, NEW t \in Tasks, NEW d \in Levels, NEW step \in Steps \ {"run", "none"},
         Go(t, d, step), UNCHANGED queue, UNCHANGED <<rx, pc>>
  PROVE  calls' \in [Tasks -> [Levels -> Calls]] /\ CallsInv'
<1> DEFINE call == [calls[t][d] EXCEPT !.step = step]
<1>1. calls \in [Tasks -> [Levels -> Calls]]
  BY DEF Inv, TypeOK, Calls
<1>2. call \in Calls /\ Becomes(t, d, call)
  BY <1>1, GoBecomes
<1>3. /\ call.step = step /\ call.kind = calls[t][d].kind
      /\ call.event = calls[t][d].event
  BY <1>1 DEF Calls
<1> HIDE DEF call
<1>4. Replaced(t, d, call)
  BY <1>1, <1>2, CallsAfter DEF Replaced
<1>5. CallsInv
  BY DEF Inv
<1>6. QED
  BY <1>3, <1>4, <1>5, SameInv DEF Replaced

\* A dispatch that is not one of DATA begins, becomes another, or is over.
LEMMA PlainInv ==
  ASSUME Inv, NEW t \in Tasks, NEW d \in Levels, NEW call \in Calls,
         Becomes(t, d, call), UNCHANGED queue, UNCHANGED rx,
         pc' = pc \/ \A u \in Tasks, e \in Levels : calls[u][e].kind # "DATA",
         call.step # "run", call.kind # "DATA", call.event.kind = call.kind,
         Tile(call.event)
  PROVE  calls' \in [Tasks -> [Levels -> Calls]] /\ CallsInv'
<1>1. calls \in [Tasks -> [Levels -> Calls]]
  BY DEF Inv, TypeOK, Calls
<1>2. Replaced(t, d, call)
  BY <1>1, CallsAfter DEF Replaced
<1> USE <1>2 DEF Inv, Replaced, CallsInv, OwnInv
<1>3. PostedInv'
  BY DEF PostedInv
<1>4. OneRuns'
  BY DEF OneRuns
<1>5. KindInv'
  BY DEF KindInv
<1>6. DataInv'
  BY DEF DataInv
<1>7. TileInv'
  BY DEF TileInv, Tile
<1>8. QED
  BY <1>3, <1>4, <1>5, <1>6, <1>7

\* The calls made of plain events.
LEMMA PlainCalls ==
  /\ NoCall \in Calls /\ Tile(NoCall.event) /\ NoCall.event.kind = NoCall.kind
  /\ \A k \in Kinds : /\ CallOf(Plain(k)) \in Calls /\ Tile(CallOf(Plain(k)).event)
                      /\ CallOf(Plain(k)).event.kind = CallOf(Plain(k)).kind
                      /\ CallOf(Plain(k)).kind = k /\ CallOf(Plain(k)).step = "ask"
  /\ \A t, d : /\ AfterError(t, d) \in Calls /\ Tile(AfterError(t, d).event)
               /\ AfterError(t, d).event.kind = AfterError(t, d).kind
               /\ AfterError(t, d).kind = "DISCONNECTED"
               /\ AfterError(t, d).step \in {"lock", "abort"}
  BY DEF Calls, Steps, Kinds, Events, Chunks, Plain, Empty, NoCall, CallOf, AfterError, Tile

\* Giving a lock back leaves it held or free.
LEMMA GiveHeld ==
  ASSUME NEW t \in Tasks, lock \in Tasks \cup {None}, holds \in Nat, HeldInv, Give(t)
  PROVE  lock' \in Tasks \cup {None} /\ holds' \in Nat /\ HeldInv'
  BY TasksDiffer DEF Give, HeldInv, locks

LEMMA TakeHeld ==
  ASSUME NEW t \in Tasks, lock \in Tasks \cup {None}, holds \in Nat, HeldInv, Take(t)
  PROVE  lock' \in Tasks \cup {None} /\ holds' \in Nat /\ HeldInv'
  BY TasksDiffer DEF Take, Free, HeldInv

-----------------------------------------------------------------------------
(* The steps                                                               *)

LEMMA InitInv == Init => Inv
<1> SUFFICES ASSUME Init PROVE Inv
  OBVIOUS
<1>1. /\ \A t \in Tasks, d \in Levels : calls[t][d] = NoCall
      /\ calls \in [Tasks -> [Levels -> Calls]]
  BY PlainCalls DEF Init
<1>2. run \in BOOLEAN /\ connected \in BOOLEAN /\ frame \in [size : Nat, odd : BOOLEAN]
      /\ rx \in Chunks
  BY DEF Init, Chunks, Empty
<1>3. TypeOK
  BY <1>1, <1>2, QueueOfOne DEF Init, TypeOK, Calls
<1>6. CallsInv
  BY <1>1, PlainCalls DEF CallsInv, OwnInv, PostedInv, OneRuns, KindInv, DataInv,
                          TileInv, NoCall
<1>4. FrameInv /\ HeldInv
  BY DEF Init, FrameInv, HeldInv, InFrame
<1>5. QED
  BY <1>3, <1>4, <1>6 DEF Inv

\* The steps between the posting of an event and its handling, and inside a handler.
LEMMA MovesInv ==
  ASSUME Inv, NEW t \in Tasks, NEW d \in Levels,
         \/ Ask(t, d) \/ Lost(t, d) \/ Handle(t, d) \/ HandlerReturns(t, d)
         \/ TooLate(t, d) \/ HandlerSends(t) \/ HandlerWrites(t) \/ SendTimesOut(t)
         \/ AbortLock(t)
  PROVE  Inv'
<1> USE DEF Ask, Lost, Handle, HandlerReturns, TooLate, HandlerSends, HandlerWrites,
            SendTimesOut, AbortLock
<1>1. PICK e \in Levels, step \in Steps \ {"run", "none"} : Go(t, e, step)
  BY DEF Levels, Steps
<1>2. UNCHANGED <<queue, reader, connected, run>>
  OBVIOUS
<1>3. calls' \in [Tasks -> [Levels -> Calls]] /\ CallsInv'
  BY <1>1, <1>2, GoInv DEF reader
<1>4. FrameInv'
  BY <1>2 DEF Inv, FrameInv, InFrame, Place, reader
<1>5. mutex' \in Tasks \cup {None}
  BY DEF Inv, TypeOK
<1>6. UNCHANGED locks \/ Take(t)
  OBVIOUS
<1>7. lock' \in Tasks \cup {None} /\ holds' \in Nat /\ HeldInv'
  BY <1>6, TakeHeld DEF Inv, TypeOK, locks, HeldInv
<1>8. QED
  BY <1>2, <1>3, <1>4, <1>5, <1>7 DEF Inv, TypeOK, Calls, reader

LEMMA PostInv == ASSUME Inv, NEW t \in Tasks, NEW d \in Levels, Post(t, d) PROVE Inv'
<1> DEFINE call == [calls[t][d] EXCEPT !.step = "run"]
<1>1. calls \in [Tasks -> [Levels -> Calls]] /\ queue \in Seq(Events)
  BY DEF Inv, TypeOK, Calls
<1>2. call \in Calls /\ Becomes(t, d, call)
  BY <1>1, GoBecomes DEF Post, Steps
<1>3. /\ call.step = "run" /\ call.kind = calls[t][d].kind
      /\ call.event = calls[t][d].event /\ calls[t][d].step = "post"
      /\ calls[t][d].event \in Events
  BY <1>1 DEF Calls, Post, At
<1> HIDE DEF call
<1>4. Replaced(t, d, call)
  BY <1>1, <1>2, CallsAfter DEF Replaced
<1>5. Len(queue) < 1 /\ queue' = Append(queue, calls[t][d].event)
  BY QueueOfOne DEF Post, Room
<1>6. queue = <<>>
  BY <1>1, <1>5
<1>7. queue' = <<calls[t][d].event>> /\ queue' \in Seq(Events) /\ Len(queue') <= QueueSize
  BY <1>3, <1>5, <1>6, QueueOfOne
<1>8. \A u \in Tasks, e \in Levels : calls[u][e].step # "run"
  BY <1>6 DEF Inv, CallsInv, OwnInv, PostedInv
<1>9. PostedInv' /\ OneRuns'
  BY <1>3, <1>4, <1>7, <1>8 DEF PostedInv, OneRuns, Replaced
<1>10. KindInv'
  BY <1>3, <1>4 DEF Inv, CallsInv, OwnInv, KindInv, Replaced
<1>11. DataInv'
  BY <1>3, <1>4 DEF Inv, CallsInv, DataInv, Replaced, Post, reader
<1>12. TileInv'
  BY <1>3, <1>4 DEF Inv, CallsInv, TileInv, Tile, Replaced
<1>13. FrameInv' /\ HeldInv'
  BY DEF Inv, FrameInv, HeldInv, InFrame, Place, Post, reader, locks
<1>14. TypeOK'
  BY <1>4, <1>7 DEF Inv, TypeOK, Replaced, Calls, Post, reader, locks
<1>15. QED
  BY <1>9, <1>10, <1>11, <1>12, <1>13, <1>14 DEF Inv, CallsInv, OwnInv

\* The loop hands the task the event that it posted.
LEMMA RunInv == ASSUME Inv, NEW t \in Tasks, NEW d \in Levels, Run(t, d) PROVE Inv'
<1>1. calls \in [Tasks -> [Levels -> Calls]]
  BY DEF Inv, TypeOK, Calls
<1>2. calls[t][d].step = "run" /\ queue = <<calls[t][d].event>>
  BY DEF Inv, CallsInv, OwnInv, PostedInv, Run, At
<1>3. queue' = <<>> /\ queue # <<>> /\ Head(queue) = calls[t][d].event
  BY <1>2 DEF Run
<1>4. calls' = [calls EXCEPT ![t][d].step = "taken", ![t][d].event = calls[t][d].event]
  BY <1>3 DEF Run
<1> DEFINE call == [calls[t][d] EXCEPT !.step = "taken"]
<1>5. call \in Calls
  BY <1>1 DEF Calls, Steps
<1>6. Becomes(t, d, call)
  <2>1. call = [calls[t][d] EXCEPT !.step = "taken", !.event = calls[t][d].event]
    BY <1>1 DEF Calls
  <2>2. QED
    BY <1>1, <1>4, <2>1 DEF Becomes
<1>7. /\ call.step = "taken" /\ call.kind = calls[t][d].kind
      /\ call.event = calls[t][d].event
  BY <1>1 DEF Calls
<1> HIDE DEF call
<1>8. Replaced(t, d, call)
  BY <1>1, <1>5, <1>6, CallsAfter DEF Replaced
<1>9. CallsInv'
  BY <1>2, <1>7, <1>8, SameInv DEF Inv, Run, reader
<1>10. FrameInv' /\ HeldInv'
  BY DEF Inv, FrameInv, HeldInv, InFrame, Place, Run, reader, locks
<1>11. TypeOK'
  BY <1>3, <1>8, QueueOfOne DEF Inv, TypeOK, Replaced, Calls, Run, reader, locks
<1>12. QED
  BY <1>9, <1>10, <1>11 DEF Inv

LEMMA ReturnInv == ASSUME Inv, NEW t \in Tasks, NEW d \in Levels, Return(t, d) PROVE Inv'
<1> DEFINE call == IF calls[t][d].kind = "ERROR" THEN AfterError(t, d) ELSE NoCall
<1>1. /\ call \in Calls /\ call.step # "run" /\ call.kind # "DATA"
      /\ call.event.kind = call.kind /\ Tile(call.event)
  BY PlainCalls DEF NoCall
<1>2. Becomes(t, d, call)
  BY DEF Return, Becomes, Inv, TypeOK
<1> HIDE DEF call
<1>3. calls' \in [Tasks -> [Levels -> Calls]] /\ CallsInv'
  BY <1>1, <1>2, PlainInv DEF Return, reader
<1>4. lock' \in Tasks \cup {None} /\ holds' \in Nat /\ HeldInv'
  BY GiveHeld DEF Return, Inv, TypeOK, locks, HeldInv
<1>5. FrameInv' /\ mutex' \in Tasks \cup {None}
  BY DEF Inv, TypeOK, FrameInv, InFrame, Place, Return, reader
<1>6. QED
  BY <1>3, <1>4, <1>5 DEF Inv, TypeOK, Calls, Return, reader

LEMMA AbortInv == ASSUME Inv, NEW t \in Tasks, NEW d \in Levels, Abort(t, d) PROVE Inv'
<1> DEFINE call == [calls[t][d] EXCEPT !.step = "ask"]
<1>1. calls \in [Tasks -> [Levels -> Calls]]
  BY DEF Inv, TypeOK, Calls
<1>2. call \in Calls /\ Becomes(t, d, call)
  BY <1>1, GoBecomes DEF Abort, Steps
<1>3. /\ call.step = "ask" /\ call.kind = calls[t][d].kind
      /\ call.event = calls[t][d].event
  BY <1>1 DEF Calls
<1> HIDE DEF call
<1>4. Replaced(t, d, call)
  BY <1>1, <1>2, CallsAfter DEF Replaced
<1>5. CallsInv'
  BY <1>3, <1>4, SameInv DEF Inv, Abort
<1>6. frame'.size = 0 /\ frame' \in [size : Nat, odd : BOOLEAN] /\ got' = 0
  BY DEF Abort, Inv, TypeOK
<1>7. FrameInv' /\ HeldInv'
  BY <1>6 DEF Inv, FrameInv, HeldInv, InFrame, Place, Abort, locks
<1>8. QED
  BY <1>4, <1>5, <1>6, <1>7 DEF Inv, TypeOK, Replaced, Calls, Abort, locks

\* The handler's call goes on, and one from inside it begins.
LEMMA WriteFailsInv == ASSUME Inv, NEW t \in Tasks, HandlerWriteFails(t) PROVE Inv'
<1> DEFINE c1 == [calls[t][1] EXCEPT !.step = "handled"]
           c2 == CallOf(Plain("ERROR"))
<1>1. calls \in [Tasks -> [Levels -> Calls]] /\ 1 \in Levels /\ 2 \in Levels
  BY DEF Inv, TypeOK, Calls, Levels
<1>2. c1 \in Calls /\ c1.step = "handled" /\ c1.kind = calls[t][1].kind
      /\ c1.event = calls[t][1].event
  BY <1>1 DEF Calls, Steps
<1>3. c2 \in Calls /\ c2.step = "ask" /\ c2.kind = "ERROR"
      /\ c2.event.kind = c2.kind /\ Tile(c2.event)
  BY PlainCalls DEF Kinds
<1>4. calls' = [calls EXCEPT ![t][1] = c1, ![t][2] = c2]
  BY <1>1 DEF HandlerWriteFails
<1> HIDE DEF c1, c2
<1>5. /\ calls' \in [Tasks -> [Levels -> Calls]]
      /\ \A u \in Tasks, e \in Levels :
           calls'[u][e] = IF u = t THEN (IF e = 1 THEN c1 ELSE c2) ELSE calls[u][e]
  BY <1>1, <1>2, <1>3, <1>4 DEF Levels
<1>6. UNCHANGED <<queue, rx, pc>>
  BY DEF HandlerWriteFails, reader
<1> USE <1>1, <1>2, <1>3, <1>5, <1>6 DEF Inv, CallsInv, OwnInv
<1>7. PostedInv'
  BY DEF PostedInv
<1>14. OneRuns'
  BY DEF OneRuns
<1>8. KindInv'
  <2> SUFFICES ASSUME NEW u \in Tasks, NEW e \in Levels
               PROVE  calls'[u][e].event.kind = calls'[u][e].kind
    BY DEF KindInv
  <2>1. CASE u = t /\ e = 1
    BY <2>1 DEF KindInv
  <2>2. CASE u = t /\ e # 1
    BY <2>2
  <2>3. CASE u # t
    BY <2>3 DEF KindInv
  <2>4. QED
    BY <2>1, <2>2, <2>3
<1>9. DataInv'
  <2> SUFFICES ASSUME NEW u \in Tasks, NEW e \in Levels, calls'[u][e].kind = "DATA"
               PROVE  /\ u = Client /\ e = 1 /\ pc = "next" /\ calls'[u][e].step # "none"
                      /\ calls'[u][e].event.chunk = rx
    BY DEF DataInv
  <2>1. CASE u = t
    <3>1. e = 1
      BY <2>1
    <3>2. QED
      BY <2>1, <3>1 DEF DataInv
  <2>2. CASE u # t
    BY <2>2 DEF DataInv
  <2>3. QED
    BY <2>1, <2>2
<1>10. TileInv'
  <2> SUFFICES ASSUME NEW u \in Tasks, NEW e \in Levels
               PROVE  Tile(calls'[u][e].event)
    BY DEF TileInv, Tile
  <2>1. CASE u = t /\ e = 1
    BY <2>1 DEF TileInv
  <2>2. CASE u = t /\ e # 1
    BY <2>2
  <2>3. CASE u # t
    BY <2>3 DEF TileInv
  <2>4. QED
    BY <2>1, <2>2, <2>3
<1>11. lock' \in Tasks \cup {None} /\ holds' \in Nat /\ HeldInv'
  BY TakeHeld DEF HandlerWriteFails, TypeOK
<1>12. FrameInv'
  BY DEF FrameInv, InFrame, Place, HandlerWriteFails, reader
<1>13. QED
  BY <1>7, <1>8, <1>9, <1>10, <1>11, <1>12, <1>14 DEF TypeOK, Calls, HandlerWriteFails, reader

\* The client task, and a sender, begin a dispatch only when none is in progress.
LEMMA NoData ==
  ASSUME Inv, Idle(Client)
  PROVE  \A u \in Tasks, e \in Levels : calls[u][e].kind # "DATA"
  BY DEF Inv, CallsInv, DataInv, Idle

LEMMA DispatchPlain ==
  ASSUME Inv, NEW t \in Tasks, NEW k \in Kinds \ {"DATA"}, Dispatch(t, Plain(k)),
         UNCHANGED queue, UNCHANGED rx, pc' = pc \/ t = Client
  PROVE  calls' \in [Tasks -> [Levels -> Calls]] /\ CallsInv'
<1> DEFINE call == CallOf(Plain(k))
<1>1. /\ call \in Calls /\ call.step # "run" /\ call.kind # "DATA"
      /\ call.event.kind = call.kind /\ Tile(call.event)
  BY PlainCalls
<1>2. 1 \in Levels /\ Becomes(t, 1, call)
  BY DEF Levels, Dispatch, Becomes
<1> HIDE DEF call
<1>3. pc' = pc \/ \A u \in Tasks, e \in Levels : calls[u][e].kind # "DATA"
  BY NoData DEF Dispatch
<1>4. QED
  BY <1>1, <1>2, <1>3, PlainInv

\* Reading fills the buffer, and the event describes what it was filled with.
LEMMA ReadInv ==
  ASSUME Inv, NEW f \in Frames, NEW bytes \in Nat, Read(f, bytes),
         bytes <= f.size - Place
  PROVE  Inv'
<1> DEFINE chunk == [odd |-> f.odd, at |-> Place, len |-> bytes, of |-> f.size]
           call == CallOf(Event("DATA", chunk))
<1>1. f \in [size : Nat, odd : BOOLEAN] /\ Place \in Nat /\ Place <= f.size
  <2>1. CASE InFrame
    BY <2>1 DEF Inv, TypeOK, Frames, Place, InFrame
  <2>2. CASE ~InFrame
    <3>1. PICK n \in Sizes : f = [size |-> n, odd |-> ~frame.odd]
      BY <2>2 DEF Frames
    <3>2. (~frame.odd) \in BOOLEAN
      BY Zenon
    <3>3. f \in [size : Nat, odd : BOOLEAN] /\ f.size = n /\ n \in Nat
      BY <3>1, <3>2, SizesNat
    <3>4. QED
      BY <2>2, <3>3 DEF Place
  <2>3. QED
    BY <2>1, <2>2
<1>2. chunk \in Chunks /\ rx' = chunk /\ pc = "read" /\ pc' = "next" /\ connected
      /\ UNCHANGED <<run, connected, offset, locks, queue, mutex>>
  BY <1>1 DEF Chunks, Read
<1>3. offset = Place /\ Place + bytes <= f.size
  BY <1>1, <1>2 DEF Inv, FrameInv
<1>4. /\ call \in Calls /\ call.step = "ask" /\ call.kind = "DATA"
      /\ call.event.kind = "DATA" /\ call.event.chunk = chunk /\ Tile(call.event)
  BY <1>1, <1>2, <1>3 DEF Calls, Steps, Kinds, Events, CallOf, Event, Tile
<1>5. Becomes(Client, 1, call) /\ 1 \in Levels /\ Client \in Tasks /\ Idle(Client)
  BY DEF Read, Dispatch, Becomes, Levels, Tasks
<1> HIDE DEF call
<1>6. Replaced(Client, 1, call)
  BY <1>4, <1>5, CallsAfter DEF Replaced, Inv, TypeOK, Calls
<1>7. \A u \in Tasks, e \in Levels : calls[u][e].kind # "DATA"
  BY <1>5, NoData
<1>8. CallsInv'
  <2> USE <1>2, <1>4, <1>6 DEF Inv, Replaced, CallsInv, OwnInv
  <2>1. PostedInv'
    BY DEF PostedInv
  <2>2. OneRuns'
    BY DEF OneRuns
  <2>3. KindInv'
    BY DEF KindInv
  <2>4. DataInv'
    BY <1>7 DEF DataInv
  <2>5. TileInv'
    BY DEF TileInv, Tile
  <2>6. QED
    BY <2>1, <2>2, <2>3, <2>4, <2>5
<1>9. frame' = f /\ got' = Place + bytes /\ total' = f.size
  BY DEF Read
<1>10. FrameInv'
  BY <1>1, <1>2, <1>3, <1>9 DEF FrameInv
<1>11. HeldInv'
  BY <1>2 DEF Inv, HeldInv, locks
<1>12. TypeOK'
  BY <1>1, <1>2, <1>6, <1>9 DEF Inv, TypeOK, Replaced, Calls, locks
<1>13. QED
  BY <1>8, <1>10, <1>11, <1>12 DEF Inv

LEMMA TaskInv == ASSUME Inv, TaskStep PROVE Inv'
<1>0. Client \in Tasks
  BY DEF Tasks
<1>1. CASE Connect
  <2>1. calls' \in [Tasks -> [Levels -> Calls]] /\ CallsInv'
    BY <1>0, <1>1, DispatchPlain DEF Connect, Kinds, reader
  <2>2. lock' \in Tasks \cup {None} /\ holds' \in Nat /\ HeldInv'
    BY <1>0, <1>1, TakeHeld DEF Connect, Inv, TypeOK
  <2>3. FrameInv'
    BY <1>1 DEF Connect, Inv, FrameInv, InFrame, Place, reader
  <2>4. QED
    BY <1>1, <2>1, <2>2, <2>3 DEF Connect, Inv, TypeOK, Calls, reader
<1>2. CASE ReadPart
  <2>1. PICK f \in Frames, bytes \in 0..BufferSize : Progress(f, bytes) /\ Read(f, bytes)
    BY <1>2 DEF ReadPart
  <2>2. bytes \in Nat /\ bytes <= f.size - Place
    BY <2>1, SizesNat DEF Progress
  <2>3. QED
    BY <2>1, <2>2, ReadInv
<1>3. CASE ReadNothing
  <2>1. PICK f \in Frames : f.size > 0 /\ Read(f, 0)
    BY <1>3 DEF ReadNothing
  <2>2. 0 <= f.size - Place
    BY <2>1, SizesNat DEF Inv, TypeOK, Frames, Place, InFrame
  <2>3. QED
    BY <2>1, <2>2, ReadInv
<1>4. CASE ReadFails \/ Leave
  <2>1. calls' \in [Tasks -> [Levels -> Calls]] /\ CallsInv'
    BY <1>0, <1>4, DispatchPlain DEF ReadFails, Leave, Kinds
  <2>2. FrameInv'
    BY <1>4 DEF ReadFails, Leave, Inv, TypeOK, FrameInv, InFrame, Place
  <2>3. HeldInv'
    BY <1>4 DEF ReadFails, Leave, Inv, HeldInv, locks
  <2>4. run' \in BOOLEAN /\ connected' \in BOOLEAN
    BY <1>4, Zenon DEF ReadFails, Leave, Inv, TypeOK
  <2>5. frame' \in [size : Nat, odd : BOOLEAN] /\ got' \in Nat
    BY <1>4 DEF ReadFails, Leave, Inv, TypeOK
  <2>6. QED
    BY <1>4, <2>1, <2>2, <2>3, <2>4, <2>5 DEF ReadFails, Leave, Inv, TypeOK, Calls, locks
<1>5. CASE Poll \/ ReadTimesOut \/ Advance
  <2>1. Idle(Client) /\ UNCHANGED <<calls, queue, rx, mutex, frame, got, total, connected, run>>
        /\ UNCHANGED locks
    BY <1>5 DEF Poll, ReadTimesOut, Advance, loop
  <2>2. CallsInv'
    <3>1. \A u \in Tasks, e \in Levels : calls[u][e].kind # "DATA"
      BY <2>1, NoData
    <3>2. QED
      BY <2>1, <3>1 DEF Inv, CallsInv, OwnInv, PostedInv, OneRuns, KindInv, DataInv,
                       TileInv, Tile
  <2>3. FrameInv' /\ offset' \in Nat
    <3>1. rx.len \in Nat
      BY DEF Inv, TypeOK, Chunks
    <3>2. CASE Poll
      BY <2>1, <3>2 DEF Poll, Inv, TypeOK, FrameInv, InFrame, Place
    <3>3. CASE ReadTimesOut
      BY <2>1, <3>3 DEF ReadTimesOut, Inv, TypeOK, FrameInv, InFrame, Place
    <3>4. CASE Advance
      BY <2>1, <3>1, <3>4 DEF Advance, More, Inv, TypeOK, FrameInv, InFrame, Place
    <3>5. QED
      BY <1>5, <3>2, <3>3, <3>4
  <2>4. HeldInv' /\ pc' \in {"poll", "read", "next", "done"}
    BY <1>5, <2>1 DEF Poll, ReadTimesOut, Advance, Inv, HeldInv, locks
  <2>5. QED
    BY <2>1, <2>2, <2>3, <2>4 DEF Inv, TypeOK, locks
<1>6. QED
  BY <1>1, <1>2, <1>3, <1>4, <1>5 DEF TaskStep

LEMMA AppInv ==
  ASSUME Inv, (\E s \in Senders : SendFails(s)) \/ Stop \/ Start PROVE Inv'
<1>1. ASSUME NEW s \in Senders, SendFails(s) PROVE Inv'
  <2>0. s \in Tasks
    BY DEF Tasks
  <2>1. calls' \in [Tasks -> [Levels -> Calls]] /\ CallsInv'
    BY <1>1, <2>0, DispatchPlain DEF SendFails, Kinds, reader
  <2>2. lock' \in Tasks \cup {None} /\ holds' \in Nat /\ HeldInv'
    BY <1>1, <2>0, TakeHeld DEF SendFails, Inv, TypeOK
  <2>3. FrameInv'
    BY <1>1 DEF SendFails, Inv, FrameInv, InFrame, Place, reader
  <2>4. QED
    BY <1>1, <2>1, <2>2, <2>3 DEF SendFails, Inv, TypeOK, Calls, reader
<1>2. CASE Stop \/ Start
  <2>1. UNCHANGED <<calls, queue, rx, mutex, offset, total, connected>> /\ UNCHANGED locks
    BY <1>2 DEF Stop, Start, reader, loop
  <2>2. CallsInv'
    <3>1. pc' = pc \/ \A u \in Tasks, e \in Levels : calls[u][e].kind # "DATA"
      BY <1>2, NoData DEF Stop, Start, reader
    <3>2. QED
      BY <2>1, <3>1 DEF Inv, CallsInv, OwnInv, PostedInv, OneRuns, KindInv, DataInv,
                       TileInv, Tile
  <2>3. FrameInv'
    BY <1>2, <2>1 DEF Stop, Start, Inv, TypeOK, FrameInv, InFrame, Place, reader
  <2>4. HeldInv'
    BY <2>1 DEF Inv, HeldInv, locks
  <2>5. run' \in BOOLEAN /\ connected' \in BOOLEAN
    BY <1>2, Zenon DEF Stop, Start, Inv, TypeOK, loop, reader
  <2>6. frame' \in [size : Nat, odd : BOOLEAN] /\ got' \in Nat
    BY <1>2 DEF Stop, Start, Inv, TypeOK, reader
  <2>7. QED
    BY <1>2, <2>1, <2>2, <2>3, <2>4, <2>5, <2>6 DEF Stop, Start, Inv, TypeOK, reader, locks
<1>3. QED
  BY <1>1, <1>2

LEMMA StepInv == Inv /\ [Next]_vars => Inv'
<1> SUFFICES ASSUME Inv, [Next]_vars PROVE Inv'
  OBVIOUS
<1>1. ASSUME NEW t \in Tasks, HandlerStep(t) PROVE Inv'
  <2>1. 1 \in Levels
    BY DEF Levels
  <2>2. QED
    BY <1>1, <2>1, MovesInv, WriteFailsInv DEF HandlerStep
<1>2. ASSUME NEW t \in Tasks, NEW d \in Levels, DispatchStep(t, d) PROVE Inv'
  BY <1>2, MovesInv, PostInv, RunInv, ReturnInv, AbortInv DEF DispatchStep
<1>3. CASE UNCHANGED vars
  BY <1>3 DEF vars, Inv, TypeOK, CallsInv, OwnInv, PostedInv, OneRuns, KindInv, DataInv,
              TileInv, Tile, FrameInv, InFrame, Place, HeldInv
<1>4. QED
  BY <1>1, <1>2, <1>3, TaskInv, AppInv DEF Next, Turn

LEMMA InvHolds == Spec => []Inv
  BY InitInv, StepInv, PTL DEF Spec

\* Every reachable state is well typed, and one event at most waits in the queue.
THEOREM ReceiveTypeCorrect == Spec => []TypeOK
<1>1. Inv => TypeOK
  BY DEF Inv
<1>2. QED
  BY <1>1, InvHolds, PTL

\* Whatever tasks send, fail and dispatch meanwhile, from inside handlers too: who
\* handles a DATA event finds its bytes in the buffer.
THEOREM ChunksStayIntact == Spec => []ChunkIntact
<1>1. Inv => ChunkIntact
  BY DEF Inv, CallsInv, OwnInv, KindInv, DataInv, ChunkIntact
<1>2. QED
  BY <1>1, InvHolds, PTL

\* For every buffer and every size of frame, the events of a frame tile it.
THEOREM FramesAreTiled == Spec => []ChunksTile
<1>1. Inv => ChunksTile
  BY DEF Inv, CallsInv, TileInv, Tile, FrameInv, ChunksTile
<1>2. QED
  BY <1>1, InvHolds, PTL

-----------------------------------------------------------------------------
(* Nobody waits for ever: the lock and the mutex                           *)

\* A dispatch that is made with the lock held: all those from inside a handler,
\* the CONNECTED and DISCONNECTED of any task, and the ERROR of a sender.
Inside(t, d) ==
  /\ calls[t][d].step \notin {"none", "lock"}
  /\ \/ d = 2
     \/ calls[t][d].kind \in {"CONNECTED", "DISCONNECTED"}
     \/ calls[t][d].kind = "ERROR" /\ t # Client

Depth(t) == (IF Inside(t, 1) THEN 1 ELSE 0) + (IF Inside(t, 2) THEN 1 ELSE 0)

\* The lock is recursive: it is held by the task inside such dispatches, once for
\* each, and by nobody when there are none.
LockBalanced ==
  /\ \A t \in Tasks : Depth(t) > 0 => lock = t /\ holds = Depth(t)
  /\ lock # None => Depth(lock) > 0
  /\ lock = None => holds = 0

\* Where a dispatch can be that has the mutex of the loop, or is inside another.
PlaceInv ==
  \A t \in Tasks :
    /\ calls[t][1].step \in {"handle", "send"} => mutex = t
    /\ mutex = t => calls[t][1].step \in {"handle", "send", "handled"}
    /\ Nested(t) => /\ calls[t][1].step = "handled" /\ mutex = t
                    /\ calls[t][2].kind \in {"ERROR", "DISCONNECTED"}
    /\ calls[t][2].step \notin {"lock", "send"}
    /\ calls[t][1].step = "lock" => t = Client /\ calls[t][1].kind = "DISCONNECTED"

\* An event in the queue is there for a task that runs the loop next.
QueueInv == queue # <<>> => \E t \in Tasks, d \in Levels : calls[t][d].step = "run"

WaitInv == PlaceInv /\ QueueInv /\ LockBalanced

\* What a task in a dispatch waits for: the mutex, to ask or to handle, room in the
\* queue, the lock. Every other step of a dispatch needs nobody else.
WaitsForMutex(t) ==
  mutex \notin {None, t} /\ \E d \in Levels : At(t, d, "ask") \/ At(t, d, "taken")
WaitsForRoom(t) == ~Room /\ At(t, 1, "post")
WaitsForLock(t) == ~Free(t) /\ At(t, 1, "lock")
Waits(t) == WaitsForMutex(t) \/ WaitsForRoom(t) \/ WaitsForLock(t)

\* While dispatches are in progress, or a task holds the lock, some task in a
\* dispatch can go on.
SomeoneGoesOn ==
  (\E t \in Tasks : ~Idle(t)) \/ lock # None \/ mutex # None
    => \E t \in Tasks : ~Idle(t) /\ ~Waits(t)

\* What these say of a call: its step and kind. Only this one becomes another.
Moved(t, d, step, kind) ==
  \A u \in Tasks, e \in Levels :
    /\ calls'[u][e].step = IF u = t /\ e = d THEN step ELSE calls[u][e].step
    /\ calls'[u][e].kind = IF u = t /\ e = d THEN kind ELSE calls[u][e].kind

LEMMA GoMoves ==
  ASSUME Inv, NEW t \in Tasks, NEW d \in Levels, NEW step \in Steps, Go(t, d, step)
  PROVE  Moved(t, d, step, calls[t][d].kind)
<1>1. calls \in [Tasks -> [Levels -> Calls]]
  BY DEF Inv, TypeOK, Calls
<1> DEFINE call == [calls[t][d] EXCEPT !.step = step]
<1>2. call \in Calls /\ Becomes(t, d, call)
  BY <1>1, GoBecomes
<1>3. call.step = step /\ call.kind = calls[t][d].kind
  BY <1>1 DEF Calls
<1> HIDE DEF call
<1>4. QED
  BY <1>1, <1>2, <1>3, CallsAfter DEF Moved

LEMMA DispatchMoves ==
  ASSUME Inv, NEW t \in Tasks, NEW e, Dispatch(t, e)
  PROVE  Moved(t, 1, "ask", e.kind) /\ Idle(t)
<1>1. calls \in [Tasks -> [Levels -> Calls]] /\ 1 \in Levels
  BY DEF Inv, TypeOK, Calls, Levels
<1> DEFINE call == CallOf(e)
<1>2. calls' = [calls EXCEPT ![t][1] = call] /\ Idle(t)
  BY DEF Dispatch
<1>3. call.step = "ask" /\ call.kind = e.kind
  BY DEF CallOf
<1> HIDE DEF call
<1>4. QED
  BY <1>1, <1>2, <1>3 DEF Moved

LEMMA RunMoves ==
  ASSUME Inv, NEW t \in Tasks, NEW d \in Levels, Run(t, d)
  PROVE  Moved(t, d, "taken", calls[t][d].kind) /\ queue' = <<>>
<1>1. calls \in [Tasks -> [Levels -> Calls]]
  BY DEF Inv, TypeOK, Calls
<1>2. calls[t][d].step = "run" /\ queue = <<calls[t][d].event>>
  BY DEF Inv, CallsInv, OwnInv, PostedInv, Run, At
<1>3. queue' = <<>> /\ queue # <<>> /\ Head(queue) = calls[t][d].event
  BY <1>2 DEF Run
<1>4. calls' = [calls EXCEPT ![t][d].step = "taken", ![t][d].event = calls[t][d].event]
  BY <1>3 DEF Run
<1>5. QED
  BY <1>1, <1>3, <1>4 DEF Moved, Calls

LEMMA ReturnMoves ==
  ASSUME Inv, NEW t \in Tasks, NEW d \in Levels, Return(t, d)
  PROVE  IF calls[t][d].kind = "ERROR"
         THEN Moved(t, d, IF t = Client /\ d = 1 THEN "lock" ELSE "abort", "DISCONNECTED")
         ELSE Moved(t, d, "none", "none")
<1> DEFINE call == IF calls[t][d].kind = "ERROR" THEN AfterError(t, d) ELSE NoCall
<1>1. call \in Calls /\ calls \in [Tasks -> [Levels -> Calls]]
  BY PlainCalls DEF Inv, TypeOK, Calls
<1>2. Becomes(t, d, call)
  BY DEF Return, Becomes, Inv, TypeOK
<1>3. IF calls[t][d].kind = "ERROR"
      THEN call.step = (IF t = Client /\ d = 1 THEN "lock" ELSE "abort")
           /\ call.kind = "DISCONNECTED"
      ELSE call.step = "none" /\ call.kind = "none"
  BY DEF AfterError, NoCall
<1> HIDE DEF call
<1>4. QED
  BY <1>1, <1>2, <1>3, CallsAfter DEF Moved


-----------------------------------------------------------------------------
(* Where the dispatches are                                                *)

LEMMA InitWait == Init => WaitInv
<1> SUFFICES ASSUME Init PROVE WaitInv
  OBVIOUS
<1>1. \A t \in Tasks, d \in Levels : calls[t][d].step = "none" /\ calls[t][d].kind = "none"
  BY DEF Init, NoCall
<1>2. 1 \in Levels /\ 2 \in Levels
  BY DEF Levels
<1>3. PlaceInv /\ QueueInv
  BY <1>1, <1>2, TasksDiffer DEF Init, PlaceInv, QueueInv, Nested
<1>4. LockBalanced
  BY <1>1, <1>2 DEF Init, LockBalanced, Depth, Inside
<1>5. QED
  BY <1>3, <1>4 DEF WaitInv

LEMMA TwoLevels == 1 \in Levels /\ 2 \in Levels /\ \A d \in Levels : d = 1 \/ d = 2
  BY DEF Levels

\* A call that was not at its run keeps who is; one that begins it is there.
LEMMA QueueOn ==
  ASSUME QueueInv, NEW t \in Tasks, NEW d \in Levels, NEW step, NEW kind,
         Moved(t, d, step, kind),
         \/ calls[t][d].step # "run" /\ queue' = queue
         \/ step = "run"
         \/ queue' = <<>>
  PROVE  QueueInv'
  BY DEF QueueInv, Moved

\* Steps of a dispatch on the way to its handler and from it, and of the abort.
LEMMA DispatchPlace ==
  ASSUME Inv, PlaceInv, QueueInv, NEW t \in Tasks, NEW d \in Levels, DispatchStep(t, d)
  PROVE  PlaceInv' /\ QueueInv'
<1> USE TwoLevels
<1>1. ASSUME NEW step \in {"post", "run", "handled", "taken", "ask"},
             Moved(t, d, step, calls[t][d].kind), UNCHANGED mutex,
             calls[t][d].step \notin {"none", "handle", "send", "lock", "handled"},
             At(t, d, calls[t][d].step)
      PROVE  PlaceInv'
  <2>1. CASE d = 1
    BY <1>1, <2>1 DEF PlaceInv, Moved, Nested, At
  <2>2. CASE d = 2
    BY <1>1, <2>2 DEF PlaceInv, Moved, Nested, At
  <2>3. QED
    BY <2>1, <2>2
<1>2. CASE Ask(t, d)
  <2>1. Moved(t, d, "post", calls[t][d].kind)
    BY <1>2, GoMoves DEF Ask, Steps
  <2>2. QED
    BY <1>1, <1>2, <2>1, QueueOn DEF Ask, At
<1>3. CASE Post(t, d)
  <2>1. Moved(t, d, "run", calls[t][d].kind)
    BY <1>3, GoMoves DEF Post, Steps
  <2>2. QED
    BY <1>1, <1>3, <2>1, QueueOn DEF Post, At
<1>4. CASE Lost(t, d)
  <2>1. Moved(t, d, "handled", calls[t][d].kind)
    BY <1>4, GoMoves DEF Lost, Steps
  <2>2. QED
    BY <1>1, <1>4, <2>1, QueueOn DEF Lost, At
<1>5. CASE Run(t, d)
  <2>1. Moved(t, d, "taken", calls[t][d].kind) /\ queue' = <<>>
    BY <1>5, RunMoves
  <2>2. QED
    BY <1>1, <1>5, <2>1, QueueOn DEF Run, At
<1>6. CASE TooLate(t, d)
  <2>1. Moved(t, d, "handled", calls[t][d].kind)
    BY <1>6, GoMoves DEF TooLate, Steps
  <2>2. QED
    BY <1>1, <1>6, <2>1, QueueOn DEF TooLate, At
<1>7. CASE Abort(t, d)
  <2>1. Moved(t, d, "ask", calls[t][d].kind)
    BY <1>7, GoMoves DEF Abort, Steps
  <2>2. QED
    BY <1>1, <1>7, <2>1, QueueOn DEF Abort, At
<1>8. CASE Handle(t, d)
  <2>1. Moved(t, d, "handle", calls[t][d].kind)
    BY <1>8, GoMoves DEF Handle, Steps
  <2>2. /\ mutex \in {None, t} /\ mutex' = t /\ queue' = queue
        /\ calls[t][d].step = "taken" /\ (d = 1 => ~Nested(t))
    BY <1>8 DEF Handle, At
  <2>3. PlaceInv'
    <3>1. CASE d = 1
      BY <2>1, <2>2, <3>1, TasksDiffer DEF PlaceInv, Moved, Nested
    <3>2. CASE d = 2
      BY <2>1, <2>2, <3>2, TasksDiffer DEF PlaceInv, Moved, Nested
    <3>3. QED
      BY <3>1, <3>2
  <2>4. QED
    BY <2>1, <2>2, <2>3, QueueOn
<1>9. CASE HandlerReturns(t, d)
  <2>1. Moved(t, d, "handled", calls[t][d].kind)
    BY <1>9, GoMoves DEF HandlerReturns, Steps
  <2>2. /\ UNCHANGED <<mutex, queue>>
        /\ calls[t][d].step = "handle" /\ (d = 1 => ~Nested(t))
    BY <1>9 DEF HandlerReturns, At
  <2>3. PlaceInv'
    <3>1. CASE d = 1
      BY <2>1, <2>2, <3>1 DEF PlaceInv, Moved, Nested
    <3>2. CASE d = 2
      BY <2>1, <2>2, <3>2 DEF PlaceInv, Moved, Nested
    <3>3. QED
      BY <3>1, <3>2
  <2>4. QED
    BY <2>1, <2>2, <2>3, QueueOn
<1>10. CASE Return(t, d)
  <2>1. PICK step, kind :
          /\ Moved(t, d, step, kind)
          /\ \/ step = "none" /\ kind = "none"
             \/ step = "lock" /\ kind = "DISCONNECTED" /\ t = Client /\ d = 1
             \/ step = "abort" /\ kind = "DISCONNECTED"
    BY <1>10, ReturnMoves
  <2>2. /\ queue' = queue /\ mutex' = IF d = 1 /\ mutex = t THEN None ELSE mutex
        /\ calls[t][d].step = "handled" /\ (d = 1 => ~Nested(t))
    BY <1>10 DEF Return, At
  <2>3. PlaceInv'
    <3>1. CASE d = 1
      BY <2>1, <2>2, <3>1, TasksDiffer DEF PlaceInv, Moved, Nested
    <3>2. CASE d = 2
      BY <2>1, <2>2, <3>2 DEF PlaceInv, Moved, Nested
    <3>3. QED
      BY <3>1, <3>2
  <2>4. QED
    BY <2>1, <2>2, <2>3, QueueOn
<1>11. QED
  BY <1>2, <1>3, <1>4, <1>5, <1>6, <1>7, <1>8, <1>9, <1>10 DEF DispatchStep

LEMMA WriteFailsMoves ==
  ASSUME Inv, NEW t \in Tasks, HandlerWriteFails(t)
  PROVE  \A u \in Tasks, e \in Levels :
           /\ calls'[u][e].step = IF u # t THEN calls[u][e].step
                                  ELSE IF e = 1 THEN "handled" ELSE "ask"
           /\ calls'[u][e].kind = IF u = t /\ e = 2 THEN "ERROR" ELSE calls[u][e].kind
<1>1. calls \in [Tasks -> [Levels -> Calls]]
  BY DEF Inv, TypeOK, Calls
<1> DEFINE c1 == [calls[t][1] EXCEPT !.step = "handled"]
           c2 == CallOf(Plain("ERROR"))
<1>2. c1.step = "handled" /\ c1.kind = calls[t][1].kind
  BY <1>1, TwoLevels DEF Calls
<1>3. c2.step = "ask" /\ c2.kind = "ERROR"
  BY DEF CallOf, Plain
<1>4. calls' = [calls EXCEPT ![t][1] = c1, ![t][2] = c2]
  BY <1>1 DEF HandlerWriteFails
<1> HIDE DEF c1, c2
<1>5. QED
  BY <1>1, <1>2, <1>3, <1>4, TwoLevels

LEMMA HandlerPlace ==
  ASSUME Inv, PlaceInv, QueueInv, NEW t \in Tasks, HandlerStep(t)
  PROVE  PlaceInv' /\ QueueInv'
<1> USE TwoLevels
<1>1. CASE HandlerWriteFails(t)
  <2>1. calls[t][1].step = "send" /\ ~Nested(t) /\ UNCHANGED <<queue, mutex>>
    BY <1>1 DEF HandlerWriteFails, At
  <2>2. calls[t][2].step = "none"
    BY <2>1 DEF Nested
  <2>3. PlaceInv'
    BY <1>1, <2>1, WriteFailsMoves DEF PlaceInv, Nested
  <2>4. QueueInv'
    BY <1>1, <2>1, <2>2, WriteFailsMoves DEF QueueInv
  <2>5. QED
    BY <2>3, <2>4
<1>2. CASE HandlerSends(t) \/ HandlerWrites(t) \/ SendTimesOut(t)
  <2>1. PICK step \in {"send", "handled"} : Moved(t, 1, step, calls[t][1].kind)
    BY <1>2, GoMoves DEF HandlerSends, HandlerWrites, SendTimesOut, Steps
  <2>2. /\ UNCHANGED <<mutex, queue>> /\ calls[t][1].step \in {"handle", "send"}
        /\ ~Nested(t)
    BY <1>2 DEF HandlerSends, HandlerWrites, SendTimesOut, At
  <2>3. PlaceInv'
    BY <2>1, <2>2 DEF PlaceInv, Moved, Nested
  <2>4. QED
    BY <2>1, <2>2, <2>3, QueueOn
<1>3. CASE AbortLock(t)
  <2>1. Moved(t, 1, "abort", calls[t][1].kind)
    BY <1>3, GoMoves DEF AbortLock, Steps
  <2>2. UNCHANGED <<mutex, queue>> /\ calls[t][1].step = "lock" /\ ~Nested(t)
    BY <1>3 DEF AbortLock, At
  <2>3. PlaceInv'
    BY <2>1, <2>2 DEF PlaceInv, Moved, Nested
  <2>4. QED
    BY <2>1, <2>2, <2>3, QueueOn
<1>4. QED
  BY <1>1, <1>2, <1>3 DEF HandlerStep

\* A task that begins a dispatch has none in progress.
LEMMA BeginPlace ==
  ASSUME Inv, PlaceInv, QueueInv, NEW t \in Tasks, NEW kind,
         Moved(t, 1, "ask", kind), Idle(t), UNCHANGED <<queue, mutex>>
  PROVE  PlaceInv' /\ QueueInv'
<1>1. PlaceInv'
  BY TwoLevels DEF PlaceInv, Moved, Nested, Idle
<1>2. QueueInv'
  BY TwoLevels, QueueOn DEF Idle
<1>3. QED
  BY <1>1, <1>2


-----------------------------------------------------------------------------
(* How often the lock is held                                              *)

\* What makes a call one that has the lock.
Locks(t, d, step, kind) ==
  /\ step \notin {"none", "lock"}
  /\ \/ d = 2
     \/ kind \in {"CONNECTED", "DISCONNECTED"}
     \/ kind = "ERROR" /\ t # Client

LEMMA InsideAfter ==
  ASSUME NEW t \in Tasks, NEW d \in Levels, NEW step, NEW kind, Moved(t, d, step, kind)
  PROVE  /\ Inside(t, d)' <=> Locks(t, d, step, kind)
         /\ \A u \in Tasks, e \in Levels :
              ~(u = t /\ e = d) => (Inside(u, e)' <=> Inside(u, e))
         /\ \A u \in Tasks : u # t => Depth(u)' = Depth(u)
  BY TwoLevels DEF Moved, Inside, Locks, Depth

\* A call that keeps the lock, or goes without it.
LEMMA KeepsBalance ==
  ASSUME LockBalanced, lock \in Tasks \cup {None}, NEW t \in Tasks, NEW d \in Levels,
         NEW step, NEW kind, Moved(t, d, step, kind),
         Locks(t, d, step, kind) <=> Inside(t, d), UNCHANGED locks
  PROVE  LockBalanced'
<1>1. \A u \in Tasks : Depth(u)' = Depth(u)
  BY InsideAfter, TwoLevels DEF Depth
<1>2. QED
  BY <1>1 DEF LockBalanced, locks

LEMMA TakeBalanced ==
  ASSUME LockBalanced, TypeOK, NEW t \in Tasks, Take(t),
         \A u \in Tasks : u # t => Depth(u)' = Depth(u),
         Depth(t)' = Depth(t) + 1
  PROVE  LockBalanced'
<1>1. \A u \in Tasks : Depth(u) \in Nat
  BY DEF Depth
<1>2. lock' = t /\ holds' = holds + 1 /\ holds \in Nat /\ t # None /\ lock \in {None, t}
  BY TasksDiffer DEF Take, Free, TypeOK
<1>3. holds' = Depth(t)'
  <2>1. CASE lock = t
    BY <1>1, <1>2, <2>1 DEF LockBalanced
  <2>2. CASE lock = None
    <3>1. Depth(t) = 0 /\ holds = 0
      BY <1>1, <1>2, <2>2 DEF LockBalanced
    <3>2. QED
      BY <1>2, <3>1
  <2>3. QED
    BY <1>2, <2>1, <2>2
<1>4. \A u \in Tasks : u # t => Depth(u)' = 0
  BY <1>1, <1>2 DEF LockBalanced
<1>5. Depth(t)' > 0
  BY <1>1
<1>6. QED
  BY <1>2, <1>3, <1>4, <1>5 DEF LockBalanced

LEMMA TakesBalance ==
  ASSUME LockBalanced, TypeOK, NEW t \in Tasks, NEW d \in Levels,
         NEW step, NEW kind, Moved(t, d, step, kind),
         Locks(t, d, step, kind), ~Inside(t, d), Take(t)
  PROVE  LockBalanced'
<1>1. Depth(t)' = Depth(t) + 1
  BY InsideAfter, TwoLevels DEF Depth
<1>2. QED
  BY <1>1, InsideAfter, TakeBalanced

LEMMA GivesBalance ==
  ASSUME LockBalanced, TypeOK, NEW t \in Tasks, NEW d \in Levels,
         NEW step, NEW kind, Moved(t, d, step, kind),
         ~Locks(t, d, step, kind), Inside(t, d), Give(t)
  PROVE  LockBalanced'
<1>1. Depth(t)' = Depth(t) - 1 /\ Depth(t) > 0
  BY InsideAfter, TwoLevels DEF Depth
<1>2. \A u \in Tasks : Depth(u) \in Nat /\ (u # t => Depth(u)' = Depth(u))
  BY InsideAfter DEF Depth
<1>3. lock = t /\ holds = Depth(t) /\ t # None
  BY <1>1, TasksDiffer DEF LockBalanced
<1>4. holds' = holds - 1 /\ lock' = IF holds = 1 THEN None ELSE lock
  BY <1>3 DEF Give
<1>5. \A u \in Tasks : u # t => Depth(u)' = 0
  BY <1>2, <1>3 DEF LockBalanced
<1>6. CASE holds = 1
  <2>1. lock' = None /\ holds' = 0 /\ Depth(t)' = 0
    BY <1>1, <1>3, <1>4, <1>6
  <2>2. QED
    BY <1>5, <2>1 DEF LockBalanced
<1>7. CASE holds # 1
  <2>1. lock' = t /\ holds' = Depth(t)' /\ Depth(t)' > 0
    BY <1>1, <1>2, <1>3, <1>4, <1>7
  <2>2. QED
    BY <1>3, <1>5, <2>1 DEF LockBalanced
<1>8. QED
  BY <1>6, <1>7

LEMMA DispatchBalance ==
  ASSUME Inv, PlaceInv, LockBalanced, NEW t \in Tasks, NEW d \in Levels,
         DispatchStep(t, d)
  PROVE  LockBalanced'
<1>0. TypeOK /\ lock \in Tasks \cup {None}
  BY DEF Inv, TypeOK
<1>1. ASSUME NEW step \in Steps \ {"none", "lock"}, Moved(t, d, step, calls[t][d].kind),
             UNCHANGED locks, calls[t][d].step \notin {"none", "lock"}
      PROVE  LockBalanced'
  <2>1. Locks(t, d, step, calls[t][d].kind) <=> Inside(t, d)
    BY <1>1 DEF Locks, Inside
  <2>2. QED
    BY <1>0, <1>1, <2>1, KeepsBalance
<1>2. CASE Run(t, d)
  <2>1. Moved(t, d, "taken", calls[t][d].kind)
    BY <1>2, RunMoves
  <2>2. QED
    BY <1>1, <1>2, <2>1 DEF Run, At, Steps
<1>3. CASE Return(t, d)
  <2>1. calls[t][d].step = "handled" /\ (d = 1 \/ d = 2)
    BY <1>3, TwoLevels DEF Return, At
  <2>2. CASE calls[t][d].kind = "ERROR"
    <3> DEFINE step == IF t = Client /\ d = 1 THEN "lock" ELSE "abort"
    <3>1. Moved(t, d, step, "DISCONNECTED") /\ UNCHANGED locks
      BY <1>3, <2>2, ReturnMoves DEF Return
    <3>2. Locks(t, d, step, "DISCONNECTED") <=> Inside(t, d)
      BY <2>1, <2>2 DEF Locks, Inside
    <3> HIDE DEF step
    <3>3. QED
      BY <1>0, <3>1, <3>2, KeepsBalance
  <2>3. CASE calls[t][d].kind \in {"CONNECTED", "DISCONNECTED"}
    <3>1. Moved(t, d, "none", "none") /\ Give(t)
      BY <1>3, <2>3, ReturnMoves DEF Return
    <3>2. ~Locks(t, d, "none", "none") /\ Inside(t, d)
      BY <2>1, <2>3 DEF Locks, Inside
    <3>3. QED
      BY <1>0, <3>1, <3>2, GivesBalance
  <2>4. CASE calls[t][d].kind \notin {"ERROR", "CONNECTED", "DISCONNECTED"}
    <3>1. Moved(t, d, "none", "none") /\ UNCHANGED locks
      BY <1>3, <2>4, ReturnMoves DEF Return
    <3>2. d = 1
      BY <2>1, <2>4 DEF PlaceInv, Nested
    <3>3. ~Locks(t, d, "none", "none") /\ ~Inside(t, d)
      BY <2>4, <3>2 DEF Locks, Inside
    <3>4. QED
      BY <1>0, <3>1, <3>3, KeepsBalance
  <2>5. QED
    BY <2>2, <2>3, <2>4
<1>4. CASE Ask(t, d) \/ Post(t, d) \/ Lost(t, d) \/ Handle(t, d)
           \/ HandlerReturns(t, d) \/ TooLate(t, d) \/ Abort(t, d)
  <2> USE DEF Ask, Post, Lost, Handle, HandlerReturns, TooLate, Abort, At
  <2>1. PICK step \in Steps \ {"none", "lock"} : Go(t, d, step)
    BY <1>4 DEF Steps
  <2>2. calls[t][d].step \notin {"none", "lock"} /\ UNCHANGED locks
    BY <1>4
  <2>3. QED
    BY <1>1, <2>1, <2>2, GoMoves
<1>5. QED
  BY <1>2, <1>3, <1>4 DEF DispatchStep

LEMMA HandlerBalance ==
  ASSUME Inv, PlaceInv, LockBalanced, NEW t \in Tasks, HandlerStep(t)
  PROVE  LockBalanced'
<1> USE TwoLevels
<1>0. TypeOK /\ lock \in Tasks \cup {None}
  BY DEF Inv, TypeOK
<1>1. CASE HandlerWriteFails(t)
  <2>1. calls[t][1].step = "send" /\ calls[t][2].step = "none" /\ Take(t)
    BY <1>1 DEF HandlerWriteFails, At, Nested
  <2>2. Inside(t, 1)' <=> Inside(t, 1)
    BY <1>1, <2>1, WriteFailsMoves DEF Inside
  <2>3. Inside(t, 2)' /\ ~Inside(t, 2)
    BY <1>1, <2>1, WriteFailsMoves DEF Inside
  <2>4. Depth(t)' = Depth(t) + 1
    BY <2>2, <2>3 DEF Depth
  <2>5. \A u \in Tasks : u # t => Depth(u)' = Depth(u)
    BY <1>1, WriteFailsMoves DEF Depth, Inside
  <2>6. QED
    BY <1>0, <2>1, <2>4, <2>5, TakeBalanced
<1>2. CASE HandlerSends(t) \/ HandlerWrites(t) \/ SendTimesOut(t)
  <2>1. PICK step \in {"send", "handled"} : Moved(t, 1, step, calls[t][1].kind)
    BY <1>2, GoMoves DEF HandlerSends, HandlerWrites, SendTimesOut, Steps
  <2>2. calls[t][1].step \in {"handle", "send"} /\ UNCHANGED locks
    BY <1>2 DEF HandlerSends, HandlerWrites, SendTimesOut, At
  <2>3. Locks(t, 1, step, calls[t][1].kind) <=> Inside(t, 1)
    BY <2>2 DEF Locks, Inside
  <2>4. QED
    BY <1>0, <2>1, <2>2, <2>3, KeepsBalance
<1>3. CASE AbortLock(t)
  <2>1. Moved(t, 1, "abort", calls[t][1].kind)
    BY <1>3, GoMoves DEF AbortLock, Steps
  <2>2. calls[t][1].step = "lock" /\ Take(t)
    BY <1>3 DEF AbortLock, At
  <2>3. Locks(t, 1, "abort", calls[t][1].kind) /\ ~Inside(t, 1)
    BY <2>2 DEF PlaceInv, Locks, Inside
  <2>4. QED
    BY <1>0, <2>1, <2>2, <2>3, TakesBalance
<1>4. QED
  BY <1>1, <1>2, <1>3 DEF HandlerStep

-----------------------------------------------------------------------------
(* The client task and the application                                     *)

LEMMA SameWait ==
  ASSUME WaitInv, UNCHANGED loop, UNCHANGED locks PROVE WaitInv'
<1>1. UNCHANGED <<queue, mutex, calls, lock, holds>>
  BY DEF loop, locks
<1>2. QED
  BY <1>1 DEF WaitInv, PlaceInv, QueueInv, LockBalanced, Depth, Inside, Nested

\* A dispatch begins, with the lock or without.
LEMMA BeginWait ==
  ASSUME Inv, WaitInv, NEW t \in Tasks, NEW kind,
         Moved(t, 1, "ask", kind), Idle(t), UNCHANGED <<queue, mutex>>,
         IF kind = "CONNECTED" \/ (kind = "ERROR" /\ t # Client) THEN Take(t)
         ELSE kind # "DISCONNECTED" /\ UNCHANGED locks
  PROVE  WaitInv'
<1>1. PlaceInv' /\ QueueInv'
  BY BeginPlace DEF WaitInv
<1>2. ~Inside(t, 1) /\ 1 \in Levels /\ LockBalanced /\ TypeOK
      /\ lock \in Tasks \cup {None}
  BY DEF Inside, Idle, Levels, WaitInv, Inv, TypeOK
<1>3. CASE kind = "CONNECTED" \/ (kind = "ERROR" /\ t # Client)
  <2>1. Locks(t, 1, "ask", kind)
    BY <1>3 DEF Locks
  <2>2. QED
    BY <1>1, <1>2, <1>3, <2>1, TakesBalance DEF WaitInv
<1>4. CASE ~(kind = "CONNECTED" \/ (kind = "ERROR" /\ t # Client))
  <2>1. ~Locks(t, 1, "ask", kind)
    BY <1>4 DEF Locks
  <2>2. QED
    BY <1>1, <1>2, <1>4, <2>1, KeepsBalance DEF WaitInv
<1>5. QED
  BY <1>3, <1>4

LEMMA TaskWait == ASSUME Inv, WaitInv, TaskStep PROVE WaitInv'
<1>0. Client \in Tasks
  BY DEF Tasks
<1>1. CASE Connect
  <2>1. Moved(Client, 1, "ask", "CONNECTED") /\ Idle(Client)
    BY <1>0, <1>1, DispatchMoves DEF Connect, Plain
  <2>2. QED
    BY <1>0, <1>1, <2>1, BeginWait DEF Connect
<1>2. ASSUME NEW f, NEW bytes, Read(f, bytes) PROVE WaitInv'
  <2>1. Moved(Client, 1, "ask", "DATA") /\ Idle(Client)
    BY <1>0, <1>2, DispatchMoves DEF Read, Event
  <2>2. QED
    BY <1>0, <1>2, <2>1, BeginWait DEF Read
<1>3. CASE ReadFails
  <2>1. Moved(Client, 1, "ask", "ERROR") /\ Idle(Client)
    BY <1>0, <1>3, DispatchMoves DEF ReadFails, Plain
  <2>2. QED
    BY <1>0, <1>3, <2>1, BeginWait DEF ReadFails
<1>4. CASE Leave
  <2>1. Moved(Client, 1, "ask", "FINISH") /\ Idle(Client)
    BY <1>0, <1>4, DispatchMoves DEF Leave, Plain
  <2>2. QED
    BY <1>0, <1>4, <2>1, BeginWait DEF Leave
<1>5. CASE Poll \/ ReadTimesOut \/ Advance
  <2>1. UNCHANGED loop /\ UNCHANGED locks
    BY <1>5 DEF Poll, ReadTimesOut, Advance
  <2>2. QED
    BY <2>1, SameWait
<1>6. QED
  BY <1>1, <1>2, <1>3, <1>4, <1>5 DEF TaskStep, ReadPart, ReadNothing

LEMMA InitAll == Init => Inv /\ WaitInv
  BY InitInv, InitWait

LEMMA StepAll == Inv /\ WaitInv /\ [Next]_vars => Inv' /\ WaitInv'
<1> SUFFICES ASSUME Inv, WaitInv, [Next]_vars PROVE WaitInv'
  BY StepInv
<1>1. ASSUME NEW t \in Tasks, Turn(t) PROVE WaitInv'
  BY <1>1, DispatchPlace, DispatchBalance, HandlerPlace, HandlerBalance DEF WaitInv, Turn
<1>2. ASSUME NEW s \in Senders, SendFails(s) PROVE WaitInv'
  <2>1. s \in Tasks /\ s # Client
    BY TasksDiffer DEF Tasks
  <2>2. Moved(s, 1, "ask", "ERROR") /\ Idle(s)
    BY <1>2, <2>1, DispatchMoves DEF SendFails, Plain
  <2>3. QED
    BY <1>2, <2>1, <2>2, BeginWait DEF SendFails
<1>3. CASE Stop \/ Start
  BY <1>3, SameWait DEF Stop, Start
<1>4. CASE UNCHANGED vars
  <2>1. UNCHANGED loop /\ UNCHANGED locks
    BY <1>4 DEF vars, loop, locks
  <2>2. QED
    BY <2>1, SameWait
<1>5. CASE TaskStep
  BY <1>5, TaskWait
<1>6. QED
  BY <1>1, <1>2, <1>3, <1>4, <1>5 DEF Next

\* Whoever has the mutex is in a handler or comes from one and never waits; with
\* the mutex free, who runs the loop next does not wait, and with the queue empty
\* who has the lock does not.
LEMMA NoCircle == Inv /\ WaitInv => SomeoneGoesOn
<1> SUFFICES ASSUME Inv, WaitInv,
                    (\E t \in Tasks : ~Idle(t)) \/ lock # None \/ mutex # None
             PROVE  \E t \in Tasks : ~Idle(t) /\ ~Waits(t)
  BY DEF SomeoneGoesOn
<1> USE TwoLevels
<1>0. /\ mutex \in Tasks \cup {None} /\ lock \in Tasks \cup {None}
      /\ queue \in Seq(Events)
  BY DEF Inv, TypeOK
<1>1. CASE mutex # None
  <2>1. mutex \in Tasks /\ calls[mutex][1].step \in {"handle", "send", "handled"}
    BY <1>0, <1>1 DEF WaitInv, PlaceInv
  <2>2. ~Idle(mutex) /\ ~Waits(mutex)
    BY <2>1 DEF Idle, Waits, WaitsForMutex, WaitsForRoom, WaitsForLock, At
  <2>3. QED
    BY <2>1, <2>2
<1>2. CASE mutex = None
  <2>0. \A t \in Tasks : calls[t][2].step = "none" /\ ~WaitsForMutex(t)
    BY <1>2, TasksDiffer DEF WaitInv, PlaceInv, Nested, WaitsForMutex
  <2>1. CASE queue # <<>>
    <3>1. PICK t \in Tasks : calls[t][1].step = "run"
      BY <2>0, <2>1 DEF WaitInv, QueueInv
    <3>2. ~Idle(t) /\ ~Waits(t)
      BY <2>0, <3>1 DEF Idle, Waits, WaitsForRoom, WaitsForLock, At
    <3>3. QED
      BY <3>2
  <2>2. CASE queue = <<>>
    <3>1. Room
      BY <2>2, QueueOfOne DEF Room
    <3>2. CASE lock # None
      <4>1. lock \in Tasks /\ Inside(lock, 1)
        BY <1>0, <2>0, <3>2 DEF WaitInv, LockBalanced, Depth, Inside
      <4>2. ~Idle(lock) /\ ~Waits(lock)
        BY <2>0, <3>1, <4>1 DEF Idle, Inside, Waits, WaitsForRoom, WaitsForLock, At
      <4>3. QED
        BY <4>1, <4>2
    <3>3. CASE lock = None
      <4>1. PICK t \in Tasks : ~Idle(t)
        BY <1>2, <3>3
      <4>2. ~Waits(t)
        BY <2>0, <3>1, <3>3 DEF Waits, WaitsForRoom, WaitsForLock, Free
      <4>3. QED
        BY <4>1, <4>2
    <3>4. QED
      BY <3>2, <3>3
  <2>3. QED
    BY <2>1, <2>2
<1>3. QED
  BY <1>1, <1>2

\* The lock of the client is given back as often as it was taken, by every dispatch,
\* abort and failed write, those from inside a handler included.
THEOREM LockGivenBack == Spec => []LockBalanced
<1>1. Inv /\ WaitInv => LockBalanced
  BY DEF WaitInv
<1>2. QED
  BY <1>1, InitAll, StepAll, PTL DEF Spec

\* No circle of waits: the mutex and the queue of the event loop and the lock are
\* never all waited for by the tasks that have them, for any number of senders.
THEOREM NoDeadlock == Spec => []SomeoneGoesOn
  BY InitAll, StepAll, NoCircle, PTL DEF Spec

=============================================================================
