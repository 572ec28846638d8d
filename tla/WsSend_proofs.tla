---------------------------- MODULE WsSend_proofs ----------------------------
(***************************************************************************)
(* Theorems about WsSend for any number of senders, every buffer size and  *)
(* every length.                                                           *)
(***************************************************************************)
EXTENDS WsSend, TLAPS

\* What is up is connected or on its way to be closed, what is down was reset.
Up ==
  /\ up /\ state # "CONNECTED" => asm = Deaf
  /\ up /\ task \in {"recv", "polled"} => asm = Deaf
  /\ ~up => asm = NoMessage
  /\ task = "leaving" => ~up
  /\ \A s \in Senders : pc[s] = "abort" => ~up

Locked == \A s \in Senders : pc[s] \in {"send", "abort"} <=> lock = s

\* The calls in progress: whole messages, or the one fragmented message.
InCall(s) ==
  /\ lead[s] => widx[s] = 0
  /\ pc[s] = "lock" => /\ widx[s] = 0
                       /\ lead[s] = (call[s].op = "data" \/ call[s].fin)
  /\ frag # s => call[s].op = "data" /\ call[s].fin
  /\ frag = s =>
       /\ call[s].op = "data" => total = 0 /\ ~call[s].fin
       /\ call[s].fin => call[s].len = 0

InCalls ==
  /\ \A s \in Senders : pc[s] # "idle" => InCall(s)
  /\ \A s \in Senders : frag \in Senders /\ frag # s => pc[s] = "idle"

\* Who is sending the message that the server is receiving, and how much of it
\* is gone: this is what the lock and the order of a call's steps are for.
Sending(b) ==
  IF frag = b
  THEN /\ asm.size = total + (IF pc[b] = "send" THEN widx[b] ELSE 0)
       /\ pc[b] # "idle" => /\ call[b].op = "cont" \/ ~lead[b]
                            /\ call[b].fin => lead[b]
  ELSE pc[b] = "send" /\ ~lead[b] /\ asm.size = widx[b] /\ widx[b] < call[b].len

Open == asm \in Messages /\ left = None => Sending(asm.by)

\* After a message that was left open there are only beginnings of others.
Left ==
  /\ left # None => asm # NoMessage
  /\ left # None /\ asm \in Messages =>
       \A s \in Senders :
         /\ pc[s] # "idle" => call[s].op = "data" /\ lead[s]
         /\ frag = s => pc[s] # "idle"

SendInv == TypeOK /\ Up /\ Locked /\ InCalls /\ Open /\ Left

LEMMA Apart == NoMessage \notin Messages /\ Deaf \notin Messages /\ NoMessage # Deaf
  BY SendersSome DEF NoMessage, Deaf, Messages

LEMMA MessageFields == \A x \in Messages : x.by \in Senders /\ x.size \in Nat
  BY DEF Messages

LEMMA InitSend == ASSUME Init PROVE SendInv
<1>1. up = FALSE /\ ~up /\ up \in BOOLEAN
  BY Zenon DEF Init
<1>2. TypeOK
  BY <1>1 DEF Init, TypeOK, Calls
<1>3. Up
  BY <1>1 DEF Init, Up
<1>4. Locked
  BY SendersSome DEF Init, Locked
<1>5. InCalls
  BY DEF Init, InCalls
<1>6. Open /\ Left
  BY Apart DEF Init, Open, Left
<1>. QED BY <1>2, <1>3, <1>4, <1>5, <1>6 DEF SendInv

\* The steps of the client task and of the server leave the calls alone.
LEMMA TaskSend ==
  ASSUME SendInv, Task \/ PeerCloses
  PROVE  SendInv'
<1> USE DEF conn, send, app, peer
<1>1. UNCHANGED <<lock, pc, call, widx, lead, frag, total, arrived>>
  BY DEF Task, PeerCloses, Connect, AbortConnection, ReadClose, RecvClose, PollClosed,
     CloseReconnect, GiveUp, ExitClose, Exit, Start, HangUp
<1>2. Locked' /\ InCalls'
  BY <1>1 DEF SendInv, Locked, InCalls, InCall
<1>3. \/ asm' = NoMessage /\ left' = None
      \/ asm' \in {asm, Deaf} /\ left' = left
  BY DEF Task, PeerCloses, Connect, AbortConnection, ReadClose, RecvClose, PollClosed,
     CloseReconnect, GiveUp, ExitClose, Exit, Start, HangUp
<1>4. Open' /\ Left'
  BY <1>1, <1>3, Apart DEF SendInv, Open, Sending, Left
<1>5. up' \in BOOLEAN
  <2>1. up' \in {up, TRUE, FALSE}
    BY Zenon DEF Task, PeerCloses, Connect, AbortConnection, ReadClose, RecvClose,
       PollClosed, CloseReconnect, GiveUp, ExitClose, Exit, Start, HangUp
  <2>. QED BY <2>1, Zenon DEF SendInv, TypeOK
<1>6. TypeOK'
  <2>1. state' \in {"CONNECTED", "DOWN", "CLOSING", "UNKNOW"}
    BY DEF SendInv, TypeOK, Task, PeerCloses, Connect, AbortConnection, ReadClose,
       RecvClose, PollClosed, CloseReconnect, GiveUp, ExitClose, Exit, Start, Down
  <2>2. task' \in {"loop", "recv", "polled", "giveup", "leaving", "gone"}
    BY DEF SendInv, TypeOK, Task, PeerCloses, Connect, AbortConnection, ReadClose,
       RecvClose, PollClosed, CloseReconnect, GiveUp, ExitClose, Exit, Start
  <2>. QED BY <1>1, <1>3, <1>5, <2>1, <2>2 DEF SendInv, TypeOK
<1>7. Up'
  <2> USE DEF SendInv, Up, TypeOK
  <2>0. pc' = pc
    BY <1>1
  <2>1. CASE HangUp /\ task' # "leaving"
    <3>1. ~up' /\ asm' = NoMessage
      BY <2>1, Zenon DEF HangUp
    <3>. QED BY <3>1
  <2>2. CASE Connect
    <3>1. up' /\ asm' = NoMessage
      BY <2>2, Zenon DEF Connect
    <3>2. \A s \in Senders : pc'[s] # "abort"
      <4>1. \A s \in Senders : lock # s
        BY <2>2, SendersSome DEF Connect
      <4>. QED BY <2>0, <4>1 DEF Locked
    <3>3. state' = "CONNECTED" /\ task' = "loop"
      BY <2>2 DEF Connect
    <3>. QED BY <3>1, <3>2, <3>3
  <2>3. CASE GiveUp \/ PollClosed
    BY <2>0, <2>3 DEF GiveUp, PollClosed
  <2>4. CASE ReadClose \/ RecvClose
    <3>1. up' = up /\ asm' = asm /\ (up => asm = Deaf) /\ task' # "leaving"
      BY <2>4 DEF ReadClose, RecvClose, peer
    <3>. QED BY <2>0, <3>1
  <2>5. CASE ExitClose
    <3>1. ~up' /\ asm' = NoMessage
      BY <2>5, Zenon DEF ExitClose, HangUp
    <3>. QED BY <3>1
  <2>6. CASE Exit BY <2>0, <2>6 DEF Exit
  <2>7. CASE PeerCloses BY <2>0, <2>7 DEF PeerCloses
  <2>8. CASE AbortConnection \/ CloseReconnect \/ Start
    <3>1. HangUp /\ task' # "leaving"
      BY <2>8 DEF AbortConnection, CloseReconnect, Start
    <3>. QED BY <3>1, <2>1
  <2>. QED BY <2>2, <2>3, <2>4, <2>5, <2>6, <2>7, <2>8 DEF Task
<1>. QED BY <1>2, <1>4, <1>6, <1>7 DEF SendInv

-----------------------------------------------------------------------------
(* The steps of a sender                                                   *)

\* Who transmits is the author of what the server is receiving.
LEMMA Author ==
  ASSUME SendInv, NEW s \in Senders, pc[s] = "send", asm \in Messages,
         left = None \/ ~(lead[s] /\ call[s].op = "data")
  PROVE  left = None /\ asm.by = s /\ Sending(s)
<1>0. left = None
  <2>1. pc[s] # "idle"
    OBVIOUS
  <2>2. left # None => call[s].op = "data" /\ lead[s]
    BY <2>1, Zenon DEF SendInv, Left
  <2>. QED BY <2>2, Zenon
<1>1. asm.by \in Senders /\ Sending(asm.by)
  BY <1>0, MessageFields DEF SendInv, Open
<1>2. CASE frag = asm.by
  <2>1. frag \in Senders /\ (frag # s => pc[s] = "idle")
    BY <1>1, <1>2 DEF SendInv, InCalls
  <2>. QED BY <1>0, <1>1, <1>2, <2>1 DEF Sending
<1>3. CASE frag # asm.by
  <2>1. pc[asm.by] = "send"
    BY <1>1, <1>3 DEF Sending
  <2>2. lock = s /\ lock = asm.by
    BY <1>1, <2>1 DEF SendInv, Locked
  <2>. QED BY <1>0, <1>1, <2>2 DEF Sending
<1>. QED BY <1>0, <1>1, <1>2, <1>3

LEMMA CallFields == \A c \in Calls : c.op \in {"data", "cont"} /\ c.fin \in BOOLEAN /\ c.len \in Nat
  BY DEF Calls

\* A call begins: where it leaves the functions of the state.
LEMMA BeginValues ==
  ASSUME SendInv, NEW s \in Senders, NEW c \in Calls, Begin(s, c)
  PROVE  /\ pc' \in [Senders -> {"idle", "lock", "send", "abort"}] /\ call' \in [Senders -> Calls]
         /\ widx' \in [Senders -> Nat] /\ lead' \in [Senders -> BOOLEAN]
         /\ pc'[s] = "lock" /\ call'[s] = c /\ widx'[s] = 0
         /\ lead'[s] = (c.op = "data" \/ c.fin)
         /\ \A r \in Senders : r # s =>
              /\ pc'[r] = pc[r] /\ call'[r] = call[r]
              /\ widx'[r] = widx[r] /\ lead'[r] = lead[r]
<1>0. pc \in [Senders -> {"idle", "lock", "send", "abort"}] /\ call \in [Senders -> Calls]
      /\ widx \in [Senders -> Nat] /\ lead \in [Senders -> BOOLEAN]
  BY DEF SendInv, TypeOK
<1>1. pc' \in [Senders -> {"idle", "lock", "send", "abort"}] /\ call' \in [Senders -> Calls]
      /\ widx' \in [Senders -> Nat]
  BY <1>0 DEF Begin
<1>2. (c.op = "data" \/ c.fin) \in BOOLEAN
  BY CallFields, Zenon
<1>3. lead' \in [Senders -> BOOLEAN]
  BY <1>0, <1>2, Zenon DEF Begin
<1>4. lead'[s] = (c.op = "data" \/ c.fin) /\ \A r \in Senders : r # s => lead'[r] = lead[r]
  BY <1>0, Zenon DEF Begin
<1>5. pc'[s] = "lock" /\ call'[s] = c /\ widx'[s] = 0
  BY <1>0 DEF Begin
<1>6. \A r \in Senders : r # s => pc'[r] = pc[r] /\ call'[r] = call[r] /\ widx'[r] = widx[r]
  BY <1>0 DEF Begin
<1>. QED BY <1>1, <1>3, <1>4, <1>5, <1>6

LEMMA BeginSend ==
  ASSUME SendInv, NEW s \in Senders, NEW c \in Calls, Begin(s, c),
         UNCHANGED <<conn, lock, peer>>,
         \/ frag = None /\ UNCHANGED app /\ c.op = "data" /\ c.fin
         \/ /\ frag = None /\ \A r \in Senders : pc[r] = "idle"
            /\ frag' = s /\ total' = 0 /\ c.op = "data" /\ ~c.fin
         \/ frag = s /\ UNCHANGED app /\ c.op = "cont" /\ (c.fin => c.len = 0)
  PROVE  SendInv'
<1> USE DEF conn, app, peer
<1>1. pc[s] = "idle" /\ UNCHANGED <<task, state, up, lock, left, asm, arrived>>
  BY DEF Begin
<1>2. TypeOK'
  <2>1. frag' \in Senders \union {None} /\ total' \in Nat
    BY DEF SendInv, TypeOK
  <2>2. \A r \in Senders : widx'[r] <= call'[r].len
    BY BeginValues, CallFields DEF SendInv, TypeOK
  <2>. QED BY <1>1, <2>1, <2>2, BeginValues DEF SendInv, TypeOK
<1>3. Up'
  BY <1>1, BeginValues DEF SendInv, Up
<1>4. Locked'
  BY <1>1, BeginValues DEF SendInv, Locked
<1>5. InCall(s)'
  BY BeginValues, CallFields, SendersSome DEF InCall
<1>6. InCalls'
  <2>1. ASSUME NEW r \in Senders, r # s, pc'[r] # "idle"
        PROVE  InCall(r)'
    <3>1. pc[r] # "idle" /\ InCall(r) /\ frag # s
      BY <2>1, BeginValues DEF SendInv, InCalls
    <3>. QED BY <2>1, <3>1, BeginValues DEF InCall
  <2>2. ASSUME NEW r \in Senders, frag' \in Senders, frag' # r
        PROVE  pc'[r] = "idle"
    BY <2>2, BeginValues, SendersSome DEF SendInv, InCalls
  <2>. QED BY <1>5, <2>1, <2>2 DEF InCalls
<1>7. Open'
  <2> SUFFICES ASSUME asm \in Messages, left = None PROVE Sending(asm.by)'
    BY <1>1 DEF Open
  <2>1. asm.by \in Senders /\ Sending(asm.by)
    BY MessageFields DEF SendInv, Open
  <2>2. CASE frag = None
    <3>1. pc[asm.by] = "send" /\ asm.by # s
      BY <1>1, <2>1, <2>2, SendersSome DEF Sending
    <3>2. UNCHANGED app
      BY <2>1, <2>2, <3>1, SendersSome
    <3>. QED BY <1>1, <2>1, <3>1, <3>2, BeginValues DEF Sending
  <2>3. CASE frag = s
    <3>1. asm.by = s
      BY <2>1, <2>3 DEF SendInv, InCalls, Sending
    <3>2. asm.size = total /\ frag' = s /\ total' = total
      BY <1>1, <2>1, <2>3, <3>1, SendersSome DEF Sending, SendInv, TypeOK
    <3>3. call'[s] = c /\ pc'[s] = "lock" /\ c.op = "cont" /\ (c.fin => lead'[s])
      BY <2>3, BeginValues, SendersSome
    <3>. QED BY <1>1, <1>2, <3>1, <3>2, <3>3 DEF Sending, TypeOK
  <2>. QED BY <2>2, <2>3
<1>8. Left'
  <2> SUFFICES ASSUME left # None, asm \in Messages, NEW r \in Senders
               PROVE  /\ pc'[r] # "idle" => call'[r].op = "data" /\ lead'[r]
                      /\ frag' = r => pc'[r] # "idle"
    BY <1>1 DEF SendInv, Left
  <2>1. frag # s
    BY <1>1 DEF SendInv, Left
  <2>2. CASE r = s
    BY <2>1, <2>2, BeginValues
  <2>3. CASE r # s
    BY <2>1, <2>3, BeginValues DEF SendInv, Left
  <2>. QED BY <2>2, <2>3
<1>. QED BY <1>2, <1>3, <1>4, <1>6, <1>7, <1>8 DEF SendInv

LEMMA CallSend ==
  ASSUME SendInv, NEW s \in Senders, Call(s)
  PROVE  SendInv'
<1>1. CASE SendWhole(s)
  <2>1. PICK n \in Lengths : Begin(s, [op |-> "data", fin |-> TRUE, len |-> n])
    BY <1>1 DEF SendWhole
  <2> DEFINE c == [op |-> "data", fin |-> TRUE, len |-> n]
  <2>2. c \in Calls /\ c.op = "data" /\ c.fin
    BY LengthsNat DEF Calls
  <2>. QED BY <1>1, <2>1, <2>2, BeginSend DEF SendWhole
<1>2. CASE SendPartial(s)
  <2>1. PICK n \in Lengths : Begin(s, [op |-> "data", fin |-> FALSE, len |-> n])
    BY <1>2 DEF SendPartial
  <2> DEFINE c == [op |-> "data", fin |-> FALSE, len |-> n]
  <2>2. c \in Calls /\ c.op = "data" /\ ~c.fin
    BY LengthsNat DEF Calls
  <2>. QED BY <1>2, <2>1, <2>2, BeginSend DEF SendPartial
<1>3. CASE SendMore(s)
  <2>1. PICK c \in Calls : Begin(s, c) /\ c.op = "cont" /\ (c.fin => c.len = 0)
    <3>1. \A n \in Lengths : [op |-> "cont", fin |-> FALSE, len |-> n] \in Calls
      BY LengthsNat DEF Calls
    <3>2. [op |-> "cont", fin |-> TRUE, len |-> 0] \in Calls
      BY DEF Calls
    <3>. QED BY <1>3, <3>1, <3>2 DEF SendMore
  <2>. QED BY <1>3, <2>1, BeginSend DEF SendMore
<1>4. CASE Abandon(s)
  <2> USE DEF SendInv, Abandon, conn, send
  <2>1. \A r \in Senders : pc[r] = "idle"
    BY <1>4 DEF InCalls
  <2>2. UNCHANGED <<task, state, up, lock, pc, call, widx, lead, asm, arrived>>
        /\ frag' = None /\ total' = 0 /\ left' = IF asm \in Messages THEN s ELSE left
    BY <1>4
  <2>3. TypeOK' BY <1>4, <2>2 DEF TypeOK
  <2>4. Up' BY <2>2 DEF Up
  <2>5. Locked' BY <2>2 DEF Locked
  <2>6. InCalls' BY <2>1, <2>2, SendersSome DEF InCalls
  <2>7. Open' BY <2>2, SendersSome DEF Open
  <2>8. Left' BY <2>1, <2>2, SendersSome, Apart DEF Left
  <2>. QED BY <2>3, <2>4, <2>5, <2>6, <2>7, <2>8
<1>. QED BY <1>1, <1>2, <1>3, <1>4 DEF Call

\* Taking the lock, or not getting it.
LEMMA LockSend ==
  ASSUME SendInv, NEW s \in Senders, TakeLock(s) \/ LockTimeout(s)
  PROVE  SendInv'
<1> USE DEF conn, app, peer
<1>1. /\ UNCHANGED <<task, state, up, call, widx, lead, total, left, asm, arrived>>
      /\ pc[s] = "lock" /\ pc' \in [Senders -> {"idle", "lock", "send", "abort"}]
      /\ \A r \in Senders : r # s => pc'[r] = pc[r]
      /\ \/ lock = None /\ lock' = s /\ pc'[s] = "send" /\ frag' = frag
         \/ /\ lock' = lock /\ pc'[s] = "idle"
            /\ \/ frag' = frag /\ (frag = s => call[s].op # "data")
               \/ frag = s /\ call[s].op = "data" /\ frag' = None
  BY DEF TakeLock, LockTimeout, SendInv, TypeOK
<1>2. InCall(s) /\ widx[s] = 0 /\ total \in Nat
  BY <1>1 DEF SendInv, InCalls, InCall, TypeOK
<1>3. TypeOK'
  BY <1>1 DEF SendInv, TypeOK
<1>4. Up'
  BY <1>1 DEF SendInv, Up
<1>5. Locked'
  BY <1>1, SendersSome DEF SendInv, Locked
<1>6. InCalls'
  <2>1. ASSUME NEW r \in Senders, pc'[r] # "idle" PROVE InCall(r)'
    <3>1. pc[r] # "idle" /\ InCall(r)
      BY <1>1, <2>1 DEF SendInv, InCalls
    <3>2. frag' = r <=> frag = r
      BY <1>1, <2>1, SendersSome
    <3>3. pc'[r] = "lock" => pc[r] = "lock"
      BY <1>1
    <3>. QED BY <1>1, <3>1, <3>2, <3>3 DEF InCall
  <2>2. \A r \in Senders : frag' \in Senders /\ frag' # r => pc'[r] = "idle"
    BY <1>1, SendersSome DEF SendInv, InCalls
  <2>. QED BY <2>1, <2>2 DEF InCalls
<1>7. Open'
  <2> SUFFICES ASSUME asm \in Messages, left = None PROVE Sending(asm.by)'
    BY <1>1 DEF Open
  <2>1. asm.by \in Senders /\ Sending(asm.by)
    BY MessageFields DEF SendInv, Open
  <2>2. CASE frag' = frag
    BY <1>1, <1>2, <2>1, <2>2 DEF Sending
  <2>3. CASE frag = s /\ call[s].op = "data"
    <3>1. lead[s] /\ total = 0 /\ \A r \in Senders : pc[r] = "send" => r = s
      BY <1>1, <1>2, <2>3 DEF InCall, SendInv, InCalls
    <3>. QED BY <1>1, <2>1, <2>3, <3>1 DEF Sending
  <2>. QED BY <1>1, <2>2, <2>3
<1>8. Left'
  <2> SUFFICES ASSUME left # None, asm \in Messages, NEW r \in Senders
               PROVE  /\ pc'[r] # "idle" => call[r].op = "data" /\ lead[r]
                      /\ frag' = r => pc'[r] # "idle"
    BY <1>1 DEF SendInv, Left
  <2>1. /\ pc[r] # "idle" => call[r].op = "data" /\ lead[r]
        /\ frag = r => pc[r] # "idle"
    BY DEF SendInv, Left
  <2>. QED BY <1>1, <2>1, SendersSome
<1>. QED BY <1>3, <1>4, <1>5, <1>6, <1>7, <1>8 DEF SendInv

\* The end of a call, with its length or with -1.
LEMMA EndSend ==
  ASSUME SendInv, NEW s \in Senders,
         Return(s) \/ FailState(s) \/ (Fail(s) /\ state = "UNKNOW")
  PROVE  SendInv'
<1> USE DEF conn, app, peer, End
<1>1. /\ UNCHANGED <<task, up, call, widx, lead, left, asm, arrived>>
      /\ state' \in {state, "UNKNOW", "DOWN"}
      /\ pc[s] \in {"send", "abort"} /\ pc' = [pc EXCEPT ![s] = "idle"] /\ lock' = None
      /\ pc'[s] = "idle" /\ \A r \in Senders : r # s => pc'[r] = pc[r]
      /\ \/ UNCHANGED app /\ frag # s
         \/ frag = s /\ frag' = None /\ total' = 0
         \/ /\ frag = s /\ frag' = s /\ total' = total + widx[s]
            /\ Return(s) /\ ~call[s].fin
  BY DEF Return, Fail, FailState, Down, SendInv, TypeOK
<1>2. (Return(s) /\ pc[s] = "send") \/ asm \notin Messages
  BY Apart DEF Return, Fail, FailState, SendInv, Up
<1>3. TypeOK'
  <2>1. frag' \in Senders \union {None} /\ total' \in Nat
    BY <1>1 DEF SendInv, TypeOK
  <2>. QED BY <1>1, <2>1 DEF SendInv, TypeOK
<1>4. Up'
  <2>1. UNCHANGED state \/ ~up \/ asm = Deaf
    BY DEF Return, Fail, FailState, SendInv, Up
  <2>. QED BY <1>1, <2>1 DEF SendInv, Up
<1>5. Locked'
  BY <1>1, SendersSome DEF SendInv, Locked
<1>6. InCalls'
  <2>1. \A r \in Senders : frag' \in Senders /\ frag' # r => pc'[r] = "idle"
    BY <1>1, SendersSome DEF SendInv, InCalls
  <2>2. ASSUME NEW r \in Senders, pc'[r] # "idle"
        PROVE  InCall(r)'
    <3>1. r # s /\ pc[r] # "idle" /\ InCall(r)
      BY <1>1, <2>2 DEF SendInv, InCalls
    <3>2. frag # s
      BY <3>1 DEF SendInv, InCalls
    <3>. QED BY <1>1, <3>1, <3>2 DEF InCall
  <2>. QED BY <2>1, <2>2 DEF InCalls
<1>7. Open' /\ Left'
  <2>1. CASE asm \notin Messages
    BY <1>1, <2>1 DEF SendInv, Open, Left
  <2>2. CASE asm \in Messages
    <3>1. Return(s) /\ pc[s] = "send"
      BY <1>2, <2>2
    <3>2. ~lead[s] /\ ~(widx[s] < call[s].len)
      BY <3>1 DEF Return, More
    <3>3. left = None /\ asm.by = s /\ Sending(s)
      BY <2>2, <3>1, <3>2, Author
    <3>4. frag = s /\ asm.size = total + widx[s] /\ ~call[s].fin
      BY <1>1, <3>1, <3>2, <3>3 DEF Sending
    <3>5. frag' = s /\ total' = total + widx[s]
      BY <3>1, <3>4 DEF Return
    <3>6. total' \in Nat
      BY <1>3 DEF TypeOK
    <3>. QED BY <1>1, <3>3, <3>4, <3>5, <3>6 DEF Open, Sending, Left
  <2>. QED BY <2>1, <2>2
<1>. QED BY <1>3, <1>4, <1>5, <1>6, <1>7 DEF SendInv

\* The write fails and the transport is closed under the lock.
LEMMA FailSend ==
  ASSUME SendInv, NEW s \in Senders, Fail(s), state # "UNKNOW"
  PROVE  SendInv'
<1>1. /\ UNCHANGED <<task, state, lock, call, widx, lead, frag, total, arrived>>
      /\ asm' = NoMessage /\ left' = None
      /\ pc[s] = "send" /\ pc' \in [Senders -> {"idle", "lock", "send", "abort"}]
      /\ pc'[s] = "abort" /\ \A r \in Senders : r # s => pc'[r] = pc[r]
  BY DEF Fail, HangUp, app, SendInv, TypeOK
<1>2. up' = FALSE /\ ~up' /\ up' \in BOOLEAN
  BY Zenon DEF Fail, HangUp
<1>3. TypeOK'
  BY <1>1, <1>2 DEF SendInv, TypeOK
<1>4. Up'
  BY <1>1, <1>2 DEF Up
<1>5. Locked'
  BY <1>1 DEF SendInv, Locked
<1>6. InCalls'
  <2>1. \A r \in Senders : pc'[r] # "idle" => pc[r] # "idle" /\ (pc'[r] = "lock" => pc[r] = "lock")
    BY <1>1
  <2>2. \A r \in Senders : pc'[r] # "idle" => InCall(r)'
    BY <1>1, <2>1 DEF SendInv, InCalls, InCall
  <2>3. \A r \in Senders : frag' \in Senders /\ frag' # r => pc'[r] = "idle"
    BY <1>1 DEF SendInv, InCalls
  <2>. QED BY <2>2, <2>3 DEF InCalls
<1>7. Open' /\ Left'
  BY <1>1, Apart DEF Open, Left
<1>. QED BY <1>3, <1>4, <1>5, <1>6, <1>7 DEF SendInv

-----------------------------------------------------------------------------
(* One fragment                                                            *)

\* What a fragment of n bytes does to the call.
FragmentOf(s, n) ==
  /\ n \in Nat /\ (n = NeedWrite(s) \/ n < NeedWrite(s)) /\ widx'[s] = widx[s] + n
  /\ widx[s] + n <= call[s].len
  /\ IsLast(s) => call[s].fin /\ widx[s] + NeedWrite(s) = call[s].len
  /\ call[s].fin /\ ~IsLast(s) => widx[s] + n < call[s].len /\ call[s].len > 0

LEMMA FragmentValues ==
  ASSUME SendInv, NEW s \in Senders, NEW n \in Written(s),
         Fragment(s), widx' = [widx EXCEPT ![s] = @ + n]
  PROVE  /\ UNCHANGED <<task, state, up, lock, pc, call, frag, total, left>>
         /\ pc[s] = "send" /\ up /\ InCall(s) /\ FragmentOf(s, n)
         /\ widx' \in [Senders -> Nat]
         /\ lead' \in [Senders -> BOOLEAN] /\ ~lead'[s]
         /\ \A r \in Senders : r # s => widx'[r] = widx[r] /\ lead'[r] = lead[r]
<1>1. /\ UNCHANGED <<task, state, up, lock, pc, call, frag, total, left>>
      /\ pc[s] = "send" /\ up
  BY DEF Fragment, conn, app
<1>2. InCall(s)
  BY <1>1 DEF SendInv, InCalls
<1>3. widx[s] \in Nat /\ call[s].len \in Nat /\ widx[s] <= call[s].len
  BY CallFields DEF SendInv, TypeOK
<1>4. NeedWrite(s) \in Nat /\ n \in Nat /\ (n = NeedWrite(s) \/ n < NeedWrite(s))
  BY <1>3, BufferPositive DEF NeedWrite, Rest, Written
<1>5. /\ widx[s] + n <= call[s].len
      /\ IsLast(s) => call[s].fin /\ widx[s] + NeedWrite(s) = call[s].len
      /\ call[s].fin /\ ~IsLast(s) => widx[s] + n < call[s].len /\ call[s].len > 0
  BY <1>3, <1>4, BufferPositive DEF NeedWrite, IsLast, Rest
<1>6. /\ widx' \in [Senders -> Nat] /\ widx'[s] = widx[s] + n
      /\ \A r \in Senders : r # s => widx'[r] = widx[r]
  BY <1>3, <1>4 DEF SendInv, TypeOK
<1>7. lead' \in [Senders -> BOOLEAN] /\ ~lead'[s] /\ \A r \in Senders : r # s => lead'[r] = lead[r]
  BY Zenon DEF SendInv, TypeOK, Fragment
<1>. QED BY <1>1, <1>2, <1>4, <1>5, <1>6, <1>7 DEF FragmentOf

\* The server's view: dropped, complete, begun, or continued by its author.
LEMMA FragmentReceived ==
  ASSUME SendInv, NEW s \in Senders, NEW n \in Nat, pc[s] = "send",
         Receive(s, lead[s] /\ call[s].op = "data", n, IsLast(s))
  PROVE  LET start == lead[s] /\ call[s].op = "data"
             m == [by |-> s, size |-> n + IF start THEN 0 ELSE asm.size]
         IN \/ asm' = Deaf /\ arrived' = arrived
            \/ /\ left = None
               /\ IF start THEN asm = NoMessage
                           ELSE asm \in Messages /\ asm.by = s /\ Sending(s)
               /\ IF IsLast(s) THEN arrived' = m /\ asm' = NoMessage
                               ELSE asm' = m /\ arrived' = arrived
<1> DEFINE start == lead[s] /\ call[s].op = "data"
           m == [by |-> s, size |-> n + IF start THEN 0 ELSE asm.size]
<1>1. Receive(s, start, n, IsLast(s))
  OBVIOUS
<1>2. asm \in Messages \union {NoMessage, Deaf} /\ start \in BOOLEAN
  BY DEF SendInv, TypeOK
<1>3. CASE asm = Deaf \/ start # (asm = NoMessage)
  BY <1>1, <1>3 DEF Receive
<1>4. CASE ~(asm = Deaf \/ start # (asm = NoMessage))
  <2>1. IF start THEN asm = NoMessage ELSE asm \in Messages
    BY <1>2, <1>4
  <2>2. left = None /\ (~start => asm.by = s /\ Sending(s))
    BY <2>1, Author DEF SendInv, Left
  <2>3. m = [by |-> IF start THEN s ELSE asm.by, size |-> asm.size + n]
    BY <2>1, <2>2, MessageFields DEF NoMessage
  <2>4. IF IsLast(s) THEN arrived' = m /\ asm' = NoMessage
                     ELSE asm' = m /\ arrived' = arrived
    BY <1>1, <1>4, <2>3 DEF Receive
  <2>. QED BY <2>1, <2>2, <2>4
<1>. QED BY <1>3, <1>4

LEMMA FragmentSend ==
  ASSUME SendInv, NEW s \in Senders, Fragment(s)
  PROVE  SendInv'
<1>0. PICK n \in Written(s) :
        /\ Receive(s, lead[s] /\ call[s].op = "data", n, IsLast(s))
        /\ widx' = [widx EXCEPT ![s] = @ + n]
  BY DEF Fragment
<1> DEFINE start == lead[s] /\ call[s].op = "data"
           m == [by |-> s, size |-> n + IF start THEN 0 ELSE asm.size]
<1>v. /\ UNCHANGED <<task, state, up, lock, pc, call, frag, total, left>>
      /\ pc[s] = "send" /\ up /\ InCall(s) /\ FragmentOf(s, n)
      /\ widx' \in [Senders -> Nat]
      /\ lead' \in [Senders -> BOOLEAN] /\ ~lead'[s]
      /\ \A r \in Senders : r # s => widx'[r] = widx[r] /\ lead'[r] = lead[r]
  BY <1>0, FragmentValues
<1>n. n \in Nat /\ widx[s] \in Nat /\ total \in Nat
  BY <1>v DEF FragmentOf, SendInv, TypeOK
<1>r. \/ asm' = Deaf /\ arrived' = arrived
      \/ /\ left = None
         /\ IF start THEN asm = NoMessage ELSE asm \in Messages /\ asm.by = s /\ Sending(s)
         /\ IF IsLast(s) THEN arrived' = m /\ asm' = NoMessage
                         ELSE asm' = m /\ arrived' = arrived
  BY <1>0, <1>v, <1>n, FragmentReceived
<1>1. m \in Messages \/ asm' = Deaf
  BY <1>n, <1>r, MessageFields DEF Messages
<1>2. TypeOK'
  <2>1. asm' \in Messages \union {NoMessage, Deaf} /\ arrived' \in Messages \union {NoMessage}
    BY <1>1, <1>r, Apart DEF SendInv, TypeOK
  <2>2. \A r \in Senders : widx'[r] <= call'[r].len
    BY <1>v DEF FragmentOf, SendInv, TypeOK
  <2>. QED BY <1>v, <2>1, <2>2 DEF SendInv, TypeOK
<1>3. Up'
  <2>1. up' = up /\ state' = state /\ task' = task /\ pc' = pc /\ up
    BY <1>v, Zenon
  <2>2. asm = Deaf => asm' = Deaf
    BY <1>r, Apart
  <2>. QED BY <2>1, <2>2 DEF SendInv, Up
<1>4. Locked'
  BY <1>v DEF SendInv, Locked
<1>5. InCalls'
  <2>1. InCall(s)'
    BY <1>v DEF InCall
  <2>2. \A r \in Senders : r # s /\ pc'[r] # "idle" => InCall(r)'
    BY <1>v DEF SendInv, InCalls, InCall
  <2>3. \A r \in Senders : frag' \in Senders /\ frag' # r => pc'[r] = "idle"
    BY <1>v DEF SendInv, InCalls
  <2>. QED BY <2>1, <2>2, <2>3 DEF InCalls
<1>6. Open'
  <2>1. CASE asm' \notin Messages
    BY <2>1 DEF Open
  <2>2. CASE asm' \in Messages
    <3>1. asm' = m /\ ~IsLast(s) /\ asm'.by = s
      BY <2>2, <1>r, Apart
    <3>2. IF start THEN asm = NoMessage ELSE asm \in Messages /\ asm.by = s /\ Sending(s)
      BY <2>2, <1>r, Apart
    <3>3. start => widx[s] = 0 /\ (frag = s => total = 0 /\ ~call[s].fin)
      BY <1>v DEF InCall
    <3>4. widx'[s] = widx[s] + n
      BY <1>v DEF FragmentOf
    <3>5. asm'.size = widx'[s] + IF frag = s THEN total ELSE 0
      <4>1. CASE start
        BY <1>n, <3>1, <3>3, <3>4, <4>1
      <4>2. CASE ~start
        BY <1>n, <1>v, <3>1, <3>2, <3>4, <4>2 DEF Sending
      <4>. QED BY <4>1, <4>2
    <3>6. frag = s => ~call[s].fin
      BY <1>n, <1>v, <3>1 DEF InCall, FragmentOf
    <3>7. frag # s => widx'[s] < call[s].len
      BY <1>v, <3>1, <3>4 DEF InCall, FragmentOf
    <3>. QED BY <1>n, <1>v, <3>1, <3>4, <3>5, <3>6, <3>7 DEF Open, Sending
  <2>. QED BY <2>1, <2>2
<1>7. Left'
  <2>1. asm' # NoMessage \/ left = None
    BY <1>r, Apart
  <2>2. left # None => asm' = Deaf
    BY <1>r
  <2>. QED BY <1>v, <2>1, <2>2, Apart DEF Left
<1>. QED BY <1>2, <1>3, <1>4, <1>5, <1>6, <1>7 DEF SendInv

\* In every reachable state, what the server has of a message is what its author
\* has sent of it.
THEOREM SendInvariant == Spec => []SendInv
<1>1. ASSUME SendInv, [Next]_vars PROVE SendInv'
  <2>1. ASSUME NEW s \in Senders, Call(s) \/ Transmit(s) PROVE SendInv'
    BY <1>1, <2>1, CallSend, LockSend, FragmentSend, EndSend, FailSend DEF Transmit
  <2>2. CASE Task \/ PeerCloses
    BY <1>1, <2>2, TaskSend
  <2>3. CASE UNCHANGED vars
    <3>1. UNCHANGED <<task, state, up, lock, pc, call, widx, lead, frag, total, left, asm,
                      arrived>>
      BY <2>3 DEF vars, conn, send, app, peer
    <3>2. TypeOK' BY <1>1, <3>1 DEF SendInv, TypeOK
    <3>3. Up' BY <1>1, <3>1 DEF SendInv, Up
    <3>4. Locked' BY <1>1, <3>1 DEF SendInv, Locked
    <3>5. InCalls' BY <1>1, <3>1 DEF SendInv, InCalls, InCall
    <3>6. Open' /\ Left' BY <1>1, <3>1 DEF SendInv, Open, Sending, Left
    <3>. QED BY <3>2, <3>3, <3>4, <3>5, <3>6 DEF SendInv
  <2>. QED BY <1>1, <2>1, <2>2, <2>3 DEF Next
<1>. QED BY InitSend, <1>1, PTL DEF Spec

\* The state of every send is well typed, and no call writes beyond its length.
THEOREM SendTypeCorrect == Spec => []TypeOK
BY SendInvariant, PTL DEF SendInv

\* What the server has of a completed message is what its author wrote, for all
\* senders, buffer sizes, lengths, short writes, time limits and losses of the
\* connection; and only a short write of its last frame makes it less than all.
THEOREM MessagesArriveWhole == Spec => ArrivesWhole
<1> DEFINE Whole ==
      \A s \in Senders :
        arrived' # arrived /\ Fragment(s) =>
          /\ arrived'.by = s /\ call[s].fin
          /\ arrived'.size = widx'[s] + IF frag = s THEN total ELSE 0
          /\ widx'[s] = widx[s] + NeedWrite(s) => widx'[s] = call[s].len
<1>1. ASSUME SendInv PROVE Whole
  <2> SUFFICES ASSUME NEW s \in Senders, arrived' # arrived, Fragment(s)
               PROVE  /\ arrived'.by = s /\ call[s].fin
                      /\ arrived'.size = widx'[s] + IF frag = s THEN total ELSE 0
                      /\ widx'[s] = widx[s] + NeedWrite(s) => widx'[s] = call[s].len
    OBVIOUS
  <2>0. PICK n \in Written(s) :
          /\ Receive(s, lead[s] /\ call[s].op = "data", n, IsLast(s))
          /\ widx' = [widx EXCEPT ![s] = @ + n]
    BY DEF Fragment
  <2> DEFINE start == lead[s] /\ call[s].op = "data"
             m == [by |-> s, size |-> n + IF start THEN 0 ELSE asm.size]
  <2>1. pc[s] = "send" /\ InCall(s) /\ FragmentOf(s, n)
    BY <1>1, <2>0, FragmentValues
  <2>2. n \in Nat /\ widx[s] \in Nat /\ total \in Nat /\ widx'[s] = widx[s] + n
    BY <1>1, <2>1 DEF FragmentOf, SendInv, TypeOK
  <2>3. /\ arrived' = m /\ IsLast(s)
        /\ IF start THEN asm = NoMessage ELSE asm \in Messages /\ asm.by = s /\ Sending(s)
    BY <1>1, <2>0, <2>1, <2>2, FragmentReceived
  <2>4. call[s].fin /\ (widx'[s] = widx[s] + NeedWrite(s) => widx'[s] = call[s].len)
    BY <2>1, <2>3 DEF FragmentOf
  <2>5. arrived'.size = widx'[s] + IF frag = s THEN total ELSE 0
    <3>1. CASE start
      BY <2>1, <2>2, <2>3, <3>1 DEF InCall
    <3>2. CASE ~start
      BY <2>1, <2>2, <2>3, <3>2 DEF Sending
    <3>. QED BY <3>1, <3>2
  <2>. QED BY <2>3, <2>4, <2>5
<1>2. SendInv => [Whole]_vars
  BY <1>1
<1>. QED BY SendInvariant, <1>2, PTL DEF ArrivesWhole

\* No sender, in no interleaving, begins a message inside another one, but after
\* an author has left his open.
THEOREM MessagesNeverMixed == Spec => NeverMixed
<1> DEFINE Outside ==
      \A s \in Senders :
        Fragment(s) /\ lead[s] /\ call[s].op = "data" =>
          asm \in {NoMessage, Deaf} \/ left # None
<1>1. ASSUME SendInv PROVE Outside
  <2> SUFFICES ASSUME NEW s \in Senders, Fragment(s), lead[s], call[s].op = "data",
                      asm \in Messages, left = None
               PROVE  FALSE
    BY <1>1 DEF SendInv, TypeOK
  <2>1. pc[s] = "send"
    BY DEF Fragment
  <2>2. Sending(s) /\ InCall(s)
    BY <1>1, <2>1, Author DEF SendInv, InCalls
  <2>. QED BY <2>1, <2>2 DEF Sending
<1>2. SendInv => [Outside]_vars
  BY <1>1
<1>. QED BY SendInvariant, <1>2, PTL DEF NeverMixed


=============================================================================
