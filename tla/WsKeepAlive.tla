----------------------------- MODULE WsKeepAlive -----------------------------
(***************************************************************************)
(* The client task against the clock: when a PING is sent, when a missing  *)
(* PONG ends the connection, and when a lost connection is dialled again.  *)
(* WsClient lets all of this happen at any time.                           *)
(*                                                                         *)
(* Time is counted in ticks.  The code compares the clock with a tick      *)
(* stamp; the model keeps the age of each stamp.  The client reads one     *)
(* frame per iteration, and whatever else an iteration does (the handler   *)
(* of the application, the wait for the lock, writing) takes Busy ticks at *)
(* most.  Only a frame of which the rest does not come is waited for       *)
(* without limit: recv does not look at the clock.                         *)
(*                                                                         *)
(* A PING that could not be written is as good as one on a dead connection *)
(* (Dies).  The closing handshake and the end of the task are left out: no *)
(* CLOSE frame is sent or received here, and config->auto_reconnect holds. *)
(***************************************************************************)
EXTENDS Integers, Sequences

CONSTANTS
  PingSeconds,    \* values the application gives to set_ping_interval_sec
  DefaultPing,    \* WEBSOCKET_PING_INTERVAL_SEC
  PongSeconds,    \* config->pingpong_timeout_sec; 0: never disconnect
  Waits,          \* values the application gives to set_reconnect_timeout
  PerSecond,      \* ticks in a second: the factor 1000
  Word,           \* 2^32: size_t and int have 32 bits
  MaxPing, MaxPong, MaxWait, \* what these settings come to in ticks, at most
  Poll,           \* the time poll_read waits for a frame
  Busy,           \* the rest of an iteration, at most
  Dial,           \* connecting, at most
  AnswerWithin,   \* a live server answers a PING within this time
  Senders,        \* tasks that may be inside a send at a time
  MaxInbox,       \* bound: frames of the server waiting to be read
  Cap             \* bound: ages are counted up to here

\* ping_interval_sec * 1000 in unsigned arithmetic of 32 bits.
PingMillis(seconds) == (seconds * PerSecond) % Word

\* pingpong_timeout_sec * 1000 overflows an int: the compiled code wraps, and a
\* negative product, compared with a uint64_t, is longer than any age.
PongMillis ==
  LET product == (PongSeconds * PerSecond) % Word
  IN IF product < Word \div 2 THEN product ELSE Cap

ASSUME TimesNat ==
  /\ Poll \in Nat /\ Busy \in Nat /\ Dial \in Nat /\ AnswerWithin \in Nat
  /\ MaxPing \in Nat /\ MaxPong \in Nat /\ MaxWait \in Nat /\ Cap \in Nat
  /\ MaxInbox \in Nat \ {0} /\ PongSeconds \in Nat
ASSUME DefaultPositive == DefaultPing \in PingSeconds \ {0}
ASSUME PingBounded == \A s \in PingSeconds : PingMillis(s) \in 0..MaxPing
\* The product does not overflow: the timeout is less than 24 days.
ASSUME PongBounded == PongMillis \in 0..MaxPong
ASSUME WaitBounded ==
  /\ Waits \subseteq Int /\ \E w \in Waits : w > 0
  /\ \A w \in Waits : w <= MaxWait
ASSUME SendersNat == Senders \in Nat

\* A clock that was reset is past the wait after this time: half a period more than
\* was set, or the poll that the reset found the client in, and two iterations.
Late ==
  LET slept == MaxWait + (MaxWait \div 2)
  IN (IF slept > Poll THEN slept ELSE Poll) + 2 * Busy

ASSUME CapLarge ==
  /\ Cap > MaxPing + MaxPong + MaxWait + (MaxWait \div 2) + 2 * Poll + 3 * Busy
  /\ Cap > (Senders + 1) * Late
\* What it takes to call a server prompt: its answer, behind the frames before
\* it, is read in time.
ASSUME Prompt ==
  PongSeconds # 0 => AnswerWithin + MaxInbox * Busy <= PongMillis

VARIABLES
  state,          \* client->state
  pc,             \* switch, check, poll, frame, work, dial or delay
  limit,          \* the time by which the present wait ends ...
  spent,          \* ... and how much of it has passed
  ping,           \* config->ping_interval_sec
  wait,           \* client->wait_timeout_ms
  sincePing,      \* age of ping_tick_ms
  sincePong,      \* age of pingpong_tick_ms
  sinceLost,      \* age of reconnect_tick_ms
  lost,           \* time since the connection was lost, and not dialled
  sending,        \* tasks inside a send that was let in while connected
  waiting,        \* wait_for_pong_resp
  selected,       \* read_select is not 0
  alive,          \* the server is there and answers
  owed,           \* the server has a PING to answer ...
  asked,          \* ... that came so long ago
  inbox,          \* frames of the server waiting to be read
  quiet           \* time since the client last heard of the server

clock   == <<limit, spent, sincePing, sincePong, sinceLost, lost, asked, quiet>>
setting == <<ping, wait, sending>>
server  == <<alive, owed, asked, inbox>>
vars    == <<state, pc, limit, spent, ping, wait, sincePing, sincePong, sinceLost,
             lost, sending, waiting, selected, alive, owed, asked, inbox, quiet>>

Init ==
  /\ state = "INIT" /\ pc = "switch" /\ limit = 0 /\ spent = 0
  /\ ping \in PingSeconds \ {0} /\ wait \in {w \in Waits : w > 0}
  /\ sincePing = 0 /\ sincePong = Cap /\ sinceLost = 0 /\ lost = 0 /\ sending = 0
  /\ waiting = FALSE /\ selected = FALSE
  /\ alive = TRUE /\ owed = FALSE /\ asked = 0 /\ inbox = <<>> /\ quiet = 0

Later(age) == IF age < Cap THEN age + 1 ELSE age

\* The client goes on to something that takes so long at most.
Wait(place, time) == pc' = place /\ limit' = time /\ spent' = 0

-----------------------------------------------------------------------------
(* Time                                                                    *)

\* recv waits for the rest of a frame, on a connection that is open.
InFrame == pc = "frame" /\ state = "CONNECTED"

\* What cannot wait: a frame that poll_read sees, the code between two waits, the
\* rest of a frame of a live server, and its answer.
Urgent ==
  \/ pc \in {"switch", "check"}
  \/ pc = "poll" /\ inbox # <<>>
  \/ spent >= limit /\ (InFrame => alive)
  \/ alive /\ owed /\ asked >= AnswerWithin

Tick ==
  /\ ~Urgent
  /\ spent' = IF spent < limit THEN spent + 1 ELSE spent
  /\ sincePing' = Later(sincePing) /\ sincePong' = Later(sincePong)
  /\ sinceLost' = IF state = "WAIT_TIMEOUT" THEN Later(sinceLost) ELSE sinceLost
  /\ lost' = IF state = "CONNECTED" \/ pc = "dial" THEN lost ELSE Later(lost)
  /\ asked' = IF alive /\ owed THEN asked + 1 ELSE asked
  /\ quiet' = IF state = "CONNECTED" THEN Later(quiet) ELSE quiet
  /\ UNCHANGED <<state, pc, limit, setting, waiting, selected, alive, owed, inbox>>

-----------------------------------------------------------------------------
(* esp_websocket_client_task                                               *)

\* esp_websocket_client_abort_connection, and what it does to this connection.
Abort ==
  /\ state' = "WAIT_TIMEOUT" /\ sinceLost' = 0
  /\ inbox' = <<>> /\ owed' = FALSE /\ asked' = 0 /\ quiet' = 0
  /\ UNCHANGED <<alive, lost>>

StartDial ==
  /\ pc = "switch" /\ state = "INIT"
  /\ Wait("dial", Dial) /\ lost' = 0
  /\ UNCHANGED <<state, setting, sincePing, sincePong, sinceLost, waiting,
                 selected, server, quiet>>

\* The PING timer is left as it is, the PONG timer is switched off.
Connected_StalePong ==          \* mutant: wait_for_pong_resp is kept
  /\ pc = "dial"
  /\ state' = "CONNECTED" /\ Wait("check", 0)
  /\ alive' = TRUE /\ quiet' = 0
  /\ UNCHANGED <<setting, sincePing, sincePong, sinceLost, lost, waiting, selected,
                 owed, asked, inbox>>

Connected ==
  /\ pc = "dial"
  /\ state' = "CONNECTED" /\ Wait("check", 0)
  /\ waiting' = FALSE /\ alive' = TRUE /\ quiet' = 0
  /\ UNCHANGED <<setting, sincePing, sincePong, sinceLost, lost, selected, owed,
                 asked, inbox>>

ConnectFails ==
  /\ pc = "dial"
  /\ Abort /\ Wait("check", 0)
  /\ UNCHANGED <<setting, sincePing, sincePong, waiting, selected>>

PingDue == sincePing > PingMillis(ping)

StartsTimer_Always == PingDue /\ PongSeconds # 0   \* mutant: by every PING
StartsTimer == PingDue /\ ~waiting /\ PongSeconds # 0

PongOverdue == waiting /\ sincePong > PongMillis

\* case WEBSOCKET_STATE_CONNECTED: a PING if it is due; the clock of the PONG
\* starts with the first PING that is not answered.
Watch ==
  /\ pc = "switch" /\ state = "CONNECTED" /\ ~PongOverdue
  /\ sincePing' = IF PingDue \/ selected THEN 0 ELSE sincePing
  /\ sincePong' = IF StartsTimer THEN 0 ELSE sincePong
  /\ waiting' = (waiting \/ StartsTimer)
  /\ owed' = (owed \/ PingDue)
  /\ Wait("check", 0)
  /\ UNCHANGED <<state, setting, sinceLost, lost, selected, alive, asked, inbox,
                 quiet>>

\* The same case: no PONG came.
GiveUp ==
  /\ pc = "switch" /\ state = "CONNECTED" /\ PongOverdue
  /\ sincePing' = IF PingDue THEN 0 ELSE sincePing
  /\ Abort /\ Wait("check", 0)
  /\ UNCHANGED <<setting, sincePong, waiting, selected>>

\* case WEBSOCKET_STATE_WAIT_TIMEOUT.
Elapsed == sinceLost > wait

Redial ==
  /\ pc = "switch" /\ state = "WAIT_TIMEOUT" /\ Elapsed
  /\ state' = "INIT" /\ sinceLost' = 0
  /\ Wait("check", 0)
  /\ UNCHANGED <<setting, sincePing, sincePong, lost, waiting, selected, server,
                 quiet>>

KeepWaiting ==
  /\ pc = "switch" /\ state = "WAIT_TIMEOUT" /\ ~Elapsed
  /\ Wait("check", 0)
  /\ UNCHANGED <<state, setting, sincePing, sincePong, sinceLost, lost, waiting,
                 selected, server, quiet>>

\* The state is read again, without the lock: the client polls, sleeps for half a
\* period or goes round.
Sleep_Whole == wait + Busy                  \* mutant: a whole period is slept
Sleep == (wait \div 2) + Busy

Check ==
  /\ pc = "check"
  /\ \/ state = "CONNECTED" /\ Wait("poll", Poll)
     \/ state = "WAIT_TIMEOUT" /\ Wait("delay", Sleep)
     \/ state = "INIT" /\ Wait("work", Busy)
  /\ UNCHANGED <<state, setting, sincePing, sincePong, sinceLost, lost, waiting,
                 selected, server, quiet>>

\* recv has read the first frame of the inbox.
FrameRead ==
  /\ inbox # <<>> /\ quiet' = 0
  /\ waiting' = (waiting /\ Head(inbox) # "pong")
  /\ inbox' = Tail(inbox)
  /\ UNCHANGED <<state, setting, sincePing, sincePong, sinceLost, lost, alive, owed,
                 asked>>

\* poll_read sees a frame and recv reads it.  One is read.
Receive ==
  /\ pc = "poll"
  /\ selected' = TRUE
  /\ FrameRead /\ Wait("work", Busy)

\* It sees a part of a frame: recv reads on until it has the rest ...
ReceivePart ==
  /\ pc = "poll" /\ Len(inbox) = 1
  /\ selected' = TRUE /\ quiet' = 0
  /\ Wait("frame", Busy)
  /\ UNCHANGED <<state, setting, sincePing, sincePong, sinceLost, lost, waiting,
                 server>>

\* ... which a live server sends.
ReceiveRest ==
  /\ InFrame /\ alive
  /\ FrameRead
  /\ pc' = "work"
  /\ UNCHANGED <<limit, spent, selected>>

NothingToRead ==
  /\ pc = "poll" /\ inbox = <<>> /\ spent >= limit
  /\ selected' = FALSE
  /\ Wait("work", Busy)
  /\ UNCHANGED <<state, setting, sincePing, sincePong, sinceLost, lost, waiting,
                 server, quiet>>

\* poll_read or the read fails; the loop goes round before it waits.
TransportFails ==
  /\ pc \in {"poll", "frame"}
  /\ selected' = TRUE
  /\ Abort /\ Wait("work", Busy)
  /\ UNCHANGED <<setting, sincePing, sincePong, waiting>>

NextIteration ==
  /\ \/ pc = "work"
     \/ pc = "delay" /\ spent + Busy >= limit
  /\ Wait("switch", 0)
  /\ UNCHANGED <<state, setting, sincePing, sincePong, sinceLost, lost, waiting,
                 selected, server, quiet>>

Task ==
  \/ StartDial \/ Connected \/ ConnectFails \/ Watch \/ GiveUp \/ Redial
  \/ KeepWaiting \/ Check \/ Receive \/ ReceivePart \/ ReceiveRest
  \/ NothingToRead \/ TransportFails \/ NextIteration

-----------------------------------------------------------------------------
(* The application, from any task                                          *)

SetPingInterval_Zero ==         \* mutant: no default for 0
  /\ \E s \in PingSeconds : ping' = s
  /\ UNCHANGED <<state, pc, clock, wait, sending, waiting, selected, alive, owed, inbox>>

SetPingInterval ==
  /\ \E s \in PingSeconds : ping' = IF s = 0 THEN DefaultPing ELSE s
  /\ UNCHANGED <<state, pc, clock, wait, sending, waiting, selected, alive, owed, inbox>>

SetReconnectTimeout ==
  /\ \E w \in Waits : w > 0 /\ wait' = w
  /\ UNCHANGED <<state, pc, clock, ping, sending, waiting, selected, alive, owed, inbox>>

\* A send is let in by is_connected, and returns.
SendBegins ==
  /\ state = "CONNECTED" /\ sending < Senders
  /\ sending' = sending + 1
  /\ UNCHANGED <<state, pc, clock, ping, wait, waiting, selected, alive, owed, inbox>>

SendReturns ==
  /\ sending > 0
  /\ sending' = sending - 1
  /\ UNCHANGED <<state, pc, clock, ping, wait, waiting, selected, alive, owed, inbox>>

\* Its write fails, on this connection or after it was lost; the sender has the
\* lock, so the client task is not in the switch.
SendFails ==
  /\ sending > 0 /\ pc \notin {"switch", "dial"}
  /\ sending' = sending - 1
  /\ Abort
  /\ UNCHANGED <<pc, limit, spent, ping, wait, sincePing, sincePong, waiting, selected>>

Application ==
  SetPingInterval \/ SetReconnectTimeout \/ SendBegins \/ SendReturns \/ SendFails

-----------------------------------------------------------------------------
(* The server                                                              *)

\* It begins no frame inside another.
Arrives(frame) ==
  /\ ~InFrame /\ Len(inbox) < MaxInbox
  /\ inbox' = Append(inbox, frame)

\* What it sends leaves room for the answer it owes.
Sends ==
  /\ alive /\ state = "CONNECTED" /\ Arrives("data")
  /\ owed => Len(inbox) + 1 < MaxInbox
  /\ UNCHANGED <<state, pc, clock, setting, waiting, selected, alive, owed>>

Answers ==
  /\ alive /\ owed /\ Arrives("pong")
  /\ owed' = FALSE /\ asked' = 0
  /\ UNCHANGED <<state, pc, limit, spent, setting, sincePing, sincePong, sinceLost,
                 lost, waiting, selected, alive, quiet>>

\* It is gone, or falls silent, and nothing tells this end.
Dies ==
  /\ state = "CONNECTED" /\ alive' = FALSE
  /\ UNCHANGED <<state, pc, clock, setting, waiting, selected, owed, inbox>>

Next == Tick \/ Task \/ Application \/ Sends \/ Answers \/ Dies

Spec == Init /\ [][Next]_vars
-----------------------------------------------------------------------------
(* Correctness                                                             *)

TypeOK ==
  /\ state \in {"INIT", "CONNECTED", "WAIT_TIMEOUT"}
  /\ pc \in {"switch", "check", "poll", "frame", "work", "dial", "delay"}
  /\ limit \in Nat /\ spent \in 0..limit
  /\ ping \in PingSeconds \ {0} /\ wait \in {w \in Waits : w > 0}
  /\ sincePing \in 0..Cap /\ sincePong \in 0..Cap /\ sinceLost \in 0..Cap
  /\ lost \in 0..Cap /\ quiet \in 0..Cap /\ asked \in 0..AnswerWithin
  /\ sending \in 0..Senders
  /\ waiting \in BOOLEAN /\ selected \in BOOLEAN
  /\ alive \in BOOLEAN /\ owed \in BOOLEAN
  /\ inbox \in Seq({"data", "pong"}) /\ Len(inbox) <= MaxInbox

\* A server that died or fell silent between two frames is noticed: a connection
\* goes on without a word from the server for no longer than this, whatever came
\* before the silence, however the settings are changed and however often it
\* reconnected.  In the middle of a frame the code notices nothing: recv waits on.
DeadNoticed ==
  PongSeconds # 0 /\ state = "CONNECTED" /\ (pc = "frame" => alive) =>
    quiet <= MaxPing + MaxPong + 2 * Poll + 3 * Busy

\* A server that answers in time is not dropped for a missing PONG, though its
\* answer waits behind other frames of which the client reads one per iteration.
NoFalseAlarm == [][GiveUp => ~alive]_vars

\* A lost connection is dialled again within this time, though every send that was
\* under way may fail late, and start the wait from the beginning.
RedialInTime ==
  state # "CONNECTED" /\ pc # "dial" => lost <= (Senders + 1) * Late
=============================================================================
