# Verification of ai_audio

ai_audio is firmware for a dual-core ESP32-S3.  It joins a Wi-Fi network, keeps
a websocket connection to a server, and copies sound from an I2S microphone to
an I2S speaker.  Most of its logic, and all that is hard about it, is the
websocket client component the repository carries
(`src/managed_components/espressif__esp_websocket_client`, called `WS` here).
This directory holds TLA+ models of the firmware, the TLC configurations that
check them on small instances, and theorems about them that TLAPS proves for
every value of the constants.

To repeat everything, in this directory:
`tlc -config X.cfg M` for each run of PROJECT.json, `tlapm M_proofs.tla` for each
proof module.

## 1. Inventory

| Part | Source | State | Operations | Module |
|---|---|---|---|---|
| boot | `main/main.c`, `main/app_driver.c`, `main/websocket/websocket_client.c` | progress of `app_main`, what was created | initialisations, waiting for the network, starting client and audio | `Boot` |
| Wi-Fi connection | `main/wifi/wifi_connect.c` | `retry_num`, two event bits, the NVS partition; the driver's state and its posted events | `wifi_init_sta`, `event_handler`, restart after a failed `ESP_ERROR_CHECK` | `Boot` |
| audio loop | `main/app_driver.c`, `main/audio/*` | one buffer, two DMA queues with a stereo phase each | `mic_read`, `spk_write`, `audio_loop_task` | `AudioLoop` |
| websocket client task | `WS` 955-1211 | `state`, `run`, `lock`, `status_bits`, `wait_for_pong_resp`, the transport | one iteration per second: connect, ping, poll, receive, abort, reconnect, close | `WsClient` |
| websocket lifecycle | `WS` 438-477, 810-831, 1213-1308 | the same, and `selected_for_destroying`, the client's memory | start, stop, close, destroy, destroy_on_exit | `WsClient` |
| lifecycle events | `WS` 198-253 | the last event the application's handler saw | dispatch of BEGIN, BEFORE_CONNECT, CONNECTED, DISCONNECTED, CLOSED, FINISH | `WsEvents` |
| websocket sending | `WS` 601-679, 1310-1353 | `widx`, `opcode` and the lock of each call; what the server has of a message | the eight `send` functions, each a loop over fragments | `WsSend` |
| websocket receiving | `WS` 955-1015 | payload length and offset of the current frame | reading a frame in buffers, dispatching each as DATA | `WsReceive`; what control frames do, `WsClient` |
| keep-alive | `WS` 1082-1127, 1150-1176, 1378-1430 | three tick stamps, two intervals | PING, PONG, PONG timeout, reconnect period, the two setters | `WsKeepAlive`; without times, `WsClient` |
| event dispatch | `WS` 198-235 and esp_event | an event loop with a queue of one and a mutex | post, run, from any task and from inside a handler | `WsReceive`; order, `WsEvents` |
| configuration | `WS` 286-436, 496-599, 681-808, 833-953 | the strings of `config`, the transports, what else init allocates | init, set_uri, append_header, the transports of start, destroy | `WsConfig` |
| audio processing | `main/audio/Mic_driver.c` 56-106 | none | two unused filters | not modelled |

**Who talks to whom.**  `app_main` initialises I2S, then NVS and Wi-Fi, and waits
without a limit for one of two bits that the event handler sets; then it starts
the websocket client, whatever the outcome, and the audio task.  The default
event loop runs the Wi-Fi handler in a task of its own.  The websocket client
runs a task of its own; application tasks call into it (lifecycle calls, sends),
and share with it the client structure under one recursive lock, two event bits,
and the transport, which is *not* always accessed under the lock: reads, the
PONG that answers a PING, the wait for the server's close and the final close
are made without it.  Events go to the application by a private event loop that
any posting task drains.  The audio loop shares nothing with the rest.

**What is hard.**  Two cores: any step of the client task meets any step of a
sender or of a lifecycle call.  The lock is dropped and taken again in every
iteration, and `abort_connection` acts on a state somebody read earlier.  Event
bits are set, cleared and waited for in different tasks.  Connections fail in
the middle of messages, of CLOSE handshakes and of PINGs.  The chip may restart
between two steps of the NVS recovery.  Transfers of sound may time out half
done.  The full list, each entry at its line, is under "hazards" in
PROJECT.json.

**What makes each part correct.**
- client task and lifecycle: the lock is balanced on every path; `is_connected` is
  wrong about the transport only inside an abort; a PONG timer belongs to its
  connection; one task at most; nobody uses a freed client; lost connections are
  dialled again; calls that wait come back; events come in an order an application
  can follow;
- sending: what the server completes is all that one author has written, and no
  message begins inside another one that its author did not leave open;
- keep-alive: a server that falls silent between frames is noticed within a bound
  that can be told from the settings, a prompt one is never dropped, a lost
  connection is dialled in time, whoever reports the loss late;
- receiving and events: a handler finds the bytes its event is about, the events of
  a frame tile it, a dispatch comes back, the task hears a stop;
- configuration: the options a client ends with are the ones it should have, whatever
  is out of memory; nothing is leaked; the transport pointer is never left dangling;
- Wi-Fi: the station is never idle unless the firmware gave up, gives up only
  after all its retries, and `app_main` does not wait forever;
- audio: left stays left, right stays right, and sound keeps flowing.

## 2. Modules

`MCWsClient` and `MCWsSend` add the symmetry sets for TLC; the other modules need
nothing added.  Definitions named `X_Y` after a definition `X`, each marked as a
mutant, are `X` with a plausible bug; they are used by no specification.  They show
that a property notices: with `X` replaced by `X_Y` TLC finds the property violated.

### WsClient: task, lock, lifecycle, connection

One action is one access to what tasks share, or a block of accesses during which
the lock excludes every other writer of the same data.  Each process has a `pc`;
the comment at its definition groups the places where the lock is held.

| Model | Code |
|---|---|
| `state` | `client->state`, with the order UNKNOW lowest that `ESP_WS_CLIENT_STATE_CHECK` uses (`Started`) |
| `run`, `pong`, `selected` | `client->run`, `wait_for_pong_resp`, `selected_for_destroying` |
| `stopped`, `closeSent` | `STOPPED_BIT`, `CLOSE_FRAME_SENT_BIT` of `status_bits` |
| `lock` | holder of `client->lock`; no path of the model takes it twice |
| `sock` | `closed` by this end, `open`, or `dead`: gone without this end's knowledge |
| `inbox`, `toPeer` | frames of the server not read yet, the last perhaps only begun (`Part`); control frames it has not answered yet, or that could not be written (`Lost`), of which the client task takes no notice (`WS:1094`, `WS:1138`) |
| `ev` | the last lifecycle event that was dispatched |
| `Abort*` | `esp_websocket_client_abort_connection`, in whichever task calls it, access by access: the test of the state, the closing of the transport (`drop`), `run` (`quit`), the state (`settle`), the event (`notify`).  Whoever reads the state without the lock may do so between any two.  `after` says where it returns |
| `Task*`, `Recv*` | `esp_websocket_client_task` and `_recv`, one action per case of the switch and per access outside the lock; each dispatch of an event is a place of its own (`announce`, `tellup`, `tellclosed`, `finish` and others, `TellPcs`).  In `inframe` the header of a frame was read and the rest is waited for, without a look at `run` |
| `SendCall`, `Tx*` | `send_with_exact_opcode`, reduced to one frame |
| `StartCall` to `CloseTimeout` | the lifecycle calls, made one after the other by one owner task |
| `Peer*` | the server and the TCP connection (external): the server sends frames as it likes, answers control frames, or vanishes |

`Priority = TRUE` is one core with the client task above its callers, as with
the default task priority: a caller runs only while the client task blocks, which
it may do in the network, in a delay, in a handler of events or before the mutex of
its event loop, and in the closing of a transport (`Blocked`).
`Priority = FALSE` is two cores, which is how this firmware is built
(`src/sdkconfig`: `CONFIG_FREERTOS_UNICORE` is not set).  Clocks are abstract: a
comparison of ticks may go either way whenever it is made.  The owner gives up
its handle as the header demands (`HandleValid`), and `destroy` is called once.

### WsEvents: what the application is promised

The abstract specification of the event order: BEGIN opens a session, every
connection is announced, an attempt ends before the next begins, FINISH closes
the session.  `WsClient` implements it under the mapping at the end of that
module (`live` is read off the client task's place); the runs check
`EventOrder`, the whole abstract specification, as a property.  Where other tasks
write on the connection two deviations are possible and named: a second report
of one loss, perhaps in a later session (`LateDown`), and CLOSED after a loss
that came during the handshake (`LateClosed`).  The second is how the application
sees a WAIT_TIMEOUT that `recv` overwrote with CLOSING (`WS:1011`): the order permits
it, it does not exclude the overwriting.

### WsSend: messages and fragments

The loop of `send_with_exact_opcode`, fragment by fragment, against the client
task's handling of connections reduced to what matters to a sender.  `lead` says
that the variable `opcode` is not 0, so that a frame is written even when no byte
is left; `IsLast` is the FIN bit with its masking.  `asm` is what the server has
of the message it is putting together on the present connection, by RFC 6455; an
illegal frame makes it deaf.

Any call may time out at the lock, which another sender has, or the client task
while it dials, sends a PING or runs a handler (`LockTimeout`).  A write may be
short: the code counts the bytes that went out and sends the rest in a frame of its
own.  That the transport has then sent a header that promised more is a matter of
the server, which may become deaf at any time (`PeerCloses`).  An abort closes the
transport and then writes the state (`Fail`, `FailState`), and `recv`, the poll of
the close and the end of the task write the state without the lock, so the places of
the client task are kept (`task`).

The model assumes that while an application has a message open that it sends in
parts (`_partial`, `_cont_msg`, `_fin`) nothing else is sent: the client's lock
covers one call, and two tasks that do not keep to this do mix their messages.
After a call that returned -1 the author may go on, or give the message up
(`Abandon`).  Where a write failed the connection is gone, and with it what the
server had.  A call that only timed out leaves the message open on a live
connection; `left` (history) records an author that gave it up there.  A part that
is sent on a *new* connection is the server's to refuse, and is.

### WsKeepAlive: the client task against the clock

| Model | Code |
|---|---|
| `pc`, `limit`, `spent` | where an iteration waits, how long at most, how much of it has passed: `switch` (the `switch` under the lock), `check` (the state is read again, `WS:1150`), `poll` (`poll_read`), `frame` (`recv` has a part of a frame), `work` (the rest of an iteration), `dial`, `delay` |
| `ping`, `wait` | `config->ping_interval_sec`, `wait_timeout_ms`, changed at any time by their setters |
| `sincePing`, `sincePong`, `sinceLost` | ages of `ping_tick_ms`, `pingpong_tick_ms`, `reconnect_tick_ms`, counted up to `Cap` |
| `waiting`, `selected` | `wait_for_pong_resp`; the last `read_select` was not 0 |
| `sending` | how many tasks are inside a send that was let in while connected; each may still fail and abort (`SendFails`), also after the connection was lost, which sets WAIT_TIMEOUT and `reconnect_tick_ms` anew |
| `alive`, `owed`, `asked`, `inbox` | the server (external): it answers a PING within `AnswerWithin` while it lives, sends data when it likes, and may fall silent for good |
| `quiet`, `lost` | history variables: time since the client last heard of the server; time since the connection was lost and no attempt was made |

Time passes in ticks; a wait may be left before its limit and not after it.  One
wait has no limit: in `frame`, with a server that died there.
`PingMillis` and `PongMillis` have the 32-bit products of the code, `Word` standing
for 2^32.  The closing handshake and the end of the task are in `WsClient`.

### WsReceive: frames, events, the event loop

| Model | Code |
|---|---|
| `pc`, `offset`, `total` | the loop of `recv`, `payload_offset`, `payload_len` |
| `frame`, `got` | the frame the transport is in and how much of it was read (external) |
| `rx` | which part of which frame is in `rx_buffer` |
| `queue`, `mutex` | the event loop (external): `esp_event_post_to` waits for room, `esp_event_loop_run` with no time takes the recursive mutex and handles what is queued |
| `calls` | each task's `dispatch_event` in progress, and one from inside its handler |
| `lock`, `holds` | `client->lock`, taken recursively where a handler sends |

An event carries its data by reference; `chunk` is a history field that says what
the reference meant when the event was made.  The bit `odd` of a frame tells it
from the one before.  A handler may send with a finite timeout, and a failing send
aborts the connection with two more dispatches.  Each task dispatches DATA, ERROR,
CONNECTED, DISCONNECTED and FINISH as the code does; which lifecycle event may
follow which is left to `WsEvents`.

### WsConfig: options, authentication, transports, allocations

A call is a plan, a sequence of steps, each of which is one allocation or one
assignment: `ConfigPlan` for `set_config`, `UriPlan` for `set_uri`, and `init` and
`start` composed of such.  `Step` performs the next one or, where it allocates,
fails and leaves by the error path of that place.  The value of an option is where
it came from (`uri`, `new`: of a later set_uri, `config`, `default`, `appended`),
which is all that merging depends on.  `held` is everything else init allocates,
`lost` (history) what was allocated and can no longer be freed, `short` (history)
that an allocation failed.  `asprintf` is taken to leave NULL when it fails, which
is what the code tests.  Numbers and the TLS settings are copied and not
interpreted; no two calls for a client overlap, as the header asks.

### Boot: app_main, Wi-Fi, retries

`app_main` step by step, the event handler of `wifi_connect.c` with its counter,
the queue of the default event loop, and the driver with the network as the
environment.  `tries` is a history variable: attempts really made since the last
address.  `Abort` is the restart of a failed `ESP_ERROR_CHECK`: everything is
reset except `nvs`, the flash.

### AudioLoop: words through two stereo queues

Words carry nothing but their channel.  The size of the buffer, of a DMA
descriptor and the number of descriptors are constants; in the code the buffer
holds 1023 words, an odd number, so every other buffer begins with a right word.

## 3. Runs

| Run | Instance | What it shows |
|---|---|---|
| `conn` | the application's own settings, two cores, two senders, an inbox of 2; senders symmetric | the lock is balanced and exclusive (`LockInv`); CONNECTED over a closed transport only inside an abort or in the task's last steps (`ConnectedHasSocket`); no PONG timer of an old connection (`PongPending`); the event order |
| `lifecycle` | all lifecycle calls, one sender, room for two client tasks, one core, a client that reconnects after every loss and every close | one client task (`SingleTask`), no use after free, transports replaced only when no client task is left (`CreateIsQuiet`), the event order over several sessions |
| `lifecycle_live` | all lifecycle calls, the default configuration, which a CLOSE of the server ends for good, one client task, no sender, one core, fair | a stop of a client that has a task comes back (`TaskStops`), so does `close` with a time limit (`CloseReturns`), and without one once its CLOSE frame went out to a server that answers (`ClosesCleanly`); a lost connection is dialled again; destroy_on_exit frees the client |
| `send` | two senders, messages of 0, 2 and 3 bytes through a buffer of 2, fragmented messages of up to 5 bytes, calls that time out, short writes | a completed message is all that its one author has written (`ArrivesWhole`); none begins inside another that was not left open (`NeverMixed`) |
| `boot` | 3 retries as in the code, every initialisation may fail | see section 1; and `app_main` ends |
| `audio` | a buffer of 3 words, descriptors of one frame, buses that may fail to be set up, no transfer that times out | channels are kept, sound flows |
| `keepalive` | PING intervals of one second, of 0 (the default) and one whose product wraps; a PONG within 3 seconds; reconnect periods that change; one sender; an inbox of 3 | the silence of a connection is bounded (`DeadNoticed`), but for a frame that is never finished; the wait for the next attempt is (`RedialInTime`), with the clock reset by a late abort; only a server that is gone is dropped for a missing PONG (`NoFalseAlarm`) |
| `receive` | the client task and one sender, frames of nothing and of two reads, fair | a handler finds its bytes (`ChunkIntact`); events tile their frame (`ChunksTile`); every dispatch comes back (`DispatchReturns`); the task ends when it is told to (`StopHeard`) |
| `config` | options that both sources, one source or the application alone can give, a bare URI and two with more, an external transport or none, any allocation failing | everything given back but two known strings (`NothingLost`); the options of a new client (`Merged`); no dangling transport (`TransportLives`) |
| `destroy_smp` | two cores, start and destroy | **violated**: `NoUseAfterFree` |
| `stop_hang` | no automatic reconnect, start and stop | **violated**: `StopReturns` |
| `uri_overrides` | a bare URI or one with a user, a configuration that gives scheme, host or user | **violated**: `UriOverrides` |

`LockInv` is checked in `conn`, where callers and task are least ordered.

**Bounds.** `Tasks`: one slot, or two where a second client task would be the error to
find. `lifecycle_live` has one: in the default configuration a second start may be let
through while the first task is leaving (section 5), and what stop does with two tasks
is not asked. One owner makes the lifecycle calls, one after the other: the code has
nothing that orders two of them, and several owners are left out; two senders suffice to
meet each other under the lock. `MaxInbox` 1 or 2: frames are read one per iteration,
and two distinguish an old frame before a new one. Numbers of sessions, connections,
attempts and messages are not bounded at all: the models are finite without. In `send`,
a message of 3 in a buffer of 2 has a first and a last fragment, one of 2 fits exactly,
one of 0 is the frame that only `opcode` causes; 5 bytes leave room for a fragmented
message of several parts, each of several fragments. A buffer of 3 words against queues
of 2 descriptors of 2 words has every phase between buffer, frame and descriptor. In
`keepalive` the largest sums of intervals stay below `Cap` (an assumption that TLC
evaluates), so no age is ever cut short of what decides a comparison; three frames in
the inbox put an answer behind two others; one sender that fails late is what resets the
clock once more, and the bound of `RedialInTime` counts the senders. In `receive` a
queue of one and two tasks is the code's own size, and each task has one dispatch inside
another; frames of 0 and 3 bytes through a buffer of 2 are read at once and in two
parts. In `config` an option that behaves like another (path like port, headers like
user agent) is given by only one of the two sources, which keeps the sets of givens
small; a client may be made again any number of times. `CHECK_DEADLOCK FALSE` is set
where the system may really come to rest (a client that ended for good, a station that
was given up, in `send` a client that a late abort left in WAIT_TIMEOUT without a task).
`AutoReconnect` is TRUE, as the application has it, in every passing run; without it the
client is in `stop_hang`, and the theorems about locked regions, socket and PONG leave
the constant free.

**Fairness.**  The client task and the caller of a lifecycle call run when they
can; a mutex goes to the waiter of highest priority, and the client task blocks
at least once in every iteration (`poll_read` or the delay), hence strong
fairness for whoever waits for the lock or, on one core, for the processor; the
clock passes the reconnect period, and handlers of events come to an end.  One thing
is assumed of the server (`PeerGoesOn`): it goes on with a frame that it began, as
long as the connection lasts, since `recv` waits for the rest without looking at
`run`.  Between two frames it may fall silent for good.  Two properties of `close`
have a premise of their own: its finite timeout passes (`Bounded`), or the server
answers the control frames that reach it (`Answered`).  In `Boot` the
two tasks run and the driver answers an attempt to connect; `DhcpSpec` adds that
a network assigns an address or drops the station, without which `app_main` does
wait forever, associated and without an address.  In `AudioLoop` both buses run
on their own clocks.  In `WsReceive` a task that waits for the mutex, for room in
the queue or for the lock gets its turn, handlers come to an end, and a server that
began a frame goes on with it: `recv` never looks at `run`, so a server that stalls
in a frame for ever keeps the task, and `StopHeard` is about the others.

## 4. Proofs

All constants are arbitrary within the ASSUMEs of the modules.

| Module | Theorems | Inductive invariant and why it is needed |
|---|---|---|
| `WsClient_proofs` | `TypeCorrect`, `LockCorrect` | `Inductive`: types, `LockInv`, and `AfterInv`: `abort_connection` always returns to an unlock, and the stop inside `close` and `destroy` to its caller; without it the lock could be left held |
| | `SocketCorrect` | only CONNECTED states matter; the transport is closed by an abort (whose next steps change the state under the lock), by the leaving task, or by `start`, which runs at UNKNOW |
| | `PongCorrect` | the flag is cleared with each new connection and set only with a PING on its way or lost; frames are consumed one by one and the last one may arrive in parts, so the queue's head and tail are followed |
| `WsClientLifecycle_proofs` | `OneTaskAtATime` | `SpawnInv`: if `start` is called only when no task is left (`CreateIsQuiet`), nobody else makes one before it does |
| | `OrderOfOneTask` | the refinement, for every scheduler and configuration as long as `SingleTask` holds: every step of `WsClient` is a step of `WsEvents` or leaves its variables alone.  `OrderInv` ties the last event to the state, to the place of the task, and to a caller that is about to report a loss; `StopInv` says where the task can be while STOPPED_BIT is set |
| | `StopIsAnswered`, `ExitIsAnswered` | what `TaskStops` and `FreedOnExit` need beside fairness: `BitWillBeSet`, STOPPED_BIT is set or a task has yet to set it; `WillBeFreed`, a client given to `destroy_on_exit` is freed or has a task left.  They hold with any number of tasks, the first if `start` clears the bits before the task it made has ended (`ClearsInTime`; `stop_hang` shows that it may not), the second if `destroy_on_exit` is called while a task is left (`GivenInTime`) |
| | `AlwaysAnswered` | a client that always reconnects (`AutoReconnect`, `CloseReconnect`) does clear them in time.  `RunInv`: a task that leaves was told to |
| | `FreedOfOneTask` | for owners that do not call `destroy`.  `FreeInv`: from the call of `destroy` on, or of `destroy_on_exit`, the owner and the senders are out, and what frees the client is the last step of whoever is left |
| | `OneTask`, `CreateQuietly` | one core: assume `Priority`, `AutoReconnect` and `CloseReconnect`.  `SoloInv`: such a client never gives up, so that a task that exists although the state is UNKNOW or STOPPED_BIT is set is in its first steps, before it has told of BEGIN, or in the last ones, after its last closing of the transport; there it never blocks, and on one core a caller moves only when every task blocks (`CallerFindsNone`) |
| | `FreedAlone`, `AnsweredAlone`, `OrderImplemented` | the results above on one core, with `SingleTask` no longer a hypothesis but `OneTask`; `FreedAlone` covers `destroy`, too, since a task that does not block is gone before its caller goes on |
| `WsKeepAlive_proofs` | `KeepAliveTypeCorrect`, `DeadServerNoticed`, `RedialledInTime` | `BoundsInv`: in each place of an iteration, how old each stamp can be (`QuietInv`, `LostInv`); without the place, an iteration could be counted twice.  `DeadServerNoticed` excepts a connection whose server died inside a frame: there `recv` waits on, and the code looks at no timer |
| | `RedialledInTime` again | `AgeInv`: how many aborts are still to come (`Resets`: of the sends under way, and of the client itself at its transport) against how old the loss is; each sets the clock back by `Late` at most |
| | `PromptNeverDropped` | `PromptInv`: while the client waits, the answer is owed, or in the inbox with time left to read what is before it |
| `WsReceive_proofs` | `ReceiveTypeCorrect`, `ChunksStayIntact`, `FramesAreTiled` | `Inv`: with room for one event, the task that runs the loop next posted what is queued (`PostedInv`, `OneRuns`), so a DATA event is always handled by the client task, which does not read on meanwhile (`DataInv`); `FrameInv` follows `recv` through a frame |
| | `LockGivenBack`, `NoDeadlock` | what `DispatchReturns` needs beside fairness.  `PlaceInv`: whoever has the mutex of the event loop is in a handler or just out of it; `QueueInv`: an event in the queue has a task that runs the loop next; `LockBalanced`: the recursive lock is held once for each dispatch inside it, by one task.  So who has the mutex waits for nothing; with the mutex free, who runs the loop does not wait, and with the queue empty, who has the lock does not.  `Waits` collects the guards of `WsReceive` that depend on another task |
| `WsConfig_proofs` | `ConfigTypeCorrect`, `NothingIsLost`, `TransportIsAlive` | plans are sequences of typed steps (lemmas about concatenation); `TransportInv` adds what `start` has done by its fourth step |
| | `ConfigIsMerged` | `MergeInv`: what the steps of an `init` before step n have made of the configuration, option by option.  Each option has its place in the plan (`Positions`): the URI comes before the fields but for the scheme, and the authentication after both of its parts |
| `WsSend_proofs` | `SendTypeCorrect`, `MessagesArriveWhole`, `MessagesNeverMixed` | `SendInv`: whoever transmits holds the lock; whatever the server has of an open message was sent by the task that still holds the lock or owns the fragmented message, and is exactly what that task counts as sent (`Sending`), unless the message was left open, and then only beginnings of messages may follow it (`Left`), which the server refuses; a transport in any state but CONNECTED, or read to its CLOSE, has a deaf server or is closed (`Up`), which is why a refused call may start afresh |
| `Boot_proofs` | `BootTypeCorrect`, `StationNeverStranded`, `NoEarlyGivingUp`, `FailureReported`, `GivenUpForGood` | `BootInv`: which events can be pending in which state of the driver (`Pending`), and how the counter follows the attempts really made (`Counted`): one behind after the boot, level after a loss |
| `AudioLoop_proofs` | `AudioTypeCorrect`, `OnlyHalvesSwap`, `SoundOutAsIn` | `InStep`: reader and writer are at the same channel between buffers and as many words apart within one; only parity matters.  `OnlyHalvesSwap` allows timeouts and assumes that no failing transfer splits a frame (`WholeFrames`); without timeouts nothing is assumed (`SoundOutAsIn`) |

The invariants were found with TLC on the instances above and then proved.
Every invariant and every action property of a passing run is also a theorem.
Model-checked only is liveness (`TaskStops`, `CloseReturns`, `Reconnects`,
`ClosesCleanly`, `FreedOnExit`, `BootCompletes`, `SoundFlows`, `DispatchReturns`,
`StopHeard`), which needs fairness that the prover does not treat.  Of the waits
that could last for ever the safety half is proved: that something is left which
ends the wait (`StopIsAnswered`, `ExitIsAnswered`, `NoDeadlock`,
`StationNeverStranded`).

The hypotheses are those the code needs.  With two tasks on one handle, which the
code admits on two cores, TLC finds their events mixed in an order `WsEvents` does
not have, so `OrderOfOneTask` has `SingleTask` as a hypothesis; it holds for every
history in which `start` was called only when no task was left (`OneTaskAtATime`).
The theorems about one core need `AutoReconnect`, which the application leaves on,
and `CloseReconnect`, which it does not set, and would be false without: a client
that gives up writes UNKNOW and then runs the handler of CLOSED or DISCONNECTED,
which may block or wait for the event loop, and `start`, called meanwhile, takes the
state for that of a client without a task (section 5).  For the application's own
configuration, on either number of cores, what is proved is `OneTaskAtATime`,
`OrderOfOneTask` and `FreedOfOneTask`: the application starts its client once.
`FreedOfOneTask` leaves out `destroy`, which is not safe on two cores
(`destroy_smp`).

## 5. What the code does otherwise

Each violated run is a disagreement of the code with its own documentation or
comments; PROJECT.json quotes the lines.

- `destroy_smp`: on two cores `destroy` frees the client while its task has yet to
  write the state and read `selected_for_destroying` (`WS:1205`).
- `stop_hang`: `start` clears STOPPED_BIT after creating the task (`WS:1236`); a
  task that has already ended leaves a `stop` waiting forever.
- `uri_overrides`: the header says of the member `uri` that "the information on the
  URI can be overrides the other fields below, if any"; `init` runs `set_config`
  (`WS:764`) after `set_uri` (`WS:758`), so a field wins over the URI, but for the
  scheme.  `Merged` states what the code does, this run what the header says.

Seen while modelling, and not checked by a run of their own:

- With `disable_auto_reconnect` set, a sender whose write fails leaves the state
  UNKNOW under a living task, and a second `start` is let through.
- Without `enable_close_reconnect`, as in the application, the task that gives up
  writes UNKNOW and then dispatches CLOSED (`WS:1196-1197`), FINISH and closes its
  transport (`WS:1203-1204`).  A `start` made while the handler runs is let through,
  on one core too if the handler blocks: there are two tasks on one handle,
  the transports of the first are destroyed under it, and a stop of the second may be
  answered by the first.  `lifecycle` with `CloseReconnect = FALSE` shows it.
- A sender that is inside a write when a session ends keeps the lock; the end of the
  task and `start` do not take it, so that the next `start` destroys the transport it
  writes on.  `CreateIsQuiet` is about client tasks only.
- With `enable_close_reconnect` unset, as in the application, a CLOSE of the
  server ends the client for good; nothing starts it again.
- A send whose write fails while the client task gives up leaves the client
  without a task in state WAIT_TIMEOUT: `start` then refuses it.  So does a close
  whose frame fails at that moment.
- The PONG that answers a PING is written without the lock (`WS:1002`), at the
  same time as a sender's frame.
- `ESP_MAXIMUM_RETRY` 3 makes four attempts: the first one is not counted.
- The wait of `app_main` has no limit: an access point that associates and never
  assigns an address keeps the firmware from starting its audio.
- `close(portMAX_DELAY)` of a client that is not connected never returns: no CLOSE
  frame is sent and nothing resets `run` (`WS:1299`); `CloseReturns` is checked with
  a finite timeout and `ClosesCleanly` for a frame that went out.
- A PING may follow the CLOSE frame, since the bit that forbids it is set after the
  lock is given back (`WS:1297`).
- A transfer of sound that timed out after an odd number of words swaps left and
  right for good (`Mic_driver.c:113`); `OutAsIn` is checked without timeouts, and
  proved for those that split no frame (`OnlyHalvesSwap`).
- A later `set_uri` keeps the authentication of the old one, and a default port that
  the task stored survives a change of scheme.
- The host of a URI is leaked when a host is configured as well (`WS:329`), and the
  copy of user and password when memory runs out (`WS:880`).
- An init that fails before its lock exists deletes a semaphore that is NULL
  (`WS:450`).
- `reconnect_timeout_ms` is not given a default when automatic reconnection is
  disabled, though `close_reconnect` uses it.
- A PING longer than the receive buffer is not echoed as it came, as the comment at
  `WS:992` admits.
- `errormsg_buffer` is replaced by the client task without the lock and by senders
  with it (`WS:264`).
- A handler that sends with `portMAX_DELAY` waits for the client lock inside the
  mutex of the event loop, and a sender that aborts waits for that mutex with the
  lock: neither ends.  `DispatchReturns` is about finite timeouts.
- An event dispatched from inside a handler is lost when the queue is full: the task
  that runs the loop does not wait for room (`Lost` in `WsReceive`).
- A read that times out inside a frame is told as DATA without bytes, again and
  again, until the server goes on; meanwhile the task hears no stop, sends no PING
  and does not look at the PONG timer (`WS:963-990`).  A server that dies there is
  noticed only when TCP gives the connection up.
- A short write is followed by a frame with the rest, though the header of the first
  one promised all of it (`WS:666`), and after the last fragment by one more frame
  with FIN: what the server makes of it is not the message that was sent.
- A call of a fragmented message that times out at the lock (`WS:629`) leaves the
  message open; nothing in the interface ends it, but for sending on or losing the
  connection.
- The result of writing a PING is ignored and the PONG timer started all the same
  (`WS:1094-1100`): the connection is then ended by the timer, at the latest.
- `close(portMAX_DELAY)` with `close_reconnect` set never returns: the client
  reconnects after the server's CLOSE and never sets STOPPED_BIT.

## 6. Not modelled

Logging and the texts of errors; the error codes inside ERROR events; the TLS
settings, which are passed on unread; the numbers of the configuration that are
copied or given a default (`WsKeepAlive` has the times); the transmit lock and the
dynamic buffers, which `src/sdkconfig` leaves off; the examples, tests and build
files; the generated `src/build`; the audio filters (`Mic_driver.c` 56-106), which
nothing calls.  The libraries below the component (esp_event, esp_transport, FreeRTOS,
I2S and Wi-Fi drivers) are not in the repository; they are modelled from how the code
uses them and marked external.

## 7. What could still be done

Every component with behaviour of its own has a module.  What is left is depth:

- several owners that make lifecycle calls at once, which nothing in the code orders;
- one module of all of the client: `WsClient` with the clock of `WsKeepAlive` and the
  event loop of `WsReceive` is beyond what TLC can enumerate; the modules meet in the
  places they share (the state, the lock, the connection);
- an order of events for two client tasks on one handle, which the code admits on two
  cores: `WsEvents` describes one.
