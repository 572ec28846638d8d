-------------------------------- MODULE Boot --------------------------------
(***************************************************************************)
(* The boot of the firmware: app_main, wifi_connect with its event handler *)
(* and the start of the websocket client and of the audio task.  Three     *)
(* parties run: the main task, the task of the default event loop, which   *)
(* runs the handler, and the Wi-Fi driver with the network behind it       *)
(* (external).  A failed ESP_ERROR_CHECK aborts, and the chip restarts     *)
(* with nothing kept but the flash.                                        *)
(***************************************************************************)
EXTENDS Naturals, Sequences

CONSTANTS
  MaximumRetry,   \* ESP_MAXIMUM_RETRY
  Aborts          \* an initialisation of the system may fail

ASSUME RetryNat == MaximumRetry \in Nat
ASSUME AbortsBoolean == Aborts \in BOOLEAN

VARIABLES
  nvs,         \* the NVS partition in flash: "ok", "stale" (erase it) or "broken"
  main,        \* where app_main is
  retryNum,    \* retry_num
  connected,   \* WIFI_CONNECTED_BIT
  failed,      \* WIFI_FAIL_BIT
  outcome,     \* what wifi_init_sta logged after its wait
  client,      \* the websocket client: "none", "started", or "failed"
  audio,       \* audio_loop_task runs
  station,     \* the driver: off, idle, connecting, associated or up
  events,      \* posted to the default event loop, not handled yet
  tries        \* history: attempts to connect since the last address

bits == <<connected, failed>>
wifi == <<retryNum, bits, station, events, tries>>
app  == <<outcome, client, audio>>
vars == <<nvs, main, wifi, app>>

MainPcs == {"i2s", "nvs", "erase", "sta", "wait", "ws", "task", "end"}

Init ==
  /\ nvs \in {"ok", "stale", "broken"}
  /\ main = "i2s" /\ retryNum = 0 /\ connected = FALSE /\ failed = FALSE
  /\ outcome = "none" /\ client = "none" /\ audio = FALSE
  /\ station = "off" /\ events = <<>> /\ tries = 0

-----------------------------------------------------------------------------
(* app_main                                                                *)

\* i2s_tx_init and i2s_rx_init, whose results are ignored.
I2sInit ==
  /\ main = "i2s" /\ main' = "nvs"
  /\ UNCHANGED <<nvs, wifi, app>>

\* nvs_flash_init asks for an erase, or works.
NvsInit ==
  /\ main = "nvs" /\ nvs \in {"ok", "stale"}
  /\ main' = IF nvs = "stale" THEN "erase" ELSE "sta"
  /\ UNCHANGED <<nvs, wifi, app>>

\* nvs_flash_erase and the second nvs_flash_init.
NvsErase ==
  /\ main = "erase" /\ main' = "sta"
  /\ nvs' = "ok"
  /\ UNCHANGED <<wifi, app>>

\* wifi_init_sta up to esp_wifi_start, which posts STA_START.
StaInit ==
  /\ main = "sta" /\ main' = "wait"
  /\ station' = "idle" /\ events' = <<"STA_START">>
  /\ UNCHANGED <<nvs, retryNum, bits, tries, app>>

\* Mutant: the failure is looked at first.
WaitBits_FailFirst ==
  /\ main = "wait" /\ (connected \/ failed)
  /\ main' = "ws"
  /\ outcome' = IF failed THEN "failed" ELSE "connected"
  /\ UNCHANGED <<nvs, wifi, client, audio>>

\* xEventGroupWaitBits returns when either bit is set, and clears neither.
WaitBits ==
  /\ main = "wait" /\ (connected \/ failed)
  /\ main' = "ws"
  /\ outcome' = IF connected THEN "connected" ELSE "failed"
  /\ UNCHANGED <<nvs, wifi, client, audio>>

\* websocket_client_app_start, whatever the outcome; that the client could not
\* be created, or not be started, is not looked at.
WsStart ==
  /\ main = "ws" /\ main' = "task"
  /\ client' \in {"started"} \union (IF Aborts THEN {"failed"} ELSE {})
  /\ UNCHANGED <<nvs, wifi, outcome, audio>>

\* test_task and start_task, with two results of xTaskCreate ignored.
TestTask ==
  /\ main = "task" /\ main' = "end"
  /\ audio' \in {TRUE} \union (IF Aborts THEN {FALSE} ELSE {})
  /\ UNCHANGED <<nvs, wifi, outcome, client>>

\* A failed ESP_ERROR_CHECK restarts the chip; the flash stays as it is.
Restart ==
  /\ main' = "i2s" /\ retryNum' = 0 /\ connected' = FALSE /\ failed' = FALSE
  /\ outcome' = "none" /\ client' = "none" /\ audio' = FALSE
  /\ station' = "off" /\ events' = <<>> /\ tries' = 0

\* nvs_flash_init, nvs_flash_erase or the second nvs_flash_init fails.
NvsAbort ==
  /\ Restart
  /\ \/ main = "nvs" /\ nvs = "broken" /\ nvs' = nvs
     \/ Aborts /\ main = "erase" /\ nvs' \in {nvs, "ok", "broken"}

\* One of the eight checked calls of wifi_init_sta fails.
StaAbort ==
  /\ Restart
  /\ Aborts /\ main = "sta" /\ nvs' = nvs

Abort == NvsAbort \/ StaAbort

-----------------------------------------------------------------------------
(* event_handler, run by the task of the default event loop                *)

\* esp_wifi_connect: refused unless the station is idle.
Connect ==
  /\ station' = IF station = "idle" THEN "connecting" ELSE station
  /\ tries' = IF station = "idle" THEN tries + 1 ELSE tries

HandleStart ==
  /\ events # <<>> /\ Head(events) = "STA_START"
  /\ events' = Tail(events)
  /\ Connect
  /\ UNCHANGED <<nvs, main, retryNum, bits, app>>

RetriesLeft_Always == TRUE                          \* mutant: no limit
RetriesLeft == retryNum < MaximumRetry

\* Mutant: the retry does not connect when it is the last one.
HandleDisconnected_NoConnect ==
  /\ events # <<>> /\ Head(events) = "STA_DISCONNECTED"
  /\ events' = Tail(events)
  /\ IF RetriesLeft
     THEN (IF retryNum + 1 < MaximumRetry THEN Connect ELSE UNCHANGED <<station, tries>>)
          /\ retryNum' = retryNum + 1 /\ UNCHANGED bits
     ELSE failed' = TRUE /\ UNCHANGED <<connected, retryNum, station, tries>>
  /\ UNCHANGED <<nvs, main, app>>

\* Mutant: esp_wifi_connect is called before the retries are counted.
HandleDisconnected_Eager ==
  /\ events # <<>> /\ Head(events) = "STA_DISCONNECTED"
  /\ events' = Tail(events)
  /\ Connect
  /\ IF RetriesLeft
     THEN retryNum' = retryNum + 1 /\ UNCHANGED bits
     ELSE failed' = TRUE /\ UNCHANGED <<connected, retryNum>>
  /\ UNCHANGED <<nvs, main, app>>

HandleDisconnected ==
  /\ events # <<>> /\ Head(events) = "STA_DISCONNECTED"
  /\ events' = Tail(events)
  /\ IF RetriesLeft
     THEN Connect /\ retryNum' = retryNum + 1 /\ UNCHANGED bits
     ELSE failed' = TRUE /\ UNCHANGED <<connected, retryNum, station, tries>>
  /\ UNCHANGED <<nvs, main, app>>

\* Mutant: retry_num is not reset.
HandleGotIp_NoReset ==
  /\ events # <<>> /\ Head(events) = "STA_GOT_IP"
  /\ events' = Tail(events)
  /\ connected' = TRUE /\ tries' = 0
  /\ UNCHANGED <<nvs, main, retryNum, failed, station, app>>

HandleGotIp ==
  /\ events # <<>> /\ Head(events) = "STA_GOT_IP"
  /\ events' = Tail(events)
  /\ retryNum' = 0 /\ connected' = TRUE /\ tries' = 0
  /\ UNCHANGED <<nvs, main, failed, station, app>>

Handler == HandleStart \/ HandleDisconnected \/ HandleGotIp

-----------------------------------------------------------------------------
(* The Wi-Fi driver, the access point and the DHCP server (external)       *)

Associate ==
  /\ station = "connecting" /\ station' = "associated"
  /\ UNCHANGED <<nvs, main, retryNum, bits, events, tries, app>>

\* Refused by the access point, or the association is lost.
Disconnect ==
  /\ station \in {"connecting", "associated", "up"} /\ station' = "idle"
  /\ events' = Append(events, "STA_DISCONNECTED")
  /\ UNCHANGED <<nvs, main, retryNum, bits, tries, app>>

ObtainAddress ==
  /\ station = "associated" /\ station' = "up"
  /\ events' = Append(events, "STA_GOT_IP")
  /\ UNCHANGED <<nvs, main, retryNum, bits, tries, app>>

Driver == Associate \/ Disconnect \/ ObtainAddress

-----------------------------------------------------------------------------
Main == I2sInit \/ NvsInit \/ NvsErase \/ StaInit \/ WaitBits \/ WsStart \/ TestTask

Next == Main \/ Abort \/ Handler \/ Driver

Spec == Init /\ [][Next]_vars

(***************************************************************************)
(* The main task and the event task run when they can.  The driver answers *)
(* every esp_wifi_connect.  That a DHCP server answers, or the access      *)
(* point drops a station that has no address, is not the firmware's to     *)
(* promise: it is an assumption of DhcpSpec only.                          *)
(***************************************************************************)
Fairness == WF_vars(Main) /\ WF_vars(Handler)
              /\ WF_vars(station = "connecting" /\ Driver)
FairSpec == Spec /\ Fairness
DhcpSpec == FairSpec /\ WF_vars(station = "associated" /\ Driver)

-----------------------------------------------------------------------------
(* Correctness                                                             *)

\* All that can be pending on the event loop.
JustStart  == <<"STA_START">>
JustLost   == <<"STA_DISCONNECTED">>
JustIp     == <<"STA_GOT_IP">>
IpThenLost == <<"STA_GOT_IP", "STA_DISCONNECTED">>

TypeOK ==
  /\ nvs \in {"ok", "stale", "broken"} /\ main \in MainPcs
  /\ retryNum \in 0..MaximumRetry /\ tries \in 0..(MaximumRetry + 1)
  /\ connected \in BOOLEAN /\ failed \in BOOLEAN /\ audio \in BOOLEAN
  /\ outcome \in {"none", "connected", "failed"}
  /\ client \in {"none", "started", "failed"}
  /\ station \in {"off", "idle", "connecting", "associated", "up"}
  /\ events \in {<<>>, JustStart, JustLost, JustIp, IpThenLost}

\* A started station that is idle has an event on its way that will make the
\* handler connect, or the handler has said that it gave up: no sequence of
\* losses and retries strands it silently.
NeverStranded ==
  station = "idle" /\ events = <<>> => failed

\* The handler gives up only after ESP_MAXIMUM_RETRY attempts in a row failed:
\* an address in between gives the station all its retries back.
GivesUpLate == failed => tries >= MaximumRetry

\* Giving up is final: nothing is pending that could bring the station back,
\* and what the main task was told stays as it is.
GivingUpIsFinal == [][failed /\ failed' => UNCHANGED <<station, events, bits>>]_vars

\* The main task reports a failure only when no address was ever obtained.
FailureIsReal == outcome = "failed" => ~connected

\* app_main, which waits for the network without a limit, comes to its end: one
\* of the two bits is set in the end, whatever was lost and retried before.
BootCompletes == main = "wait" ~> main = "end"

=============================================================================
