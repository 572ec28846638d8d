----------------------------- MODULE Boot_proofs -----------------------------
(***************************************************************************)
(* Theorems about Boot for every number of retries.                        *)
(***************************************************************************)
EXTENDS Boot, SequenceTheorems, TLAPS

\* What can be pending on the event loop in each state of the driver: this is
\* what makes a lost or a doubled attempt impossible.
Pending ==
  /\ station = "off" <=> main \in {"i2s", "nvs", "erase", "sta"}
  /\ station \in {"off", "connecting", "associated"} => events = <<>>
  /\ station = "up" => events \in {<<>>, JustIp}
  /\ station = "idle" =>
       \/ events \in {JustStart, JustLost, IpThenLost}
       \/ events = <<>> /\ failed

\* How the counter of the code follows the attempts really made: it is one
\* behind after the boot and level with them after a loss.
Counted ==
  /\ retryNum <= tries /\ tries <= retryNum + 1
  /\ station = "off" \/ events = JustStart => tries = 0
  /\ failed => /\ station = "idle" /\ events = <<>> /\ retryNum = MaximumRetry
  /\ outcome = "failed" => failed /\ ~connected

BootInv == TypeOK /\ Pending /\ Counted

\* What the handler and the driver do to each of these queues.
LEMMA Handled ==
  /\ Head(JustStart) = "STA_START" /\ Tail(JustStart) = <<>>
  /\ Head(JustLost) = "STA_DISCONNECTED" /\ Tail(JustLost) = <<>>
  /\ Head(JustIp) = "STA_GOT_IP" /\ Tail(JustIp) = <<>>
  /\ Head(IpThenLost) = "STA_GOT_IP" /\ Tail(IpThenLost) = JustLost
<1>1. Head(JustStart) = "STA_START" /\ Tail(JustStart) = <<>>
  BY DEF JustStart
<1>2. Head(JustLost) = "STA_DISCONNECTED" /\ Tail(JustLost) = <<>>
  BY DEF JustLost
<1>3. Head(JustIp) = "STA_GOT_IP" /\ Tail(JustIp) = <<>>
  BY DEF JustIp
<1>4. Head(IpThenLost) = "STA_GOT_IP" /\ Tail(IpThenLost) = JustLost
  BY DEF IpThenLost, JustLost
<1>. QED BY <1>1, <1>2, <1>3, <1>4

LEMMA Posted ==
  /\ Append(<<>>, "STA_DISCONNECTED") = JustLost
  /\ Append(<<>>, "STA_GOT_IP") = JustIp
  /\ Append(JustIp, "STA_DISCONNECTED") = IpThenLost
<1>1. Append(<<>>, "STA_DISCONNECTED") = JustLost
  BY DEF JustLost
<1>2. Append(<<>>, "STA_GOT_IP") = JustIp
  BY DEF JustIp
<1>3. Append(JustIp, "STA_DISCONNECTED") = IpThenLost
  <2> DEFINE S == {"STA_GOT_IP", "STA_DISCONNECTED"}
             q == Append(JustIp, "STA_DISCONNECTED")
  <2>1. q \in Seq(S)
    BY DEF JustIp
  <2>2. Len(q) = 2
    BY DEF JustIp
  <2>3. q[1] = "STA_GOT_IP"
    BY DEF JustIp
  <2>4. q[2] = "STA_DISCONNECTED"
    BY DEF JustIp
  <2>5. IpThenLost \in Seq(S)
    BY DEF IpThenLost
  <2>6. Len(IpThenLost) = 2 /\ IpThenLost[1] = "STA_GOT_IP"
          /\ IpThenLost[2] = "STA_DISCONNECTED"
    BY DEF IpThenLost
  <2> HIDE DEF S, q
  <2>7. q = IpThenLost
    BY <2>1, <2>2, <2>3, <2>4, <2>5, <2>6, SeqEqual, Z3
  <2>. QED BY <2>7 DEF q
<1>. QED BY <1>1, <1>2, <1>3

LEMMA Distinct ==
  /\ JustStart # <<>> /\ JustLost # <<>> /\ JustIp # <<>> /\ IpThenLost # <<>>
  /\ JustStart # JustLost /\ JustStart # JustIp /\ JustStart # IpThenLost
  /\ JustLost # JustIp /\ JustLost # IpThenLost /\ JustIp # IpThenLost
  BY DEF JustStart, JustLost, JustIp, IpThenLost

LEMMA InitBoot == ASSUME Init PROVE BootInv
<1>1. connected \in BOOLEAN /\ failed \in BOOLEAN /\ audio \in BOOLEAN
  BY Zenon DEF Init
<1>2. ~connected /\ ~failed
  BY Zenon DEF Init
<1>3. TypeOK
  BY <1>1, RetryNat DEF Init, TypeOK, MainPcs
<1>4. Pending
  BY DEF Init, Pending
<1>5. Counted
  BY <1>2, Distinct DEF Init, Counted
<1>. QED BY <1>3, <1>4, <1>5 DEF BootInv

LEMMA StepBoot == ASSUME BootInv, [Next]_vars PROVE BootInv'
<1> USE RetryNat DEF BootInv, TypeOK, MainPcs, Pending, Counted, wifi, bits, app
<1>1. CASE I2sInit BY <1>1 DEF I2sInit
<1>2. CASE NvsInit BY <1>2 DEF NvsInit
<1>3. CASE NvsErase BY <1>3 DEF NvsErase
<1>4. CASE StaInit
  <2>1. events' = JustStart
    BY <1>4 DEF StaInit, JustStart
  <2>. QED BY <1>4, <2>1, Distinct DEF StaInit
<1>5. CASE WaitBits BY <1>5 DEF WaitBits
<1>6. CASE WsStart BY <1>6 DEF WsStart
<1>7. CASE TestTask BY <1>7 DEF TestTask
<1>8. CASE Abort
  <2>1. connected' \in BOOLEAN /\ failed' \in BOOLEAN /\ audio' \in BOOLEAN
    BY <1>8, Zenon DEF Abort, NvsAbort, StaAbort, Restart
  <2>2. ~connected' /\ ~failed'
    BY <1>8, Zenon DEF Abort, NvsAbort, StaAbort, Restart
  <2>3. nvs' \in {"ok", "stale", "broken"}
    BY <1>8 DEF Abort, NvsAbort, StaAbort, Restart
  <2>. QED BY <1>8, <2>1, <2>2, <2>3, Distinct DEF Abort, NvsAbort, StaAbort, Restart
<1>9. CASE HandleStart BY <1>9, Handled, Distinct DEF HandleStart, Connect
<1>10. CASE HandleDisconnected
  <2>1. station = "idle" /\ events = JustLost /\ events' = <<>>
    BY <1>10, Handled, Distinct DEF HandleDisconnected
  <2>2. ~failed /\ outcome # "failed"
    BY <2>1, Distinct
  <2>3. CASE RetriesLeft
    <3>1. station' = "connecting" /\ tries' = tries + 1 /\ retryNum' = retryNum + 1
      BY <1>10, <2>1, <2>3 DEF HandleDisconnected, Connect
    <3>2. UNCHANGED <<nvs, main, connected, failed, outcome, client, audio>>
      BY <1>10, <2>3, Zenon DEF HandleDisconnected
    <3>. QED BY <2>1, <2>2, <2>3, <3>1, <3>2, Distinct DEF RetriesLeft
  <2>4. CASE ~RetriesLeft
    <3>1. failed' = TRUE /\ UNCHANGED <<connected, retryNum, station, tries>>
      BY <1>10, <2>4, Zenon DEF HandleDisconnected
    <3>2. UNCHANGED <<nvs, main, outcome, client, audio>>
      BY <1>10, Zenon DEF HandleDisconnected
    <3>3. failed' \in BOOLEAN /\ failed'
      BY <3>1, Zenon
    <3>. QED BY <2>1, <2>2, <2>4, <3>1, <3>2, <3>3, Distinct DEF RetriesLeft
  <2>. QED BY <2>3, <2>4
<1>11. CASE HandleGotIp BY <1>11, Handled, Distinct DEF HandleGotIp
<1>12. CASE Associate BY <1>12 DEF Associate
<1>13. CASE Disconnect BY <1>13, Posted, Distinct DEF Disconnect
<1>14. CASE ObtainAddress BY <1>14, Posted, Distinct DEF ObtainAddress
<1>15. CASE UNCHANGED vars BY <1>15 DEF vars
<1>. QED
  BY <1>1, <1>2, <1>3, <1>4, <1>5, <1>6, <1>7, <1>8, <1>9, <1>10, <1>11, <1>12,
     <1>13, <1>14, <1>15 DEF Next, Main, Handler, Driver

\* The invariant that the properties below follow from.
THEOREM BootInvariant == Spec => []BootInv
<1>. QED BY InitBoot, StepBoot, PTL DEF Spec

\* The retry counter never passes its limit, nor the event queue two events.
THEOREM BootTypeCorrect == Spec => []TypeOK
<1>. QED BY BootInvariant, PTL DEF BootInv

\* However associations are lost and found, a station that is idle is about to
\* be told to connect, or the firmware has given up on it.
THEOREM StationNeverStranded == Spec => []NeverStranded
<1>1. BootInv => NeverStranded
  BY Distinct DEF BootInv, Pending, NeverStranded
<1>. QED BY <1>1, BootInvariant, PTL

\* The handler gives up after at least ESP_MAXIMUM_RETRY failed attempts.
THEOREM NoEarlyGivingUp == Spec => []GivesUpLate
<1>1. BootInv => GivesUpLate
  BY RetryNat DEF BootInv, TypeOK, Counted, GivesUpLate
<1>. QED BY <1>1, BootInvariant, PTL

\* A failure that wifi_init_sta reports is one without any address obtained.
THEOREM FailureReported == Spec => []FailureIsReal
<1>1. BootInv => FailureIsReal
  BY DEF BootInv, Counted, FailureIsReal
<1>. QED BY <1>1, BootInvariant, PTL

\* Once the handler has given up, only a restart of the chip changes anything
\* about the station.
THEOREM GivenUpForGood == Spec => GivingUpIsFinal
<1>1. ASSUME BootInv, failed, failed', [Next]_vars
      PROVE  UNCHANGED <<station, events, bits>>
  <2> USE <1>1 DEF BootInv, Pending, Counted, wifi, bits
  <2>1. station = "idle" /\ events = <<>>
    OBVIOUS
  <2>2. CASE Main
    BY <2>1, <2>2 DEF Main, I2sInit, NvsInit, NvsErase, StaInit, WaitBits, WsStart,
       TestTask
  <2>3. CASE Abort
    BY <2>3, Zenon DEF Abort, NvsAbort, StaAbort, Restart
  <2>4. CASE Handler
    BY <2>1, <2>4 DEF Handler, HandleStart, HandleDisconnected, HandleGotIp
  <2>5. CASE Driver
    BY <2>1, <2>5 DEF Driver, Associate, Disconnect, ObtainAddress
  <2>6. CASE UNCHANGED vars
    BY <2>6 DEF vars
  <2>. QED BY <2>2, <2>3, <2>4, <2>5, <2>6 DEF Next
<1>2. BootInv /\ [Next]_vars =>
        [failed /\ failed' => UNCHANGED <<station, events, bits>>]_vars
  BY <1>1
<1>. QED BY <1>2, BootInvariant, PTL DEF Spec, GivingUpIsFinal

=============================================================================
