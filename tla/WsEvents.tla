------------------------------ MODULE WsEvents ------------------------------
(***************************************************************************)
(* What the client promises the application's event handler: the order in  *)
(* which it dispatches its lifecycle events, over any number of sessions   *)
(* (a session is one run of the client task) and of connections in each.   *)
(***************************************************************************)
CONSTANT
  Late          \* other tasks write on the connection and report its loss too

VARIABLES
  live,         \* a session is open: BEGIN was dispatched and not yet FINISH
  ev            \* the last lifecycle event

vars == <<live, ev>>

Init == ~live /\ ev = "none"

Begin == ~live /\ live' = TRUE /\ ev' = "BEGIN"

\* The first attempt to connect of a session, or one after the end of another.
Attempt ==
  /\ live /\ ev \in {"BEGIN", "DISCONNECTED", "CLOSED"}
  /\ ev' = "BEFORE_CONNECT" /\ UNCHANGED live

\* CONNECTED only answers the attempt announced just before it.
Up == live /\ ev = "BEFORE_CONNECT" /\ ev' = "CONNECTED" /\ UNCHANGED live

\* The attempt failed, or the connection was lost.
Down ==
  /\ live /\ ev \in {"BEFORE_CONNECT", "CONNECTED"}
  /\ ev' = "DISCONNECTED" /\ UNCHANGED live

\* The CLOSE handshake is over.
Closed == live /\ ev = "CONNECTED" /\ ev' = "CLOSED" /\ UNCHANGED live

\* A session does not end in the middle of an attempt.
Finish == live /\ ev # "BEFORE_CONNECT" /\ live' = FALSE /\ ev' = "FINISH"

\* A loss that two tasks met is reported a second time, perhaps after the
\* session that lost the connection; or while a CLOSE frame was being handled.
LateDown ==
  /\ Late /\ ev \in {"BEGIN", "CLOSED", "FINISH"}
  /\ ev' = "DISCONNECTED" /\ UNCHANGED live
LateClosed ==
  /\ Late /\ live /\ ev = "DISCONNECTED"
  /\ ev' = "CLOSED" /\ UNCHANGED live

Next ==
  \/ Begin \/ Attempt \/ Up \/ Down \/ Closed \/ Finish \/ LateDown \/ LateClosed

Spec == Init /\ [][Next]_vars
=============================================================================
