------------------------------- MODULE Upload -------------------------------
(***************************************************************************)
(* What thingspeak.h promises of the HTTP client that the room uploads and *)
(* the LoRa uploads share, with no mention of lwIP: one request is in      *)
(* flight at a time, it stays what it is until it ends, and it ends exactly *)
(* once, as "ok" or as "error", after which the next may start.            *)
(* ThingspeakClient is the client written with lwIP's callbacks and        *)
(* implements this module, with the request known by its host;             *)
(* ThingspeakScheduler is its only user, and knows it by its label.        *)
(***************************************************************************)

CONSTANTS
  Requests,  \* what tells one request from another
  NULL       \* no request in flight; not one of Requests

VARIABLES
  status,    \* what /dev/thingspeak/status reports: thingspeak_status_t
  inflight   \* the request in flight, or NULL

vars == <<status, inflight>>

Init ==
  /\ status = "IDLE"
  /\ inflight = NULL

Start(r) ==
  /\ inflight = NULL
  /\ inflight' = r
  /\ status' = "SENDING"

Finish(outcome) ==
  /\ inflight # NULL
  /\ inflight' = NULL
  /\ status' = outcome

\* tcp_new can fail inside start_request(): the request then starts and ends in one call.
FailAtStart ==
  /\ inflight = NULL
  /\ inflight' = NULL
  /\ status' = "ERROR"

Next ==
  \/ \E r \in Requests : Start(r)
  \/ \E outcome \in {"OK", "ERROR"} : Finish(outcome)
  \/ FailAtStart

Safety == Init /\ [][Next]_vars

Fairness == WF_vars(\E outcome \in {"OK", "ERROR"} : Finish(outcome))

Spec == Safety /\ Fairness
=============================================================================
