----------------------------- MODULE AnalysisPanel -----------------------------
(***************************************************************************)
(* The browser side of one analysis: the panel with its latest-request     *)
(* controller, the client with its one deadline, and the same-origin proxy *)
(* (server.mjs) between the client and the API.                            *)
(*                                                                         *)
(* Requests are numbered as the controller's generations.  Timers may fire *)
(* at any moment; the browser's network may fail at any moment.            *)
(***************************************************************************)
EXTENDS AnalysisService

VARIABLES newest,    \* the controller's generation
          busy,      \* runBusy
          view,      \* phase of the report: what the panel says of the newest run
          shown,     \* lastValid: the request whose report is kept, 0 if none
          client,    \* what the client waits for, or its output
          proxy      \* what server.mjs does for the request

panelVars == <<newest, busy, view, shown, client, proxy>>

Waiting == {"headers", "body"}
\* AnalysisOutput; the kinds of failure differ in what the panel says only.
ClientStates == Waiting \cup {"none", "ok", "failed"}
ProxyStates == {"none", "forwarding", "relayed", "gateway"}

PanelInit ==
  /\ newest = 0
  /\ busy = FALSE
  /\ view = "idle"
  /\ shown = 0
  /\ client = [r \in Requests |-> "none"]
  /\ proxy = [r \in Requests |-> "none"]

Proxies(r, state) == proxy' = [proxy EXCEPT ![r] = state]
ViewUnchanged == UNCHANGED <<newest, busy, view, shown>>

-----------------------------------------------------------------------------

\* handleSubmit and controller.run.  The submit control is disabled while the
\* panel is busy, but only once that is rendered: a second activation may
\* overtake it.
Submit ==
  /\ newest + 1 \in Requests
  /\ newest' = newest + 1
  /\ busy' = TRUE
  /\ view' = "loading"
  /\ client' = [client EXCEPT ![newest + 1] = "headers"]
  /\ Proxies(newest + 1, "forwarding")
  /\ UNCHANGED shown

ApplyEverything(r) == TRUE                                 \* mutant
Applies(r) == r = newest

\* The task ends: output and finalizer of an earlier request are ignored.
Settle(r, output) ==
  /\ client' = [client EXCEPT ![r] = output]
  /\ IF Applies(r)
     THEN /\ busy' = FALSE
          /\ view' = IF output = "ok" THEN "current" ELSE "failure"
          /\ shown' = IF output = "ok" THEN r ELSE shown
     ELSE UNCHANGED <<busy, view, shown>>
  /\ UNCHANGED newest

\* The API's answer is relayed when the operation declares its status, it is
\* JSON and it fits the cap.
RelayAnswer(r) ==
  /\ proxy[r] = "forwarding" /\ client[r] = "headers"
  /\ call[r].phase = "answered"
  /\ Proxies(r, "relayed")
  /\ client' = [client EXCEPT ![r] = "body"]
  /\ ViewUnchanged

\* The body could not be read, the API cannot be reached, died or answered
\* outside the contract, or the deadline of the exchange passed: 4xx, 502 or
\* 504 from the proxy itself, while the API may go on all the same.
GatewayFailure(r) ==
  /\ proxy[r] = "forwarding" /\ client[r] = "headers"
  /\ Proxies(r, "gateway")
  /\ Settle(r, "failed")

\* What createAnalysisClient makes of a complete exchange: status 200 with a
\* body that decodes against the schema of its outcome.
OutputOf(r, decodes) ==
  IF call[r].status = "accepted" /\ decodes THEN "ok" ELSE "failed"

BodyArrives(r) ==
  /\ client[r] = "body"
  /\ \E decodes \in BOOLEAN : Settle(r, OutputOf(r, decodes))
  /\ UNCHANGED proxy

NetworkFails(r) ==
  /\ client[r] \in Waiting
  /\ Settle(r, "failed")
  /\ UNCHANGED proxy

DeadlineUntilHeaders == {"headers"}                        \* mutant
UnderDeadline == Waiting

\* One timer covers headers and body.
ClientDeadline(r) ==
  /\ client[r] \in UnderDeadline
  /\ Settle(r, "failed")
  /\ UNCHANGED proxy

WebStep(r) ==
  \/ RelayAnswer(r)
  \/ GatewayFailure(r)
  \/ BodyArrives(r)
  \/ NetworkFails(r)
  \/ ClientDeadline(r)

=============================================================================
