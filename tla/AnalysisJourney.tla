---------------------------- MODULE AnalysisJourney ----------------------------
(***************************************************************************)
(* One analysis from the button to the database and back: panel, client,   *)
(* proxy, API process, store and the migration commands of its operators.  *)
(***************************************************************************)
EXTENDS AnalysisPanel

CONSTANT MaxActivity   \* bound: requests, restarts and commands together

ASSUME ActivityAssumption == MaxActivity \in Nat

vars == <<migrationVars, serviceVars, panelVars>>

Init == MigrationInit /\ ServiceInit /\ PanelInit

\* The proxy forwards the request: the API may receive it until it gives up,
\* and goes on with what it received when nobody waits any more.
Deliver(r) ==
  /\ proxy[r] = "forwarding"
  /\ Analyze(r) \/ Demonstrate(r)
  /\ UNCHANGED <<migrationVars, panelVars>>

Serve(r) == ServiceStep(r) /\ UNCHANGED <<migrationVars, panelVars>>
Fail == Restart /\ UNCHANGED <<migrationVars, panelVars>>
Operate(o) == Migrate(o) /\ UNCHANGED panelVars
Browse == Submit /\ UNCHANGED <<migrationVars, serviceVars>>
Exchange(r) == WebStep(r) /\ UNCHANGED <<migrationVars, serviceVars>>

WithinActivity == newest' + restarts' + operations' <= MaxActivity

Steps ==
  \/ \E r \in Requests : Deliver(r) \/ Serve(r) \/ Exchange(r)
  \/ \E o \in Operators : Operate(o)
  \/ Fail
  \/ Browse

Next == Steps /\ WithinActivity

\* Only the timers are fair: the API, the network and the users
\* need not do anything.
Fairness ==
  \A r \in Requests :
    WF_vars(ClientDeadline(r) /\ UNCHANGED <<migrationVars, serviceVars>>)

Spec == Init /\ [][Next]_vars /\ Fairness

-----------------------------------------------------------------------------

\* Stated by type: the states of the composition.
JourneyTypeOK ==
  /\ MigrationTypeOK
  /\ backend \in {"memory", "postgres", "demonstration"} /\ composed \in BOOLEAN
  /\ \A r \in Requests :
       /\ call[r].phase \in CallPhases /\ call[r].status \in Statuses
       /\ call[r].result \in Results \cup {NoResult}
       /\ call[r].base \in Nat
       /\ proxy[r] \in ProxyStates /\ client[r] \in ClientStates
  /\ DOMAIN rows \subseteq Requests /\ DOMAIN cache \subseteq Requests
  /\ stored \subseteq Chunks /\ erased \subseteq Requests
  /\ newest \in Requests \cup {0} /\ shown \in 0..newest
  /\ busy \in BOOLEAN
  /\ view \in {"idle", "loading", "current", "failure"}

\* An analysis that was answered, or that GET serves, is recorded: outcome,
\* all traced evidence of known documents and the neighbors. No other
\* analysis, connection loss or restart of the process takes that away; only
\* the memory store's process, or an operator who drops the tables, does
\* (IntegratedAnalysisService.analyze and get, UnitOfWork.commit). The
\* demonstration records nothing, but from startup on GET serves every
\* outcome that can be answered, each under its own identifier.
AcceptedIsRecorded ==
  IF backend = "demonstration"
  THEN /\ DOMAIN catalog = Scenarios
       /\ \A id \in Scenarios : catalog[id].outcome = id
       /\ \A r \in Requests : call[r].status = "accepted" => call[r].shown.outcome \in Scenarios
  ELSE \A r \in Requests \ erased :
    /\ call[r].status = "accepted" =>
         /\ r \in DOMAIN rows
         /\ rows[r] = call[r].result.metadata
         /\ call[r].result.cited \subseteq rows[r].evidence
         /\ rows[r].evidence \subseteq stored
    /\ r \in DOMAIN cache => r \in DOMAIN rows /\ rows[r] = cache[r].metadata

\* The panel speaks of the newest request, in whatever order answers arrive:
\* idle controls mean that one has ended, a current report is its report, and
\* what is shown was answered by the API (latest-request.ts).
ShownIsTheNewestAnswer ==
  /\ shown # 0 => client[shown] = "ok" /\ call[shown].status = "accepted"
  /\ newest # 0 => (busy <=> client[newest] \in Waiting)
  /\ view = "current" => shown = newest
  /\ view = "loading" <=> busy

\* Whatever the API, the proxy and the network do, the panel does not stay
\* busy: the one deadline of the client ends every exchange.
PanelSettles == busy ~> ~busy

=============================================================================
