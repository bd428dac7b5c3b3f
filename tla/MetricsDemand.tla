---------------------------- MODULE MetricsDemand ----------------------------
(* The metrics demand of the application's windows: each window's refresh  *)
(* orchestrator reduces its leases to the set of clusters whose metrics it *)
(* shows and posts the set when it changes (orchestrator.ts,               *)
(* updateMetricsDemand; metricsDemandState.ts).  The one backend controller*)
(* keeps the last set it was sent (refresh_aggregate_metrics.go), and is   *)
(* rebuilt with the refresh service.                                       *)
EXTENDS Naturals, FiniteSets

CONSTANTS
  Windows,       \* windows, each with an orchestrator of its own
  Clusters,      \* clusters
  InitialDelay,  \* METRICS_DEMAND_RETRY_INITIAL_MS
  MaxDelay,      \* METRICS_DEMAND_RETRY_MAX_MS
  MaxOps         \* bound on demand changes, lost requests and service changes

ASSUME DelayAssumption ==
  InitialDelay \in Nat \ {0} /\ MaxDelay \in Nat /\ InitialDelay <= MaxDelay
ASSUME BoundAssumption == MaxOps \in Nat

VARIABLES
  demand,   \* metricsDemandClusterIds of each window
  md,       \* metricsDemandState of each window
  wire,     \* posts on the wire, and their answers
  service,  \* the refresh service is published
  demanded, \* the set the aggregate metrics controller retains
  ops       \* changes and failures so far

vars == <<demand, md, wire, service, demanded, ops>>

\* initialMetricsDemandState; an idle state has no key of its own.
Start == [status |-> "idle", applied |-> {}, key |-> {}, delay |-> InitialDelay]

Init ==
  /\ demand = [w \in Windows |-> {}] /\ md = [w \in Windows |-> Start]
  /\ wire = {} /\ service = TRUE /\ demanded = {} /\ ops = 0
-----------------------------------------------------------------------------
(* transitionMetricsDemandState and updateMetricsDemand.                   *)
Idle(applied, delay) == [status |-> "idle", applied |-> applied, key |-> {}, delay |-> delay]

\* clearMetricsDemandRetry, and retry-fired.
ClearRetry(m) == IF m.status = "waiting-retry" THEN Idle(m.applied, m.delay) ELSE m

\* Mutation: a demand that changes during a request is posted at once.
MustPostEagerly(m, key) ==
  key # m.applied /\ ~(m.status = "waiting-retry" /\ m.key = key)

\* Whether updateMetricsDemand posts the set.
MustPost(m, key) ==
  /\ key # m.applied
  /\ m.status # "requesting"
  /\ ~(m.status = "waiting-retry" /\ m.key = key)

Updated(m, key) ==
  CASE key = m.applied -> ClearRetry(m)
    [] MustPost(m, key) -> [status |-> "requesting", applied |-> m.applied, key |-> key, delay |-> m.delay]
    [] OTHER -> m

\* updateMetricsDemand of window w in state m, over the posts in rest.
Update(w, m, key, rest) ==
  /\ md' = [md EXCEPT ![w] = Updated(m, key)]
  /\ wire' = IF MustPost(m, key)
             THEN rest \cup {[win |-> w, key |-> key, state |-> "sent", orphan |-> FALSE]}
             ELSE rest

CountOp == ops < MaxOps /\ ops' = ops + 1
-----------------------------------------------------------------------------
(* Windows.                                                                *)
\* A lease is acquired or released, or a cluster is pruned.
ChangeDemand(w, key) ==
  /\ key # demand[w]
  /\ demand' = [demand EXCEPT ![w] = key]
  /\ Update(w, md[w], key, wire)
  /\ CountOp /\ UNCHANGED <<service, demanded>>

\* The post of w was answered: request-succeeded.
Succeeds(w, r) ==
  /\ r.win = w /\ ~r.orphan /\ r.state = "applied"
  /\ Update(w, Idle(r.key, InitialDelay), demand[w], wire \ {r})
  /\ UNCHANGED <<demand, service, demanded, ops>>

\* Mutation: a request that failed after the demand moved on is only dropped.
AbandonsSilently(w, r) ==
  /\ r.win = w /\ ~r.orphan /\ r.state = "refused" /\ demand[w] # r.key
  /\ md' = [md EXCEPT ![w] = Idle(md[w].applied, InitialDelay)]
  /\ wire' = wire \ {r}
  /\ UNCHANGED <<demand, service, demanded, ops>>

\* It failed after the demand moved on: request-abandoned, and the newer set.
Abandons(w, r) ==
  /\ r.win = w /\ ~r.orphan /\ r.state = "refused" /\ demand[w] # r.key
  /\ Update(w, Idle(md[w].applied, InitialDelay), demand[w], wire \ {r})
  /\ UNCHANGED <<demand, service, demanded, ops>>

Doubled(delay) == IF 2 * delay < MaxDelay THEN 2 * delay ELSE MaxDelay

\* It failed with the demand unchanged: retry-scheduled.
SchedulesRetry(w, r) ==
  /\ r.win = w /\ ~r.orphan /\ r.state = "refused" /\ demand[w] = r.key
  /\ md' = [md EXCEPT ![w] = [status |-> "waiting-retry", applied |-> md[w].applied,
                              key |-> r.key, delay |-> Doubled(md[w].delay)]]
  /\ wire' = wire \ {r}
  /\ UNCHANGED <<demand, service, demanded, ops>>

\* Mutation: the timer of a retry returns to idle only.
RetryFiresSilently(w) ==
  /\ md[w].status = "waiting-retry"
  /\ md' = [md EXCEPT ![w] = ClearRetry(md[w])]
  /\ UNCHANGED <<demand, wire, service, demanded, ops>>

RetryFires(w) ==
  /\ md[w].status = "waiting-retry"
  /\ Update(w, ClearRetry(md[w]), demand[w], wire)
  /\ UNCHANGED <<demand, service, demanded, ops>>

\* The window closes; its post may still be on the way.
CloseWindow(w) ==
  /\ <<demand[w], md[w]>> # <<{}, Start>>
  /\ demand' = [demand EXCEPT ![w] = {}] /\ md' = [md EXCEPT ![w] = Start]
  /\ wire' = {[r EXCEPT !.orphan = r.orphan \/ r.win = w] : r \in wire}
  /\ CountOp /\ UNCHANGED <<service, demanded>>
-----------------------------------------------------------------------------
(* The backend.                                                            *)
\* handleMetricsActive: the controller replaces the set, for every window.
Handles(r) ==
  /\ r.state = "sent" /\ service
  /\ demanded' = r.key
  /\ wire' = (wire \ {r}) \cup {[r EXCEPT !.state = "applied"]}
  /\ UNCHANGED <<demand, md, service, ops>>

\* ServeHTTP of RefreshCoordinator without a published service.
Refuses(r) ==
  /\ r.state = "sent" /\ ~service
  /\ wire' = (wire \ {r}) \cup {[r EXCEPT !.state = "refused"]}
  /\ UNCHANGED <<demand, md, service, demanded, ops>>

\* The request fails before it is handled.
Loses(r) ==
  /\ r.state = "sent"
  /\ wire' = (wire \ {r}) \cup {[r EXCEPT !.state = "refused"]}
  /\ CountOp /\ UNCHANGED <<demand, md, service, demanded>>

\* Nobody waits for the answer of a closed window's post.
Unheard(r) ==
  /\ r.orphan /\ r.state # "sent"
  /\ wire' = wire \ {r}
  /\ UNCHANGED <<demand, md, service, demanded, ops>>

\* teardownRefreshSubsystem, once no cluster is connected.
ServiceStops ==
  /\ service /\ service' = FALSE /\ demanded' = {}
  /\ CountOp /\ UNCHANGED <<demand, md, wire>>

\* setupRefreshSubsystemForSelections: a new controller demands nothing.
ServiceStarts ==
  /\ ~service /\ service' = TRUE
  /\ CountOp /\ UNCHANGED <<demand, md, wire, demanded>>
-----------------------------------------------------------------------------
Answers(w) == \E r \in wire : Succeeds(w, r) \/ Abandons(w, r) \/ SchedulesRetry(w, r)
Serves == \E r \in wire : Handles(r) \/ Refuses(r) \/ Unheard(r)

Next ==
  \/ \E w \in Windows : \/ \E key \in SUBSET Clusters : ChangeDemand(w, key)
                        \/ Answers(w) \/ RetryFires(w) \/ CloseWindow(w)
  \/ Serves \/ \E r \in wire : Loses(r)
  \/ ServiceStops \/ ServiceStarts

Spec == Init /\ [][Next]_vars

\* The backend answers, answers are delivered, and timers fire.
FairSpec ==
  /\ Spec /\ WF_vars(Serves)
  /\ \A w \in Windows : WF_vars(Answers(w)) /\ WF_vars(RetryFires(w))
-----------------------------------------------------------------------------
(* Properties.                                                             *)
Demands == SUBSET Clusters
States == [status : {"idle", "requesting", "waiting-retry"}, applied : Demands, key : Demands,
           delay : 1..MaxDelay]
Posts == [win : Windows, key : Demands, state : {"sent", "applied", "refused"}, orphan : BOOLEAN]

\* Every value has its type; the delay of a retry never passes its limit.
TypeOK ==
  /\ demand \in [Windows -> Demands] /\ md \in [Windows -> States]
  /\ wire \in SUBSET Posts /\ service \in BOOLEAN /\ demanded \in Demands /\ ops \in 0..MaxOps

\* "Frontend metrics-demand changes are sent in order": a window has one post on
\* the wire at a time, the one its state is waiting for, so an older set never
\* overtakes a newer one of the same window.
SentInOrder ==
  \A r \in wire : ~r.orphan =>
    /\ md[r.win].status = "requesting" /\ md[r.win].key = r.key
    /\ \A q \in wire : q.win = r.win /\ ~q.orphan => q = r

\* A window never rests on a set it no longer wants: without a request or a
\* retry for its demand, what the backend acknowledged is the demand.
NothingForgotten ==
  \A w \in Windows :
    /\ md[w].status = "idle" => md[w].applied = demand[w]
    /\ md[w].status = "waiting-retry" => md[w].key = demand[w]
    /\ md[w].status = "requesting" => \E r \in wire : r.win = w /\ ~r.orphan
    /\ md[w].status # "idle" => md[w].key # md[w].applied

\* "a newer set is reconciled after the in-flight request": once the service
\* stays up, every window gets its demand acknowledged, however requests failed.
DemandAcknowledged ==
  <>[]service => <>[](\A w \in Windows : md[w].applied = demand[w])
=============================================================================
