--------------------------- MODULE PermissionStore ---------------------------
(* The permission store of a window                                        *)
(* (frontend/src/core/capabilities/permissionStore.ts) for one cluster: the*)
(* queries views ask of it, the calls that answer them, what listeners are *)
(* shown, the periodic refresh, and resets.  Another cluster may be the    *)
(* active one; its queries have keys of their own and are left out.        *)
(*                                                                         *)
(* A query is identified by its key.  pendingSpecs and inFlightQueries have*)
(* the same keys, changed in the same turn: both are asking.               *)
EXTENDS Naturals, FiniteSets, Sequences

CONSTANTS
  ClusterQuery,  \* the query of the cluster-scoped permissions
  NsQueries,     \* queries of one namespace with one list of specs
  Checks,        \* single checks of object actions
  Covers,        \* the permissions a query asks for
  Permissions,   \* permissions
  ListOf,        \* the spec list of a namespace query
  MaxItems,      \* MAX_PERMISSION_QUERY_ITEMS, in queries
  MaxVer,        \* bound on changes of the grants
  MaxOps         \* bound on calls of views, events and failures

Queries == {ClusterQuery} \cup NsQueries \cup Checks
Refreshed == {ClusterQuery} \cup NsQueries

ASSUME QueriesAssumption ==
  /\ ClusterQuery \notin NsQueries \cup Checks /\ NsQueries \cap Checks = {}
  /\ Covers \in [Queries -> SUBSET Permissions]
ASSUME BoundsAssumption == MaxItems \in Nat \ {0} /\ {MaxVer, MaxOps} \subseteq Nat \ {0}

VARIABLES
  env,      \* the backend serves the cluster, lifecycle events on their way, the
            \* last one delivered, the selection, the version of the grants
  store,    \* the module state of permissionStore.ts
  wire,     \* QueryPermissions calls
  view,     \* the public map, whether listeners read it, and their notification
  asked,    \* (history) queries somebody asked for since the last reset
  unheard,  \* (history) those whose cluster was announced ready while the store
            \* did not listen, or while the query was under way
  ops       \* calls, events and failures so far

vars == <<env, store, wire, view, asked, unheard, ops>>
World == [store |-> store, wire |-> wire, view |-> view, asked |-> asked, unheard |-> unheard]

None == [status |-> "none", at |-> 0]
Pending == [status |-> "pending", at |-> 0]
Error == [status |-> "error", at |-> 0]
Ready(v) == [status |-> "ready", at |-> v]

\* The store without an answer; the active cluster and the subscriptions to the
\* event bus outlive a reset.
Emptied(current, listening) ==
  [results |-> [p \in Permissions |-> None], asking |-> {}, stamp |-> [q \in Queries |-> "none"],
   meta |-> {}, stagger |-> {}, timer |-> FALSE,
   current |-> current, listening |-> listening]
NoMap == [p \in Permissions |-> None]

\* The store of a window that opens on a restored selection, or on none, while
\* the cluster connects or serves already.
Init ==
  /\ \E up \in BOOLEAN, selected \in {"none", "this", "other"} :
       env = [up |-> up, news |-> <<>>, told |-> up, selected |-> selected,
              effect |-> <<"none", FALSE>>, ver |-> 1]
  /\ store = Emptied("none", FALSE)
  /\ wire = {} /\ view = [map |-> NoMap, read |-> TRUE, flag |-> FALSE, handle |-> FALSE]
  /\ asked = {} /\ unheard = {} /\ ops = 0
-----------------------------------------------------------------------------
(* What listeners are shown.                                               *)
\* rebuildPermissionMap: an answer wins over a query under way.
Rebuilt(s) ==
  [p \in Permissions |->
     IF s.results[p] # None THEN s.results[p]
     ELSE IF \E q \in s.asking : p \in Covers[q] THEN Pending ELSE None]

\* notify and schedulePermissionNotify.
Notify(w) ==
  [w EXCEPT !.view = [map |-> Rebuilt(w.store), read |-> FALSE, flag |-> TRUE,
                       handle |-> @.handle \/ ~@.flag]]
-----------------------------------------------------------------------------
(* Queries.                                                                *)
\* beginNamespaceQuery, and the same for the others.
Begin(w, qs) == [w EXCEPT !.store.asking = @ \cup qs]

Call(qs, batch) == [qs |-> qs, batch |-> batch, outcome |-> "sent", at |-> 0, stale |-> FALSE]

\* Mutation: one request, however many items it has.
OneChunk(qs) == {{qs}}

\* splitNamespaceTargets: full chunks, and one for the rest.
Chunkings(qs) ==
  {chunks \in SUBSET ((SUBSET qs) \ {{}}) :
     /\ UNION chunks = qs
     /\ \A a, b \in chunks : a # b => a \cap b = {}
     /\ \A a \in chunks : Cardinality(a) <= MaxItems
     /\ Cardinality({a \in chunks : Cardinality(a) < MaxItems}) <= 1}

\* prepareNamespaceQueryTargets.
Targets(w, qs, force) ==
  {q \in qs : q \notin w.store.asking /\ (force \/ w.store.stamp[q] # "fresh")}

\* queryNamespacesPermissions for the targets qs, one request per chunk.
Asks(w, qs, chunks) ==
  IF qs = {} THEN w
  ELSE [Notify(Begin(w, qs)) EXCEPT !.wire = @ \cup {Call(c, qs) : c \in chunks}]

\* A refresh of one namespace, whatever its age: one target is one chunk.
RefreshNamespace(w, q) == LET qs == Targets(w, {q}, TRUE) IN Asks(w, qs, {qs})

\* queryClusterPermissions: its age does not matter.
ClusterPermissions(w) ==
  IF ClusterQuery \in w.store.asking THEN w
  ELSE [Notify(Begin(w, {ClusterQuery})) EXCEPT !.wire = @ \cup {Call({ClusterQuery}, {ClusterQuery})}]

\* queryPermissionChecks, with askedRecently.
CheckPermissions(w, qs) ==
  LET due == {q \in qs : q \notin w.store.asking /\ w.store.stamp[q] # "fresh"}
  IN IF due = {} THEN w ELSE [Notify(Begin(w, due)) EXCEPT !.wire = @ \cup {Call(due, due)}]
-----------------------------------------------------------------------------
(* Answers.                                                                *)
\* Mutation: an answer is taken whatever was reset since it was asked.
CurrentAlways(c) == TRUE

\* The generation a call was made in is the current one.
Current(c) == ~c.stale

\* What the call leaves in permissionResults: applyResults, recordQueryError,
\* and nothing for a cluster that is not active, unless a check asked.
Recorded(results, c) ==
  LET checks == c.qs \subseteq Checks
      entry == CASE c.outcome = "answer" -> Ready(c.at)
                 [] c.outcome = "inactive" -> IF checks THEN Error ELSE None
                 [] OTHER -> IF checks THEN None ELSE Error
      covered == UNION {Covers[q] : q \in c.qs}
  IN [p \in Permissions |-> IF entry # None /\ p \in covered THEN entry ELSE results[p]]

\* Mutation: a failed call is not dated, as if the cluster had not been active.
DatesAnswers(c) == c.outcome = "answer" \/ c.qs \subseteq Checks

\* A definitive answer dates the query; so does a failure.
Dates(c) == c.outcome # "inactive" \/ c.qs \subseteq Checks

\* Mutation: an interest is recorded only once it is answered.
InterestAnsweredOnly(meta, c) ==
  IF Dates(c) THEN meta \cup (c.qs \cap NsQueries) ELSE meta

\* recordNamespaceQueryMetadata: "records the interest so cluster-ready can
\* replay it".
Interest(meta, c) == meta \cup (c.qs \cap NsQueries)

\* The end of a call: results, finalizeNamespaceQuery, and once the last call of
\* the batch has ended, notify.
Returned(w, c) ==
  LET rest == [w EXCEPT !.wire = @ \ {c}]
      s == w.store
      done == [rest EXCEPT !.store = [s EXCEPT
                !.results = Recorded(s.results, c),
                !.asking = s.asking \ c.qs,
                !.meta = Interest(s.meta, c),
                !.stamp = [q \in Queries |-> IF q \in c.qs /\ Dates(c) THEN "fresh" ELSE s.stamp[q]]]]
      last == \A d \in rest.wire : d.stale \/ d.batch # c.batch
  IN IF ~Current(c) THEN rest ELSE IF last THEN Notify(done) ELSE done
-----------------------------------------------------------------------------
Become(w) ==
  /\ store' = w.store /\ wire' = w.wire /\ view' = w.view
  /\ asked' = w.asked /\ unheard' = w.unheard
CountOp == ops < MaxOps /\ ops' = ops + 1

\* Somebody wants the answer of qs.
Want(w, qs) == [w EXCEPT !.asked = @ \cup qs]

\* Views: a list of namespaces, a panel, a menu.
ViewAsks(qs) ==
  /\ qs # {} /\ \A p, q \in qs : ListOf[p] = ListOf[q]
  /\ LET targets == Targets(World, qs, FALSE)
     IN \E chunks \in Chunkings(targets) : Become(Asks(Want(World, qs), targets, chunks))
  /\ CountOp /\ UNCHANGED env

MenuAsks(q) ==
  /\ Become(CheckPermissions(Want(World, {q}), {q}))
  /\ CountOp /\ UNCHANGED env

\* flushPermissionListeners.
Flush ==
  /\ view.handle
  /\ view' = [view EXCEPT !.flag = FALSE, !.handle = FALSE, !.read = TRUE]
  /\ UNCHANGED <<env, store, wire, asked, unheard, ops>>
-----------------------------------------------------------------------------
(* The backend, external to the store.  Nobody waits for what a call of an *)
(* older generation will say.                                              *)
Evaluate(c) ==
  /\ c.outcome = "sent" /\ ~c.stale
  /\ LET answer(outcome, at) == (wire \ {c}) \cup {[c EXCEPT !.outcome = outcome, !.at = at]}
     IN \/ env.up /\ wire' = answer("answer", env.ver) /\ UNCHANGED ops
        \/ ~env.up /\ wire' = answer("inactive", 0) /\ UNCHANGED ops
        \/ wire' = answer("failed", 0) /\ CountOp
  /\ UNCHANGED <<env, store, view, asked, unheard>>

Return(c) ==
  /\ c.outcome # "sent" \/ c.stale
  /\ Become(Returned(World, c)) /\ UNCHANGED <<env, ops>>

\* The cluster comes and goes, or moves between two operational states, and says
\* so; its grants change, as often as MaxVer allows.
BackendChanges ==
  /\ \/ env' = [env EXCEPT !.up = ~@, !.news = Append(@, ~env.up)] /\ CountOp
     \/ env.up /\ env' = [env EXCEPT !.news = Append(@, TRUE)] /\ CountOp
     \/ env.ver < MaxVer /\ env' = [env EXCEPT !.ver = @ + 1] /\ UNCHANGED ops
  /\ UNCHANGED <<store, wire, view, asked, unheard>>
-----------------------------------------------------------------------------
(* Time.                                                                   *)
\* PERMISSION_REFRESH_INTERVAL_MS passes for a query.
Expire(q) ==
  /\ store.stamp[q] = "fresh"
  /\ store' = [store EXCEPT !.stamp[q] = "expired"]
  /\ UNCHANGED <<env, wire, view, asked, unheard, ops>>

\* refreshExpiredQueries and scheduleNamespaceRefreshes: the first namespace is
\* asked at once, the others one by one; checks are not refreshed.
RefreshTick ==
  LET expired == {q \in Queries : store.stamp[q] = "expired"}
      cluster == IF ClusterQuery \in expired THEN ClusterPermissions(World) ELSE World
      due == expired \cap store.meta
  IN /\ store.timer /\ (due # {} \/ ClusterQuery \in expired)
     /\ IF due = {} THEN Become(cluster)
        ELSE \E first \in due :
               Become([RefreshNamespace(cluster, first) EXCEPT !.store.stagger = @ \cup (due \ {first})])
     /\ UNCHANGED <<env, ops>>

StaggerFires(q) ==
  /\ q \in store.stagger
  /\ Become(RefreshNamespace([World EXCEPT !.store.stagger = @ \ {q}], q))
  /\ UNCHANGED <<env, ops>>
-----------------------------------------------------------------------------
(* Selection and lifecycle.                                                *)
\* Everything known is dropped, and calls under way belong to an older generation.
Cleared(w) ==
  [w EXCEPT !.store = Emptied(w.store.current, w.store.listening),
            !.wire = {[c EXCEPT !.stale = TRUE] : c \in w.wire},
            !.asked = {}, !.unheard = {}]

\* Mutation: the notification is cancelled and still counts as scheduled.
ResetKeepsFlag(w) ==
  Notify([Cleared(w) EXCEPT !.view.handle = FALSE])

\* Mutation: staggered refreshes are not cancelled.
ResetKeepsTimers(w) ==
  Notify([Cleared(w) EXCEPT !.view.handle = FALSE, !.view.flag = FALSE, !.store.stagger = w.store.stagger])

\* resetPermissionStore.
Reset(w) == Notify([Cleared(w) EXCEPT !.view.handle = FALSE, !.view.flag = FALSE])

\* initializePermissionStore for the cluster or for another one.
Initialize(w, cluster) ==
  LET on == [w EXCEPT !.store.timer = TRUE, !.store.listening = TRUE]
  IN IF cluster = "this" THEN ClusterPermissions(Want(on, {ClusterQuery})) ELSE on

\* setActivePermissionCluster.
SetActive(w, cluster, operational) ==
  LET active == [w EXCEPT !.store.current = cluster]
  IN IF cluster = "none" THEN Reset(active)
     ELSE IF operational THEN Initialize(active, cluster) ELSE active

\* The tab or the selection changes; an emptied selection announces itself
\* (kubeconfig:changing) unless another window emptied it.
Select(cluster, announced) ==
  /\ cluster # env.selected /\ (announced => cluster = "none")
  /\ env' = [env EXCEPT !.selected = cluster]
  /\ Become(IF announced /\ store.listening THEN Reset(World) ELSE World)
  /\ CountOp

\* The effect of AppContent, run when its dependencies changed.
Dependencies == <<env.selected, IF env.selected = "this" THEN env.told ELSE env.selected = "other">>
AppEffect ==
  /\ env.effect # Dependencies
  /\ env' = [env EXCEPT !.effect = Dependencies]
  /\ Become(SetActive(World, env.selected, Dependencies[2]))
  /\ UNCHANGED ops

\* kubeconfig:changed and kubeconfig:selection-changed.
SelectionEvent ==
  /\ store.listening /\ store.current = "this"
  /\ Become(ClusterPermissions(Want(World, {ClusterQuery})))
  /\ CountOp /\ UNCHANGED env

\* The handler of an operational cluster:lifecycle event.
Operational(w) ==
  LET cluster == IF w.store.current = "this" THEN ClusterPermissions(Want(w, {ClusterQuery})) ELSE w
      again == w.store.meta \ w.store.asking
      replayed == IF again = {} THEN cluster
                  ELSE [Notify(Begin(cluster, again)) EXCEPT !.wire = @ \cup {Call({q}, {q}) : q \in again}]
  IN IF ~w.store.listening THEN [w EXCEPT !.unheard = w.asked \cap NsQueries]
     ELSE [replayed EXCEPT !.unheard = w.asked \cap NsQueries \cap w.store.asking]

\* cluster:lifecycle of the cluster, delivered in order.
Lifecycle ==
  /\ env.news # <<>>
  /\ env' = [env EXCEPT !.told = Head(env.news), !.news = Tail(@)]
  /\ Become(IF Head(env.news) THEN Operational(World) ELSE World)
  /\ UNCHANGED ops
-----------------------------------------------------------------------------
Views == (\E qs \in SUBSET NsQueries : ViewAsks(qs)) \/ (\E q \in Checks : MenuAsks(q))
Answers == \E c \in wire : Evaluate(c) \/ Return(c)
Timers == RefreshTick \/ (\E q \in NsQueries : StaggerFires(q))

Next ==
  \/ Views \/ Flush
  \/ Answers \/ BackendChanges
  \/ Timers \/ \E q \in Queries : Expire(q)
  \/ \E cluster \in {"none", "this", "other"}, announced \in BOOLEAN : Select(cluster, announced)
  \/ AppEffect \/ SelectionEvent \/ Lifecycle

Spec == Init /\ [][Next]_vars

\* A tick does nothing for queries under way that it need not stagger either.
TickPossible ==
  LET expired == {q \in Queries : store.stamp[q] = "expired"}
      due == expired \cap store.meta
  IN /\ store.timer
     /\ \/ ClusterQuery \in expired \ store.asking
        \/ due \ store.asking # {}
        \/ Cardinality(due) > 1 /\ due \ store.stagger # {}

\* The call that asks for q is evaluated, or its answer delivered.
Answered(q) == \E c \in wire : q \in c.qs /\ (Evaluate(c) \/ Return(c))

\* Calls are answered, timers fire, time passes and events are delivered: weak
\* fairness, with the condition under which each action can change the state in
\* place of ENABLED.
FairSpec ==
  /\ Spec
  /\ []<>~TickPossible \/ []<><<RefreshTick>>_vars
  /\ []<>(env.news = <<>>) \/ []<><<Lifecycle>>_vars
  /\ \A q \in Queries : []<>(\A c \in wire : q \notin c.qs) \/ []<><<Answered(q)>>_vars
  /\ \A q \in NsQueries : []<>(q \notin store.stagger) \/ []<><<StaggerFires(q)>>_vars
  /\ \A q \in Refreshed : []<>(store.stamp[q] # "fresh") \/ []<><<Expire(q)>>_vars
-----------------------------------------------------------------------------
(* Properties.                                                             *)
Entries == [status : {"none", "pending", "error", "ready"}, at : 0..MaxVer]
Maps == [Permissions -> Entries]
Selections == {"none", "this", "other"}
Environments == [up : BOOLEAN, news : Seq(BOOLEAN), told : BOOLEAN, selected : Selections,
                 effect : Selections \X BOOLEAN, ver : 1..MaxVer]
Stores == [results : Maps, asking : SUBSET Queries, stamp : [Queries -> {"none", "fresh", "expired"}],
           meta : SUBSET NsQueries, stagger : SUBSET NsQueries, timer : BOOLEAN,
           current : Selections, listening : BOOLEAN]
CallRecords == [qs : SUBSET Queries, batch : SUBSET Queries,
                outcome : {"sent", "answer", "inactive", "failed"}, at : 0..MaxVer, stale : BOOLEAN]
ViewStates == [map : Maps, read : BOOLEAN, flag : BOOLEAN, handle : BOOLEAN]

\* Every value has its type, and a chunk never passes the limit of a request.
TypeOK ==
  /\ env \in Environments /\ store \in Stores /\ view \in ViewStates
  /\ wire \subseteq CallRecords /\ \A c \in wire : Cardinality(c.qs) <= MaxItems
  /\ asked \subseteq Queries /\ unheard \subseteq asked /\ ops \in 0..MaxOps

\* The calls of the current generation, and those a batch still waits for.
Live == {c \in wire : ~c.stale}
Awaited(c) == UNION {d.qs : d \in {x \in Live : x.batch = c.batch}}

\* "earlier asynchronous work cannot publish or clear new state": a query counts
\* as under way exactly while one call of this generation will end it, however
\* many resets calls outlive; otherwise it would stay pending and never be asked
\* again, or be asked twice.
AskingIsReal ==
  /\ store.asking = UNION {c.qs : c \in Live}
  /\ \A c, d \in Live : c # d => c.qs \cap d.qs = {}

\* Nothing outlives resetPermissionStore: what the store knows, dates, records or
\* will refresh was asked for since.
NothingSurvivesReset ==
  /\ store.asking \cup store.meta \cup store.stagger \subseteq asked
  /\ {q \in Queries : store.stamp[q] # "none"} \subseteq asked
  /\ \A p \in Permissions : store.results[p] # None => \E q \in asked : p \in Covers[q]

\* Listeners are not left behind: the map is what the store knows unless a batch
\* is half answered, and a map they have not read has a notification scheduled.
ListenersFollow ==
  /\ view.map = Rebuilt(store) \/ \E c \in Live : Awaited(c) # c.batch
  /\ view.read \/ view.handle

Announced == env.up /\ env.told /\ env.news = <<>>

\* A namespace query of a cluster announced ready is dated or under way, unless
\* the announcement found nobody listening or the query already under way.
ReadyReplaysInterest ==
  \A q \in (asked \cap NsQueries) \ unheard :
    Announced => store.stamp[q] # "none" \/ q \in store.asking \cup store.stagger

\* While the refresh timer runs and the cluster serves, what is shown of every query
\* that was answered, or whose readiness was heard, converges to the grants,
\* whatever failed and in whatever order answers came back.
GrantsConverge ==
  <>[](store.timer /\ env.up) =>
    <>[](\A q \in Refreshed :
          store.stamp[q] # "none" \/ q \in (asked \cap NsQueries) \ unheard =>
            \A p \in Covers[q] : view.map[p] = Ready(env.ver))
=============================================================================
