--------------------------- MODULE RefreshRuntime ---------------------------
(* The refresh orchestrator and the per-cluster runtime record it drives   *)
(* (frontend/src/core/refresh: orchestrator.ts, refreshRuntime.ts), for    *)
(* one scope of one cluster whose domain has a doorbell stream: its leases,*)
(* polls, snapshot reads, deferred work, pending reconciliation, denial    *)
(* and stream.  The stream manager behind it is reduced to what the module *)
(* ResourceStream shows of it: a subscription that rings for changes.      *)
(*                                                                         *)
(* An event is a turn of its own.  Lease calls and reads come from React   *)
(* effects, several to a turn, so they alone may find the microtasks of an *)
(* earlier call still queued.                                              *)
EXTENDS Naturals, FiniteSets

CONSTANTS
  MaxVer,    \* bound on versions of the cluster's data
  MaxReads,  \* bound on snapshot requests on the wire, aborted ones included
  MaxHolds,  \* bound on overlapping foreground activations
  MaxLeases, \* bound on leases of one kind
  MaxOps     \* bound on calls, events and failures

ASSUME BoundsAssumption == {MaxVer, MaxReads, MaxHolds, MaxLeases, MaxOps} \subseteq Nat \ {0}

VARIABLES
  env,    \* preference, visibility, lifecycle, activation holds, auth state
  rt,     \* the ScopedRefreshState of the scope, and its queued microtasks
  reads,  \* snapshot requests on the wire
  feed,   \* the stream manager's subscription of the scope
  shown,  \* version of the payload in the refresh store, 0 for none
  heard,  \* (history) version at the last signal taken by snapshot demand that has
          \* not ended since, 0 for none
  cut,    \* (history) the scope may have fallen behind its signals and not caught
          \* up since: a signal that met a read under way was not kept for it, or
          \* the read itself was discarded
  ver,    \* version of the cluster's data
  ops     \* calls, events and failures so far

vars == <<env, rt, reads, feed, shown, heard, cut, ver, ops>>
World == [env |-> env, rt |-> rt, reads |-> reads, feed |-> feed, shown |-> shown,
          heard |-> heard, cut |-> cut]

Intents == {"startup", "foreground", "background", "stream-signal", "user"}
Waiting == [intents |-> {}, shared |-> FALSE, query |-> FALSE]

\* getScopeState of a scope nobody has used.
Untracked ==
  [act |-> "untracked", query |-> 0, snapshot |-> 0, resetOnRelease |-> FALSE,
   poll |-> FALSE, owner |-> 0, trailing |-> FALSE, deferred |-> Waiting, recon |-> "clean",
   permission |-> "unknown", blocked |-> FALSE, ready |-> 0, tasks |-> {},
   conn |-> "inactive", cancelled |-> FALSE, retry |-> FALSE]
NoFeed == [sub |-> "none", healthy |-> FALSE, owes |-> FALSE, told |-> 0]

Init ==
  /\ env = [auto |-> TRUE, hidden |-> FALSE, life |-> TRUE, holds |-> 0, auth |-> TRUE]
  /\ rt = Untracked /\ reads = {} /\ feed = NoFeed
  /\ shown = 0 /\ heard = 0 /\ cut = FALSE
  /\ ver = 1 /\ ops = 0
-----------------------------------------------------------------------------
(* What the orchestrator asks of the state.                                *)
Serviceable(w) == w.env.auth /\ w.env.life /\ w.env.holds = 0
IsEnabled(w) == w.rt.act # "disabled"
Leased(w) == w.rt.query + w.rt.snapshot > 0
IntentRuns(w, intent) == w.env.auto \/ intent \in {"foreground", "user"}
PassiveWorkPaused(w) == ~w.env.auto \/ w.env.hidden
Streams(w) == w.env.auto /\ ~w.rt.blocked /\ Serviceable(w)

ResetStore(w) == [w EXCEPT !.shown = 0, !.heard = 0]
-----------------------------------------------------------------------------
(* Snapshot reads.                                                         *)
\* recordPendingClusterReadiness and deferUntilClusterReady: intents merge,
\* and a background poll is not held.
Defer(w, intent, shared, query) ==
  IF intent = "background" THEN w
  ELSE [w EXCEPT !.rt.deferred = [intents |-> @.intents \cup {intent},
          shared |-> @.shared \/ shared, query |-> @.query \/ query]]

\* markReconciliationFailed: the first failure retries at once.
MarkFailed(w) ==
  [w EXCEPT !.rt.recon = IF @ \in {"clean", "pending"} THEN "failed" ELSE "backoff"]
MarkPending(w) == [w EXCEPT !.rt.recon = IF @ = "clean" THEN "pending" ELSE @]

\* Mutation: the request is aborted and keeps the slot.
TeardownAbortOnly(w) ==
  [w EXCEPT !.reads = {IF r.id = w.rt.owner /\ r.aborted = "no" THEN [r EXCEPT !.aborted = "owner"] ELSE r
                       : r \in w.reads}]

\* teardownInFlight: the owner gives the slot up and is aborted; an earlier
\* abort keeps its reason.
Teardown(w) ==
  [w EXCEPT !.rt.owner = 0, !.rt.trailing = FALSE,
     !.reads = {IF r.id = w.rt.owner /\ r.aborted = "no" THEN [r EXCEPT !.aborted = "owner"] ELSE r
                : r \in w.reads}]

BeginFetch(w, intent, shared, polled) ==
  LET id == CHOOSE n \in 1..(MaxReads + 1) : \A r \in w.reads : r.id # n
  IN [w EXCEPT !.rt.owner = id, !.rt.trailing = FALSE,
        !.reads = @ \cup {[id |-> id, intent |-> intent, shared |-> shared, aborted |-> "no",
                           stale |-> FALSE, polled |-> polled, from |-> ver]}]

\* Mutation: a signal that meets a read under way is dropped.
LatchNothing(w) == w

\* latchTrailingStreamSignal.
Latch(w) == [w EXCEPT !.rt.trailing = TRUE]

\* (history) a signal turned away while a read is under way.
Refuse(w, intent) ==
  [w EXCEPT !.cut = @ \/ (intent = "stream-signal" /\ w.rt.owner # 0)]

\* performFetch, with canFetchScope and claimFetchSlot.
PerformFetch(w, intent, shared, polled) ==
  LET replaces == intent = "user" /\ ~shared
  IN IF ~IntentRuns(w, intent) THEN IF intent = "stream-signal" THEN MarkPending(Refuse(w, intent)) ELSE w
     ELSE IF intent # "user" /\ w.rt.recon = "backoff" THEN Refuse(w, intent)
     ELSE IF ~Serviceable(w) THEN Defer(w, intent, shared, FALSE)
     ELSE IF ~IsEnabled(w) THEN ResetStore(w)
     ELSE IF w.rt.owner # 0 /\ ~replaces THEN
            IF intent = "stream-signal" \/ shared THEN Latch(w) ELSE w
     ELSE IF intent # "user" /\ w.rt.permission = "denied" THEN w
     ELSE BeginFetch(Teardown(w), intent, shared, polled)

\* resolveStreamingFetchMode: a healthy stream makes a poll unnecessary.
SkipsRead(w, intent) ==
  /\ Streams(w) /\ w.feed.healthy /\ w.shown # 0
  /\ intent \notin {"user", "stream-signal"} /\ w.rt.recon = "clean"

\* fetchScopedDomain, with reconcileQueryOnlyDemand and reconcileStreamingFetch.
Fetch(w, intent, shared, polled, query) ==
  IF ~Serviceable(w) THEN Defer(w, intent, shared, query)
  ELSE IF query /\ w.rt.query > 0 /\ w.rt.snapshot = 0 THEN w
  ELSE IF Streams(w) /\ intent = "user" /\ ~shared /\ w.rt.conn = "active" THEN
         [w EXCEPT !.feed.owes = TRUE, !.feed.sub = "leased"]
  ELSE IF SkipsRead(w, intent) THEN w
  ELSE PerformFetch(w, intent, shared, polled)

\* reconcileInitialStreamingSnapshot.
InitialSnapshot(w) ==
  IF w.shown = 0 /\ (~Leased(w) \/ w.rt.snapshot > 0)
  THEN PerformFetch(w, "stream-signal", FALSE, FALSE) ELSE w

\* schedulePoll and cancelPoll.
SchedulePoll(w) == [w EXCEPT !.rt.poll = Leased(w) /\ ~PassiveWorkPaused(w)]
-----------------------------------------------------------------------------
(* The stream.                                                             *)
\* scheduleStreamingStart: one microtask, unless one is already awaited.
ScheduleStart(w) ==
  LET task == CHOOSE n \in 1..(MaxOps + 1) : n \notin w.rt.tasks
  IN IF w.rt.ready # 0 THEN w
     ELSE [w EXCEPT !.rt.ready = task, !.rt.tasks = @ \cup {task}]

\* startStreamingScope and resourceStreamManager.start: the manager asks for a
\* resync, which rings once it is answered.
StartStream(w) ==
  IF ~Serviceable(w) \/ ~IsEnabled(w) \/ w.rt.conn # "inactive" THEN w
  ELSE [w EXCEPT !.rt.retry = FALSE,
          !.rt.conn = IF w.rt.blocked THEN @ ELSE "starting",
          !.rt.cancelled = FALSE,
          !.feed = [sub |-> "leased", healthy |-> @.healthy /\ @.sub # "none",
                    owes |-> TRUE, told |-> @.told]]

\* stopStreamingScope: a start in flight is flagged for its continuation; the
\* manager keeps the subscription for a while unless it is reset.
StopStream(w, reset) ==
  LET flagged == [w EXCEPT !.rt.cancelled = w.rt.conn = "starting"]
      stopped == [flagged EXCEPT !.rt.retry = FALSE, !.rt.ready = 0,
                    !.rt.conn = IF @ = "active" THEN "inactive" ELSE @,
                    !.feed = IF @.sub # "leased" THEN @ ELSE
                               IF reset THEN [@ EXCEPT !.sub = "none", !.healthy = FALSE, !.owes = FALSE]
                               ELSE [@ EXCEPT !.sub = "leaving"]]
  IN IF reset THEN ResetStore(stopped) ELSE stopped

\* stopRuntimeStreaming.
StopRuntime(w) ==
  LET quiet == [w EXCEPT !.rt.retry = FALSE]
  IN IF w.rt.conn = "inactive" THEN quiet ELSE StopStream(quiet, FALSE)

\* reconcileScopeStream, for an enabled scope.
ReconcileStream(w) ==
  IF w.rt.act # "enabled" THEN w
  ELSE IF Streams(w) THEN IF w.rt.conn = "inactive" THEN ScheduleStart(w) ELSE w
  ELSE IF w.rt.conn # "inactive" THEN StopStream(w, FALSE)
  ELSE [w EXCEPT !.rt.retry = FALSE]

\* failStreamingStart of the runtime, then the cancellation it leaves.
EndStart(w) == [w EXCEPT !.rt.conn = "inactive", !.rt.cancelled = FALSE]

\* Mutation: a cancelled start does not look at the lease again.
CompleteStartOnce(w) ==
  IF ~IsEnabled(w) \/ w.rt.cancelled THEN EndStart(w)
  ELSE InitialSnapshot([w EXCEPT !.rt.conn = "active", !.rt.retry = FALSE])

\* completeStreamingStart: a cancelled start restarts for a scope enabled again;
\* the continuation of the stop then finds nothing left to tear down.
CompleteStart(w) ==
  IF ~IsEnabled(w) THEN EndStart(w)
  ELSE IF w.rt.cancelled THEN StartStream(EndStart(w))
  ELSE InitialSnapshot([w EXCEPT !.rt.conn = "active", !.rt.retry = FALSE])

\* failStreamingStart: retried on a timer while the scope is leased.
FailStart(w) ==
  [EndStart(w) EXCEPT !.rt.retry = Leased(w), !.feed.sub = "none", !.feed.healthy = FALSE,
                      !.feed.owes = FALSE]
-----------------------------------------------------------------------------
Bounded(w) == Cardinality(w.reads) <= MaxReads
Become(w) ==
  /\ Bounded(w)
  /\ env' = w.env /\ rt' = w.rt /\ reads' = w.reads /\ feed' = w.feed /\ shown' = w.shown
  /\ heard' = w.heard /\ cut' = w.cut

\* A turn of its own: no microtask is queued, and no start unsettled.
OwnTurn == rt.tasks = {} /\ rt.conn # "starting"
CountOp == ops < MaxOps /\ ops' = ops + 1

Call(w) == CountOp /\ Become(w) /\ UNCHANGED ver
Event(w) == OwnTurn /\ CountOp /\ Become(w) /\ UNCHANGED ver
Step(w) == OwnTurn /\ Become(w) /\ UNCHANGED <<ver, ops>>
-----------------------------------------------------------------------------
(* Calls of the views.                                                     *)
\* reconcileStreamingScopeEnabled of a scope that is leased again.
Enable(w, preserve) ==
  LET fresh == [w EXCEPT !.rt.ready = 0]
  IN IF Streams(w) THEN ScheduleStart(IF preserve THEN fresh ELSE ResetStore(fresh))
     ELSE IF w.rt.conn # "inactive" \/ w.rt.ready # 0 THEN StopStream(fresh, FALSE)
     ELSE w

AcquireLease(demand, preserve) ==
  LET held == [World EXCEPT !.rt = [rt EXCEPT !.act = "enabled", ![demand] = @ + 1]]
  IN /\ rt[demand] < MaxLeases
     /\ Call(IF ~Leased(World) THEN SchedulePoll(Enable(held, preserve))
             ELSE IF demand = "snapshot" /\ rt.snapshot = 0 THEN InitialSnapshot(held)
             ELSE held)

\* disableScopedDomain of the last lease: the poll, the stream and the read go.
Disable(w, preserve) ==
  Teardown(StopStream([w EXCEPT !.rt.poll = FALSE, !.rt.act = "disabled",
                                !.rt.resetOnRelease = FALSE], ~preserve))

ReleaseLease(demand, preserve) ==
  LET left == [World EXCEPT !.rt = [rt EXCEPT ![demand] = @ - 1],
                            !.heard = IF demand = "snapshot" /\ rt.snapshot = 1 THEN 0 ELSE @]
  IN /\ rt[demand] > 0
     /\ Call(IF Leased(left) THEN left
             ELSE LET gone == Disable(left, preserve /\ ~rt.resetOnRelease)
                  IN IF rt.resetOnRelease THEN StopStream(gone, TRUE) ELSE gone)

\* resetScopedDomain: deferred while a lease shows the scope.
ResetScope ==
  Call(IF Leased(World) THEN [World EXCEPT !.rt.resetOnRelease = TRUE]
       ELSE IF ~IsEnabled(World) THEN StopStream(World, TRUE)
       ELSE ResetStore(World))

\* requestRefreshDomain and requestRefreshDomainState of the data broker, whose
\* own pause rule comes first.
Read(intent, shared) ==
  /\ Leased(World) /\ IntentRuns(World, intent)
  /\ Call(Fetch(World, intent, shared, FALSE, FALSE))

\* refreshCluster.
RefreshCluster ==
  /\ Leased(World)
  /\ Call(Fetch(World, "user", FALSE, FALSE, TRUE))
-----------------------------------------------------------------------------
(* Microtasks, timers and answers.                                         *)
\* The microtask of scheduleStreamingStart runs even if its schedule was cleared.
InitTask(n) ==
  LET run == [World EXCEPT !.rt.tasks = @ \ {n}, !.rt.ready = IF @ = n THEN 0 ELSE @]
  IN /\ n \in rt.tasks
     /\ Become(IF IsEnabled(World) THEN StartStream(run) ELSE run)
     /\ UNCHANGED <<ver, ops>>

StartSettles ==
  /\ rt.conn = "starting"
  /\ \/ Become(CompleteStart(World)) /\ UNCHANGED ops
     \/ Become(FailStart(World)) /\ CountOp
  /\ UNCHANGED ver

RetryTimer ==
  /\ rt.retry
  /\ LET taken == [World EXCEPT !.rt.retry = FALSE]
     IN Step(IF Leased(World) /\ Streams(World) THEN StartStream(taken) ELSE taken)

BackoffEnds ==
  /\ rt.recon = "backoff"
  /\ Step([World EXCEPT !.rt.recon = "retry"])

\* runPoll, up to the read it waits for.
PollTimer ==
  /\ rt.poll
  /\ LET polled == Fetch([World EXCEPT !.rt.poll = FALSE], "background", FALSE, TRUE, TRUE)
     IN Step(IF polled.reads # reads THEN polled ELSE SchedulePoll(polled))

\* The contract timeout of a poll's read.
Deadline(r) ==
  /\ r.polled /\ r.aborted = "no"
  /\ Event([World EXCEPT !.reads = (@ \ {r}) \cup {[r EXCEPT !.aborted = "deadline"]}])

\* Mutation: an aborted read may still commit.
CanCommitLate(r) == ~r.stale

\* fetchCanCommit.
CanCommit(r) == r.aborted = "no" /\ ~r.stale

\* recordableFailure.
Recordable(r) ==
  CanCommit(r) \/ (r.aborted = "deadline" /\ ~r.stale /\ IsEnabled(World))

\* applyFetchResult and applySnapshot.
Commit(w, v) ==
  IF IsEnabled(w)
  THEN [w EXCEPT !.rt.recon = "clean", !.rt.permission = "allowed", !.shown = v,
                   !.cut = @ /\ v < w.heard]
  ELSE [w EXCEPT !.rt.recon = "clean"]

\* handleFetchFailure: a denial is settled, a cluster not ready is deferred to.
Fail(w, r, why) ==
  IF ~Recordable(r) THEN w
  ELSE IF why = "denied" THEN [w EXCEPT !.rt.permission = "denied", !.rt.recon = "clean"]
  ELSE IF why = "not-ready" THEN Defer(MarkFailed(w), r.intent, r.shared, FALSE)
  ELSE MarkFailed(w)

\* Mutation: any request that ends frees the slot.
FinishAny(w, r) ==
  LET settled == [w EXCEPT !.rt.owner = 0, !.rt.trailing = FALSE]
  IN IF w.rt.trailing /\ ~r.stale
     THEN PerformFetch(settled, "stream-signal", FALSE, FALSE) ELSE settled

\* finishFetch: only the owner frees the slot, and a trailing signal reads again.
Finish(w, r) ==
  LET settled == [w EXCEPT !.rt.owner = 0, !.rt.trailing = FALSE]
  IN IF w.rt.owner # r.id THEN w
     ELSE IF w.rt.trailing /\ ~r.stale THEN PerformFetch(settled, "stream-signal", FALSE, FALSE)
     ELSE settled

\* The end of runPoll: the next poll is armed unless one already is.
Repoll(w, r) == IF r.polled /\ ~w.rt.poll THEN SchedulePoll(w) ELSE w

\* executeFetch once the request is over.
Settle(w, r) == Repoll(Finish([w EXCEPT !.reads = @ \ {r}], r), r)

\* The answer holds the data of some moment since the request left; it may have
\* arrived just before the abort.
Answered(r) ==
  \E v \in r.from..ver : Step(Settle(IF CanCommit(r) THEN Commit(World, v) ELSE World, r))

Failed(r) ==
  /\ r.aborted = "no"
  /\ \E why \in {"error", "denied", "not-ready"} : Event(Settle(Fail(World, r, why), r))

Aborted(r) ==
  /\ r.aborted # "no"
  /\ Step(Settle(Fail(World, r, "aborted"), r))
-----------------------------------------------------------------------------
(* The stream manager.                                                     *)
\* handleStreamSignal: the snapshot leases of the scope read again.
Signal(w) ==
  IF w.rt.snapshot = 0 THEN w
  ELSE Fetch([w EXCEPT !.heard = ver], "stream-signal", FALSE, FALSE, FALSE)

\* A change rings; an answered resync rings for a scope that retains data.
\* A subscription still waiting to be dropped rings too.
Doorbell ==
  /\ feed.sub # "none" /\ feed.healthy /\ (feed.owes \/ feed.told < ver)
  /\ LET rung == [World EXCEPT !.feed.owes = FALSE, !.feed.told = ver]
     IN Step(IF feed.owes /\ shown = 0 THEN rung ELSE Signal(rung))

FeedUp ==
  /\ feed.sub # "none" /\ ~feed.healthy /\ ~env.hidden /\ ~rt.blocked
  /\ Step([World EXCEPT !.feed.healthy = TRUE])

FeedDown ==
  /\ feed.healthy
  /\ Event([World EXCEPT !.feed.healthy = FALSE])

UnsubscribeTimer ==
  /\ feed.sub = "leaving"
  /\ Step([World EXCEPT !.feed.sub = "none", !.feed.healthy = FALSE, !.feed.owes = FALSE])

\* handleResourceStreamPermissionDenied: block, stop, and read at once so that
\* the denial settles the scope.
StreamDenied ==
  /\ feed.sub # "none" /\ ~rt.blocked
  /\ Event(PerformFetch(StopStream([World EXCEPT !.rt.blocked = TRUE, !.feed.healthy = FALSE,
                                     !.feed.owes = FALSE], FALSE), "user", FALSE, FALSE))
-----------------------------------------------------------------------------
(* Events of the cluster and the application.                              *)
\* handleClusterAuthFailed, with clearAsyncStreamingBookkeeping.
AuthFailed ==
  /\ env.auth
  /\ Event(Teardown(StopRuntime([World EXCEPT !.env.auth = FALSE])))

\* clearBlockedStreaming, clearAllStreamHealth, resetPermissionEpoch.
NewEpoch(w) == [w EXCEPT !.rt.blocked = FALSE, !.rt.permission = "unknown"]

AuthRecovered ==
  /\ ~env.auth
  /\ Event(ReconcileStream(NewEpoch([World EXCEPT !.env.auth = TRUE])))

\* handleClusterScopeChanged.
ScopeChanged ==
  LET stopped == Teardown(StopRuntime(IF rt.permission = "denied" THEN ResetStore(World) ELSE World))
      marked == IF rt.act = "untracked" THEN stopped ELSE MarkFailed(stopped)
  IN Event(ReconcileStream(NewEpoch(marked)))

\* strongestIntent of refreshIntent.ts.
Strongest(intents) ==
  IF "user" \in intents THEN "user"
  ELSE IF "stream-signal" \in intents THEN "stream-signal"
  ELSE IF "foreground" \in intents THEN "foreground"
  ELSE "startup"

\* replayDeferredRequest: a cluster still not serving keeps the request held.
Replay(w, held) ==
  LET intents == {i \in held.intents : IntentRuns(w, i)}
  IN IF held.intents = {} \/ ~IsEnabled(w) THEN w
     ELSE IF ~Serviceable(w) THEN [w EXCEPT !.rt.deferred = held]
     ELSE IF intents = {} THEN w
     ELSE LET out == IF "stream-signal" \in intents THEN Refuse(w, "stream-signal") ELSE w
          IN Fetch(out, Strongest(intents), held.shared, FALSE, held.query)

\* handleClusterBecameServiceable.
BecameServiceable(w) ==
  ReconcileStream(Replay([w EXCEPT !.rt.deferred = Waiting], w.rt.deferred))

\* The read under way is held for replay with its intent, and so is its signal.
HeldRead(w) ==
  IF w.rt.owner = 0 \/ ~IsEnabled(w) THEN w
  ELSE LET r == CHOOSE x \in w.reads : x.id = w.rt.owner
           held == Defer(w, r.intent, r.shared, FALSE)
       IN IF w.rt.trailing THEN Defer(held, "stream-signal", FALSE, FALSE) ELSE held

\* beginRequestHold and handleForegroundActivationStarted.
HoldBegins ==
  /\ env.holds < MaxHolds
  /\ LET hold == [World EXCEPT !.env.holds = @ + 1]
     IN Event(IF env.holds > 0 THEN hold ELSE Teardown(HeldRead(StopRuntime(hold))))

HoldEnds ==
  /\ env.holds > 0
  /\ LET freed == [World EXCEPT !.env.holds = @ - 1]
     IN Step(IF env.holds = 1 /\ env.life THEN BecameServiceable(freed) ELSE freed)

\* applyLifecycleState: only the way up is listened to.
LifecycleServes ==
  /\ ~env.life
  /\ LET up == [World EXCEPT !.env.life = TRUE]
     IN Step(IF env.holds = 0 THEN BecameServiceable(up) ELSE up)

LifecycleLost ==
  /\ env.life
  /\ Event([World EXCEPT !.env.life = FALSE])

\* handleKubeconfigSelectionChanged and handleKubeconfigChanged: the context
\* version moves, so no read under way can commit.
SelectionChanged ==
  Event(ReconcileStream([World EXCEPT !.rt.blocked = FALSE,
                           !.cut = cut \/ rt.trailing \/ rt.owner # 0,
                           !.reads = {[r EXCEPT !.stale = TRUE] : r \in reads}]))

\* Everything the runtime knows of the scope is dropped, and so are the
\* subscription and the store.
Forget(w) ==
  ResetStore([Teardown(w) EXCEPT !.rt = Untracked, !.env.auth = TRUE, !.feed = NoFeed, !.cut = FALSE])

\* handleKubeconfigChanging: the selection becomes empty.
KubeconfigChanging ==
  LET w == Forget(World)
  IN Event([w EXCEPT !.reads = {[r EXCEPT !.stale = TRUE] : r \in w.reads}])

\* pruneRemovedClusterRuntimes: polls of the old runtime are not armed again.
Prune ==
  LET w == Forget(World)
  IN Event([w EXCEPT !.reads = {[r EXCEPT !.polled = FALSE, !.stale = TRUE] : r \in w.reads}])

\* handleAutoRefreshChanged.
AutoRefreshChanged ==
  Event(SchedulePoll(ReconcileStream([World EXCEPT !.env.auto = ~@])))

\* setDocumentHidden, and the manager's own suspension: a resumed subscription
\* is resynced.
VisibilityChanged ==
  Event(SchedulePoll([World EXCEPT !.env.hidden = ~@, !.feed.healthy = FALSE,
                        !.feed.owes = @ \/ feed.sub # "none"]))

ClusterChanges ==
  /\ ver < MaxVer
  /\ ver' = ver + 1
  /\ UNCHANGED <<env, rt, reads, feed, shown, heard, cut, ops>>
-----------------------------------------------------------------------------
Calls ==
  \/ \E demand \in {"query", "snapshot"}, preserve \in BOOLEAN :
       AcquireLease(demand, preserve) \/ ReleaseLease(demand, preserve)
  \/ ResetScope
  \/ \E intent \in {"startup", "foreground", "user"}, shared \in BOOLEAN : Read(intent, shared)
  \/ RefreshCluster

\* What the runtime does by itself: microtasks, timers and answers.
Runs ==
  \/ \E n \in rt.tasks : InitTask(n)
  \/ StartSettles
  \/ RetryTimer \/ BackoffEnds \/ PollTimer
  \/ \E r \in reads : Answered(r) \/ Failed(r) \/ Aborted(r)
  \/ Doorbell \/ FeedUp \/ UnsubscribeTimer

Events ==
  \/ \E r \in reads : Deadline(r)
  \/ FeedDown \/ StreamDenied
  \/ AuthFailed \/ AuthRecovered \/ ScopeChanged
  \/ HoldBegins \/ HoldEnds \/ LifecycleServes \/ LifecycleLost
  \/ SelectionChanged \/ KubeconfigChanging \/ Prune
  \/ AutoRefreshChanged \/ VisibilityChanged
  \/ ClusterChanges

Next == Calls \/ Runs \/ Events
Spec == Init /\ [][Next]_vars
-----------------------------------------------------------------------------
(* Properties.                                                             *)
Request == [id : 1..(MaxReads + 1), intent : Intents, shared : BOOLEAN,
            aborted : {"no", "owner", "deadline"}, stale : BOOLEAN, polled : BOOLEAN,
            from : 1..MaxVer]
Held == [intents : SUBSET (Intents \ {"background"}), shared : BOOLEAN, query : BOOLEAN]
Scope == [act : {"untracked", "disabled", "enabled"}, query : 0..MaxLeases, snapshot : 0..MaxLeases,
          resetOnRelease : BOOLEAN, poll : BOOLEAN, owner : 0..(MaxReads + 1), trailing : BOOLEAN,
          deferred : Held,
          recon : {"clean", "pending", "failed", "backoff", "retry"},
          permission : {"unknown", "allowed", "denied"}, blocked : BOOLEAN, ready : 0..(MaxOps + 1),
          tasks : SUBSET (1..(MaxOps + 1)), conn : {"inactive", "starting", "active"},
          cancelled : BOOLEAN, retry : BOOLEAN]

Environments == [auto : BOOLEAN, hidden : BOOLEAN, life : BOOLEAN, holds : 0..MaxHolds, auth : BOOLEAN]
Feeds == [sub : {"none", "leased", "leaving"}, healthy : BOOLEAN, owes : BOOLEAN, told : 0..MaxVer]

\* The state is well formed: a scope is enabled exactly while it is leased, the
\* slot is owned by a live request on the wire (transitionScopedFetchState), and
\* only a slot in use latches a signal.
TypeOK ==
  /\ env \in Environments /\ rt \in Scope /\ reads \subseteq Request /\ feed \in Feeds
  /\ {shown, heard} \subseteq 0..MaxVer /\ ver \in 1..MaxVer /\ ops \in 0..MaxOps
  /\ cut \in BOOLEAN
  /\ rt.act = "enabled" <=> Leased(World)
  /\ rt.owner # 0 => \E r \in reads : r.id = rt.owner /\ r.aborted # "owner"
  /\ rt.trailing => rt.owner # 0
  /\ \A q, r \in reads : q.id = r.id => q = r

\* Nothing but the stream will make the scope read again: it has snapshot
\* demand and data, so that polls are skipped, its stream delivers, and nothing
\* is pending, deferred or refused.
Standing ==
  /\ shown # 0 /\ Streams(World) /\ ~env.hidden /\ rt.snapshot > 0 /\ rt.permission # "denied"
  /\ rt.conn = "active" /\ feed.healthy /\ ~feed.owes
  /\ rt.recon = "clean" /\ rt.deferred = Waiting
Quiet == Standing /\ rt.owner = 0 /\ rt.tasks = {}

\* A scope at rest shows data at least as new as the last signal it took, unless
\* that signal found a read under way and was turned away (backoff, pause) or its
\* read was discarded by a selection change (latchTrailingStreamSignal, the deferred
\* intents and pending reconciliation between them lose no signal).
QuietMeansFresh == Quiet /\ ~cut => shown >= heard

\* "Active subscriptions always equal the leased streaming scopes": a stream is
\* active only for a leased scope that may stream (a lost lifecycle has no
\* listener), and between turns a scope that should stream does, or retries.
StreamFollowsDemand ==
  /\ rt.conn = "active" =>
       /\ Leased(World) /\ feed.sub = "leased"
       /\ env.auto /\ ~rt.blocked /\ env.auth /\ env.holds = 0
  /\ OwnTurn /\ Leased(World) /\ Streams(World) => rt.conn = "active" \/ rt.retry

\* The reads of the scope keep the promise of FetchSlot: "only the owning request
\* may settle or cancel, and repeated signals latch one trailing fetch"; a latched
\* signal ends in a fresh read, or the scope stays pending, deferred or refused.
Slot == INSTANCE FetchSlot WITH
  Ids <- 1..(MaxReads + 1),
  slot <- {rt.owner} \ {0},
  late <- rt.trailing,
  wire <- {[id |-> r.id, from |-> r.from, live |-> CanCommit(r)] : r \in reads},
  resting <- Standing /\ ~cut
ImplementsFetchSlot == Slot!Spec

\* A payload is never replaced by an older one: only the owner of the slot
\* commits, whatever requests still answer (fetchCanCommit).
NeverOlder == [][shown' >= shown \/ shown' = 0]_vars
=============================================================================
