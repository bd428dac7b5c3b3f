# A verification project for Luxury Yacht

Luxury Yacht is a desktop Kubernetes client: a Go backend (`backend/`,
`internal/`) owns cluster connections, refresh data and windows; a TypeScript
frontend renders them, one renderer per native window. This directory holds
TLA+ models of the parts whose correctness depends on the order in which
goroutines, callbacks, requests and renderers act, the TLC runs that check
them on small instances, and TLAPS proofs that hold for every instance.

## 1. The system

### Components, their state and how they interact

| component | state | operations | hard behaviour |
|---|---|---|---|
| Authentication state manager (`backend/internal/authstate`) | verdict (valid, recovering, invalid), countdown, the context of the recovery goroutine | report a failure or a success, retry, shut down; the recovery loop waits, probes, settles | superseded loops overlap their successor; probe results arrive late; shutdown waits for loops |
| Cluster selection (`backend/workspace_*.go`, `kubeconfig_selection_coordinator.go`) | tabs per window, panel references, the process selection, generation counter, client pool | apply tabs, close a view, release a window, stage/commit/cancel a move, open and close panels, transport rebuild, kubeconfig change | one serialized slot, lock-free fast paths beside it, preemption of connection work, decisions on stale snapshots |
| Panel workspace directory (`internal/panelwindow/workspace*.go`) | panels with their place, pending transfers, reservations | open, publish, close, retain, remove, begin/commit/cancel a move | renderers act on old snapshots; panels are deleted while moving |
| Window registry (`internal/appwindow`) | live windows, native panel windows, transfer handshakes with timeouts | create, close, request/accept/acknowledge transfers | a timeout races a late acknowledgement; a window dies during a handshake |
| Cluster lifecycle and runtime (`backend/cluster_*.go`) | lifecycle state and slow timer per cluster, heartbeat, clients, runtime intents, operations | connect, load, retire, publish intents | timers of an earlier load; coalesced intents |
| Resource stream (`backend/refresh/resourcestream`, `streammux`; `frontend/src/core/refresh/streaming`) | per scope: sequence number, resume buffer, subscribers; in the client: subscription phase, resume token, pending signals, the socket | subscribe, resume, deliver a change, reset, complete; lose the socket, hide and show the window | resume after a lost connection, full queues at three places, a manager replaced under a session |
| Refresh orchestrator and runtime (`orchestrator.ts`, `refreshRuntime.ts`) | per scope: leases, the fetch slot, the latched signal, deferred intents, reconciliation, denial, the stream | acquire and release leases, poll, read, take a signal, pause and resume, retry | a signal during a read, a late answer after a newer one, pauses and cluster events between microtasks |
| Metrics demand (`metricsDemandState.ts`, `refresh_aggregate_metrics.go`) | each window's wanted and acknowledged set, one set in the backend | change, post, retry with backoff, restart the service | lost and late answers, a change while a post is out, several windows |
| Permission store (`permissionStore.ts`) | answers, queries under way, dates, refresh and stagger timers, the public map | query a namespace, the cluster or one action, refresh, reset on selection change, replay on readiness | answers of an earlier generation, requests split in chunks, a cluster that is not ready |
| YAML editing (`yamlTransaction.ts`, `YamlTab.tsx`, `object_yaml_*.go`) | draft, baseline, remembered saves, overrides of the live text; the object | edit, merge, save, confirm ownership, verify, choose on drift | every handler uses state read before an await; others write or recreate the object meanwhile |
| Refresh generations and job queues (`backend/refresh_*.go`) | generations, admission, jobs | build, retire, enqueue | retirement under readers |
| Application updates, node maintenance, port forwards, shells, logs | job and session stores | start, cancel, complete, recover | long I/O with late results; a persisted update state |
| Settings, favourites, object catalog, views | preference files, caches, derived data | read, write, transform | little: sequential, or data without control |

The selection owns the clusters: a window's tabs and the shared panel reference
of a cluster (`panel-workspace:<cluster>`) make up the selection; each selected
cluster has a client, whose transport reports to its authentication manager.
Opening a panel reserves its cluster in the directory, retains it in the
selection and then places the panel; losing the last reference releases it.
Removing a cluster removes its panels and voids the reservations. The manager
and the transport failure counter publish intents, which re-enter the selection
queue as mutations. In a window, views lease scopes from the refresh
orchestrator; it reads snapshots over HTTP and holds a subscription of the
resource stream, whose frames carry no data and only say that something changed.
The orchestrator posts the clusters whose metrics its leases need. The YAML tab
watches its object through such a scope and writes it through the gateway;
the permission store decides which actions a view offers.

`PROJECT.json` lists every component with its status, and under `hazards` what
is hard to test in each part, at the line where it bites.

### What makes each part correct

- Authentication: a cluster that is not valid is being recovered by exactly one
  live loop; nothing a superseded loop does changes the verdict; failures end
  once the cluster answers; shutdown returns and leaves no goroutine.
- Selection: between mutations it is the union of its owners, unless the last
  change of ownership was kept and its union refused; no other connection is
  kept for nobody and no owner is left without one; every command ends.
- Directory: an object is shown once; transfers and marks agree; a closed panel
  does not come back; a moving panel is nobody else's.
- Stream: a scope reported healthy, for which polling is off, is subscribed in the
  backend or about to be; no loss, refusal, overflow or replaced manager leaves data
  stale behind a healthy stream, unless the client holds a sequence of a hub that
  was dropped, or shows the answer of a first read that missed the initial RESET.
- Runtime: only the owner of the fetch slot commits; a payload never goes back;
  the stream runs exactly for leased scopes; no signal is lost.
- Metrics demand: sets arrive in order, and the last one is acknowledged.
- Permission store: nothing of an older generation survives a reset; listeners
  and interests are not forgotten; what is shown converges to the grants.
- YAML editing: a save changes only what the user typed or chose, a merge keeps
  every edit made before the click (what is typed while it is out is replaced by
  its result), and the editor is always released.
- Planned parts: see section 6.

## 2. Modules

| module | models | role |
|---|---|---|
| `AuthState`, `MCAuthState`, `AuthStateProofs` | authentication manager and transport | specification, TLC values, proofs |
| `WorkspaceSelection`, `MCWorkspaceSelection`, `WorkspaceSelectionProofs` | selection, its queue, panel references, client pool | the same |
| `WorkspaceDirectory`, `MCWorkspaceDirectory`, `WorkspaceDirectoryProofs` | panel directory and transfers | the same |
| `ResourceStream`, `MCResourceStream`, `ResourceStreamProofs` | one scope of the stream: client, wire, session, hub | specification, TLC values, proofs |
| `FetchSlot` | what the runtime promises of the reads of a scope | abstract specification |
| `RefreshRuntime`, `MCRefreshRuntime`, `RefreshRuntimeProofs` | orchestrator and runtime record of one scope | detailed specification, which implements `FetchSlot`; TLC values, proofs of both |
| `MetricsDemand`, `MCMetricsDemand`, `MetricsDemandProofs` | windows, their posts, the controller | specification, TLC values, proofs |
| `PermissionStore`, `MCPermissionStore`, `PermissionStoreProofs` | permission store of a window, for one cluster | specification, TLC values, proofs |
| `YamlEdit`, `MCYamlEdit`, `YamlEditProofs` | an edit session against an object others write | specification, TLC values, proofs |

`PROJECT.json` maps each definition to the lines it stands for. A definition
whose comment starts with "Mutation:" is a plausible bug of the definition after
it and is no part of the specification: each checked property comes with one
that breaks it.

### AuthState

`state`, `reason`, `secondsUntilRetry`, `lastProbeClass`, `stopped` and
`recoveryCancel` are the fields of `Manager`; `recoveryCancel` names the
goroutine whose context it cancels. A recovery goroutine is a record in `loops`:
its program counter between two critical sections of `m.mu`, its countdown, its
count of rejections and whether its context is cancelled. A cancelled loop runs
on until it next looks, so two loops interleave. `requests` are calls inside
`RoundTrip`, split at the unlocked network call. `world` is how the cluster
answers. External reports, retries and shutdown may happen at any time.
Diagnostics are reduced to who produced them. Delays are counted in ticks.

### WorkspaceSelection

A goroutine that runs one command is a record in `task`; its `pc` says which
critical section comes next: before the slot (`PreLock`), inside it (`InLock`,
while `holder` is the task) or outside it (`OffLock`, the panel path). Every
lock and unlock of `workspaceSelectionsMu`, `selectionGenCtxMu`, the directory and
the cluster runtime between which another goroutine can run separates two
actions. `gen`, `active` and `cancelled` are the selection generation and the
context it cancels. `available` is what the last discovery found; a selected
cluster may be missing from it, since the watcher keeps a cluster whose file is
unreadable for the moment. `normalizeSelectionSet` then refuses every other union
with that cluster (`Refuses`), and it is asked after the change of ownership: only
`CommitClose` takes its change back. `refused` is history: ownership was changed
and the selection did not follow, which the next accepted selection makes good
for. A connection attempt fails and says so, sees its context cancelled, or runs
out of time before it is admitted, which nothing reports (`late`). A selection string and its cluster ID are one value. The
directory is reduced to "the cluster has a panel" and the live reservations;
`WorkspaceDirectory` models it in full. A discovery that `GetKubeconfigs` makes
outside the slot, while nothing is available at all, is left to the next command
that discovers. Left out: publication to the refresh
subsystem, persisting the selection, references of native panel windows,
startup connection and the shutdown drain.

### WorkspaceDirectory

Every method holds `d.mu` throughout, so a method is one action; a call that
returns an error, or finds nothing to do, is a stuttering step. A panel is a
record of presence, object, location, transfer mark and target; an absent key
has the zero panel a Go map lookup returns, which matters because commit and
cancel write back what they look up. Since several callers hold reservations a
caller's handle (`handles`) and its validity (`live`) are separate: removing a
cluster voids the reservation while the caller still holds the handle.
A publication may list panels that are not (or no longer) the renderer's; only
the ones taken over (`A`) have an effect, so the positions `at` of these need
not be contiguous. Left out: tab contents, the active tab, the revision number
and the callbacks made after the lock is released. The callers' checks that
restrict inputs are noted at the action: a panel opens in the right dock or in
its native window, and a panel window is never its own target.

### ResourceStream

Both ends of one scope and the wire between them. `sub` is the client's
subscription with its protocol state (`phase`, resume sequence `seq`, queued
signals `pending`, `trailing` resync); `conn`, `outbox` and `hidden` are the
connection object, its unsent messages and the visibility controller. `up` and
`down` are the frames on the wire, in order; a loss of the socket drops both.
`srv` is the session that serves the socket, with its bounded outgoing queue
and its subscriber channel; `hub` is the manager's sequence and resume ring of
the scope. `oldSub` is a subscription that a dead session has not dropped yet,
`otherSub` one of another window: both keep the hub alive when the client is
gone. A frame carries a sequence and a clock token. A timer or an event of the
client, and a step of a goroutine of the session, is one action. `read` is the
first read of a scope without data, an HTTP request that overlaps everything else:
it is out, the initial RESET came meanwhile and emitted nothing because no data
was retained (`missed`), or it was then stored although it is older than the
cluster (`kept`). Its answer is of any version between the start of the read and
the moment it is stored; a signal in between is followed by a second read
(`Refetched`), which makes good for it. `told` and
`sub.at` are history: which version of the cluster the client last signalled or
read, and of which change its sequence is the number. While a hub lives it numbers
every change, so the two ends count alike exactly when `Continuous` holds: when
the client's sequence is one of the hub as it is now. Left out: the informers
behind the hub, health reports and notices, the reads that a signal starts once
data are retained (`RefreshRuntime` models them), and all other scopes but for the
fact that they keep the socket open (`KeepsSocket`).

### RefreshRuntime and FetchSlot

`rt` is the `ScopedRefreshState` of one scope: activation, query and snapshot
leases, the owner of the fetch slot and its latched signal, deferred intents,
pending reconciliation, denial, the stream, and `tasks`, the microtasks that
calls have queued. `reads` are the requests on the wire, aborted ones too, which
may still answer. `env` is what the orchestrator reacts to: the refresh
preference, visibility, the cluster's lifecycle and authentication, and
foreground activations. `feed` is what `ResourceStream` shows of the stream
manager: a subscription that rings for changes. An action is a JavaScript turn;
lease calls and reads, several of which React runs in one turn, may find earlier
microtasks still queued. `heard` and `cut` are history: the version at the last
signal that snapshot demand took, and whether the code has knowingly given up a
signal. `heard` returns to 0 when the last snapshot lease goes, because a later
one starts from what is shown and reads for itself; with more calls than the run
allows, `QuietMeansFresh` would otherwise blame a scope for a signal nobody it
serves had asked for.

`FetchSlot` is the promise with every reason to read left out: one owner, only
its answer is shown, only its end frees the slot, and a latched signal ends in a
fresh read unless the scope is remembered as pending elsewhere.
`ImplementsFetchSlot` maps the slot to `rt.owner`, the latch to `rt.trailing`
and the wire to `reads`, a request being able to commit when nothing aborted it.

### MetricsDemand

`md` is `metricsDemandState` of each window, `demand` the set its leases call
for, `wire` its posts, each sent, applied or refused, possibly orphaned when the
window gave it up; `demanded` is the set the controller retains, replaced by
each post of any window and lost with the refresh service. What is polled is
another matter and not modelled: a `DemandPoller` goes on while snapshot reads
touch it, and a cluster that is no longer demanded only starts its idle stop. Retry
delays are counted, not timed.

### PermissionStore

`store` holds the maps of `permissionStore.ts`: results, queries under way,
dates, recorded interests and timers. `wire` are `QueryPermissions` calls, one
per chunk of a batch; a call of an earlier generation is `stale`. `view` is the
public map, whether listeners have read it and the scheduled notification. A
query stands for its key; `Covers` says which permissions it asks for, so that
two queries may answer the same one. `env` holds the cluster's readiness, the
events about it still on their way, the selection and the version of the grants.

### YamlEdit

A YAML text is reduced to the object's uid, its resourceVersion and the value of
each editable field; the semantic compare drops the first two. `ed` is the state
of `useYamlTransaction`, `live` the object, `watched` the snapshot the tab
watches and `read` the read that refreshes it. A merge or a save is a call with
a program counter: what its handler uses after an await is what it read at the
click and travels in the call. The gateway's steps (ownership check, apply,
patch) are separate actions, so others can write or recreate the object between
them, and each may fail or lose its answer after taking effect. React effects
run to their fixpoint after every handler (`Settle`). `authored` records what
the user typed or chose. Left out: notices, lint, drafts that do not parse,
loss of the scope or of the right to edit, placement in named lists and
managedFields.

## 3. Runs

### Passing

- `auth_recovery`: two loop identities, a request in flight, one user retry,
  two changes of the cluster's behaviour, two attempts. `RecoveryOwned`,
  `OneRecovery` and `NoStrayRecovery` say that exactly one live loop exists
  while there is something to recover; `ShutdownQuiescent` that none is left
  after shutdown; `StaleLoopsInert` and `SettledByRejections` that only the
  owning loop changes the verdict, after that many rejections;
  `Recovers` and `ShutdownTerminates` are the liveness part.
- `selection_union`: two windows, two clusters, any two commands among tab changes,
  closes, releases, panels opening and closing, kubeconfig and search-path changes,
  after which a selected cluster may be unavailable; no window appears for the
  first time. `SelectionIsUnion`, unless the last change of ownership was refused;
  `UncancelledWorkSettles` of work that nobody cancelled.
- `selection_live`: any two commands of all kinds around one cluster and its
  panels, with windows appearing and closing and a kubeconfig change.
  `SelectedIsOwned`: no cluster is selected for nobody. With one cluster no union
  is refused (the only other one is empty), so here it holds without exception; the
  theorem has both;
  `PanelKeepsReference`: an open panel, or an admitted open, loses the reference
  that keeps its cluster selected only where a prune removes the panel too, or by
  a release whose look at the directory came before the open, and then a window
  still shows the cluster; `CommandsEnd`.
- `directory_moves`: two app windows, a native panel window, two panels, two
  objects, two transfers. `TransfersAgree`, `OneObjectOnePanel`,
  `OnlyOpenCreates`, `MovingStaysPut`.
- `stream_faults`: small queues, a second window, a replaceable manager, a socket
  another scope keeps, a lost or refused connection and every lifecycle call.
  `ConfirmedMeansSubscribed`: what the client reports healthy has a live
  subscription, or a frame, timer or dead socket that will subscribe it again.
  `QuietMeansCurrent`: once nothing is under way, a healthy scope has signalled
  or read the newest change. Two kinds of client are excluded and can be stale, as
  told below: one whose sequence is not `Continuous`, and one that shows the answer
  of a first read that missed the initial RESET (`kept`).
- `stream_live`: resume with replay, expired tokens and lagging subscribers.
  `EveryChangeIsSignalled`: every change reaches a leased, visible scope that is
  not blocked, with the same two exceptions. It has neither a replaced manager nor a
  socket another scope keeps.
- `runtime_scope`: every order of four calls and events. `QuietMeansFresh`: a
  scope at rest shows at least what the last signal it took announced;
  `StreamFollowsDemand`: the stream runs for the leased scope and for no other;
  `NeverOlder`; `ImplementsFetchSlot`, the refinement.
- `metrics_demand`: two windows, lost, refused and late answers, restarts of the
  service. `SentInOrder`, `NothingForgotten`, `DemandAcknowledged`.
- `perm_store`: two namespace queries, the cluster query and a single check
  that shares a permission with one of them, one query per request, while the
  grants change. `AskingIsReal`: a query is
  under way exactly while one call of this generation will end it;
  `NothingSurvivesReset`, `ListenersFollow`, `ReadyReplaysInterest`,
  `GrantsConverge`.
- `yaml_edit`: one object, two fields, others writing and recreating it, two
  merges or saves. `SaveKeepsOthers`: a save changes in the object only what
  the user typed or chose; `MergeKeepsEdits`; `SavingEnds`: the editor is
  never left disabled; `ConflictNotOutdated`: the draft is never compared
  with an object older than the one a conflict brought.

### Violations: what a comment or document says and the code does not keep

- `selection_refused`: a window is released while another owner keeps a cluster
  that discovery does not find at the moment. Its tabs are gone, the remaining
  union is refused, and its cluster stays selected for nobody, although
  docs/architecture/application-lifecycle.md says that the selection is the union
  of app views and panel references.
- `yaml_drift`: after Reload & Merge, a remote change that comes before the
  refresh is answered leaves the override of the live text in place for good:
  later remote changes are not shown, although the comment says that drift
  shows right away.

A resume token is a bare number: it does not say which hub issued it, and the
numbering starts again when the last subscriber leaves (`clearScopeStateLocked`)
or the manager is replaced. A client at sequence 1 loses its socket, and as the
last subscriber its hub; it asks to resume from 1 and is reset, but that socket is
lost too, before the RESET arrives, while its session still holds a subscription
of the new hub; the next change is numbered 1 there. The third connection asks to
resume from 1 once more, `Since` finds `sequence >= latest`, and the client is
resumed with an empty replay: healthy, quiet and stale until the next change. The
data it shows are reused without a read, which
docs/architecture/data-freshness.md:181-185 allows when the server has replayed
what was missed. It takes two losses, or a replaced manager, or a late frame of an
earlier subscription on a shared socket.

The other way to be stale is the first read. A stream that starts for a scope
without data reads one snapshot (`reconcileInitialStreamingSnapshot`), and the
subscription may be served after that snapshot was built. A change in between is
numbered for nobody; the initial RESET speaks of it, but while no data are retained
it emits nothing, and the older answer is then stored: healthy, quiet and stale
until the next signal. docs/architecture/data-freshness.md:89-96 names this race and
closes it for query demand, whose page is read after the acknowledgement; snapshot
demand has no such read. The answer is never older than the start of the read, as
the backend invalidates its snapshots before it delivers a change.
`QuietMeansCurrent` therefore says which client it speaks of, and section 4 proves
that there is no third way.

The models reach other states that a reader may not expect: a 2xx that makes a
cluster valid without a probe, a tab left connecting because a second window
cancelled its work, a rebuild dropped from the queue with its mark still set, a
panel reference deleted under a new panel, a window that adopts a selection
being replaced, a gap in tab positions. The deleted reference goes further than two
commands show. A queued release finds no panel; an open is admitted, retains the
reference it finds and places its panel; the release deletes that reference.
Later the window moves to another cluster and the synchronization of the client
pool, which would prune the panel, is skipped because a search-path change has
taken a newer generation: with these five commands a panel stays open on a cluster
that is no longer selected. `NoPanelOutlivesCluster` states that this does not
happen; it is no property of a run, and `PanelsGoWithClusters` (section 4) proves
which two races it takes to break it. The properties above are stated so as
not to claim the opposite, and `hazards` describes those that matter, at
their lines.

### Bounds, and why they are enough

Two loops are what it takes for a superseded loop to overlap its successor;
identities are reused, so a run has more than two in sequence. `MaxRetries` and
`MaxWorldChanges` keep the run finite; two changes allow a cluster to fail and
come back. The races of the selection are between two commands; the slot admits
one, so a third task adds a waiting one; what takes longer histories is left to the
proofs, and section 3 tells of one such history. Two windows and two clusters let tabs be
shared and removed independently, and let a union be refused for the cluster that
another window keeps; panel races and moves concern one cluster, which is all that
`selection_live` has. A task
runs one command, and `Init` ranges over the settled states such commands start
from, so a run covers any two overlapping commands in a longer history. In the
directory two panels, two objects and two transfers give overlapping moves,
receiving groups and an object known under another ID; `MaxIndex` bounds
positions, which otherwise grow with each commit until a renderer republishes,
and is checked where positions are produced.

`stream_faults` has a subscriber channel and a pending queue of one entry, so that
the second of two changes overflows each of them, an outgoing queue of three
frames, so that a session can fall behind, and a ring of two, so that a resume
replays; one fault and two lifecycle calls reach a loss during a resume and a stop
during a resync; the first read may be out across any of them. The proofs show that
more of each changes nothing.
`stream_live` has an outgoing queue no run fills. Both runs
are about domains that declare an object clock: in others the client does not
hear a RESET. In `runtime_scope` two
requests let an answer arrive after a newer read began, and four events are a
lease, a signal, a disturbance and its end. `metrics_demand` has two
windows with every set of two clusters; delays of one to three ticks reach the
limit without being a multiple of it. In `perm_store` one query per request
splits every batch, and two operations are two overlapping queries, or a query and
a failure or reset. The change of the grants does not count as an operation, so
between the answers of two overlapping queries it may happen too: the older answer
then returns last and replaces the newer one, until the refresh.
`yaml_edit` has two fields (one edited, one others write, or both the same), three
values (the original, the user's, another client's), three resourceVersions, so
that the object changes twice, one recreation, two calls and four edits.

Symmetry is used for windows, clusters, tasks, panels, objects, transfers and
fields, which no formula tells apart, and in no run with a liveness property.

`CHECK_DEADLOCK FALSE` is set where the commands of a run simply end
(selection), the manager is shut down (authentication), or a quiet window waits
for a user, a change or a fault whose bound is used up (the other modules but the
directory, whose run checks deadlock).

### Fairness

- `AuthState`: weak fairness of each recovery goroutine and of the return of
  `wg.Wait`: goroutines are scheduled and a probe has a request timeout. Nothing
  is assumed of requests, users, reporters or the cluster; `Recovers` is
  conditional on the cluster staying reachable with good credentials.
- `WorkspaceSelection`: strong fairness of the steps before and outside the slot,
  since a goroutine waiting for `selectionMutationMu` may be overtaken
  while it waits but a Go mutex hands itself to a waiter that starves; weak fairness of the steps
  inside the slot, whose network calls have timeouts or a context.
- `ResourceStream`: weak fairness of the client's turns (timers, the event loop,
  reconnection, delivery of frames, the notice that a socket is dead) and of the
  session's goroutines. No call, change or fault has to happen, and no read has
  to end: `EveryChangeIsSignalled` speaks of scopes with data.
- `MetricsDemand`: weak fairness of the backend's answers, of their delivery to
  each window and of its retry timer. The client sets no timeout on a post; that
  each is answered or refused rests on the server, which is the same process on the
  loopback interface and whose handler waits for nothing but a lock. That the
  service stays up is a premise of the property.
- `PermissionStore`: weak fairness of each query's call, of the refresh and
  stagger timers, of the expiry of answers and of the delivery of lifecycle
  events. Each is written with the condition under which the action changes the
  state in place of `ENABLED` (the same thing, and quicker to check). That the timer
  runs and the cluster serves is a premise.

## 4. Theorems

All are for every value of the constants, under the named assumptions
(`AuthConstants`, `SelectionConstants`, `DirectoryConstants`, `DelayAssumption`
and `BoundAssumption`, `ConstAssumption` and `NilAssumption`, `QueriesAssumption`,
`DomainsAssumption` and `FlagsAssumption`, and the three called
`BoundsAssumption`), which only say that the constants have
their type, that finite sets are finite, that bounds are natural numbers, that
delays are ordered and that "none" values are distinct.

- `AuthStateProofs`: `RecoveryInvariant`, and from it `TypeCorrect`,
  `RecoveryNeverAbandoned`, `OneLoopAtATime`, `ValidIsUndisturbed` and
  `ShutdownComplete`. `RecoveryOwned` alone is not
  inductive: a step of a stray live loop could clear the owner, so `OneRecovery`
  and `NoStrayRecovery` are needed; `StoppedByShutdown` ties the flag that stops
  new loops to the shutdown, and `CountdownPositive` keeps the countdown a
  natural number. `StaleLoopsNeverDecide` and `VerdictNeedsRejections` are about
  steps; the second needs `SettleCounted` as well, which ties a loop that is
  about to settle to the number of rejections it has counted.
- `WorkspaceSelectionProofs`: `OwnershipInvariant`, and from it `TypeCorrect`
  and `SelectedAlwaysOwned`. `SelectedIsOwned` speaks of a free slot; the
  invariant says what holds inside it. A mutation about to replace the
  selection holds the slot alone (`SlotExclusive`) and has only owned clusters in its
  plan (`PlanIsOwned`); in every other state the selection is owned
  (`SettledIsOwned`), unless a change of ownership was kept and its selection
  refused. A prune keeps what was selected, so its plan is owned only if nothing was
  refused; a close that is refused restores the tabs under the same lock. `UntrackedOwnsNothing` is needed when a first-seen window
  adopts the selection, `MovesElsewhere` when a tab moves.
  `SelectionUnion` adds the other direction: whoever is about to replace the
  selection has every owner in its plan (`PlanCoversOwners`), since outside the
  slot a reference is added only for a cluster that is owned already. It is proved
  of the behaviours in which no window is first observed while a replacement is
  under way (`AdoptsWhenSettled`): such a window is seeded with the selection
  being replaced. That and a refused change of ownership, which the property itself
  excludes until the next accepted one, are the only ways to miss the union.
  `KnownWindowsUnion` is the case without that command, the one `selection_union`
  checks, for the specification alone. `PanelsKeepReferences` needs an invariant of the queued release
  (`DropIsClaimed`): if the directory needs the cluster again before the delete,
  an open was admitted meanwhile, and its window cannot lose the tab while the
  release holds the slot. `PanelsGoWithClusters` proves `NoPanelOutlivesCluster`
  of the behaviours without the two races that can break it, by
  `AdoptsWhenSettled` and `DeletesOnlyUnused` (no reference is deleted that the
  directory needs at that moment). `WorkSettlesPool` has
  `UncancelledWorkSettles` for all behaviours: generations are unique and the
  command inside the slot has the newest of those still under way
  (`GenerationInv`), so while a command keeps the newest generation nobody else
  changes the selection, the clients or their state, and `WorkInv` follows the work
  step by step.
- `WorkspaceDirectoryProofs`: `DirectoryInvariant`, and from it `TypeCorrect`,
  `TransfersAlwaysAgree` and `ObjectsClaimedOnce`. The three conjuncts need one
  another: ending a move keeps objects unique because `TransfersAgree` says that
  the panels it writes back are open ones, and keeps the types because a marked
  panel has a valid target. The lemmas `DeleteStep`, `PlacementStep`,
  `RecordStep` and `EndStep` cover the four ways an action changes the directory. From
  the same invariant, `ClosedPanelsStayClosed` and `MovesAreExclusive`: an end of
  a move writes back only panels that are marked, and a marked panel is open.

- `ResourceStreamProofs`: `BaseInvariant`, which gives `TypeCorrect` for every
  domain, and `StreamInvariant`, which adds what holds of domains with an object
  clock and gives `ConfirmedIsSubscribed` and `QuietIsCurrent`, for any buffer
  sizes and any number of changes, faults and calls. The base says how the two
  ends are wired: an unsent or unserved queue ends with a request for a scope that
  exists, a request to resume is alone on the wire and has the client's number
  (`Resuming`), and the ring holds the last changes without a gap (`Ringed`). From
  that a lemma on `Since` says that a replay is exactly what comes after the token.
  `ConfirmedMeansSubscribed` is not inductive: a frame it relies on is consumed, so
  the invariant must say who answers next. `Answered`: a client that expects a
  RESET is about to get one, or a refusal. `Served`: a subscription that does not
  deliver has announced its end, by a frame other than the RESET that is expected,
  since the client takes that one for the answer to its request. For
  `QuietMeansCurrent`, `Signalled` says that the client has signalled
  what it has counted, and `Announced` that what it has not counted is coming, in
  a frame with a higher number or one that makes it subscribe again; a change still in
  the session's channel must also pass what a replay on its way brings the
  client to (`Reached`). A client without data is told by its read: while one is
  out, a change it may not contain is still announced; a payload that has missed a
  RESET, held or still being read, is not claimed to be followed (`Following`) until
  the next signal.
- `RefreshRuntimeProofs`: `RuntimeInvariant`, and from it `TypeCorrect`,
  `StreamMatchesDemand`, `SignalsAreKept`, `PayloadNeverOlder` and
  `SlotRefinement`, for any number of requests, calls and versions. A turn runs
  several methods of the orchestrator on one record, so each method is a function
  from a world (the scope, its requests, its stream, what it reacts to) to the
  next, a lemma says what it does to the invariant, and the lemma of an action
  strings these together. The invariant of a world has three parts. `Slotted`:
  identities name requests, only the owner may commit and brings nothing older
  than what is shown, and an owner is on the wire. `Streaming`: who is to bring
  the stream up is a microtask, a start under way or a retry, and an active
  stream has every reason to be. `Remembered`: a signal newer than the data shown
  is pending, deferred, refused or latched, or the stream owes another, or the
  read under way left after it; and a read that left before it is followed by
  another. The first clause of `Remembered` is `QuietMeansFresh` without the
  rest; alone it is not inductive, because a read that left before the signal may
  succeed and clear what was pending, which is what the second clause rules out.
  For the refinement the lemma of each action also says which move the slot makes
  (`Wilts`, `Yields`, `Latches`, `Begins`, and for a request that ends
  `EndsOther`, `Closes` or a read that follows); each move is an action of
  `FetchSlot` under the mapping. The end of the module is about `FetchSlot` alone,
  in any system that keeps its promise (`Any`): `OwnerSafety` and, from it,
  `SlotNeverOlder`. That nothing older is shown follows from two facts that need
  one another: only the owner of the slot can still commit, and the owner left no
  earlier than what is shown.
- `PermissionStoreProofs`: `StoreInvariant`, and from it `TypeCorrect`,
  `UnderWayIsReal`, `ResetIsFinal`, `ListenersAreTold` and `ReadinessIsReplayed`,
  for any queries, permissions and request size. A batch is split over several
  calls that end one by one and are shown when the last one ends, so `Asking` and
  `Follows` speak of what the batch of each call still waits for, and
  `SinceReset` of what may exist while the selection is empty.
  `ReadyReplaysInterest` speaks of a cluster that has been announced; to reach it
  the invariant says (`Kept`) that a namespace asked for is under way or recorded,
  and (`Replayable`) that one left without a date was refused by a cluster whose
  announcement is still to come. `Kept` and `Replayable` take the set of queries
  that a handler is about to ask, for which they hold only at its end.
- `MetricsDemandProofs`: `DelaysBounded`, `DemandSentInOrder` and
  `DemandNotForgotten`, for any windows, clusters and delays. The invariant joins
  the state of a window to its one post: a post that is not orphaned belongs to
  the request the window waits for, and the window waits for no other.
- `YamlEditProofs`: `EditInvariant`, and from it `SavesKeepOthers`,
  `MergesKeepEdits`, `SavingAlwaysEnds` and `TypeCorrect`. That a save writes only what the user
  authored is a fact about the pair of baseline and draft it carries, and pairs
  are copied: from the editor into a merge, a save or the ownership dialog,
  from a merge's answer back into the editor. The invariant therefore says of
  every pair under way that its differences are authored (the lemmas on
  coherent pairs cover typing, choosing and merging), and of a busy editor that
  a save is under way. `ConflictStaysCurrent` rests on an invariant of its own,
  `ConflictInv`: a conflict is remembered only in an open editor that shows
  drift, no answer is ahead of the object, and neither the snapshot that replaced
  the one the conflict was met with nor the read under way is older than what the
  conflict brought, because adopting it restarts the read. For the types, `TabInv` adds that a save is
  remembered once and at most four are: only then is the filter of
  `addRecentVerifiedYaml` the removal of one entry, which the model makes it and
  the lemmas `WithoutEntry` and `RecentRemembered` reason about.

Types of the authentication manager, the selection, the directory and the
metrics demand are proved and not checked by a run of their own.

Only model-checked is liveness (`Recovers`, `ShutdownTerminates`, `CommandsEnd`,
`EveryChangeIsSignalled`, `DemandAcknowledged`, `GrantsConverge`), which is out
of the prover's reach. Every other property of a passing run is a theorem, under the
conditions named above (an object clock for the stream, `AdoptsWhenSettled` for the
union of the selection).

## 5. What is not modelled

Parsing and formatting of Kubernetes objects, rendering, I/O with clusters and
files, preferences, and the vendored and generated code have no control worth a
model; they are most of the repository's lines. The window registry, lifecycle
states, intents and refresh generations have, and are planned. In the modelled
parts, each module's paragraph above names what is left out. A hazard without a
property says why in its note: the module is still to come, the code
makes no promise that could be checked, or the outcome is outside this
repository.

## 6. Plan

1. `WorkspaceSelection`: startup connection and the shutdown drain.
2. `WindowTransfers`: the handshakes of `internal/appwindow` with timeouts and
   closing windows, composed with `WorkspaceDirectory`; an abstract register
   (object to place) that the directory implements.
3. `ClusterLifecycle`: lifecycle states, the slow-loading timer, operations per
   cluster and the heartbeat. Hazard: a timer of an earlier load.
4. `RuntimeIntents`: the coalescing queue and the generation check. Hazard: a
   coalesced kubeconfig change loses the paths of the first.
5. `RefreshGeneration`: building, publishing and retiring subsystem generations
   under readers; the manual refresh queue.
6. `RefreshRuntime` composed with `ResourceStream` in place of `feed`, for a scope
   whose signals and reads race.
