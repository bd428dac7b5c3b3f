------------------------- MODULE WorkspaceSelection -------------------------
(***************************************************************************)
(* The process-wide cluster selection of the desktop application and the   *)
(* queue of mutations that change it (backend/workspace_*.go,              *)
(* backend/kubeconfig_selection_coordinator.go).                           *)
(*                                                                         *)
(* Every app window owns a set of cluster tabs; an open panel holds one    *)
(* reference to its cluster.  The union of both is the process selection,  *)
(* and each selected cluster gets a client.  Commands run on their own     *)
(* goroutines (Tasks).  Most of them take selectionMutationMu; some touch  *)
(* ownership under workspaceSelectionsMu only, and some cancel the         *)
(* connection work of whoever holds selectionMutationMu.  One action below *)
(* is one critical section, or one run of code between two of them.        *)
(*                                                                         *)
(* A kubeconfig selection string and the ID of its cluster are one value.  *)
(***************************************************************************)
EXTENDS Naturals, FiniteSets

CONSTANTS
    Windows,    \* app windows
    Clusters,   \* kubeconfig selections
    Tasks,      \* goroutines, each running one command
    Kinds,      \* the commands that are issued
    NoTask      \* nil

\* Commands that keep their place in the queue (runOrderedSelectionMutation).
OrderedKinds == {"apply", "close", "release", "stage", "move", "cancelMove",
                 "openPanel", "closePanel"}

\* Commands that supersede queued ones of their own sort (runSelectionMutation).
SupersedingKinds == {"rebuild", "watch", "paths"}

\* The commands delivered by the single consumer of cluster-runtime intents.
IntentKinds == {"rebuild", "watch"}

\* "ensure" is a read (or a visibility-only command): it takes no mutation slot.
AllKinds == OrderedKinds \cup SupersedingKinds \cup {"ensure"}

ASSUME SelectionConstants ==
    /\ Windows # {} /\ Clusters # {}
    /\ Kinds \subseteq AllKinds
    /\ NoTask \notin Tasks

VARIABLES
    tracked,      \* the keys of workspaceSelections
    owned,        \* workspaceSelections: window -> its cluster tabs
    panelRefs,    \* panelSelections["panel-workspace:c"] is set
    selected,     \* selectedKubeconfigs
    refused,      \* history: an ownership change was kept and its selection refused
    clients,      \* ClusterRuntimeManager.clusterClients
    available,    \* ClusterRuntimeManager.availableKubeconfigs: what discovery found
    conn,         \* the connection part of the cluster lifecycle state
    gen,          \* selectionGeneration
    active,       \* selectionGenCancel: the task whose context it cancels
    cancelled,    \* tasks whose selection context has been cancelled
    holder,       \* the owner of selectionMutationMu
    rebuilding,   \* clusters whose transport state has rebuildInProgress
    panels,       \* clusters with a panel in the panel directory
    reservations, \* open-panel tasks whose directory reservation is live
    task          \* what each goroutine is doing

ownership == <<tracked, owned, panelRefs, refused>>
runtime   == <<clients, conn, available>>
preempt   == <<gen, active, cancelled>>
directory == <<panels, reservations>>
vars == <<ownership, selected, runtime, preempt, holder, rebuilding, directory, task>>

Slots == Tasks \cup {NoTask}

\* "late" is reported as connecting too, but nothing connects it any more: its
\* attempt ran out of time before it was started.
ConnStates == {"none", "connecting", "late", "connected", "disconnected"}

PreLock == {"look", "probe", "preempt", "intent", "supersede", "queue"}
InLock  == {"start", "body", "drop", "activate", "wipe", "select", "clear",
            "sync", "build", "pruneOwners", "pruneSelection", "pruneClients", "finish"}
OffLock == {"retain", "panel", "unreserve", "unused", "releaseRef"}

Task == [pc    : {"idle", "done"} \cup PreLock \cup InLock \cup OffLock,
         kind  : AllKinds,
         win   : Windows,             \* the window that issued the command
         tgt   : Windows,             \* the other window of a move
         cl    : Clusters,            \* the cluster the command names
         set   : SUBSET Clusters,     \* the requested (or remaining) tabs
         union : SUBSET Clusters,     \* the selection to commit
         todo  : SUBSET Clusters,     \* clusters left to build or to prune
         gen   : Nat]                 \* selectionMutation.generation

TypeOK ==
    /\ tracked \subseteq Windows
    /\ owned \in [Windows -> SUBSET Clusters]
    /\ panelRefs \subseteq Clusters /\ panels \subseteq Clusters
    /\ selected \subseteq Clusters /\ refused \in BOOLEAN
    /\ clients \subseteq Clusters /\ rebuilding \subseteq Clusters
    /\ available \subseteq Clusters
    /\ conn \in [Clusters -> ConnStates]
    /\ gen \in Nat
    /\ active \in Slots /\ holder \in Slots
    /\ cancelled \subseteq Tasks /\ reservations \subseteq Tasks
    /\ task \in [Tasks -> Task]

-----------------------------------------------------------------------------
(* Ownership.                                                              *)

\* aggregateWorkspaceSelectionsLocked: the union of tabs and panel references.
UnionOf(own, refs) == (UNION {own[w] : w \in Windows}) \cup refs

Owners == UnionOf(owned, panelRefs)

\* The directory still needs the cluster: a panel, or an admitted open of one.
HasClusterReference(c) ==
    c \in panels \/ \E u \in reservations : task[u].cl = c

\* ensureWorkspaceSelectionsLocked: a window seen for the first time starts
\* with the whole process selection.
EnsureWindow(w) ==
    IF w \in tracked
    THEN UNCHANGED <<tracked, owned>>
    ELSE /\ tracked' = tracked \cup {w}
         /\ owned' = [owned EXCEPT ![w] = selected]

\* cancelActiveSelectionGeneration.
CancelActive ==
    /\ cancelled' = cancelled \cup ({active} \ {NoTask})
    /\ active' = NoTask

\* activateSelectionGeneration: t's context replaces (and cancels) the last one.
ActivateFor(t) ==
    /\ cancelled' = cancelled \cup ({active} \ {NoTask})
    /\ active' = t

Goto(t, pc) == task' = [task EXCEPT ![t].pc = pc]

\* normalizeSelectionSet refuses a set with a cluster that discovery did not
\* find, although it may be selected and connected; the empty set is not looked at.
Refuses(S) == S # selected /\ ~(S \subseteq available)

\* A mutation has new ownership own/refs in place: it ends if their union is
\* the selection already or is refused, and otherwise goes on to commit it.
\* The new ownership stays in place when the union is refused.
Reconcile(t, own, refs) ==
    LET union == UnionOf(own, refs)
    IN  /\ owned' = own
        /\ panelRefs' = refs
        /\ refused' = (Refuses(union) \/ (refused /\ union # selected))
        /\ task' = [task EXCEPT
             ![t].union = union,
             ![t].pc = IF union = selected \/ Refuses(union) THEN "finish" ELSE "activate"]

\* No command yet; the arguments are filled in when one arrives.
IdleTask(w, c) ==
    [pc |-> "idle", kind |-> "ensure", win |-> w, tgt |-> w, cl |-> c,
     set |-> {}, union |-> {}, todo |-> {}, gen |-> 0]

\* Any state that earlier commands, run to completion and none of them refused,
\* can leave behind; a selected cluster's file may have become unreadable since
\* (watch and paths can make every other cluster unavailable).
Init ==
    /\ tracked \in SUBSET Windows
    /\ owned \in [Windows -> SUBSET Clusters]
    /\ \A w \in Windows \ tracked : owned[w] = {}
    /\ panelRefs \in SUBSET Clusters
    /\ panels = panelRefs
    /\ selected = UnionOf(owned, panelRefs) /\ refused = FALSE
    /\ clients = selected
    /\ available \in SUBSET Clusters /\ Clusters \ selected \subseteq available
    /\ conn = [c \in Clusters |-> IF c \in selected THEN "connected" ELSE "none"]
    /\ gen = 0 /\ active = NoTask /\ cancelled = {} /\ holder = NoTask
    /\ rebuilding = {} /\ reservations = {}
    /\ \E w \in Windows, c \in Clusters : task = [t \in Tasks |-> IdleTask(w, c)]

-----------------------------------------------------------------------------
(* Commands arriving.                                                      *)

\* lifecycle.Contains: a native window leaves it before it is released.
Open(w) == \A u \in Tasks : ~(task[u].kind = "release" /\ task[u].pc # "idle" /\ task[u].win = w)

Issue(t, k, w, v, c, S, pc) ==
    /\ k \in Kinds
    /\ task[t].pc = "idle"
    /\ task' = [task EXCEPT ![t] =
         [pc |-> pc, kind |-> k, win |-> w, tgt |-> v, cl |-> c, set |-> S,
          union |-> {}, todo |-> {}, gen |-> 0]]

\* acceptWorkspaceSelection: window w asks for exactly the tabs S.
ApplyClusterWorkspace(t, w, S) ==
    /\ Open(w)
    /\ Issue(t, "apply", w, w, task[t].cl, S, "probe")
    /\ UNCHANGED <<ownership, selected, runtime, preempt, holder, rebuilding, directory>>

\* CloseClusterView: window w closes its tab of c.
CloseClusterView(t, w, c) ==
    /\ Open(w) /\ w \in tracked
    /\ Issue(t, "close", w, w, c, {}, "look")
    /\ UNCHANGED <<ownership, selected, runtime, preempt, holder, rebuilding, directory>>

\* GetClusterWorkspaceStateForWindow, or a visibility-only ApplyClusterWorkspace.
ObserveWindow(t, w) ==
    /\ Open(w)
    /\ Issue(t, "ensure", w, w, task[t].cl, {}, "done")
    /\ EnsureWindow(w)
    /\ UNCHANGED <<panelRefs, refused, selected, runtime, preempt, holder, rebuilding, directory>>

\* ReleaseWorkspaceWindow: the native window has closed.
ReleaseWorkspaceWindow(t, w) ==
    /\ Open(w)
    /\ Issue(t, "release", w, w, task[t].cl, {}, "queue")
    /\ UNCHANGED <<ownership, selected, runtime, preempt, holder, rebuilding, directory>>

\* StageClusterViewTransfer, CommitClusterViewTransfer, CancelClusterViewTransfer.
MoveClusterView(t, k, w, v, c) ==
    /\ k \in {"stage", "move", "cancelMove"}
    /\ w # v /\ Open(w) /\ Open(v)
    /\ Issue(t, k, w, v, c, {}, "queue")
    /\ UNCHANGED <<ownership, selected, runtime, preempt, holder, rebuilding, directory>>

\* OpenPanelWorkspaceObject: admission reserves the cluster in the directory.
\* The window's claim is read again, with the reservation, before the commit.
OpenPanelWorkspaceObject(t, w, c) ==
    /\ Open(w) /\ c \in owned[w]
    /\ Issue(t, "openPanel", w, w, c, {}, "retain")
    /\ reservations' = reservations \cup {t}
    /\ UNCHANGED <<ownership, selected, runtime, preempt, holder, rebuilding, panels>>

\* ClosePanelWorkspaceObject: the directory drops the panel.
ClosePanelWorkspaceObject(t, c) ==
    /\ c \in panels
    /\ Issue(t, "closePanel", task[t].win, task[t].win, c, {}, "unused")
    /\ panels' = panels \ {c}
    /\ UNCHANGED <<ownership, selected, runtime, preempt, holder, rebuilding, reservations>>

\* recordClusterTransportFailure at its threshold: one rebuild per cluster.
RecordTransportFailure(t, c) ==
    /\ c \in clients \ rebuilding
    /\ Issue(t, "rebuild", task[t].win, task[t].win, c, {}, "intent")
    /\ rebuilding' = rebuilding \cup {c}
    /\ UNCHANGED <<ownership, selected, runtime, preempt, holder, directory>>

\* The kubeconfig watcher publishes a change.
KubeconfigSourceChanged(t) ==
    /\ Issue(t, "watch", task[t].win, task[t].win, task[t].cl, {}, "intent")
    /\ UNCHANGED <<ownership, selected, runtime, preempt, holder, rebuilding, directory>>

\* SetKubeconfigSearchPaths.
SetKubeconfigSearchPaths(t) ==
    /\ Issue(t, "paths", task[t].win, task[t].win, task[t].cl, {}, "supersede")
    /\ UNCHANGED <<ownership, selected, runtime, preempt, holder, rebuilding, directory>>

\* consumeClusterRuntimeIntent: the single consumer runs one intent at a time.
ConsumeIntent(t) ==
    /\ task[t].pc = "intent"
    /\ \A u \in Tasks : task[u].kind \in IntentKinds => task[u].pc \in {"idle", "intent", "done"}
    /\ Goto(t, "supersede")
    /\ UNCHANGED <<ownership, selected, runtime, preempt, holder, rebuilding, directory>>

-----------------------------------------------------------------------------
(* Before the mutation slot: generations and preemption.                   *)

\* CloseClusterView reads the window's tabs; the rest of them is what remains.
LookBeforeClose(t) ==
    /\ task[t].pc = "look"
    /\ IF Open(task[t].win) THEN EnsureWindow(task[t].win) ELSE UNCHANGED <<tracked, owned>>
    /\ LET current == owned'[task[t].win]
           c == task[t].cl
       IN  task' = [task EXCEPT ![t].set = current \ {c},
                               ![t].pc = IF c \in current THEN "probe" ELSE "queue"]
    /\ UNCHANGED <<panelRefs, refused, selected, runtime, preempt, holder, rebuilding, directory>>

\* cancelObsoleteWorkspaceConnection decides, under the read lock, whether the
\* command will change the process selection; a set that will be refused ends it.
WantedWith(w, S) == (UNION {owned[v] : v \in Windows \ {w}}) \cup panelRefs \cup S

ProbeObsolete(t) ==
    /\ task[t].pc = "probe"
    /\ Goto(t, IF task[t].set \subseteq available /\ WantedWith(task[t].win, task[t].set) # selected
               THEN "preempt" ELSE "queue")
    /\ UNCHANGED <<ownership, selected, runtime, preempt, holder, rebuilding, directory>>

\* A superseding mutation takes its generation before it queues ...
TakeGeneration(t) ==
    /\ task[t].pc = "supersede"
    /\ gen' = gen + 1
    /\ task' = [task EXCEPT ![t].gen = gen + 1, ![t].pc = "preempt"]
    /\ UNCHANGED <<ownership, selected, runtime, active, cancelled, holder, rebuilding, directory>>

\* ... and either one then cancels whatever connection work is running.
Preempt(t) ==
    /\ task[t].pc = "preempt"
    /\ CancelActive
    /\ Goto(t, "queue")
    /\ UNCHANGED <<ownership, selected, runtime, gen, holder, rebuilding, directory>>

-----------------------------------------------------------------------------
(* runSelectionMutationWithQueuePolicy: the serialized slot.               *)

AcquireSlot(t) ==
    /\ task[t].pc = "queue"
    /\ holder = NoTask
    /\ task[t].kind \in SupersedingKinds => task[t].gen = gen
    /\ holder' = t
    /\ Goto(t, IF task[t].kind \in SupersedingKinds THEN "start" ELSE "body")
    /\ UNCHANGED <<ownership, selected, runtime, preempt, rebuilding, directory>>

\* Mutation: the early return forgets to unlock.
SkipWithoutUnlock(t) ==
    /\ task[t].pc = "queue"
    /\ holder = NoTask
    /\ task[t].kind \in SupersedingKinds
    /\ task[t].gen # gen
    /\ holder' = t
    /\ Goto(t, "done")
    /\ UNCHANGED <<ownership, selected, runtime, preempt, rebuilding, directory>>

\* A superseding mutation whose generation is no longer the newest is dropped.
SkipSuperseded(t) ==
    /\ task[t].pc = "queue"
    /\ holder = NoTask
    /\ task[t].kind \in SupersedingKinds
    /\ task[t].gen # gen
    /\ Goto(t, "done")
    /\ UNCHANGED <<ownership, selected, runtime, preempt, holder, rebuilding, directory>>

\* newSelectionMutation of a superseding mutation activates its context.
StartGeneration(t) ==
    /\ task[t].pc = "start"
    /\ ActivateFor(t)
    /\ Goto(t, "body")
    /\ UNCHANGED <<ownership, selected, runtime, gen, holder, rebuilding, directory>>

ReleaseSlot(t) ==
    /\ task[t].pc = "finish"
    /\ holder' = NoTask
    /\ Goto(t, "done")
    /\ UNCHANGED <<ownership, selected, runtime, preempt, rebuilding, directory>>

-----------------------------------------------------------------------------
(* Bodies: the ownership each command commits under workspaceSelectionsMu. *)

InBody(t, k) == task[t].pc = "body" /\ task[t].kind = k

\* commitWorkspaceSelections gives window w the tabs S, if discovery has them all.
GiveTabs(t, w, S) ==
    \/ /\ S \subseteq available
       /\ tracked' = tracked \cup {w}
       /\ Reconcile(t, [owned EXCEPT ![w] = S], panelRefs)
    \/ /\ ~(S \subseteq available)
       /\ Goto(t, "finish")
       /\ UNCHANGED ownership

CommitSelections(t) ==
    /\ InBody(t, "apply")
    /\ GiveTabs(t, task[t].win, task[t].set)
    /\ UNCHANGED <<selected, runtime, preempt, holder, rebuilding, directory>>

\* removeClusterView: an error once the window no longer shows the cluster.  It
\* takes the tab back, under the same lock, when the remaining union is refused.
CommitClose(t) ==
    /\ InBody(t, "close")
    /\ UNCHANGED <<tracked, selected, runtime, preempt, holder, rebuilding, directory>>
    /\ LET w == task[t].win
           c == task[t].cl
           remaining == [owned EXCEPT ![w] = @ \ {c}]
           accepted == c \in selected \cap owned[w] /\ ~Refuses(UnionOf(remaining, panelRefs))
       IN  \/ accepted /\ Reconcile(t, remaining, panelRefs)
           \/ /\ ~accepted
              /\ Goto(t, "finish")
              /\ UNCHANGED <<owned, panelRefs, refused>>

\* ReleaseWorkspaceWindow's callback.
CommitRelease(t) ==
    /\ InBody(t, "release")
    /\ UNCHANGED <<selected, runtime, preempt, holder, rebuilding, directory>>
    /\ LET w == task[t].win
       IN  \/ /\ w \in tracked
              /\ tracked' = tracked \ {w}
              /\ Reconcile(t, [owned EXCEPT ![w] = {}], panelRefs)
           \/ /\ w \notin tracked
              /\ Goto(t, "finish")
              /\ UNCHANGED ownership

\* StageClusterViewTransfer: the target gains the tab; the union is unchanged.
CommitStage(t) ==
    /\ InBody(t, "stage")
    /\ UNCHANGED <<panelRefs, refused, selected, runtime, preempt, holder, rebuilding, directory>>
    /\ Goto(t, "finish")
    /\ LET w == task[t].win
           v == task[t].tgt
           c == task[t].cl
       IN  IF c \in selected \cap owned[w]
           THEN /\ owned' = [owned EXCEPT ![v] = @ \cup {c}]
                /\ tracked' = IF c \in owned[v] THEN tracked ELSE tracked \cup {v}
           ELSE UNCHANGED <<tracked, owned>>

\* CommitClusterViewTransfer: the source loses the tab that both of them show.
\* The directory may refuse to commit the move of the panels.
CommitMove(t) ==
    /\ InBody(t, "move")
    /\ UNCHANGED <<tracked, panelRefs, refused, selected, runtime, preempt, holder, rebuilding, directory>>
    /\ Goto(t, "finish")
    /\ LET w == task[t].win
           c == task[t].cl
       IN  \/ /\ c \in selected \cap owned[w] \cap owned[task[t].tgt]
              /\ owned' = [owned EXCEPT ![w] = @ \ {c}]
           \/ UNCHANGED owned

\* CancelClusterViewTransfer withdraws the staged tab from the target.
CommitCancelMove(t) ==
    /\ InBody(t, "cancelMove")
    /\ GiveTabs(t, task[t].tgt, owned[task[t].tgt] \ ({task[t].cl} \cap selected))
    /\ UNCHANGED <<selected, runtime, preempt, holder, rebuilding, directory>>

\* rebuildClusterTransport: its deferred reset clears the in-progress mark.
CommitRebuild(t) ==
    /\ InBody(t, "rebuild")
    /\ rebuilding' = rebuilding \ {task[t].cl}
    /\ Goto(t, "finish")
    /\ UNCHANGED <<ownership, selected, runtime, preempt, holder, directory>>

-----------------------------------------------------------------------------
(* Panel references.                                                       *)

\* Mutation: the reference is added although the last owner has left.
RetainUnowned(t) ==
    /\ task[t].pc = "retain"
    /\ LET c == task[t].cl
       IN  IF c \in selected
           THEN panelRefs' = panelRefs \cup {c} /\ Goto(t, "panel")
           ELSE UNCHANGED panelRefs /\ Goto(t, "queue")
    /\ UNCHANGED <<tracked, owned, refused, selected, runtime, preempt, holder, rebuilding, directory>>

\* retainOwnedPanelCluster: with an owner in place the reference is added
\* without the slot; otherwise RetainPanelCluster queues for it.
RetainOwned(t) ==
    /\ task[t].pc = "retain"
    /\ LET c == task[t].cl
       IN  IF c \in selected \cap Owners
           THEN panelRefs' = panelRefs \cup {c} /\ Goto(t, "panel")
           ELSE UNCHANGED panelRefs /\ Goto(t, "queue")
    /\ UNCHANGED <<tracked, owned, refused, selected, runtime, preempt, holder, rebuilding, directory>>

\* RetainPanelCluster's queued form fails once the cluster is not open.
CommitRetain(t) ==
    /\ InBody(t, "openPanel")
    /\ task[t].todo = {}
    /\ holder' = NoTask
    /\ IF task[t].cl \in selected
       THEN panelRefs' = panelRefs \cup {task[t].cl} /\ Goto(t, "panel")
       ELSE UNCHANGED panelRefs /\ Goto(t, "unreserve")
    /\ UNCHANGED <<tracked, owned, refused, selected, runtime, preempt, rebuilding, directory>>

\* The directory commit, which needs the reservation and the window's claim.
CommitPanel(t) ==
    /\ task[t].pc = "panel"
    /\ panels' = IF t \in reservations /\ task[t].cl \in owned[task[t].win]
                 THEN panels \cup {task[t].cl} ELSE panels
    /\ Goto(t, "unreserve")
    /\ UNCHANGED <<ownership, selected, runtime, preempt, holder, rebuilding, reservations>>

\* releasePanelReservation.
ReleaseReservation(t) ==
    /\ task[t].pc = "unreserve"
    /\ reservations' = reservations \ {t}
    /\ Goto(t, "unused")
    /\ UNCHANGED <<ownership, selected, runtime, preempt, holder, rebuilding, panels>>

\* releaseUnusedPanelWorkspace.
CheckUnused(t) ==
    /\ task[t].pc = "unused"
    /\ Goto(t, IF HasClusterReference(task[t].cl) THEN "done" ELSE "releaseRef")
    /\ UNCHANGED <<ownership, selected, runtime, preempt, holder, rebuilding, directory>>

\* Mutation: the reference is its own owner, so the last one goes at once too.
ReleaseUnserialized(t) ==
    /\ task[t].pc = "releaseRef"
    /\ panelRefs' = IF HasClusterReference(task[t].cl) THEN panelRefs
                    ELSE panelRefs \ {task[t].cl}
    /\ Goto(t, "done")
    /\ UNCHANGED <<tracked, owned, refused, selected, runtime, preempt, holder, rebuilding, directory>>

\* Mutation: the directory is not looked at again under the lock.
ReleaseStale(t) ==
    /\ task[t].pc = "releaseRef"
    /\ LET c == task[t].cl
       IN  IF c \in panelRefs /\ c \notin UnionOf(owned, panelRefs \ {c})
           THEN /\ task' = [task EXCEPT ![t].pc = "queue", ![t].todo = {c}]
                /\ UNCHANGED panelRefs
           ELSE panelRefs' = panelRefs \ {c} /\ Goto(t, "done")
    /\ UNCHANGED <<tracked, owned, refused, selected, runtime, preempt, holder, rebuilding, directory>>

\* releaseOwnedPanelCluster: another owner keeps the cluster, so the reference
\* goes at once; the last reference takes the slot (todo marks that request).
ReleaseOwned(t) ==
    /\ task[t].pc = "releaseRef"
    /\ LET c == task[t].cl
       IN  \/ /\ c \notin panelRefs \/ HasClusterReference(c)
              /\ Goto(t, "done")
              /\ UNCHANGED panelRefs
           \/ /\ c \in panelRefs /\ ~HasClusterReference(c)
              /\ c \in UnionOf(owned, panelRefs \ {c})
              /\ panelRefs' = panelRefs \ {c}
              /\ Goto(t, "done")
           \/ /\ c \in panelRefs /\ ~HasClusterReference(c)
              /\ c \notin UnionOf(owned, panelRefs \ {c})
              /\ task' = [task EXCEPT ![t].pc = "queue", ![t].todo = {c}]
              /\ UNCHANGED panelRefs
    /\ UNCHANGED <<tracked, owned, refused, selected, runtime, preempt, holder, rebuilding, directory>>

\* ReleasePanelCluster's queued form looks at the directory first ...
RecheckReference(t) ==
    /\ \/ InBody(t, "closePanel")
       \/ InBody(t, "openPanel") /\ task[t].todo # {}
    /\ Goto(t, IF HasClusterReference(task[t].cl) THEN "finish" ELSE "drop")
    /\ UNCHANGED <<ownership, selected, runtime, preempt, holder, rebuilding, directory>>

\* ... and only then takes workspaceSelectionsMu to delete the reference.
DropReference(t) ==
    /\ task[t].pc = "drop"
    /\ Reconcile(t, owned, panelRefs \ {task[t].cl})
    /\ UNCHANGED <<tracked, selected, runtime, preempt, holder, rebuilding, directory>>

-----------------------------------------------------------------------------
(* Committing a selection and the connection work after it.                *)

\* beginDeferredSelectionGeneration.
BeginDeferredGeneration(t) ==
    /\ task[t].pc = "activate"
    /\ gen' = gen + 1
    /\ ActivateFor(t)
    /\ task' = [task EXCEPT ![t].gen = gen + 1,
                            ![t].pc = IF task[t].union = {} THEN "wipe" ELSE "select"]
    /\ UNCHANGED <<ownership, selected, runtime, holder, rebuilding, directory>>

\* retainWorkspaceSelections keeps only the owners of what remains.
RetainOwners(S) ==
    /\ owned' = [w \in Windows |-> owned[w] \cap S]
    /\ panelRefs' = panelRefs \cap S

\* An empty selection clears every owner.
WipeOwners(t) ==
    /\ task[t].pc = "wipe"
    /\ RetainOwners({})
    /\ Goto(t, "select")
    /\ UNCHANGED <<tracked, refused, selected, runtime, preempt, holder, rebuilding, directory>>

\* commitSelectionChangeIntent.
CommitSelection(t) ==
    /\ task[t].pc = "select"
    /\ selected' = task[t].union
    /\ refused' = FALSE
    /\ Goto(t, IF task[t].union = {} THEN "clear" ELSE "sync")
    /\ UNCHANGED <<tracked, owned, panelRefs, runtime, preempt, holder, rebuilding, directory>>

\* removeClusterWorkspaceState: the panels go, and admitted opens are refused.
DirectoryWithout(R) ==
    /\ panels' = panels \ R
    /\ reservations' = {u \in reservations : task[u].cl \notin R}

\* clearClusterRuntime: everything installed, or merely connecting, is retired.
ClearRuntime(t) ==
    /\ task[t].pc = "clear"
    /\ clients' = {}
    /\ conn' = [c \in Clusters |-> "none"]
    /\ DirectoryWithout(clients \cup {c \in Clusters : conn[c] # "none"})
    /\ Goto(t, "finish")
    /\ UNCHANGED <<ownership, selected, available, preempt, holder, rebuilding>>

Obsolete(t) == t \in cancelled \/ task[t].gen # gen

\* Mutation: clients of clusters no longer selected stay in the pool.
SyncKeepsUndesired(t) ==
    /\ task[t].pc = "sync"
    /\ ~Obsolete(t)
    /\ LET missing == task[t].union \ clients
       IN  /\ conn' = [c \in Clusters |-> IF c \in missing THEN "connecting" ELSE conn[c]]
           /\ task' = [task EXCEPT ![t].todo = missing, ![t].pc = "build"]
    /\ UNCHANGED <<ownership, selected, clients, available, preempt, holder, rebuilding, directory>>

\* executeSelectionChangeWork and syncClusterClientPoolWithBuilder: undesired
\* clients and connection states are retired, missing ones start connecting.
SyncClientPool(t) ==
    /\ task[t].pc = "sync"
    /\ ~Obsolete(t)
    /\ LET desired == task[t].union
           missing == desired \ clients
       IN  /\ clients' = clients \cap desired
           /\ conn' = [c \in Clusters |-> IF c \notin desired THEN "none"
                                          ELSE IF c \in missing THEN "connecting"
                                          ELSE conn[c]]
           /\ DirectoryWithout((clients \cup {c \in Clusters : conn[c] # "none"}) \ desired)
           /\ task' = [task EXCEPT ![t].todo = missing, ![t].pc = "build"]
    /\ UNCHANGED <<ownership, selected, available, preempt, holder, rebuilding>>

\* Work that was cancelled or superseded in the meantime is not started.
SkipSync(t) ==
    /\ task[t].pc = "sync"
    /\ Obsolete(t)
    /\ Goto(t, "finish")
    /\ UNCHANGED <<ownership, selected, runtime, preempt, holder, rebuilding, directory>>

\* buildAndInstallClusterClient succeeds.
InstallClient(t, c) ==
    /\ task[t].pc = "build" /\ c \in task[t].todo
    /\ t \notin cancelled
    /\ clients' = clients \cup {c}
    /\ conn' = [conn EXCEPT ![c] = "connected"]
    /\ task' = [task EXCEPT ![t].todo = @ \ {c}]
    /\ UNCHANGED <<ownership, selected, available, preempt, holder, rebuilding, directory>>

\* It fails, or its deadline passes, perhaps before the work was cancelled: the
\* cluster is reported disconnected.
BuildFails(t, c) ==
    /\ task[t].pc = "build" /\ c \in task[t].todo
    /\ conn' = [conn EXCEPT ![c] = "disconnected"]
    /\ task' = [task EXCEPT ![t].todo = @ \ {c}]
    /\ UNCHANGED <<ownership, selected, clients, available, preempt, holder, rebuilding, directory>>

\* Its deadline passes before runWithAdmission starts it: nothing reports that.
BuildLate(t, c) ==
    /\ task[t].pc = "build" /\ c \in task[t].todo
    /\ t \notin cancelled
    /\ conn' = [conn EXCEPT ![c] = "late"]
    /\ task' = [task EXCEPT ![t].todo = @ \ {c}]
    /\ UNCHANGED <<ownership, selected, clients, available, preempt, holder, rebuilding, directory>>

\* It sees its context cancelled and leaves the cluster as it is.
BuildCancelled(t, c) ==
    /\ task[t].pc = "build" /\ c \in task[t].todo
    /\ t \in cancelled
    /\ task' = [task EXCEPT ![t].todo = @ \ {c}]
    /\ UNCHANGED <<ownership, selected, runtime, preempt, holder, rebuilding, directory>>

\* Every build has returned.
BuildsDone(t) ==
    /\ task[t].pc = "build" /\ task[t].todo = {}
    /\ Goto(t, "finish")
    /\ UNCHANGED <<ownership, selected, runtime, preempt, holder, rebuilding, directory>>

-----------------------------------------------------------------------------
(* Discovery prunes the selection (deselectClusters,                       *)
(* pruneSelectionsAgainstDiscoveredKubeconfigs, applySelectionPrune).      *)

\* Both begin with a new discovery.  The watcher drops clusters that have clients
\* and are gone, and keeps those whose file is unreadable for the moment; a
\* search-path change drops every selection no longer found.  Nothing is dropped
\* if discovery or the refresh reconciliation fails.
DiscoverRemoved(t, R) ==
    /\ available' \in SUBSET Clusters
    /\ \/ InBody(t, "watch") /\ R \subseteq (selected \cap clients) \ available'
       \/ InBody(t, "paths") /\ R \in {{}, selected \ available'}
    /\ task' = [task EXCEPT ![t].union = selected \ R, ![t].todo = R,
                            ![t].pc = IF R = {} THEN "finish" ELSE "pruneOwners"]
    /\ UNCHANGED <<ownership, selected, clients, conn, preempt, holder, rebuilding, directory>>

PruneOwners(t) ==
    /\ task[t].pc = "pruneOwners"
    /\ RetainOwners(task[t].union)
    /\ Goto(t, "pruneSelection")
    /\ UNCHANGED <<tracked, refused, selected, runtime, preempt, holder, rebuilding, directory>>

PruneSelection(t) ==
    /\ task[t].pc = "pruneSelection"
    /\ selected' = task[t].union
    /\ Goto(t, "pruneClients")
    /\ UNCHANGED <<ownership, runtime, preempt, holder, rebuilding, directory>>

PruneClients(t) ==
    /\ task[t].pc = "pruneClients"
    /\ clients' = clients \ task[t].todo
    /\ conn' = [c \in Clusters |-> IF c \in task[t].todo THEN "none" ELSE conn[c]]
    /\ DirectoryWithout(task[t].todo)
    /\ Goto(t, "finish")
    /\ UNCHANGED <<ownership, selected, available, preempt, holder, rebuilding>>

-----------------------------------------------------------------------------
Arrive(t) ==
    \/ \E w \in Windows, S \in SUBSET Clusters : ApplyClusterWorkspace(t, w, S)
    \/ \E w \in Windows, c \in Clusters :
          CloseClusterView(t, w, c) \/ OpenPanelWorkspaceObject(t, w, c)
    \/ \E w \in Windows : ObserveWindow(t, w) \/ ReleaseWorkspaceWindow(t, w)
    \/ \E k \in Kinds, w, v \in Windows, c \in Clusters : MoveClusterView(t, k, w, v, c)
    \/ \E c \in Clusters : ClosePanelWorkspaceObject(t, c) \/ RecordTransportFailure(t, c)
    \/ KubeconfigSourceChanged(t)
    \/ SetKubeconfigSearchPaths(t)

BeforeSlot(t) ==
    \/ ConsumeIntent(t) \/ LookBeforeClose(t) \/ ProbeObsolete(t)
    \/ TakeGeneration(t) \/ Preempt(t) \/ AcquireSlot(t) \/ SkipSuperseded(t)
    \/ RetainOwned(t) \/ CommitPanel(t) \/ ReleaseReservation(t)
    \/ CheckUnused(t) \/ ReleaseOwned(t)

InSlot(t) ==
    \/ StartGeneration(t) \/ ReleaseSlot(t)
    \/ CommitSelections(t) \/ CommitClose(t) \/ CommitRelease(t)
    \/ CommitStage(t) \/ CommitMove(t) \/ CommitCancelMove(t) \/ CommitRebuild(t)
    \/ CommitRetain(t) \/ RecheckReference(t) \/ DropReference(t)
    \/ BeginDeferredGeneration(t) \/ WipeOwners(t) \/ CommitSelection(t)
    \/ ClearRuntime(t) \/ SyncClientPool(t) \/ SkipSync(t)
    \/ \E c \in Clusters : InstallClient(t, c) \/ BuildFails(t, c)
                        \/ BuildLate(t, c) \/ BuildCancelled(t, c)
    \/ BuildsDone(t)
    \/ \E R \in SUBSET Clusters : DiscoverRemoved(t, R)
    \/ PruneOwners(t) \/ PruneSelection(t) \/ PruneClients(t)

Next == \E t \in Tasks : Arrive(t) \/ BeforeSlot(t) \/ InSlot(t)

Spec == Init /\ [][Next]_vars

\* Every goroutine that can run does, and the slot is handed out fairly.
FairSpec == Spec /\ \A t \in Tasks : SF_vars(BeforeSlot(t)) /\ WF_vars(InSlot(t))

-----------------------------------------------------------------------------
(* Properties that hold.                                                   *)

Quiet == \A t \in Tasks : task[t].pc \in {"idle", "done"}

\* Nothing stays connected for nobody: between mutations every selected cluster
\* is shown by a window or referenced by a panel, although references come and
\* go on the fast paths of retainOwnedPanelCluster and releaseOwnedPanelCluster.
\* The one exception is an ownership change whose union normalizeSelectionSet
\* refused; the next change that is accepted makes good for it.
SelectedIsOwned == holder = NoTask /\ ~refused => selected \subseteq Owners

\* Between mutations the process selection is exactly the union of its owners,
\* unless the last ownership change was refused: no reference added on the fast
\* path outlives the last owner's removal, and a close that is refused leaves no
\* trace (aggregateWorkspaceSelectionsLocked, commitKubeconfigSelection).
SelectionIsUnion == holder = NoTask /\ ~refused => selected = Owners

\* What docs/architecture/application-lifecycle.md says of it without exception.
\* A release that is refused breaks it: the window is gone, its cluster stays.
SelectionMatchesOwners == holder = NoTask => selected = Owners

\* The inductive invariant behind SelectedIsOwned.  A mutation that is about to
\* replace the selection (Unsettled) is the only one in the slot, and what it is
\* about to commit is owned already; owners leave only inside the slot, and a
\* window that is adopted with the whole selection owned nothing before.  A tab
\* that moves stays owned because it moves to a different window.
Unsettled == {"activate", "wipe", "select", "pruneSelection"}

SlotExclusive == \A t \in Tasks : task[t].pc \in InLock <=> holder = t

SettledIsOwned ==
    ~refused /\ (\A t \in Tasks : task[t].pc \notin Unsettled) => selected \subseteq Owners

PlanIsOwned ==
    \A t \in Tasks :
        /\ task[t].pc \in {"activate", "select"} => task[t].union \subseteq Owners
        /\ task[t].pc = "pruneSelection" /\ ~refused => task[t].union \subseteq Owners
        /\ task[t].pc = "wipe" => task[t].union = {}
        /\ task[t].pc = "pruneOwners" => task[t].union \subseteq selected

UntrackedOwnsNothing == \A w \in Windows \ tracked : owned[w] = {}

MovesElsewhere == \A t \in Tasks : task[t].kind = "move" => task[t].win # task[t].tgt

OwnershipInv ==
    /\ TypeOK /\ SlotExclusive
    /\ UntrackedOwnsNothing /\ MovesElsewhere
    /\ SettledIsOwned /\ PlanIsOwned

\* Selection work that nobody cancelled has settled the pool: the clients are
\* those of the selection, except where createClusterClients failed and said so.
UncancelledWorkSettles ==
    \A t \in Tasks :
        (task[t].pc = "done" /\ task[t].kind \in OrderedKinds /\ task[t].gen > 0
         /\ task[t].gen = gen /\ t \notin cancelled /\ holder = NoTask)
        => /\ clients \subseteq selected
           /\ \A c \in selected \ clients : conn[c] \in {"disconnected", "late"}

\* Clusters with an open panel, or an admitted open that has its reference.
Held == panels \cup {task[t].cl : t \in {u \in reservations : task[u].pc = "panel"}}

\* What is held keeps its panel reference, except at two places: where
\* retainWorkspaceSelections removes every owner of clusters whose panels its
\* caller then removes, and where ReleasePanelCluster deletes a reference after
\* it looked at the directory.  A window still shows the cluster then, so the
\* delete itself never takes a cluster from under a panel.
PanelKeepsReference ==
    [][\A c \in Held' \ panelRefs' :
          \/ c \in Held \ panelRefs
          \/ \E t \in Tasks : /\ task[t].pc = "drop" /\ task[t].cl = c
                              /\ \E w \in Windows : c \in owned'[w]
          \/ \E t \in Tasks : task[t].pc \in {"wipe", "pruneOwners"}]_vars

\* When everything is quiet no panel is open on a cluster that is not selected.
\* Five commands can break this through that delete (see the README); it holds
\* as long as nothing is opened between the look and the delete.
NoPanelOutlivesCluster == Quiet => panels \subseteq selected

\* Every command ends: the slot is always given back, by the early returns of
\* runSelectionMutationWithQueuePolicy too.
CommandsEnd == \A t \in Tasks : task[t].pc # "idle" ~> task[t].pc = "done"

=============================================================================
