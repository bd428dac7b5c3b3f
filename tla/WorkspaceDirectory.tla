------------------------- MODULE WorkspaceDirectory -------------------------
(***************************************************************************)
(* The directory of open panels (internal/panelwindow/workspace*.go).  It  *)
(* says which window shows each panel and carries the pending moves of     *)
(* panels between windows.  Renderers, window closures, transfer handshakes*)
(* and the removal of clusters call it concurrently; every method is one   *)
(* critical section of d.mu, and so one action here.  A call that returns  *)
(* an error changes nothing and is not an action.                          *)
(*                                                                         *)
(* A panel is keyed by cluster and panel ID and shows one object of that   *)
(* cluster.  Tab contents, activation and the revision number are left out.*)
(***************************************************************************)
EXTENDS Naturals, FiniteSets

CONSTANTS
    AppWindows,    \* windows with docks
    PanelWindows,  \* native windows that hold one panel group
    Clusters,
    PanelIDs,
    Objects,       \* object names, within a cluster
    Transfers,     \* transfer IDs
    Callers,       \* goroutines that hold a reservation
    MaxIndex,      \* bound on positions in a group
    None           \* the empty string

Keys == Clusters \X PanelIDs

ClusterOf(k) == k[1]

ASSUME DirectoryConstants ==
    /\ IsFiniteSet(Clusters) /\ IsFiniteSet(PanelIDs)
    /\ MaxIndex \in Nat
    /\ AppWindows \cap PanelWindows = {}
    /\ None \notin AppWindows \cup PanelWindows \cup Clusters \cup Objects \cup Transfers

VARIABLES
    panels,    \* key -> panel
    pending,   \* the keys of d.transfers
    members,   \* d.transfers: transfer -> the panels it moves
    handles,   \* caller -> the cluster of its WorkspaceReservation
    live       \* callers whose reservation is still in d.reservations

vars == <<panels, pending, members, handles, live>>

DockGroups == {"right", "bottom"}

\* validatePanelLocation: places in a window, and retained ones.
Places(I) ==
    [kind : {"docked"}, win : AppWindows, group : DockGroups, index : I]
    \cup [kind : {"panel-window"}, win : PanelWindows, group : {"group"}, index : I]

Locations ==
    Places(Nat) \cup [kind : {"retained"}, win : {None}, group : DockGroups, index : Nat]

Panel == [present  : BOOLEAN,
          obj      : Objects \cup {None},
          loc      : Locations \cup {None},
          transfer : Transfers \cup {None},
          target   : Locations \cup {None}]

\* The value a map lookup yields for a key that is not there.
NoPanel == [present |-> FALSE, obj |-> None, loc |-> None, transfer |-> None, target |-> None]

TypeOK ==
    /\ panels \in [Keys -> Panel]
    /\ \A k \in Keys : panels[k].present => panels[k].loc \in Locations
    /\ \A k \in Keys : panels[k].transfer # None => panels[k].target \in Locations
    /\ pending \subseteq Transfers
    /\ members \in [Transfers -> SUBSET Keys]
    /\ handles \in [Callers -> Clusters \cup {None}]
    /\ live \subseteq Callers

Init ==
    /\ panels = [k \in Keys |-> NoPanel]
    /\ pending = {}
    /\ members = [x \in Transfers |-> {}]
    /\ handles = [r \in Callers |-> None]
    /\ live = {}

moving(k) == panels[k].transfer # None

Present == {k \in Keys : panels[k].present}

-----------------------------------------------------------------------------
(* Reservations: an admitted command that waits for the backend.           *)

ReserveCluster(r, c) ==
    /\ handles[r] = None
    /\ handles' = [handles EXCEPT ![r] = c]
    /\ live' = live \cup {r}
    /\ UNCHANGED <<panels, pending, members>>

Release(r) ==
    /\ handles[r] # None
    /\ handles' = [handles EXCEPT ![r] = None]
    /\ live' = live \ {r}
    /\ UNCHANGED <<panels, pending, members>>

\* validateReservationsLocked for the commands of r.
Admitted(r, c) == r \in live /\ handles[r] = c

-----------------------------------------------------------------------------
(* Opening, arranging and closing panels.                                  *)

\* Mutation: the object is not searched for under the other panel IDs.
SameKeyOnly(k, o) == {e \in {k} : panels[e].present /\ panels[e].obj = o}

\* The panels that show object o of the cluster of k.
Showing(k, o) ==
    {e \in Keys : ClusterOf(e) = ClusterOf(k) /\ panels[e].present /\ panels[e].obj = o}

\* Where OpenPanelWorkspaceObject opens a panel for the renderer that asks: at the
\* right dock of an app window, in the group of a native panel window.
OpenPlaces == {l \in Places({0}) : l.group # "bottom"}

\* A caller opens object o as panel k at l, at the front of its group.  The
\* object's panel may be there already; only a retained one is placed again.
Open(r, k, o, l) ==
    /\ Admitted(r, ClusterOf(k))
    /\ panels[k].present => panels[k].obj = o
    /\ \/ /\ Showing(k, o) = {}
          /\ panels' = [panels EXCEPT ![k] = [NoPanel EXCEPT !.present = TRUE, !.obj = o, !.loc = l]]
       \/ \E e \in Showing(k, o) :
          /\ panels[e].loc.kind = "retained" /\ ~moving(e)
          /\ panels' = [panels EXCEPT ![e].loc = l]
    /\ UNCHANGED <<pending, members, handles, live>>

Retained(l) == [l EXCEPT !.kind = "retained", !.win = None]

\* RetainWindow (all clusters) and RetainWindowCluster: docked panels of a
\* closing view stay open without a window.
RetainWindow(w, C) ==
    /\ panels' = [k \in Keys |->
         IF /\ panels[k].present /\ ClusterOf(k) \in C
            /\ panels[k].loc.win = w /\ panels[k].loc.kind = "docked"
         THEN [panels[k] EXCEPT !.loc = Retained(@)]
         ELSE panels[k]]
    /\ UNCHANGED <<pending, members, handles, live>>

\* Mutation: a deleted panel stays in its transfer.
DeleteOnly(D) ==
    /\ panels' = [k \in Keys |-> IF k \in D THEN NoPanel ELSE panels[k]]
    /\ UNCHANGED <<members, pending>>

\* deletePanelLocked and leaveTransferLocked for the panels D: each leaves its
\* transfer, and a transfer that loses its last panel is over.
Delete(D) ==
    LET leaving(x) == {k \in D : panels[k].transfer = x}
    IN  /\ panels' = [k \in Keys |-> IF k \in D THEN NoPanel ELSE panels[k]]
        /\ members' = [x \in Transfers |-> members[x] \ leaving(x)]
        /\ pending' = pending \ {x \in Transfers : leaving(x) # {} /\ members[x] \subseteq leaving(x)}

\* A native panel window is gone, with the panels placed in it.
RemoveWindow(w) ==
    /\ Delete({k \in Present : panels[k].loc.win = w})
    /\ UNCHANGED <<handles, live>>

\* A renderer closed a panel: refused if it moved, or is moving, elsewhere.
ClosePanel(w, k) ==
    /\ panels[k].present /\ panels[k].loc.win = w /\ ~moving(k)
    /\ Delete({k})
    /\ UNCHANGED <<handles, live>>

\* The cluster is gone: its panels go, and admitted commands are refused.
RemoveCluster(c) ==
    /\ Delete({k \in Present : ClusterOf(k) = c})
    /\ live' = {r \in live : handles[r] # c}
    /\ UNCHANGED handles

GroupsOf(kind) == IF kind = "docked" THEN DockGroups ELSE {"group"}

\* PublishWindow: the renderer of w reports how it arranges panels.  Only those
\* placed in w and not moving are taken over (A); at gives group and position.
PublishWindow(w, kind, A, at) ==
    /\ A # {}
    /\ \A k \in A : /\ panels[k].present /\ ~moving(k)
                    /\ panels[k].loc.win = w /\ panels[k].loc.kind = kind
    /\ \A k, e \in A : k # e /\ ClusterOf(k) = ClusterOf(e) => at[k] # at[e]
    /\ panels' = [k \in Keys |->
         IF k \in A
         THEN [panels[k] EXCEPT !.loc = [kind |-> kind, win |-> w,
                                         group |-> at[k].group, index |-> at[k].index]]
         ELSE panels[k]]
    /\ UNCHANGED <<pending, members, handles, live>>

-----------------------------------------------------------------------------
(* Moving panels between windows.                                          *)

\* groupRef: one cluster's group in one renderer.
refOf(k, l) == <<ClusterOf(k), l.win, l.group, l.kind>>

GroupAt(k, l) == {e \in Present : refOf(e, panels[e].loc) = refOf(k, l)}

\* The index that asks for the end of the group.
AppendToGroup == MaxIndex + 1

\* insertIndexLocked: the requested position in the group, without those that
\* are moving; its size if the position is AppendToGroup or out of range.
insertIndex(k, l, moved) ==
    LET size == Cardinality(GroupAt(k, l) \ moved)
    IN  IF l.index > size THEN size ELSE l.index

\* Mark the panels of G as moving to where(k), and record the transfer.
Record(x, G, where) ==
    /\ \A k \in G : where[k].index <= MaxIndex
    /\ panels' = [k \in Keys |->
         IF k \in G THEN [panels[k] EXCEPT !.transfer = x, !.target = where[k]] ELSE panels[k]]
    /\ members' = [members EXCEPT ![x] = G]
    /\ pending' = pending \cup {x}
    /\ UNCHANGED <<handles, live>>

\* Mutation: a panel that is already moving may be taken along.
SourceAlsoMoving(src, G) == \A k \in G : panels[k].present /\ panels[k].loc.win = src

\* validateGroupTransferSourceLocked.
SourceHolds(src, G) ==
    \A k \in G : panels[k].present /\ panels[k].loc.win = src /\ ~moving(k)

\* A group G of one cluster, in the order ord, moves from src to position l; a
\* panel window is never its own target (validatePanelTabTransferTarget).
BeginGroupTransfer(x, src, l, G, ord) ==
    /\ x \notin pending
    /\ G # {} /\ \A k, e \in G : ClusterOf(k) = ClusterOf(e)
    /\ \A k, e \in G : k # e => ord[k] # ord[e]
    /\ l.kind = "panel-window" => l.win # src
    /\ SourceHolds(src, G)
    /\ Record(x, G, [k \in G |-> [l EXCEPT !.index = ord[k] + insertIndex(k, l, G)]])

\* A cluster view moves from src to tgt with all the panels docked in it.
BeginViewTransfer(x, src, tgt, c) ==
    LET G == {k \in Present : /\ ClusterOf(k) = c /\ panels[k].loc.kind = "docked"
                              /\ panels[k].loc.win = src}
        base(k) == insertIndex(k, [panels[k].loc EXCEPT !.win = tgt, !.index = AppendToGroup], G)
    IN  /\ x \notin pending /\ src # tgt
        /\ \A k \in G : ~moving(k)
        /\ Record(x, G, [k \in G |-> [panels[k].loc EXCEPT !.win = tgt, !.index = @ + base(k)]])

\* CommitGroupTransfer with makeRoomLocked: the panels take their targets, and
\* tabs of a receiving group at or behind the arrivals move behind them.
CommitGroupTransfer(x) ==
    LET arriving(k) == {m \in members[x] : refOf(m, panels[m].target) = refOf(k, panels[k].loc)}
        behind(k)   == \E m \in arriving(k) : panels[m].target.index <= panels[k].loc.index
        shifted(k)  == panels[k].loc.index + Cardinality(arriving(k))
    IN  /\ x \in pending
        /\ \A k \in Present \ members[x] : behind(k) => shifted(k) <= MaxIndex
        /\ panels' = [k \in Keys |->
             IF k \in members[x]
             THEN [panels[k] EXCEPT !.present = TRUE, !.loc = panels[k].target,
                                    !.transfer = None, !.target = None]
             ELSE IF panels[k].present /\ behind(k)
             THEN [panels[k] EXCEPT !.loc.index = shifted(k)]
             ELSE panels[k]]
        /\ pending' = pending \ {x}
        /\ members' = [members EXCEPT ![x] = {}]
        /\ UNCHANGED <<handles, live>>

\* Mutation: only the transfer is dropped, the panels stay marked.
CancelLeavesMarks(x) ==
    /\ x \in pending
    /\ pending' = pending \ {x}
    /\ members' = [members EXCEPT ![x] = {}]
    /\ UNCHANGED <<panels, handles, live>>

CancelGroupTransfer(x) ==
    /\ x \in pending
    /\ panels' = [k \in Keys |->
         IF k \in members[x]
         THEN [panels[k] EXCEPT !.present = TRUE, !.transfer = None, !.target = None]
         ELSE panels[k]]
    /\ pending' = pending \ {x}
    /\ members' = [members EXCEPT ![x] = {}]
    /\ UNCHANGED <<handles, live>>

-----------------------------------------------------------------------------
Next ==
    \/ \E r \in Callers : Release(r) \/ \E c \in Clusters : ReserveCluster(r, c)
    \/ \E r \in Callers, k \in Keys, o \in Objects : \E l \in OpenPlaces : Open(r, k, o, l)
    \/ \E w \in AppWindows :
          RetainWindow(w, Clusters) \/ \E c \in Clusters : RetainWindow(w, {c})
    \/ \E w \in PanelWindows : RemoveWindow(w)
    \/ \E w \in AppWindows \cup PanelWindows, k \in Keys : ClosePanel(w, k)
    \/ \E c \in Clusters : RemoveCluster(c)
    \/ \E w \in AppWindows \cup PanelWindows, kind \in {"docked", "panel-window"}, A \in SUBSET Keys :
          \E at \in [A -> [group : GroupsOf(kind), index : 0 .. Cardinality(PanelIDs) - 1]] :
              PublishWindow(w, kind, A, at)
    \/ \E x \in Transfers, src \in AppWindows \cup PanelWindows, G \in SUBSET Keys :
          \E l \in Places(0 .. AppendToGroup), ord \in [G -> 0 .. Cardinality(G) - 1] :
              BeginGroupTransfer(x, src, l, G, ord)
    \/ \E x \in Transfers, src, tgt \in AppWindows, c \in Clusters : BeginViewTransfer(x, src, tgt, c)
    \/ \E x \in Transfers : CommitGroupTransfer(x) \/ CancelGroupTransfer(x)

Spec == Init /\ [][Next]_vars

-----------------------------------------------------------------------------
(* Properties that hold.                                                   *)

\* Transfers and panels agree on what is moving: d.transfers lists exactly the
\* open panels that carry its ID, so that committing or cancelling a move
\* neither recreates a deleted panel nor forgets a marked one, which nobody
\* could close or move again (leaveTransferLocked, CancelGroupTransfer).
TransfersAgree ==
    /\ \A k \in Keys, x \in Transfers :
           panels[k].transfer = x <=> (x \in pending /\ k \in members[x])
    /\ \A k \in Keys : moving(k) => panels[k].present

\* "Open atomically claims an object or returns its existing placement": however
\* panels are opened, moved and retained, an object is shown by one panel.
OneObjectOnePanel ==
    \A k, e \in Present :
        ClusterOf(k) = ClusterOf(e) /\ panels[k].obj = panels[e].obj => k = e

\* The inductive invariant behind both.
DirectoryInv == TypeOK /\ TransfersAgree /\ OneObjectOnePanel

\* Only an admitted Open brings a panel into the directory: no end of a move, no
\* publication and no window closure brings a closed panel back.
OnlyOpenCreates ==
    [][\A k \in Keys : ~panels[k].present /\ panels'[k].present
          => \E r \in live : handles[r] = ClusterOf(k)]_vars

\* A moving panel stays in its group, or loses its closing window, until the
\* transfer it belongs to is over: no publication and no second transfer takes
\* it, and its target stays the one that was recorded (BeginGroupTransfer).
MovingStaysPut ==
    [][\A k \in Keys : (moving(k) /\ panels'[k].present /\ panels[k].transfer \in pending') =>
          /\ panels'[k].transfer = panels[k].transfer /\ panels'[k].target = panels[k].target
          /\ \/ panels'[k].loc.kind = "retained"
             \/ refOf(k, panels'[k].loc) = refOf(k, panels[k].loc)]_vars
=============================================================================
