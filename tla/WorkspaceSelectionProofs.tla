---------------------- MODULE WorkspaceSelectionProofs ----------------------
(***************************************************************************)
(* Proofs about WorkspaceSelection, for every set of windows, clusters and *)
(* commands in flight.                                                     *)
(***************************************************************************)
EXTENDS WorkspaceSelection, TLAPS

\* The points of a command.
PCs == {"idle", "done"} \cup PreLock \cup InLock \cup OffLock

\* Membership in the union of owners.
LEMMA UnionMember ==
  ASSUME NEW own, NEW refs, NEW c
  PROVE  c \in UnionOf(own, refs) <=> (\E w \in Windows : c \in own[w]) \/ c \in refs
BY DEF UnionOf

\* Owners only grow when each window's tabs and the references do.
LEMMA UnionMonotone ==
  ASSUME NEW own1, NEW refs1, NEW own2, NEW refs2,
         \A w \in Windows : own1[w] \subseteq own2[w],
         refs1 \subseteq refs2
  PROVE  UnionOf(own1, refs1) \subseteq UnionOf(own2, refs2)
BY UnionMember

\* The union of owned clusters is a set of clusters.
LEMMA UnionType ==
  ASSUME NEW own \in [Windows -> SUBSET Clusters], NEW refs \in SUBSET Clusters
  PROVE  UnionOf(own, refs) \in SUBSET Clusters
BY UnionMember

\* Replacing one task's record.
LEMMA TaskUpdate ==
  ASSUME task \in [Tasks -> Task], NEW t \in Tasks, NEW r \in Task,
         task' = [task EXCEPT ![t] = r]
  PROVE  /\ task' \in [Tasks -> Task]
         /\ task'[t] = r
         /\ \A u \in Tasks \ {t} : task'[u] = task[u]
OBVIOUS

\* Moving one task to another point of its command.
LEMMA GotoFacts ==
  ASSUME task \in [Tasks -> Task], NEW t \in Tasks, NEW pc \in PCs, Goto(t, pc)
  PROVE  /\ task' \in [Tasks -> Task]
         /\ task'[t].pc = pc
         /\ task'[t].union = task[t].union
         /\ task'[t].todo = task[t].todo
         /\ task'[t].kind = task[t].kind
         /\ task'[t].cl = task[t].cl
         /\ task'[t].win = task[t].win
         /\ \A u \in Tasks \ {t} : task'[u] = task[u]
BY DEF Goto, Task, PCs

\* What a body leaves when it reconciles the selection with new ownership: the
\* union is the selection already, or refused, or on its way to be committed.
LEMMA ReconcileFacts ==
  ASSUME task \in [Tasks -> Task], NEW t \in Tasks, task[t].pc # "idle",
         NEW own \in [Windows -> SUBSET Clusters], NEW refs \in SUBSET Clusters,
         Reconcile(t, own, refs)
  PROVE  /\ owned' = own /\ panelRefs' = refs
         /\ Owners' = UnionOf(own, refs) /\ Owners' \in SUBSET Clusters
         /\ task' \in [Tasks -> Task]
         /\ task'[t].union = Owners'
         /\ task'[t].pc \in {"finish", "activate"}
         /\ task'[t].pc = "finish" /\ ~refused' => Owners' = selected
         /\ refused' \in BOOLEAN
         /\ task'[t].kind = task[t].kind /\ task'[t].cl = task[t].cl
         /\ task'[t].win = task[t].win /\ task'[t].tgt = task[t].tgt
         /\ \A u \in Tasks \ {t} : task'[u] = task[u]
<1> DEFINE U == UnionOf(own, refs)
           pc == IF U = selected \/ Refuses(U) THEN "finish" ELSE "activate"
           r == [task[t] EXCEPT !.union = U, !.pc = pc]
<1>1. /\ owned' = own /\ panelRefs' = refs
      /\ refused' = (Refuses(U) \/ (refused /\ U # selected))
      /\ task' = [task EXCEPT ![t].union = U, ![t].pc = pc]
  BY DEF Reconcile
<1>2. U \in SUBSET Clusters /\ Owners' = U
  BY <1>1, UnionType DEF Owners, UnionOf
<1>3. pc \in {"finish", "activate"} /\ (pc = "finish" => U = selected \/ Refuses(U))
  OBVIOUS
<1> HIDE DEF U, pc
<1>4. /\ r \in Task /\ r.union = U /\ r.pc = pc
      /\ r.kind = task[t].kind /\ r.win = task[t].win /\ r.tgt = task[t].tgt /\ r.cl = task[t].cl
  BY <1>2, <1>3, ZenonT(60) DEF Task, InLock
<1>5. task' = [task EXCEPT ![t] = r]
  BY <1>1
<1>6. /\ task' \in [Tasks -> Task] /\ task'[t] = r
      /\ \A u \in Tasks \ {t} : task'[u] = task[u]
  BY <1>4, <1>5, TaskUpdate
<1>7. task'[t].pc = "finish" /\ ~refused' => Owners' = selected
  BY <1>1, <1>2, <1>3, <1>4, <1>6
<1>8. refused' \in BOOLEAN
  BY <1>1
<1> HIDE DEF r
<1> QED BY <1>1, <1>2, <1>3, <1>4, <1>6, <1>7, <1>8 DEF U

\* Adopting a window only adds owners.
LEMMA EnsureFacts ==
  ASSUME TypeOK, UntrackedOwnsNothing, NEW w \in Windows, EnsureWindow(w), UNCHANGED panelRefs
  PROVE  /\ tracked' \subseteq Windows
         /\ owned' \in [Windows -> SUBSET Clusters]
         /\ UntrackedOwnsNothing'
         /\ Owners \subseteq Owners'
<1>1. /\ tracked' \subseteq Windows
      /\ owned' \in [Windows -> SUBSET Clusters]
      /\ \A v \in Windows : owned[v] \subseteq owned'[v]
  BY DEF TypeOK, UntrackedOwnsNothing, EnsureWindow
<1>2. UntrackedOwnsNothing'
  BY DEF TypeOK, UntrackedOwnsNothing, EnsureWindow
<1>3. Owners \subseteq Owners'
  <2>1. UnionOf(owned, panelRefs) \subseteq UnionOf(owned', panelRefs')
    BY <1>1, UnionMonotone
  <2> QED BY <2>1 DEF Owners, UnionOf
<1> QED BY <1>1, <1>2, <1>3

-----------------------------------------------------------------------------
\* A step outside the slot keeps the invariant if it neither removes an owner
\* nor touches what the holder of the slot is doing.
LEMMA OutsideStep ==
  ASSUME OwnershipInv, NEW t \in Tasks, TypeOK',
         UNCHANGED <<selected, refused, holder>>, Owners \subseteq Owners',
         UntrackedOwnsNothing',
         task[t].pc \notin InLock, task'[t].pc \notin InLock,
         task'[t].kind = "move" => task'[t].win # task'[t].tgt,
         \A u \in Tasks \ {t} : task'[u] = task[u]
  PROVE  OwnershipInv'
<1>1. SlotExclusive'
  BY DEF OwnershipInv, SlotExclusive, TypeOK, InLock
<1>2. SettledIsOwned'
  BY DEF OwnershipInv, SettledIsOwned, Unsettled, InLock
<1>3. PlanIsOwned'
  BY DEF OwnershipInv, PlanIsOwned, InLock
<1>4. MovesElsewhere'
  BY DEF OwnershipInv, MovesElsewhere
<1> QED BY <1>1, <1>2, <1>3, <1>4 DEF OwnershipInv

\* A step of the holder of the slot keeps the invariant if what it leaves in the
\* selection, or plans to put there, is owned.
LEMMA InsideStep ==
  ASSUME OwnershipInv, NEW t \in Tasks, TypeOK', UntrackedOwnsNothing',
         task[t].pc \in InLock,
         task'[t].pc \in InLock /\ holder' = holder,
         task'[t].kind = "move" => task'[t].win # task'[t].tgt,
         \A u \in Tasks \ {t} : task'[u] = task[u],
         task'[t].pc \notin Unsettled /\ ~refused' => selected' \subseteq Owners',
         task'[t].pc \in {"activate", "select"} => task'[t].union \subseteq Owners',
         task'[t].pc = "pruneSelection" /\ ~refused' => task'[t].union \subseteq Owners',
         task'[t].pc = "wipe" => task'[t].union = {},
         task'[t].pc = "pruneOwners" => task'[t].union \subseteq selected'
  PROVE  OwnershipInv'
<1>0. holder = t
  BY DEF OwnershipInv, SlotExclusive
<1>1. SlotExclusive'
  BY <1>0 DEF OwnershipInv, SlotExclusive
<1>2. SettledIsOwned'
  BY DEF SettledIsOwned
<1>3. \A u \in Tasks \ {t} : task'[u].pc \notin InLock
  BY <1>0 DEF OwnershipInv, SlotExclusive
<1>4. PlanIsOwned'
  BY <1>3 DEF PlanIsOwned, InLock
<1>5. MovesElsewhere'
  BY DEF OwnershipInv, MovesElsewhere
<1> QED BY <1>1, <1>2, <1>4, <1>5 DEF OwnershipInv

\* While the holder is not about to replace the selection, and no change of
\* ownership was refused, all of it is owned.
LEMMA SettledFacts ==
  ASSUME OwnershipInv, NEW t \in Tasks, task[t].pc \in InLock, task[t].pc \notin Unsettled,
         ~refused
  PROVE  selected \subseteq Owners
BY DEF OwnershipInv, SlotExclusive, SettledIsOwned, Unsettled, InLock

\* Leaving ownership alone.
LEMMA OwnershipFrame ==
  ASSUME UNCHANGED ownership
  PROVE  /\ Owners' = Owners /\ refused' = refused
         /\ UntrackedOwnsNothing => UntrackedOwnsNothing'
BY DEF ownership, Owners, UnionOf, UntrackedOwnsNothing

-----------------------------------------------------------------------------
\* The arrival of a command.
LEMMA ArriveStep ==
  ASSUME OwnershipInv, NEW t \in Tasks, Arrive(t)
  PROVE  OwnershipInv'
<1>a. /\ TypeOK /\ UntrackedOwnsNothing
      /\ task \in [Tasks -> Task]
      /\ task[t].win \in Windows /\ task[t].cl \in Clusters
  BY DEF OwnershipInv, TypeOK, Task
<1> DEFINE Arrived == /\ task' \in [Tasks -> Task]
                      /\ task[t].pc = "idle"
                      /\ task'[t].pc \notin InLock
                      /\ task'[t].kind = "move" => task'[t].win # task'[t].tgt
                      /\ \A u \in Tasks \ {t} : task'[u] = task[u]
<1>c. Kinds \subseteq AllKinds
  BY SelectionConstants DEF SelectionConstants
<1> USE DEF PreLock, InLock, OffLock
<1>b. ASSUME Arrived,
             UNCHANGED <<ownership, selected, runtime, preempt, holder>>,
             panels' \subseteq Clusters, reservations' \subseteq Tasks,
             rebuilding' \subseteq Clusters
      PROVE  OwnershipInv'
  <2>1. TypeOK'
    BY <1>a, <1>b DEF TypeOK, ownership, runtime, preempt
  <2>2. Owners \subseteq Owners' /\ UntrackedOwnsNothing'
    BY <1>a, <1>b, OwnershipFrame
  <2>3. task[t].pc \notin InLock /\ UNCHANGED <<selected, refused, holder>>
    BY <1>b, OwnershipFrame DEF InLock
  <2> QED BY <1>b, <2>1, <2>2, <2>3, OutsideStep
<1>1. ASSUME NEW w \in Windows, NEW S \in SUBSET Clusters, ApplyClusterWorkspace(t, w, S)
      PROVE  OwnershipInv'
  <2>1. Arrived
    BY <1>1, <1>a, <1>c DEF ApplyClusterWorkspace, Issue, Task
  <2> QED BY <1>1, <1>a, <1>b, <2>1 DEF ApplyClusterWorkspace, directory, TypeOK
<1>2. ASSUME NEW w \in Windows, NEW c \in Clusters, CloseClusterView(t, w, c)
      PROVE  OwnershipInv'
  <2>1. Arrived
    BY <1>2, <1>a, <1>c DEF CloseClusterView, Issue, Task
  <2> QED BY <1>2, <1>a, <1>b, <2>1 DEF CloseClusterView, directory, TypeOK
<1>3. ASSUME NEW w \in Windows, NEW c \in Clusters, OpenPanelWorkspaceObject(t, w, c)
      PROVE  OwnershipInv'
  <2>1. Arrived
    BY <1>3, <1>a, <1>c DEF OpenPanelWorkspaceObject, Issue, Task
  <2> QED BY <1>3, <1>a, <1>b, <2>1 DEF OpenPanelWorkspaceObject, TypeOK
<1>4. ASSUME NEW w \in Windows, ObserveWindow(t, w)
      PROVE  OwnershipInv'
  <2>1. Arrived
    BY <1>4, <1>a, <1>c DEF ObserveWindow, Issue, Task
  <2>2. /\ tracked' \subseteq Windows
        /\ owned' \in [Windows -> SUBSET Clusters]
        /\ UntrackedOwnsNothing'
        /\ Owners \subseteq Owners'
    BY <1>4, <1>a, EnsureFacts DEF ObserveWindow
  <2>3. TypeOK'
    BY <1>4, <1>a, <2>1, <2>2 DEF ObserveWindow, TypeOK, runtime, preempt, directory
  <2>4. task[t].pc \notin InLock
    BY <2>1 DEF InLock
  <2> QED BY <1>4, <2>1, <2>2, <2>3, <2>4, OutsideStep DEF ObserveWindow
<1>5. ASSUME NEW w \in Windows, ReleaseWorkspaceWindow(t, w)
      PROVE  OwnershipInv'
  <2>1. Arrived
    BY <1>5, <1>a, <1>c DEF ReleaseWorkspaceWindow, Issue, Task
  <2> QED BY <1>5, <1>a, <1>b, <2>1 DEF ReleaseWorkspaceWindow, directory, TypeOK
<1>6. ASSUME NEW k \in Kinds, NEW w \in Windows, NEW v \in Windows, NEW c \in Clusters,
             MoveClusterView(t, k, w, v, c)
      PROVE  OwnershipInv'
  <2>1. Arrived
    BY <1>6, <1>a, <1>c DEF MoveClusterView, Issue, Task
  <2> QED BY <1>6, <1>a, <1>b, <2>1 DEF MoveClusterView, directory, TypeOK
<1>7. ASSUME NEW c \in Clusters, ClosePanelWorkspaceObject(t, c)
      PROVE  OwnershipInv'
  <2>1. Arrived
    BY <1>7, <1>a, <1>c DEF ClosePanelWorkspaceObject, Issue, Task
  <2> QED BY <1>7, <1>a, <1>b, <2>1 DEF ClosePanelWorkspaceObject, TypeOK
<1>8. ASSUME NEW c \in Clusters, RecordTransportFailure(t, c)
      PROVE  OwnershipInv'
  <2>1. Arrived
    BY <1>8, <1>a, <1>c DEF RecordTransportFailure, Issue, Task
  <2> QED BY <1>8, <1>a, <1>b, <2>1 DEF RecordTransportFailure, directory, TypeOK
<1>9. CASE KubeconfigSourceChanged(t)
  <2>1. Arrived
    BY <1>9, <1>a, <1>c DEF KubeconfigSourceChanged, Issue, Task
  <2> QED BY <1>9, <1>a, <1>b, <2>1 DEF KubeconfigSourceChanged, directory, TypeOK
<1>10. CASE SetKubeconfigSearchPaths(t)
  <2>1. Arrived
    BY <1>10, <1>a, <1>c DEF SetKubeconfigSearchPaths, Issue, Task
  <2> QED BY <1>10, <1>a, <1>b, <2>1 DEF SetKubeconfigSearchPaths, directory, TypeOK
<1> QED
  BY <1>1, <1>2, <1>3, <1>4, <1>5, <1>6, <1>7, <1>8, <1>9, <1>10 DEF Arrive

\* The steps of a command that does not hold the slot, and taking the slot.
LEMMA BeforeSlotStep ==
  ASSUME OwnershipInv, NEW t \in Tasks, BeforeSlot(t)
  PROVE  OwnershipInv'
<1>a. /\ TypeOK /\ UntrackedOwnsNothing
      /\ task \in [Tasks -> Task] /\ task[t] \in Task
      /\ task[t].kind = "move" => task[t].win # task[t].tgt
  BY DEF OwnershipInv, TypeOK, MovesElsewhere
<1> USE DEF PreLock, InLock, OffLock
<1> DEFINE Moved == /\ task' \in [Tasks -> Task]
                    /\ task[t].pc \notin InLock
                    /\ task'[t].pc \notin InLock
                    /\ task'[t].kind = "move" => task'[t].win # task'[t].tgt
                    /\ \A u \in Tasks \ {t} : task'[u] = task[u]
<1>b. ASSUME Moved, UNCHANGED <<tracked, owned, refused, selected, clients, conn, available, holder, rebuilding>>,
             panelRefs' \subseteq Clusters, Owners \subseteq Owners',
             gen' \in Nat, active' \in Slots, cancelled' \subseteq Tasks,
             panels' \subseteq Clusters, reservations' \subseteq Tasks
      PROVE  OwnershipInv'
  <2>1. TypeOK'
    BY <1>a, <1>b DEF TypeOK
  <2>2. UntrackedOwnsNothing'
    BY <1>a, <1>b DEF UntrackedOwnsNothing
  <2> QED BY <1>b, <2>1, <2>2, OutsideStep
<1>1. CASE ConsumeIntent(t)
  <2>1. Moved
    BY <1>1, <1>a DEF ConsumeIntent, Goto, Task
  <2> QED BY <1>1, <1>a, <1>b, <2>1, OwnershipFrame
          DEF ConsumeIntent, TypeOK, ownership, runtime, preempt, directory
<1>2. CASE ProbeObsolete(t)
  <2>1. Moved
    BY <1>2, <1>a DEF ProbeObsolete, Goto, Task
  <2> QED BY <1>2, <1>a, <1>b, <2>1, OwnershipFrame
          DEF ProbeObsolete, TypeOK, ownership, runtime, preempt, directory
<1>3. CASE SkipSuperseded(t)
  <2>1. Moved
    BY <1>3, <1>a DEF SkipSuperseded, Goto, Task
  <2> QED BY <1>3, <1>a, <1>b, <2>1, OwnershipFrame
          DEF SkipSuperseded, TypeOK, ownership, runtime, preempt, directory
<1>4. CASE CheckUnused(t)
  <2>1. Moved
    BY <1>4, <1>a DEF CheckUnused, Goto, Task
  <2> QED BY <1>4, <1>a, <1>b, <2>1, OwnershipFrame
          DEF CheckUnused, TypeOK, ownership, runtime, preempt, directory
<1>5. CASE TakeGeneration(t)
  <2>1. Moved
    BY <1>5, <1>a DEF TakeGeneration, Goto, Task
  <2> QED BY <1>5, <1>a, <1>b, <2>1, OwnershipFrame
          DEF TakeGeneration, TypeOK, ownership, runtime, preempt, directory
<1>6. CASE Preempt(t)
  <2>1. Moved
    BY <1>6, <1>a DEF Preempt, Goto, Task
  <2> QED BY <1>6, <1>a, <1>b, <2>1, OwnershipFrame
          DEF Preempt, TypeOK, ownership, runtime, preempt, directory, CancelActive, Slots
<1>7. CASE CommitPanel(t)
  <2>1. Moved
    BY <1>7, <1>a DEF CommitPanel, Goto, Task
  <2>2. panels' \subseteq Clusters
    BY <1>7, <1>a DEF CommitPanel, TypeOK, Task
  <2> QED BY <1>7, <1>a, <1>b, <2>1, <2>2, OwnershipFrame
          DEF CommitPanel, TypeOK, ownership, runtime, preempt, directory
<1>8. CASE ReleaseReservation(t)
  <2>1. Moved
    BY <1>8, <1>a DEF ReleaseReservation, Goto, Task
  <2> QED BY <1>8, <1>a, <1>b, <2>1, OwnershipFrame
          DEF ReleaseReservation, TypeOK, ownership, runtime, preempt, directory
<1>9. CASE LookBeforeClose(t)
  <2> DEFINE w == task[t].win
             current == owned'[w]
             r == [task[t] EXCEPT !.set = current \ {task[t].cl},
                                  !.pc = IF task[t].cl \in current THEN "probe" ELSE "queue"]
  <2>1. /\ tracked' \subseteq Windows
        /\ owned' \in [Windows -> SUBSET Clusters]
        /\ UntrackedOwnsNothing'
        /\ Owners \subseteq Owners'
    <3>1. w \in Windows /\ UNCHANGED <<panelRefs, refused>>
      BY <1>9, <1>a DEF LookBeforeClose, Task
    <3>2. CASE EnsureWindow(w)
      BY <3>1, <3>2, <1>a, EnsureFacts
    <3>3. CASE UNCHANGED <<tracked, owned>>
      <4>1. UNCHANGED ownership
        BY <3>1, <3>3 DEF ownership
      <4> QED BY <3>3, <4>1, <1>a, OwnershipFrame DEF TypeOK
    <3> QED BY <1>9, <3>2, <3>3 DEF LookBeforeClose
  <2>2. /\ r \in Task /\ r.pc \notin InLock /\ task[t].pc \notin InLock
        /\ r.kind = task[t].kind /\ r.win = task[t].win /\ r.tgt = task[t].tgt
    <3>1. current \subseteq Clusters
      BY <2>1, <1>a DEF Task
    <3> HIDE DEF current
    <3> QED BY <3>1, <1>a, <1>9 DEF LookBeforeClose, Task
  <2>3. task' = [task EXCEPT ![t] = r]
    BY <1>9 DEF LookBeforeClose
  <2>4. Moved
    BY <2>2, <2>3, <1>a, TaskUpdate
  <2>5. TypeOK'
    BY <1>9, <1>a, <2>1, <2>4 DEF LookBeforeClose, TypeOK, runtime, preempt, directory
  <2> QED BY <1>9, <2>1, <2>4, <2>5, OutsideStep DEF LookBeforeClose
<1>10. CASE RetainOwned(t)
  <2>1. Moved
    BY <1>10, <1>a DEF RetainOwned, Goto, Task
  <2>2. panelRefs' \subseteq Clusters /\ panelRefs \subseteq panelRefs' /\ owned' = owned
    BY <1>10, <1>a DEF RetainOwned, TypeOK, Task
  <2>3. Owners \subseteq Owners'
    BY <2>2, UnionMonotone DEF Owners, UnionOf
  <2> QED BY <1>10, <1>a, <1>b, <2>1, <2>2, <2>3
          DEF RetainOwned, TypeOK, runtime, preempt, directory
<1>11. CASE ReleaseOwned(t)
  <2>1. Moved
    BY <1>11, <1>a DEF ReleaseOwned, Goto, Task
  <2>2. panelRefs' \subseteq Clusters /\ owned' = owned
    BY <1>11, <1>a DEF ReleaseOwned, TypeOK
  <2>3. Owners \subseteq Owners'
    <3>1. CASE UNCHANGED panelRefs
      BY <3>1, <2>2 DEF Owners, UnionOf
    <3>2. CASE panelRefs' = panelRefs \ {task[t].cl}
               /\ task[t].cl \in UnionOf(owned, panelRefs \ {task[t].cl})
      <4>1. UnionOf(owned, panelRefs) \subseteq UnionOf(owned, panelRefs \ {task[t].cl})
        BY <3>2, UnionMember
      <4> QED BY <4>1, <3>2, <2>2 DEF Owners, UnionOf
    <3> QED BY <1>11, <3>1, <3>2 DEF ReleaseOwned
  <2> QED BY <1>11, <1>a, <1>b, <2>1, <2>2, <2>3
          DEF ReleaseOwned, TypeOK, runtime, preempt, directory
<1>12. CASE AcquireSlot(t)
  <2>1. /\ task' \in [Tasks -> Task]
        /\ task'[t].pc \in {"start", "body"}
        /\ task'[t].kind = "move" => task'[t].win # task'[t].tgt
        /\ \A u \in Tasks \ {t} : task'[u] = task[u]
        /\ holder = NoTask /\ holder' = t
        /\ task[t].pc = "queue"
    BY <1>12, <1>a DEF AcquireSlot, Goto, Task
  <2>2. TypeOK'
    BY <1>12, <1>a, <2>1 DEF AcquireSlot, TypeOK, Slots, ownership, runtime, preempt, directory
  <2>3. Owners' = Owners /\ UntrackedOwnsNothing' /\ selected' = selected /\ refused' = refused
    BY <1>12, <1>a, OwnershipFrame DEF AcquireSlot
  <2>4. \A u \in Tasks : task[u].pc \notin InLock
    BY <2>1, SelectionConstants DEF OwnershipInv, SlotExclusive, SelectionConstants
  <2>5. SlotExclusive'
    BY <2>1, <2>4 DEF SlotExclusive
  <2>6. SettledIsOwned'
    BY <2>1, <2>3, <2>4 DEF OwnershipInv, SettledIsOwned, Unsettled
  <2>7. PlanIsOwned'
    BY <2>1, <2>3, <2>4 DEF PlanIsOwned
  <2>8. MovesElsewhere'
    BY <2>1 DEF OwnershipInv, MovesElsewhere
  <2> QED BY <2>2, <2>3, <2>5, <2>6, <2>7, <2>8 DEF OwnershipInv
<1> QED
  BY <1>1, <1>2, <1>3, <1>4, <1>5, <1>6, <1>7, <1>8, <1>9, <1>10, <1>11, <1>12 DEF BeforeSlot

\* The steps of the holder of the slot, and giving the slot back.
LEMMA InSlotStep ==
  ASSUME OwnershipInv, NEW t \in Tasks, InSlot(t)
  PROVE  OwnershipInv'
<1>a. /\ TypeOK /\ UntrackedOwnsNothing
      /\ task \in [Tasks -> Task] /\ task[t] \in Task
      /\ task[t].kind = "move" => task[t].win # task[t].tgt
  BY DEF OwnershipInv, TypeOK, MovesElsewhere
<1> USE DEF PreLock, InLock, OffLock, Unsettled
<1> DEFINE Others == \A u \in Tasks \ {t} : task'[u] = task[u]
           Stayed == /\ task' \in [Tasks -> Task]
                     /\ task[t].pc \in InLock \ Unsettled
                     /\ task'[t].pc \in InLock \ (Unsettled \cup {"pruneOwners"})
                     /\ task'[t].kind = "move" => task'[t].win # task'[t].tgt
                     /\ Others
           Typed == /\ clients' \subseteq Clusters /\ rebuilding' \subseteq Clusters
                    /\ available' \subseteq Clusters
                    /\ conn' \in [Clusters -> ConnStates]
                    /\ gen' \in Nat /\ active' \in Slots /\ cancelled' \subseteq Tasks
                    /\ panels' \subseteq Clusters /\ reservations' \subseteq Tasks
<1>b. ASSUME Stayed, Typed, UNCHANGED <<ownership, selected, holder>>
      PROVE  OwnershipInv'
  <2>1. TypeOK'
    BY <1>a, <1>b DEF TypeOK, ownership
  <2>2. Owners' = Owners /\ UntrackedOwnsNothing' /\ refused' = refused
    BY <1>a, <1>b, OwnershipFrame
  <2>3. ~refused => selected \subseteq Owners
    BY <1>b, SettledFacts
  <2> QED BY <1>b, <2>1, <2>2, <2>3, InsideStep
<1>c. ASSUME NEW own \in [Windows -> SUBSET Clusters], NEW refs \in SUBSET Clusters,
             Reconcile(t, own, refs), task[t].pc \in InLock \ Unsettled,
             tracked' \subseteq Windows, \A w \in Windows \ tracked' : own[w] = {},
             UNCHANGED <<selected, runtime, preempt, holder, rebuilding, directory>>
      PROVE  OwnershipInv'
  <2>1. /\ owned' = own /\ panelRefs' = refs /\ refused' \in BOOLEAN
        /\ task' \in [Tasks -> Task]
        /\ task'[t].union = Owners' /\ task'[t].pc \in {"finish", "activate"}
        /\ task'[t].pc = "finish" /\ ~refused' => Owners' = selected
        /\ task'[t].kind = task[t].kind
        /\ task'[t].win = task[t].win /\ task'[t].tgt = task[t].tgt
        /\ Others
    BY <1>a, <1>c, ReconcileFacts
  <2>2. TypeOK'
    BY <1>a, <1>c, <2>1 DEF TypeOK, runtime, preempt, directory
  <2>3. UntrackedOwnsNothing'
    BY <1>c, <2>1 DEF UntrackedOwnsNothing
  <2> QED BY <1>a, <1>c, <2>1, <2>2, <2>3, InsideStep
<1>e. ASSUME NEW w \in Windows, NEW S \in SUBSET Clusters, GiveTabs(t, w, S), task[t].pc = "body",
             UNCHANGED <<selected, runtime, preempt, holder, rebuilding, directory>>
      PROVE  OwnershipInv'
  <2>1. CASE tracked' = tracked \cup {w} /\ Reconcile(t, [owned EXCEPT ![w] = S], panelRefs)
    <3>1. /\ [owned EXCEPT ![w] = S] \in [Windows -> SUBSET Clusters] /\ panelRefs \in SUBSET Clusters
          /\ tracked' \subseteq Windows
          /\ \A v \in Windows \ tracked' : [owned EXCEPT ![w] = S][v] = {}
      BY <1>a, <2>1 DEF TypeOK, UntrackedOwnsNothing
    <3> QED BY <1>c, <1>e, <2>1, <3>1
  <2>2. CASE Goto(t, "finish") /\ UNCHANGED ownership
    <3>1. Stayed
      BY <1>a, <1>e, <2>2 DEF Goto, Task
    <3> QED BY <1>a, <1>b, <1>e, <2>2, <3>1 DEF TypeOK, runtime, preempt, directory
  <2> QED BY <1>e, <2>1, <2>2 DEF GiveTabs
<1>1. CASE StartGeneration(t)
  <2>1. Stayed
    BY <1>1, <1>a DEF StartGeneration, Goto, InBody, Task
  <2> QED BY <1>1, <1>a, <1>b, <2>1
          DEF StartGeneration, TypeOK, runtime, preempt, directory, ActivateFor, Slots
<1>2. CASE CommitRebuild(t)
  <2>1. Stayed
    BY <1>2, <1>a DEF CommitRebuild, Goto, InBody, Task
  <2> QED BY <1>2, <1>a, <1>b, <2>1
          DEF CommitRebuild, TypeOK, runtime, preempt, directory
<1>3. CASE RecheckReference(t)
  <2>1. Stayed
    BY <1>3, <1>a DEF RecheckReference, Goto, InBody, Task
  <2> QED BY <1>3, <1>a, <1>b, <2>1
          DEF RecheckReference, TypeOK, runtime, preempt, directory
<1>4. CASE ClearRuntime(t)
  <2>1. Stayed
    BY <1>4, <1>a DEF ClearRuntime, Goto, InBody, Task
  <2> QED BY <1>4, <1>a, <1>b, <2>1
          DEF ClearRuntime, TypeOK, runtime, preempt, directory, DirectoryWithout, ConnStates
<1>5. CASE SyncClientPool(t)
  <2>1. Stayed
    BY <1>5, <1>a DEF SyncClientPool, Goto, InBody, Task
  <2> QED BY <1>5, <1>a, <1>b, <2>1
          DEF SyncClientPool, TypeOK, runtime, preempt, directory, DirectoryWithout, ConnStates
<1>6. CASE SkipSync(t)
  <2>1. Stayed
    BY <1>6, <1>a DEF SkipSync, Goto, InBody, Task
  <2> QED BY <1>6, <1>a, <1>b, <2>1
          DEF SkipSync, TypeOK, runtime, preempt, directory
<1>7. CASE BuildsDone(t)
  <2>1. Stayed
    BY <1>7, <1>a DEF BuildsDone, Goto, InBody, Task
  <2> QED BY <1>7, <1>a, <1>b, <2>1
          DEF BuildsDone, TypeOK, runtime, preempt, directory
<1>8. CASE PruneClients(t)
  <2>1. Stayed
    BY <1>8, <1>a DEF PruneClients, Goto, InBody, Task
  <2> QED BY <1>8, <1>a, <1>b, <2>1
          DEF PruneClients, TypeOK, runtime, preempt, directory, DirectoryWithout, ConnStates
<1>9. ASSUME NEW c \in Clusters, InstallClient(t, c)
      PROVE  OwnershipInv'
  <2>1. Stayed
    BY <1>9, <1>a DEF InstallClient, Goto, InBody, Task
  <2> QED BY <1>9, <1>a, <1>b, <2>1
          DEF InstallClient, TypeOK, runtime, preempt, directory, ConnStates
<1>10. ASSUME NEW c \in Clusters, BuildFails(t, c)
      PROVE  OwnershipInv'
  <2>1. Stayed
    BY <1>10, <1>a DEF BuildFails, Goto, InBody, Task
  <2> QED BY <1>10, <1>a, <1>b, <2>1
          DEF BuildFails, TypeOK, runtime, preempt, directory, ConnStates
<1>27. ASSUME NEW c \in Clusters, BuildLate(t, c)
      PROVE  OwnershipInv'
  <2>1. Stayed
    BY <1>27, <1>a DEF BuildLate, Goto, InBody, Task
  <2> QED BY <1>27, <1>a, <1>b, <2>1
          DEF BuildLate, TypeOK, runtime, preempt, directory, ConnStates
<1>11. ASSUME NEW c \in Clusters, BuildCancelled(t, c)
      PROVE  OwnershipInv'
  <2>1. Stayed
    BY <1>11, <1>a DEF BuildCancelled, Goto, InBody, Task
  <2> QED BY <1>11, <1>a, <1>b, <2>1
          DEF BuildCancelled, TypeOK, runtime, preempt, directory, ConnStates
<1>12. CASE CommitSelections(t)
  BY <1>12, <1>a, <1>e DEF CommitSelections, InBody, Task
<1>13. CASE CommitCancelMove(t)
  <2>1. /\ task[t].pc = "body" /\ task[t].tgt \in Windows
        /\ owned[task[t].tgt] \ ({task[t].cl} \cap selected) \in SUBSET Clusters
    BY <1>13, <1>a DEF CommitCancelMove, InBody, Task, TypeOK
  <2> QED BY <1>13, <1>e, <2>1 DEF CommitCancelMove
<1>14. CASE DropReference(t)
  <2>1. /\ task[t].pc \in InLock \ Unsettled /\ tracked' = tracked
        /\ panelRefs \ {task[t].cl} \in SUBSET Clusters /\ owned \in [Windows -> SUBSET Clusters]
        /\ \A w \in Windows \ tracked : owned[w] = {}
    BY <1>14, <1>a DEF DropReference, TypeOK, UntrackedOwnsNothing
  <2> QED BY <1>14, <1>a, <1>c, <2>1 DEF DropReference, TypeOK
<1>15. CASE CommitClose(t)
  <2> DEFINE w == task[t].win
             remaining == [owned EXCEPT ![w] = @ \ {task[t].cl}]
  <2>1. /\ task[t].pc \in InLock \ Unsettled /\ w \in Windows /\ tracked' = tracked
        /\ remaining \in [Windows -> SUBSET Clusters] /\ panelRefs \in SUBSET Clusters
        /\ \A v \in Windows \ tracked : remaining[v] = {}
    BY <1>15, <1>a DEF CommitClose, InBody, Task, TypeOK, UntrackedOwnsNothing
  <2>2. CASE Reconcile(t, remaining, panelRefs)
    <3> HIDE DEF remaining
    <3> QED BY <1>15, <1>a, <1>c, <2>1, <2>2 DEF CommitClose, TypeOK
  <2>3. CASE Goto(t, "finish") /\ UNCHANGED <<owned, panelRefs, refused>>
    <3>1. Stayed
      BY <1>a, <2>1, <2>3 DEF Goto, Task
    <3> QED BY <1>15, <2>3, <1>a, <1>b, <3>1
            DEF CommitClose, TypeOK, ownership, runtime, preempt, directory
  <2> QED BY <1>15, <2>2, <2>3 DEF CommitClose
<1>16. CASE CommitRelease(t)
  <2> DEFINE w == task[t].win
             remaining == [owned EXCEPT ![w] = {}]
  <2>1. /\ task[t].pc \in InLock \ Unsettled /\ w \in Windows
        /\ remaining \in [Windows -> SUBSET Clusters] /\ panelRefs \in SUBSET Clusters
        /\ \A v \in Windows \ (tracked \ {w}) : remaining[v] = {}
    BY <1>16, <1>a DEF CommitRelease, InBody, Task, TypeOK, UntrackedOwnsNothing
  <2>2. CASE tracked' = tracked \ {w} /\ Reconcile(t, remaining, panelRefs)
    <3> HIDE DEF remaining
    <3> QED BY <1>16, <1>a, <1>c, <2>1, <2>2 DEF CommitRelease, TypeOK
  <2>3. CASE Goto(t, "finish") /\ UNCHANGED ownership
    <3>1. Stayed
      BY <1>a, <2>1, <2>3 DEF Goto, Task
    <3> QED BY <1>16, <2>3, <1>a, <1>b, <3>1
            DEF CommitRelease, TypeOK, ownership, runtime, preempt, directory
  <2> QED BY <1>16, <2>2, <2>3 DEF CommitRelease
<1>17. CASE CommitStage(t)
  <2>1. Stayed /\ task[t].win \in Windows /\ task[t].tgt \in Windows /\ task[t].cl \in Clusters
    BY <1>17, <1>a DEF CommitStage, Goto, InBody, Task
  <2>2. /\ tracked' \subseteq Windows /\ owned' \in [Windows -> SUBSET Clusters]
        /\ panelRefs' = panelRefs /\ UntrackedOwnsNothing'
        /\ \A v \in Windows : owned[v] \subseteq owned'[v]
    BY <1>17, <1>a, <2>1 DEF CommitStage, TypeOK, UntrackedOwnsNothing
  <2>3. Owners \subseteq Owners'
    BY <2>2, UnionMonotone DEF Owners
  <2>4. TypeOK'
    BY <1>17, <1>a, <2>1, <2>2 DEF CommitStage, TypeOK, runtime, preempt, directory
  <2>5. (~refused' => selected' \subseteq Owners') /\ holder' = holder
    BY <1>17, <2>1, <2>3, SettledFacts DEF CommitStage
  <2> QED BY <2>1, <2>2, <2>4, <2>5, InsideStep
<1>18. CASE CommitMove(t)
  <2>1. Stayed /\ task[t].win \in Windows /\ task[t].tgt \in Windows /\ task[t].win # task[t].tgt
    BY <1>18, <1>a DEF CommitMove, Goto, InBody, Task
  <2>2. /\ tracked' = tracked /\ owned' \in [Windows -> SUBSET Clusters]
        /\ panelRefs' = panelRefs /\ UntrackedOwnsNothing'
    BY <1>18, <1>a, <2>1 DEF CommitMove, TypeOK, UntrackedOwnsNothing
  <2>3. \A c : (\E w \in Windows : c \in owned[w]) => \E w \in Windows : c \in owned'[w]
    <3>1. CASE owned' = owned
      BY <3>1
    <3>2. CASE /\ task[t].cl \in owned[task[t].tgt]
               /\ owned' = [owned EXCEPT ![task[t].win] = @ \ {task[t].cl}]
      <4>1. \A w \in Windows : owned'[w] = IF w = task[t].win THEN owned[w] \ {task[t].cl} ELSE owned[w]
        BY <3>2, <1>a DEF TypeOK
      <4> QED BY <4>1, <3>2, <2>1
    <3> QED BY <1>18, <3>1, <3>2 DEF CommitMove
  <2>4. Owners \subseteq Owners'
    BY <2>2, <2>3, UnionMember DEF Owners
  <2>5. TypeOK'
    BY <1>18, <1>a, <2>1, <2>2 DEF CommitMove, TypeOK, runtime, preempt, directory
  <2>6. (~refused' => selected' \subseteq Owners') /\ holder' = holder
    BY <1>18, <2>1, <2>4, SettledFacts DEF CommitMove
  <2> QED BY <2>1, <2>2, <2>5, <2>6, InsideStep
<1>19. CASE BeginDeferredGeneration(t)
  <2> DEFINE g == gen + 1
             pc == IF task[t].union = {} THEN "wipe" ELSE "select"
             r == [task[t] EXCEPT !.gen = g, !.pc = pc]
  <2>a. g \in Nat /\ pc \in {"wipe", "select"}
    BY <1>a DEF TypeOK
  <2>1. /\ r \in Task /\ r.union = task[t].union
        /\ r.pc = pc
        /\ r.kind = task[t].kind /\ r.win = task[t].win /\ r.tgt = task[t].tgt
    <3> HIDE DEF g, pc
    <3> QED BY <1>a, <2>a DEF Task
  <2>2. task' = [task EXCEPT ![t] = r] /\ task[t].pc = "activate"
    BY <1>19 DEF BeginDeferredGeneration
  <2>3. task' \in [Tasks -> Task] /\ task'[t] = r /\ Others
    BY <2>1, <2>2, <1>a, TaskUpdate
  <2>4. TypeOK'
    BY <1>19, <1>a, <2>3
       DEF BeginDeferredGeneration, ActivateFor, TypeOK, Slots, ownership, runtime, directory
  <2>5. Owners' = Owners /\ UntrackedOwnsNothing'
    BY <1>19, <1>a, OwnershipFrame DEF BeginDeferredGeneration
  <2>6. task[t].union \subseteq Owners
    BY <2>2 DEF OwnershipInv, PlanIsOwned
  <2>7. holder' = holder
    BY <1>19 DEF BeginDeferredGeneration
  <2> HIDE DEF r
  <2> QED BY <1>a, <2>1, <2>2, <2>3, <2>4, <2>5, <2>6, <2>7, InsideStep
<1>20. CASE WipeOwners(t)
  <2>1. /\ task' \in [Tasks -> Task] /\ Others
        /\ task[t].pc = "wipe" /\ task'[t].pc = "select"
        /\ task'[t].union = task[t].union
        /\ task'[t].kind = task[t].kind /\ task'[t].win = task[t].win /\ task'[t].tgt = task[t].tgt
    BY <1>20, <1>a DEF WipeOwners, Goto, Task
  <2>2. owned' \in [Windows -> SUBSET Clusters] /\ panelRefs' \subseteq Clusters
        /\ UntrackedOwnsNothing'
    BY <1>20, <1>a DEF WipeOwners, RetainOwners, TypeOK, UntrackedOwnsNothing
  <2>3. task[t].union = {}
    BY <2>1 DEF OwnershipInv, PlanIsOwned
  <2>4. TypeOK'
    BY <1>20, <1>a, <2>1, <2>2 DEF WipeOwners, TypeOK, runtime, preempt, directory
  <2> QED BY <1>20, <1>a, <2>1, <2>2, <2>3, <2>4, InsideStep DEF WipeOwners
<1>21. CASE CommitSelection(t)
  <2>1. /\ task' \in [Tasks -> Task] /\ Others
        /\ task[t].pc = "select" /\ task'[t].pc \in {"clear", "sync"}
        /\ task'[t].kind = task[t].kind /\ task'[t].win = task[t].win /\ task'[t].tgt = task[t].tgt
        /\ task[t].union \subseteq Clusters
    BY <1>21, <1>a DEF CommitSelection, Goto, Task
  <2>2. Owners' = Owners /\ UntrackedOwnsNothing'
    BY <1>21, <1>a DEF CommitSelection, Owners, UnionOf, UntrackedOwnsNothing
  <2>3. task[t].union \subseteq Owners
    BY <2>1 DEF OwnershipInv, PlanIsOwned
  <2>4. TypeOK'
    BY <1>21, <1>a, <2>1 DEF CommitSelection, TypeOK, ownership, runtime, preempt, directory
  <2> QED BY <1>21, <1>a, <2>1, <2>2, <2>3, <2>4, InsideStep DEF CommitSelection
<1>22. ASSUME NEW R \in SUBSET Clusters, DiscoverRemoved(t, R)
       PROVE  OwnershipInv'
  <2> DEFINE r == [task[t] EXCEPT !.union = selected \ R, !.todo = R,
                                  !.pc = IF R = {} THEN "finish" ELSE "pruneOwners"]
  <2>1. /\ r \in Task /\ r.union = selected \ R
        /\ r.pc = IF R = {} THEN "finish" ELSE "pruneOwners"
        /\ r.kind = task[t].kind /\ r.win = task[t].win /\ r.tgt = task[t].tgt
    BY <1>a, ZenonT(60) DEF TypeOK, Task
  <2>2. task' = [task EXCEPT ![t] = r] /\ task[t].pc = "body"
    BY <1>22 DEF DiscoverRemoved, InBody
  <2>3. task' \in [Tasks -> Task] /\ task'[t] = r /\ Others
    BY <2>1, <2>2, <1>a, TaskUpdate
  <2>4. TypeOK'
    BY <1>22, <1>a, <2>3 DEF DiscoverRemoved, TypeOK, ownership, runtime, preempt, directory
  <2>5. Owners' = Owners /\ UntrackedOwnsNothing' /\ refused' = refused
    BY <1>22, <1>a, OwnershipFrame DEF DiscoverRemoved
  <2>6. ~refused => selected \subseteq Owners
    BY <2>2, SettledFacts
  <2>7. holder' = holder /\ selected' = selected
    BY <1>22 DEF DiscoverRemoved
  <2> HIDE DEF r
  <2> QED BY <1>a, <2>1, <2>2, <2>3, <2>4, <2>5, <2>6, <2>7, InsideStep
<1>23. CASE PruneOwners(t)
  <2>1. /\ task' \in [Tasks -> Task] /\ Others
        /\ task[t].pc = "pruneOwners" /\ task'[t].pc = "pruneSelection"
        /\ task'[t].union = task[t].union
        /\ task'[t].kind = task[t].kind /\ task'[t].win = task[t].win /\ task'[t].tgt = task[t].tgt
    BY <1>23, <1>a DEF PruneOwners, Goto, Task
  <2>2. owned' \in [Windows -> SUBSET Clusters] /\ panelRefs' \subseteq Clusters
        /\ UntrackedOwnsNothing'
    BY <1>23, <1>a DEF PruneOwners, RetainOwners, TypeOK, UntrackedOwnsNothing
  <2>3. ~refused => task[t].union \subseteq Owners
    BY <2>1, SettledFacts DEF OwnershipInv, PlanIsOwned
  <2>4. ~refused => task[t].union \subseteq Owners'
    <3>1. \A w \in Windows : owned'[w] = owned[w] \cap task[t].union
      BY <1>23 DEF PruneOwners, RetainOwners
    <3>2. panelRefs' = panelRefs \cap task[t].union
      BY <1>23 DEF PruneOwners, RetainOwners
    <3> QED BY <2>3, <3>1, <3>2, UnionMember DEF Owners
  <2>5. TypeOK'
    BY <1>23, <1>a, <2>1, <2>2 DEF PruneOwners, TypeOK, runtime, preempt, directory
  <2> QED BY <1>23, <1>a, <2>1, <2>2, <2>4, <2>5, InsideStep DEF PruneOwners
<1>24. CASE PruneSelection(t)
  <2>1. /\ task' \in [Tasks -> Task] /\ Others
        /\ task[t].pc = "pruneSelection" /\ task'[t].pc = "pruneClients"
        /\ task'[t].kind = task[t].kind /\ task'[t].win = task[t].win /\ task'[t].tgt = task[t].tgt
        /\ task[t].union \subseteq Clusters
    BY <1>24, <1>a DEF PruneSelection, Goto, Task
  <2>2. Owners' = Owners /\ UntrackedOwnsNothing'
    BY <1>24, <1>a, OwnershipFrame DEF PruneSelection
  <2>3. refused' = refused /\ (~refused => task[t].union \subseteq Owners)
    BY <1>24, <2>1, OwnershipFrame DEF OwnershipInv, PlanIsOwned, PruneSelection
  <2>4. TypeOK'
    BY <1>24, <1>a, <2>1 DEF PruneSelection, TypeOK, ownership, runtime, preempt, directory
  <2> QED BY <1>24, <1>a, <2>1, <2>2, <2>3, <2>4, InsideStep DEF PruneSelection
<1>d. ASSUME task[t].pc \in InLock \ Unsettled, holder' = NoTask, TypeOK', UntrackedOwnsNothing',
             task'[t].pc \notin InLock, Others, UNCHANGED <<selected, refused>>, Owners \subseteq Owners',
             task'[t].kind = task[t].kind /\ task'[t].win = task[t].win /\ task'[t].tgt = task[t].tgt
      PROVE  OwnershipInv'
  <2>1. \A u \in Tasks : task'[u].pc \notin InLock
    BY <1>d DEF OwnershipInv, SlotExclusive
  <2>2. SlotExclusive'
    BY <2>1, <1>d, SelectionConstants DEF SlotExclusive, SelectionConstants
  <2>3. SettledIsOwned'
    BY <1>d, SettledFacts DEF SettledIsOwned
  <2>4. PlanIsOwned'
    BY <2>1 DEF PlanIsOwned
  <2>5. MovesElsewhere'
    BY <1>a, <1>d DEF OwnershipInv, MovesElsewhere
  <2> QED BY <1>d, <2>2, <2>3, <2>4, <2>5 DEF OwnershipInv
<1>25. CASE ReleaseSlot(t)
  <2>1. /\ task' \in [Tasks -> Task] /\ Others
        /\ task[t].pc = "finish" /\ task'[t].pc = "done"
        /\ task'[t].kind = task[t].kind /\ task'[t].win = task[t].win /\ task'[t].tgt = task[t].tgt
    BY <1>25, <1>a DEF ReleaseSlot, Goto, Task
  <2>2. TypeOK'
    BY <1>25, <1>a, <2>1 DEF ReleaseSlot, TypeOK, Slots, ownership, runtime, preempt, directory
  <2>3. Owners' = Owners /\ UntrackedOwnsNothing' /\ refused' = refused
    BY <1>25, <1>a, OwnershipFrame DEF ReleaseSlot
  <2> QED BY <1>25, <1>d, <2>1, <2>2, <2>3 DEF ReleaseSlot
<1>26. CASE CommitRetain(t)
  <2>1. /\ task' \in [Tasks -> Task] /\ Others
        /\ task[t].pc = "body" /\ task'[t].pc \in {"panel", "unreserve"}
        /\ task'[t].kind = task[t].kind /\ task'[t].win = task[t].win /\ task'[t].tgt = task[t].tgt
    BY <1>26, <1>a DEF CommitRetain, InBody, Goto, Task
  <2>2. panelRefs' \subseteq Clusters /\ panelRefs \subseteq panelRefs'
        /\ UNCHANGED <<tracked, owned>>
    BY <1>26, <1>a DEF CommitRetain, TypeOK, Task
  <2>3. TypeOK'
    BY <1>26, <1>a, <2>1, <2>2 DEF CommitRetain, TypeOK, Slots, runtime, preempt, directory
  <2>4. Owners \subseteq Owners' /\ UntrackedOwnsNothing'
    BY <1>a, <2>2, UnionMonotone DEF Owners, UnionOf, UntrackedOwnsNothing
  <2> QED BY <1>26, <1>d, <2>1, <2>3, <2>4 DEF CommitRetain
<1> QED
  BY <1>1, <1>2, <1>3, <1>4, <1>5, <1>6, <1>7, <1>8, <1>9, <1>10, <1>11, <1>12, <1>13, <1>14,
     <1>15, <1>16, <1>17, <1>18, <1>19, <1>20, <1>21, <1>22, <1>23, <1>24, <1>25, <1>26,
     <1>27
  DEF InSlot

-----------------------------------------------------------------------------
\* The state left behind by completed commands satisfies the invariant.
LEMMA InitOwnership == Init => OwnershipInv
<1> SUFFICES ASSUME Init PROVE OwnershipInv
  OBVIOUS
<1>1. PICK w \in Windows, c \in Clusters : task = [t \in Tasks |-> IdleTask(w, c)]
  BY DEF Init
<1>2. /\ task \in [Tasks -> Task]
      /\ \A t \in Tasks : task[t].pc = "idle" /\ task[t].kind = "ensure"
  BY <1>1 DEF IdleTask, Task, AllKinds
<1>3. selected \subseteq Clusters /\ selected = Owners
  BY UnionType DEF Init, Owners
<1>4. TypeOK
  BY <1>2, <1>3 DEF Init, TypeOK, Slots, ConnStates
<1>5. SlotExclusive
  BY <1>2, SelectionConstants DEF Init, SlotExclusive, InLock, SelectionConstants
<1> QED
  BY <1>2, <1>3, <1>4, <1>5
  DEF Init, OwnershipInv, UntrackedOwnsNothing, MovesElsewhere, SettledIsOwned, PlanIsOwned

\* The inductive invariant of ownership, for any number of windows, clusters and
\* commands in flight at once: what is selected, or about to be, is owned by a
\* window or a panel.  It covers the error paths: a close that is refused takes its
\* tab back, and any other refused change leaves its mark in refused.
THEOREM OwnershipInvariant == Spec => []OwnershipInv
<1>1. OwnershipInv /\ [Next]_vars => OwnershipInv'
  <2> SUFFICES ASSUME OwnershipInv, [Next]_vars PROVE OwnershipInv'
    OBVIOUS
  <2>1. CASE Next
    BY <2>1, ArriveStep, BeforeSlotStep, InSlotStep DEF Next
  <2>2. CASE UNCHANGED vars
    <3>1. UNCHANGED <<ownership, selected, holder, task>>
      BY <2>2 DEF vars
    <3>2. Owners' = Owners /\ UntrackedOwnsNothing' /\ refused' = refused
      BY <3>1, OwnershipFrame DEF OwnershipInv
    <3>3. TypeOK'
      BY <2>2 DEF vars, ownership, runtime, preempt, directory, OwnershipInv, TypeOK
    <3> QED BY <3>1, <3>2, <3>3
            DEF OwnershipInv, SlotExclusive, MovesElsewhere, SettledIsOwned, PlanIsOwned
  <2> QED BY <2>1, <2>2
<1> QED BY InitOwnership, <1>1, PTL DEF Spec

\* Type correctness of the selection state and of every command in flight.
THEOREM TypeCorrect == Spec => []TypeOK
<1>1. OwnershipInv => TypeOK
  BY DEF OwnershipInv
<1> QED BY OwnershipInvariant, <1>1, PTL

\* Nothing stays connected for nobody: whenever selectionMutationMu is free, each
\* selected kubeconfig is a tab of some window or the reference of some panel,
\* unless normalizeSelectionSet refused the union of an ownership change that was
\* kept, and no selection has been committed and no union matched since.
THEOREM SelectedAlwaysOwned == Spec => []SelectedIsOwned
<1>1. OwnershipInv => SelectedIsOwned
  <2> SUFFICES ASSUME OwnershipInv, holder = NoTask, ~refused PROVE selected \subseteq Owners
    BY DEF SelectedIsOwned
  <2>1. \A t \in Tasks : task[t].pc \notin InLock
    BY SelectionConstants DEF OwnershipInv, SlotExclusive, SelectionConstants
  <2> QED BY <2>1 DEF OwnershipInv, SettledIsOwned, Unsettled, InLock
<1> QED BY OwnershipInvariant, <1>1, PTL

-----------------------------------------------------------------------------
(* What steps leave alone.                                                   *)

\* An arriving command takes a free task and changes neither the selection, nor
\* the client pool, nor the slot.
LEMMA ArriveFrame ==
  ASSUME task \in [Tasks -> Task], NEW t \in Tasks, Arrive(t)
  PROVE  /\ \A u \in Tasks \ {t} : task'[u] = task[u]
         /\ task[t].pc = "idle"
         /\ task'[t].pc \in {"look", "probe", "queue", "intent", "supersede", "retain", "unused", "done"}
         /\ task'[t].gen = 0
         /\ task'[t].kind \in SupersedingKinds <=> task'[t].pc \in {"intent", "supersede"}
         /\ UNCHANGED <<panelRefs, refused, selected, clients, conn, gen, active, cancelled, holder>>
<1>1. ASSUME NEW k, NEW w, NEW v, NEW c, NEW S, NEW pc, Issue(t, k, w, v, c, S, pc)
      PROVE  /\ \A u \in Tasks \ {t} : task'[u] = task[u]
             /\ task[t].pc = "idle"
             /\ task'[t].pc = pc /\ task'[t].gen = 0 /\ task'[t].kind = k
  BY <1>1 DEF Issue
<1> USE DEF ownership, runtime, preempt, SupersedingKinds
<1>2. CASE \E w \in Windows, S \in SUBSET Clusters : ApplyClusterWorkspace(t, w, S)
  BY <1>1, <1>2 DEF ApplyClusterWorkspace
<1>3. CASE \E w \in Windows, c \in Clusters :
             CloseClusterView(t, w, c) \/ OpenPanelWorkspaceObject(t, w, c)
  BY <1>1, <1>3 DEF CloseClusterView, OpenPanelWorkspaceObject
<1>4. CASE \E w \in Windows : ObserveWindow(t, w) \/ ReleaseWorkspaceWindow(t, w)
  BY <1>1, <1>4 DEF ObserveWindow, ReleaseWorkspaceWindow
<1>5. CASE \E k \in Kinds, w, v \in Windows, c \in Clusters : MoveClusterView(t, k, w, v, c)
  BY <1>1, <1>5 DEF MoveClusterView
<1>6. CASE \E c \in Clusters : ClosePanelWorkspaceObject(t, c) \/ RecordTransportFailure(t, c)
  BY <1>1, <1>6 DEF ClosePanelWorkspaceObject, RecordTransportFailure
<1>7. CASE KubeconfigSourceChanged(t) \/ SetKubeconfigSearchPaths(t)
  BY <1>1, <1>7 DEF KubeconfigSourceChanged, SetKubeconfigSearchPaths
<1> QED BY <1>2, <1>3, <1>4, <1>5, <1>6, <1>7 DEF Arrive

\* What a step of a command under way leaves alone: the other commands, and
\* what this one is.  A panel is placed only after its cluster is referenced,
\* a queued release goes on only if the directory does not need its cluster, and
\* a prune plans to keep what it does not remove.
Kept(t) ==
  /\ \A u \in Tasks \ {t} : task'[u] = task[u]
  /\ task[t].pc # "idle" /\ task'[t].pc \notin {"idle", "look"}
  /\ task'[t].kind = task[t].kind
  /\ task'[t].win = task[t].win
  /\ task'[t].cl = task[t].cl
  /\ task'[t].pc = "panel" => task[t].cl \in panelRefs'
  /\ task'[t].pc = "drop" => RecheckReference(t) /\ ~HasClusterReference(task[t].cl)
  /\ task'[t].pc = "pruneOwners" => selected' \subseteq task'[t].union \cup task'[t].todo

\* Moving on keeps the command.
LEMMA GotoKeeps ==
  ASSUME task \in [Tasks -> Task], NEW t \in Tasks, task[t].pc # "idle",
         NEW pc, pc \notin {"idle", "look", "pruneOwners"}, Goto(t, pc),
         pc = "panel" => task[t].cl \in panelRefs',
         pc = "drop" => RecheckReference(t) /\ ~HasClusterReference(task[t].cl)
  PROVE  Kept(t) /\ task'[t].pc = pc
BY DEF Goto, Task, Kept

\* A step before the slot keeps the command.
LEMMA BeforeKeeps ==
  ASSUME task \in [Tasks -> Task], NEW t \in Tasks, BeforeSlot(t)
  PROVE  Kept(t) /\ task[t].pc \notin InLock /\ task'[t].pc \notin Unsettled
<1> USE DEF InLock, Unsettled
<1>1. CASE LookBeforeClose(t)
  <2> DEFINE S == owned'[task[t].win] \ {task[t].cl}
             pc == IF task[t].cl \in owned'[task[t].win] THEN "probe" ELSE "queue"
  <2>1. task[t].pc = "look" /\ task' = [task EXCEPT ![t].set = S, ![t].pc = pc]
    BY <1>1 DEF LookBeforeClose
  <2>2. pc \in {"probe", "queue"}
    OBVIOUS
  <2> HIDE DEF S, pc
  <2> QED BY <2>1, <2>2 DEF Kept, Task
<1>2. CASE TakeGeneration(t)
  BY <1>2 DEF TakeGeneration, Kept, Task
<1>3. CASE ReleaseOwned(t)
  <2>1. task[t].pc = "releaseRef"
    BY <1>3 DEF ReleaseOwned
  <2>2. CASE Goto(t, "done")
    BY <2>1, <2>2, GotoKeeps
  <2>3. CASE task' = [task EXCEPT ![t].pc = "queue", ![t].todo = {task[t].cl}]
    BY <2>1, <2>3 DEF Kept, Task
  <2> QED BY <1>3, <2>2, <2>3 DEF ReleaseOwned
<1>4. CASE ConsumeIntent(t) \/ ProbeObsolete(t) \/ Preempt(t) \/ AcquireSlot(t) \/ SkipSuperseded(t)
  BY <1>4, GotoKeeps DEF ConsumeIntent, ProbeObsolete, Preempt, AcquireSlot, SkipSuperseded
<1>5. CASE RetainOwned(t) \/ CommitPanel(t) \/ ReleaseReservation(t) \/ CheckUnused(t)
  BY <1>5, GotoKeeps DEF RetainOwned, CommitPanel, ReleaseReservation, CheckUnused
<1> QED BY <1>1, <1>2, <1>3, <1>4, <1>5 DEF BeforeSlot

\* So does the reconciliation of new ownership.
LEMMA ReconcileKeeps ==
  ASSUME task \in [Tasks -> Task], NEW t \in Tasks, task[t].pc # "idle",
         NEW own, NEW refs, Reconcile(t, own, refs)
  PROVE  Kept(t)
<1> DEFINE U == UnionOf(own, refs)
           pc == IF U = selected \/ Refuses(U) THEN "finish" ELSE "activate"
<1>1. task' = [task EXCEPT ![t].union = U, ![t].pc = pc]
  BY DEF Reconcile
<1>2. pc \notin {"idle", "look", "panel", "drop", "pruneOwners"}
  OBVIOUS
<1> HIDE DEF U, pc
<1> QED BY <1>1, <1>2 DEF Kept, Task

\* A step in the slot keeps the command.
LEMMA InsideKeeps ==
  ASSUME task \in [Tasks -> Task], NEW t \in Tasks, InSlot(t)
  PROVE  Kept(t) /\ task[t].pc \in InLock
<1>0. task[t].pc \in InLock
  BY DEF InSlot, StartGeneration, ReleaseSlot, GiveTabs, CommitSelections, CommitClose,
     CommitRelease, CommitStage, CommitMove, CommitCancelMove, CommitRebuild, CommitRetain,
     RecheckReference, DropReference, BeginDeferredGeneration, WipeOwners, CommitSelection, ClearRuntime,
     SyncClientPool, SkipSync, InstallClient, BuildFails, BuildLate, BuildCancelled, BuildsDone,
     DiscoverRemoved, PruneOwners, PruneSelection, PruneClients, InBody, InLock
<1>1. CASE StartGeneration(t) \/ ReleaseSlot(t) \/ CommitStage(t) \/ CommitMove(t)
           \/ CommitRebuild(t) \/ CommitRetain(t) \/ RecheckReference(t)
  BY <1>0, <1>1, GotoKeeps DEF StartGeneration, ReleaseSlot, CommitStage, CommitMove,
     CommitRebuild, CommitRetain, RecheckReference, InBody
<1>2. CASE WipeOwners(t) \/ CommitSelection(t) \/ ClearRuntime(t) \/ SkipSync(t)
           \/ BuildsDone(t) \/ PruneOwners(t) \/ PruneSelection(t) \/ PruneClients(t)
  BY <1>0, <1>2, GotoKeeps DEF WipeOwners, CommitSelection, ClearRuntime, SkipSync,
     BuildsDone, PruneOwners, PruneSelection, PruneClients
<1>3. CASE CommitSelections(t) \/ CommitCancelMove(t) \/ DropReference(t)
  BY <1>0, <1>3, ReconcileKeeps, GotoKeeps
     DEF CommitSelections, CommitCancelMove, GiveTabs, DropReference, InBody
<1>4. CASE CommitClose(t) \/ CommitRelease(t)
  BY <1>0, <1>4, ReconcileKeeps, GotoKeeps DEF CommitClose, CommitRelease, InBody
<1>5. CASE BeginDeferredGeneration(t)
  <2> DEFINE pc == IF task[t].union = {} THEN "wipe" ELSE "select"
  <2>1. task[t].pc = "activate" /\ task' = [task EXCEPT ![t].gen = gen + 1, ![t].pc = pc]
    BY <1>5 DEF BeginDeferredGeneration
  <2>2. pc \notin {"idle", "look", "panel", "drop", "pruneOwners"}
    OBVIOUS
  <2> HIDE DEF pc
  <2> QED BY <1>0, <2>1, <2>2 DEF Kept, Task
<1>6. CASE SyncClientPool(t)
  BY <1>0, <1>6 DEF SyncClientPool, Kept, Task
<1>7. ASSUME NEW c \in Clusters,
             InstallClient(t, c) \/ BuildFails(t, c) \/ BuildLate(t, c) \/ BuildCancelled(t, c)
      PROVE  Kept(t)
  BY <1>7 DEF InstallClient, BuildFails, BuildLate, BuildCancelled, Kept, Task
<1>8. ASSUME NEW R \in SUBSET Clusters, DiscoverRemoved(t, R)
      PROVE  Kept(t)
  <2> DEFINE pc == IF R = {} THEN "finish" ELSE "pruneOwners"
  <2>1. task[t].pc = "body" /\ task' = [task EXCEPT ![t].union = selected \ R, ![t].todo = R, ![t].pc = pc]
    BY <1>8 DEF DiscoverRemoved, InBody
  <2>2. pc \notin {"idle", "look", "panel", "drop"}
    OBVIOUS
  <2>3. selected' \subseteq (selected \ R) \cup R
    BY <1>8 DEF DiscoverRemoved
  <2> HIDE DEF pc
  <2>4. task'[t].union = selected \ R /\ task'[t].todo = R
    BY <2>1 DEF Task
  <2> QED BY <2>1, <2>2, <2>3, <2>4 DEF Kept, Task
<1> QED BY <1>0, <1>1, <1>2, <1>3, <1>4, <1>5, <1>6, <1>7, <1>8 DEF InSlot
-----------------------------------------------------------------------------
(* The selection is the union of its owners, unless a change of them was     *)
(* refused; of the panels' references it is even then, since a change that   *)
(* is refused adds none.  Whoever is about to replace                        *)
(* the selection has every owner in its plan, because no owner of another    *)
(* cluster can be added meanwhile: a reference outside the slot goes only to *)
(* an owned cluster, and a window that closes a tab is known already, unless *)
(* it is gone.  A window seen for the first time adopts the old selection:   *)
(* AdoptsWhenSettled says that none is while a replacement is under way.     *)

AdoptsWhenSettled ==
  \A t \in Tasks, w \in Windows :
      ObserveWindow(t, w) => w \in tracked \/ \A u \in Tasks : task[u].pc \notin Unsettled

SettledIsSelected ==
  ~refused /\ (\A t \in Tasks : task[t].pc \notin Unsettled) => Owners \subseteq selected

\* A change that was refused may own what is not selected; a panel never does.
RefsAreSelected == (\A t \in Tasks : task[t].pc \notin Unsettled) => panelRefs \subseteq selected

PlanCoversOwners == \A t \in Tasks : task[t].pc \in Unsettled => Owners \subseteq task[t].union

CloserIsTracked ==
  \A t \in Tasks : task[t].pc = "look" => task[t].win \in tracked \/ ~Open(task[t].win)

UnionInv == SettledIsSelected /\ RefsAreSelected /\ PlanCoversOwners /\ CloserIsTracked

\* A window that is being released stays so.
LEMMA ClosedStays ==
  ASSUME NEW t \in Tasks, NEW w \in Windows, Arrive(t) \/ Kept(t), ~Open(w),
         task \in [Tasks -> Task]
  PROVE  ~Open(w)'
<1>1. PICK u \in Tasks : task[u].kind = "release" /\ task[u].pc # "idle" /\ task[u].win = w
  BY DEF Open
<1>2. task'[u].kind = task[u].kind /\ task'[u].pc # "idle" /\ task'[u].win = task[u].win
  <2>1. CASE Arrive(t)
    BY <1>1, <2>1, ArriveFrame
  <2>2. CASE Kept(t)
    BY <1>1, <2>2 DEF Kept
  <2> QED BY <2>1, <2>2
<1> QED BY <1>1, <1>2 DEF Open

\* What the steps below have to show of the union.
UnionKept == SettledIsSelected /\ RefsAreSelected /\ PlanCoversOwners

\* A step outside the slot that adds no owner.
LEMMA OutsideUnion ==
  ASSUME OwnershipInv, UnionInv, NEW t \in Tasks, UNCHANGED <<selected, refused>>,
         Owners' \subseteq Owners, panelRefs' \subseteq panelRefs \cup selected,
         task[t].pc \notin InLock, task'[t].pc \notin Unsettled,
         \A u \in Tasks \ {t} : task'[u] = task[u]
  PROVE  UnionKept'
<1> USE DEF Unsettled, InLock
<1>1. SettledIsSelected'
  BY DEF UnionInv, SettledIsSelected
<1>2. PlanCoversOwners'
  BY DEF UnionInv, PlanCoversOwners
<1>3. RefsAreSelected'
  BY DEF UnionInv, RefsAreSelected
<1> QED BY <1>1, <1>2, <1>3 DEF UnionKept

\* A step of the holder, which answers for the owners it leaves.
LEMMA InsideUnion ==
  ASSUME OwnershipInv, NEW t \in Tasks, task[t].pc \in InLock,
         task'[t].pc \notin Unsettled => /\ panelRefs' \subseteq selected'
                                         /\ ~refused' => Owners' \subseteq selected',
         task'[t].pc \in Unsettled => Owners' \subseteq task'[t].union,
         \A u \in Tasks \ {t} : task'[u] = task[u]
  PROVE  UnionKept'
<1>1. \A u \in Tasks \ {t} : task'[u].pc \notin InLock
  BY DEF OwnershipInv, SlotExclusive
<1>2. SettledIsSelected'
  BY DEF SettledIsSelected
<1>3. PlanCoversOwners'
  BY <1>1 DEF PlanCoversOwners, Unsettled, InLock
<1>4. RefsAreSelected'
  BY DEF RefsAreSelected
<1> QED BY <1>2, <1>3, <1>4 DEF UnionKept

\* While the holder is not about to replace the selection, the panel references
\* are inside it, and so are all owners unless a change of them was refused.
LEMMA SettledUnion ==
  ASSUME OwnershipInv, UnionInv, NEW t \in Tasks, task[t].pc \in InLock, task[t].pc \notin Unsettled
  PROVE  /\ panelRefs \subseteq selected
         /\ ~refused => Owners \subseteq selected
BY DEF OwnershipInv, SlotExclusive, UnionInv, SettledIsSelected, RefsAreSelected, Unsettled, InLock

\* Closing commands: the window is known, or gone, by the time it looks.
LEMMA CloserStep ==
  ASSUME OwnershipInv, UnionInv, NEW t \in Tasks, Arrive(t) \/ BeforeSlot(t) \/ InSlot(t)
  PROVE  CloserIsTracked'
<1>0. task \in [Tasks -> Task] /\ task[t] \in Task
  BY DEF OwnershipInv, TypeOK
<1>1. ASSUME NEW u \in Tasks, task[u].pc = "look", task'[u].win = task[u].win
      PROVE  (task[u].win \in tracked \/ ~Open(task[u].win))'
  <2>0. PICK w \in Windows : w = task[u].win /\ w = task'[u].win
    BY <1>0, <1>1 DEF Task
  <2>a. SUFFICES w \in tracked' \/ ~Open(w)'
    BY <2>0 DEF Open
  <2>1. CASE ~Open(w)
    <3>1. Arrive(t) \/ Kept(t)
      BY <1>0, BeforeKeeps, InsideKeeps
    <3> QED BY <1>0, <2>1, <3>1, ClosedStays
  <2>2. CASE w \in tracked
    <3>1. CASE tracked \subseteq tracked'
      BY <2>2, <3>1
    <3>2. CASE CommitRelease(t)
      <4>1. CASE w = task[t].win
        <5>1. ~Open(w)
          BY <3>2, <4>1 DEF CommitRelease, InBody, Open
        <5> QED BY <5>1, <2>1
      <4>2. CASE w # task[t].win
        BY <2>2, <3>2, <4>2 DEF CommitRelease, ownership
      <4> QED BY <4>1, <4>2
    <3>3. tracked \subseteq tracked' \/ CommitRelease(t)
      <4>1. CASE Arrive(t)
        BY <4>1 DEF Arrive, ApplyClusterWorkspace, CloseClusterView, OpenPanelWorkspaceObject,
           ObserveWindow, EnsureWindow, ReleaseWorkspaceWindow, MoveClusterView,
           ClosePanelWorkspaceObject, RecordTransportFailure, KubeconfigSourceChanged,
           SetKubeconfigSearchPaths, ownership
      <4>2. CASE BeforeSlot(t)
        BY <4>2 DEF BeforeSlot, ConsumeIntent, LookBeforeClose, EnsureWindow, ProbeObsolete,
           TakeGeneration, Preempt, AcquireSlot, SkipSuperseded, RetainOwned, CommitPanel,
           ReleaseReservation, CheckUnused, ReleaseOwned, ownership
      <4>3. CASE InSlot(t)
        BY <4>3 DEF InSlot, StartGeneration, ReleaseSlot, GiveTabs, CommitSelections, CommitClose,
           CommitStage, CommitMove, CommitCancelMove, CommitRebuild, CommitRetain,
           RecheckReference, DropReference, BeginDeferredGeneration, WipeOwners,
           CommitSelection, ClearRuntime, SyncClientPool, SkipSync, InstallClient,
           BuildFails, BuildLate, BuildCancelled, BuildsDone, DiscoverRemoved, PruneOwners,
           PruneSelection, PruneClients, ownership
      <4> QED BY <4>1, <4>2, <4>3
    <3> QED BY <3>1, <3>2, <3>3
  <2> QED BY <1>1, <2>0, <2>1, <2>2 DEF UnionInv, CloserIsTracked
<1>2. CASE Arrive(t)
  <2>1. task[t].pc = "idle" /\ \A u \in Tasks \ {t} : task'[u] = task[u]
    BY <1>0, <1>2, ArriveFrame
  <2>2. task'[t].pc = "look" => task'[t].win \in tracked'
    BY <1>0, <1>2 DEF Arrive, ApplyClusterWorkspace, CloseClusterView, OpenPanelWorkspaceObject,
       ObserveWindow, ReleaseWorkspaceWindow, MoveClusterView, ClosePanelWorkspaceObject,
       RecordTransportFailure, KubeconfigSourceChanged, SetKubeconfigSearchPaths, Issue, ownership
  <2> QED BY <1>1, <2>1, <2>2 DEF CloserIsTracked
<1>3. CASE Kept(t)
  BY <1>1, <1>3 DEF Kept, CloserIsTracked
<1> QED BY <1>0, <1>2, <1>3, BeforeKeeps, InsideKeeps

\* The arrival of a command adds an owner only when the selection is settled.
LEMMA ArriveUnion ==
  ASSUME OwnershipInv, UnionInv, NEW t \in Tasks, Arrive(t), AdoptsWhenSettled
  PROVE  UnionKept'
<1>0. task \in [Tasks -> Task] /\ TypeOK
  BY DEF OwnershipInv, TypeOK
<1>1. /\ \A u \in Tasks \ {t} : task'[u] = task[u]
      /\ task[t].pc \notin InLock /\ task'[t].pc \notin Unsettled
      /\ UNCHANGED <<panelRefs, refused, selected>>
  BY <1>0, ArriveFrame DEF InLock, Unsettled
<1>2. CASE owned' = owned
  <2>1. Owners' = Owners
    BY <1>1, <1>2 DEF Owners, UnionOf
  <2> QED BY <1>1, <2>1, OutsideUnion
<1>3. ASSUME NEW w \in Windows, ObserveWindow(t, w), w \notin tracked
      PROVE  UnionKept'
  <2>1. \A u \in Tasks : task[u].pc \notin Unsettled
    BY <1>3 DEF AdoptsWhenSettled
  <2>2. panelRefs \subseteq selected /\ (~refused => Owners \subseteq selected)
    BY <2>1 DEF UnionInv, SettledIsSelected, RefsAreSelected
  <2>3. owned' = [owned EXCEPT ![w] = selected]
    BY <1>3 DEF ObserveWindow, EnsureWindow
  <2>4. ~refused => Owners' \subseteq selected'
    <3>1. \A v \in Windows : owned'[v] = IF v = w THEN selected ELSE owned[v]
      BY <1>0, <2>3 DEF TypeOK
    <3> QED BY <1>1, <2>2, <3>1, UnionMember DEF Owners
  <2>5. \A u \in Tasks : task'[u].pc \notin Unsettled
    BY <1>1, <2>1
  <2> QED BY <1>1, <2>2, <2>4, <2>5 DEF UnionKept, SettledIsSelected, RefsAreSelected, PlanCoversOwners
<1>4. owned' = owned \/ \E w \in Windows : ObserveWindow(t, w) /\ w \notin tracked
  BY DEF Arrive, ApplyClusterWorkspace, CloseClusterView, OpenPanelWorkspaceObject,
     ObserveWindow, EnsureWindow, ReleaseWorkspaceWindow, MoveClusterView,
     ClosePanelWorkspaceObject, RecordTransportFailure, KubeconfigSourceChanged,
     SetKubeconfigSearchPaths, ownership
<1> QED BY <1>2, <1>3, <1>4

\* The steps before the slot add no owner.
LEMMA BeforeUnion ==
  ASSUME OwnershipInv, UnionInv, NEW t \in Tasks, BeforeSlot(t)
  PROVE  UnionKept'
<1>0. task \in [Tasks -> Task] /\ TypeOK /\ task[t] \in Task
  BY DEF OwnershipInv, TypeOK
<1>1. \A u \in Tasks \ {t} : task'[u] = task[u]
  BY <1>0, BeforeKeeps DEF Kept
<1>2. UNCHANGED <<selected, refused>>
  BY DEF BeforeSlot, ConsumeIntent, LookBeforeClose, ProbeObsolete, TakeGeneration, Preempt,
     AcquireSlot, SkipSuperseded, RetainOwned, CommitPanel, ReleaseReservation, CheckUnused,
     ReleaseOwned, ownership
<1>3. task[t].pc \notin InLock /\ task'[t].pc \notin Unsettled
  BY <1>0, BeforeKeeps
<1>4. Owners' \subseteq Owners
  <2>1. CASE LookBeforeClose(t)
    <3>1. UNCHANGED ownership
      BY <2>1 DEF LookBeforeClose, EnsureWindow, UnionInv, CloserIsTracked, ownership
    <3> QED BY <3>1, OwnershipFrame
  <2>2. CASE RetainOwned(t)
    <3>1. \A c : c \in panelRefs' => c \in Owners
      BY <2>2, UnionMember DEF RetainOwned, Owners
    <3>2. owned' = owned
      BY <2>2 DEF RetainOwned
    <3> QED BY <3>1, <3>2, UnionMember DEF Owners
  <2>3. CASE ReleaseOwned(t)
    <3>1. panelRefs' \subseteq panelRefs /\ owned' = owned
      BY <2>3 DEF ReleaseOwned
    <3> QED BY <3>1, UnionMember DEF Owners
  <2>4. CASE UNCHANGED ownership
    BY <2>4, OwnershipFrame
  <2> QED BY <2>1, <2>2, <2>3, <2>4 DEF BeforeSlot, ConsumeIntent, ProbeObsolete, TakeGeneration,
          Preempt, AcquireSlot, SkipSuperseded, CommitPanel, ReleaseReservation, CheckUnused
<1>5. panelRefs' \subseteq panelRefs \cup selected
  BY DEF BeforeSlot, ConsumeIntent, LookBeforeClose, ProbeObsolete, TakeGeneration, Preempt,
     AcquireSlot, SkipSuperseded, RetainOwned, CommitPanel, ReleaseReservation, CheckUnused,
     ReleaseOwned, ownership
<1> QED BY <1>1, <1>2, <1>3, <1>4, <1>5, OutsideUnion

\* The steps in the slot: each leaves the owners inside the selection, or inside
\* the plan that is about to become the selection.
LEMMA InSlotUnion ==
  ASSUME OwnershipInv, UnionInv, NEW t \in Tasks, InSlot(t)
  PROVE  UnionKept'
<1>0. task \in [Tasks -> Task] /\ TypeOK /\ task[t] \in Task
  BY DEF OwnershipInv, TypeOK
<1>a. \A u \in Tasks \ {t} : task'[u] = task[u]
  BY <1>0, InsideKeeps DEF Kept
<1> USE DEF InLock, Unsettled
<1>b. ASSUME task[t].pc \in InLock \ Unsettled, task'[t].pc \notin Unsettled,
             UNCHANGED <<selected, refused>>, panelRefs' \subseteq panelRefs \cup selected,
             Owners' \subseteq Owners \cup selected
      PROVE  UnionKept'
  BY <1>a, <1>b, SettledUnion, InsideUnion
<1>c. ASSUME NEW pc, pc \notin Unsettled, Goto(t, pc)
      PROVE  task'[t].pc \notin Unsettled
  BY <1>0, <1>c DEF Goto, Task
<1>1. ASSUME NEW own \in [Windows -> SUBSET Clusters], NEW refs \in SUBSET Clusters,
             Reconcile(t, own, refs), refs \subseteq panelRefs,
             task[t].pc \in InLock \ Unsettled, UNCHANGED selected
      PROVE  UnionKept'
  <2>1. panelRefs' \subseteq selected'
    BY <1>1, SettledUnion DEF Reconcile
  <2>2. /\ task'[t].pc \in {"finish", "activate"} /\ task'[t].union = Owners'
        /\ task'[t].pc = "finish" /\ ~refused' => Owners' = selected
    BY <1>0, <1>1, ReconcileFacts
  <2> QED BY <1>1, <1>a, <2>1, <2>2, InsideUnion
<1>d. ASSUME Goto(t, "finish"), UNCHANGED <<owned, panelRefs, refused, selected>>,
             task[t].pc \in InLock \ Unsettled
      PROVE  UnionKept'
  <2>1. task'[t].pc \notin Unsettled
    BY <1>d, <1>c
  <2>2. Owners' = Owners
    BY <1>d DEF Owners, UnionOf
  <2> QED BY <1>b, <1>d, <2>1, <2>2
<1>e. ASSUME NEW w \in Windows, NEW S \in SUBSET Clusters, GiveTabs(t, w, S),
             task[t].pc = "body", UNCHANGED selected
      PROVE  UnionKept'
  <2>1. [owned EXCEPT ![w] = S] \in [Windows -> SUBSET Clusters] /\ panelRefs \in SUBSET Clusters
    BY <1>0 DEF TypeOK
  <2> QED BY <1>1, <1>d, <1>e, <2>1 DEF GiveTabs, ownership
<1>2. CASE CommitSelections(t)
  BY <1>0, <1>2, <1>e DEF CommitSelections, InBody, Task
<1>13. CASE CommitCancelMove(t)
  <2>1. /\ task[t].pc = "body" /\ task[t].tgt \in Windows
        /\ owned[task[t].tgt] \ ({task[t].cl} \cap selected) \in SUBSET Clusters
    BY <1>0, <1>13 DEF CommitCancelMove, InBody, Task, TypeOK
  <2> QED BY <1>13, <1>e, <2>1 DEF CommitCancelMove
<1>14. CASE DropReference(t)
  <2>1. /\ task[t].pc \in InLock \ Unsettled
        /\ owned \in [Windows -> SUBSET Clusters] /\ panelRefs \ {task[t].cl} \in SUBSET Clusters
    BY <1>0, <1>14 DEF DropReference, TypeOK
  <2> QED BY <1>1, <1>14, <2>1 DEF DropReference
<1>3. CASE CommitClose(t)
  <2> DEFINE remaining == [owned EXCEPT ![task[t].win] = @ \ {task[t].cl}]
  <2>1. /\ task[t].pc \in InLock \ Unsettled /\ UNCHANGED selected
        /\ remaining \in [Windows -> SUBSET Clusters] /\ panelRefs \in SUBSET Clusters
    BY <1>0, <1>3 DEF CommitClose, InBody, Task, TypeOK
  <2>2. Reconcile(t, remaining, panelRefs) \/ (Goto(t, "finish") /\ UNCHANGED <<owned, panelRefs, refused>>)
    BY <1>3 DEF CommitClose
  <2> HIDE DEF remaining
  <2> QED BY <1>1, <1>d, <2>1, <2>2
<1>15. CASE CommitRelease(t)
  <2> DEFINE remaining == [owned EXCEPT ![task[t].win] = {}]
  <2>1. /\ task[t].pc \in InLock \ Unsettled /\ UNCHANGED selected
        /\ remaining \in [Windows -> SUBSET Clusters] /\ panelRefs \in SUBSET Clusters
    BY <1>0, <1>15 DEF CommitRelease, InBody, Task, TypeOK
  <2>2. Reconcile(t, remaining, panelRefs) \/ (Goto(t, "finish") /\ UNCHANGED <<owned, panelRefs, refused>>)
    BY <1>15 DEF CommitRelease, ownership
  <2> HIDE DEF remaining
  <2> QED BY <1>1, <1>d, <2>1, <2>2
<1>4. CASE StartGeneration(t) \/ ReleaseSlot(t) \/ CommitRebuild(t) \/ RecheckReference(t)
           \/ ClearRuntime(t) \/ SkipSync(t) \/ BuildsDone(t) \/ PruneClients(t)
  <2>1. /\ task[t].pc \in InLock \ Unsettled /\ UNCHANGED <<selected, ownership>>
        /\ \E pc : pc \notin Unsettled /\ Goto(t, pc)
    BY <1>4, Zenon DEF StartGeneration, ReleaseSlot, CommitRebuild, RecheckReference, ClearRuntime,
       SkipSync, BuildsDone, PruneClients, InBody
  <2> QED BY <1>b, <1>c, <2>1, OwnershipFrame DEF ownership
<1>5. CASE SyncClientPool(t)
           \/ \E c \in Clusters : InstallClient(t, c) \/ BuildFails(t, c)
                                \/ BuildLate(t, c) \/ BuildCancelled(t, c)
  <2>1. task[t].pc \in InLock \ Unsettled /\ UNCHANGED <<selected, ownership>>
    BY <1>5 DEF SyncClientPool, InstallClient, BuildFails, BuildLate, BuildCancelled
  <2>2. task'[t].pc = "build"
    BY <1>0, <1>5 DEF SyncClientPool, InstallClient, BuildFails, BuildLate, BuildCancelled, Task
  <2> QED BY <1>b, <2>1, <2>2, OwnershipFrame DEF ownership
<1>6. ASSUME NEW R \in SUBSET Clusters, DiscoverRemoved(t, R)
      PROVE  UnionKept'
  <2> DEFINE pc == IF R = {} THEN "finish" ELSE "pruneOwners"
  <2>1. /\ task[t].pc = "body" /\ UNCHANGED <<selected, ownership>>
        /\ task' = [task EXCEPT ![t].union = selected \ R, ![t].todo = R, ![t].pc = pc]
    BY <1>6 DEF DiscoverRemoved, InBody
  <2>2. pc \in {"finish", "pruneOwners"}
    OBVIOUS
  <2> HIDE DEF pc
  <2>3. task'[t].pc = pc
    BY <2>1, <1>0 DEF Task
  <2> QED BY <1>b, <2>1, <2>2, <2>3, OwnershipFrame DEF ownership
<1>7. CASE CommitStage(t)
  <2>1. task[t].pc = "body" /\ UNCHANGED <<selected, refused, panelRefs>> /\ Goto(t, "finish")
    BY <1>7 DEF CommitStage, InBody
  <2>2. task'[t].pc \notin Unsettled
    BY <2>1, <1>c
  <2>3. \A v \in Windows : owned'[v] \subseteq owned[v] \cup selected
    BY <1>0, <1>7 DEF CommitStage, TypeOK
  <2>4. Owners' \subseteq Owners \cup selected
    BY <2>1, <2>3, UnionMember DEF Owners
  <2> QED BY <1>b, <2>1, <2>2, <2>4
<1>8. CASE CommitMove(t)
  <2>1. task[t].pc = "body" /\ UNCHANGED <<selected, refused, panelRefs>> /\ Goto(t, "finish")
    BY <1>8 DEF CommitMove, InBody
  <2>2. task'[t].pc \notin Unsettled
    BY <2>1, <1>c
  <2>3. \A v \in Windows : owned'[v] \subseteq owned[v]
    BY <1>0, <1>8 DEF CommitMove, TypeOK
  <2>4. Owners' \subseteq Owners
    BY <2>1, <2>3, UnionMember DEF Owners
  <2> QED BY <1>b, <2>1, <2>2, <2>4
<1>9. CASE CommitRetain(t)
  <2>1. task[t].pc = "body" /\ UNCHANGED <<selected, refused, owned>> /\ (Goto(t, "panel") \/ Goto(t, "unreserve"))
    BY <1>9 DEF CommitRetain, InBody
  <2>2. task'[t].pc \notin Unsettled
    BY <2>1, <1>c
  <2>3. panelRefs' \subseteq panelRefs \cup selected
    BY <1>9 DEF CommitRetain
  <2>4. Owners' \subseteq Owners \cup selected
    BY <2>1, <2>3, UnionMember DEF Owners
  <2> QED BY <1>b, <2>1, <2>2, <2>3, <2>4
<1>10. CASE BeginDeferredGeneration(t)
  <2> DEFINE pc == IF task[t].union = {} THEN "wipe" ELSE "select"
  <2>1. /\ task[t].pc = "activate" /\ UNCHANGED <<selected, ownership>>
        /\ task' = [task EXCEPT ![t].gen = gen + 1, ![t].pc = pc]
    BY <1>10 DEF BeginDeferredGeneration
  <2>2. pc \in {"wipe", "select"}
    OBVIOUS
  <2> HIDE DEF pc
  <2>3. task'[t].pc = pc /\ task'[t].union = task[t].union
    BY <2>1, <1>0 DEF Task
  <2>4. Owners' \subseteq task[t].union
    BY <2>1, OwnershipFrame DEF UnionInv, PlanCoversOwners
  <2> QED BY <1>a, <2>1, <2>2, <2>3, <2>4, InsideUnion
<1>11. CASE WipeOwners(t) \/ PruneOwners(t)
  <2>1. /\ task[t].pc \in {"wipe", "pruneOwners"}
        /\ task'[t].pc \in {"select", "pruneSelection"} /\ task'[t].union = task[t].union
    BY <1>0, <1>11 DEF WipeOwners, PruneOwners, Goto, Task
  <2>2. RetainOwners({}) \/ RetainOwners(task[t].union)
    BY <1>11 DEF WipeOwners, PruneOwners
  <2>3. /\ \A w \in Windows : owned'[w] \subseteq task[t].union
        /\ panelRefs' \subseteq task[t].union
    BY <2>2 DEF RetainOwners
  <2>4. Owners' \subseteq task[t].union
    BY <2>3, UnionMember DEF Owners
  <2> QED BY <1>a, <2>1, <2>4, InsideUnion
<1>12. CASE CommitSelection(t) \/ PruneSelection(t)
  <2>1. /\ task[t].pc \in {"select", "pruneSelection"} /\ task'[t].pc \in {"clear", "sync", "pruneClients"}
        /\ selected' = task[t].union /\ UNCHANGED <<owned, panelRefs>>
    BY <1>0, <1>12 DEF CommitSelection, PruneSelection, Goto, Task, ownership
  <2>2. Owners' = Owners /\ panelRefs' \subseteq Owners'
    BY <2>1, UnionMember DEF Owners, UnionOf
  <2>3. Owners' \subseteq selected'
    BY <2>1, <2>2 DEF UnionInv, PlanCoversOwners
  <2> QED BY <1>a, <2>1, <2>2, <2>3, InsideUnion
<1> QED BY <1>2, <1>3, <1>4, <1>5, <1>6, <1>7, <1>8, <1>9, <1>10, <1>11, <1>12, <1>13, <1>14,
        <1>15 DEF InSlot

\* The invariant of the union of owners.
LEMMA UnionInvariant == Spec /\ [][AdoptsWhenSettled]_vars => []UnionInv
<1>1. Init => UnionInv
  <2> SUFFICES ASSUME Init PROVE UnionInv
    OBVIOUS
  <2>1. \A t \in Tasks : task[t].pc = "idle"
    BY DEF Init, IdleTask
  <2>2. panelRefs \subseteq selected
    BY UnionMember DEF Init
  <2> QED BY <2>1, <2>2 DEF Init, UnionInv, SettledIsSelected, RefsAreSelected, PlanCoversOwners,
          CloserIsTracked, Owners, Unsettled
<1>2. OwnershipInv /\ UnionInv /\ [Next]_vars /\ [AdoptsWhenSettled]_vars => UnionInv'
  <2> SUFFICES ASSUME OwnershipInv, UnionInv, [Next]_vars, [AdoptsWhenSettled]_vars
               PROVE  UnionInv'
    OBVIOUS
  <2>1. CASE UNCHANGED vars
    BY <2>1 DEF vars, ownership, UnionInv, SettledIsSelected, RefsAreSelected, PlanCoversOwners,
       CloserIsTracked, Owners, UnionOf, Open
  <2>2. ASSUME NEW t \in Tasks, Arrive(t) \/ BeforeSlot(t) \/ InSlot(t), AdoptsWhenSettled
        PROVE  UnionInv'
    <3>1. CloserIsTracked'
      BY <2>2, CloserStep
    <3>2. UnionKept'
      BY <2>2, ArriveUnion, BeforeUnion, InSlotUnion
    <3> QED BY <3>1, <3>2 DEF UnionInv, UnionKept
  <2> QED BY <2>1, <2>2 DEF Next
<1> QED BY OwnershipInvariant, <1>1, <1>2, PTL DEF Spec

\* Between mutations the process selection is the union of its owners, for any
\* number of windows, clusters and commands in flight, unless the union of an
\* ownership change was refused after it was made, and as long as no window is
\* seen for the first time while a mutation is about to replace the selection
\* (ensureWorkspaceSelectionsLocked seeds the new window with the old one).  Those
\* two are the only ways to miss the union.
THEOREM SelectionUnion == Spec /\ [][AdoptsWhenSettled]_vars => []SelectionIsUnion
<1>1. OwnershipInv /\ UnionInv => SelectionIsUnion
  <2> SUFFICES ASSUME OwnershipInv, UnionInv, holder = NoTask, ~refused PROVE selected = Owners
    BY DEF SelectionIsUnion
  <2>1. \A t \in Tasks : task[t].pc \notin Unsettled
    BY SelectionConstants DEF OwnershipInv, SlotExclusive, SelectionConstants, Unsettled, InLock
  <2> QED BY <2>1 DEF OwnershipInv, SettledIsOwned, UnionInv, SettledIsSelected
<1> QED BY OwnershipInvariant, UnionInvariant, <1>1, PTL

\* In particular, while no window is seen for the first time, a refused ownership
\* change is the only way to miss the union when selectionMutationMu is free.
THEOREM KnownWindowsUnion ==
  ASSUME "ensure" \notin Kinds
  PROVE  Spec => []SelectionIsUnion
<1>1. [Next]_vars => [AdoptsWhenSettled]_vars
  BY DEF AdoptsWhenSettled, ObserveWindow, Issue
<1>2. Spec => [][AdoptsWhenSettled]_vars
  BY <1>1, PTL DEF Spec
<1> QED BY <1>2, SelectionUnion, PTL
-----------------------------------------------------------------------------
(* Panels and their references.                                              *)

\* The directory needs a cluster whose panel is open or about to be placed.
LEMMA HeldIsNeeded ==
  ASSUME NEW c \in Held
  PROVE  HasClusterReference(c)
BY DEF Held, HasClusterReference

\* What a step can add to the directory: the reservation of the command that
\* arrives, and the panel of a command whose reservation is live.
LEMMA DirectoryStep ==
  ASSUME task \in [Tasks -> Task], NEW t \in Tasks, Arrive(t) \/ BeforeSlot(t) \/ InSlot(t)
  PROVE  /\ panels' \subseteq Held
         /\ reservations' \subseteq reservations \cup {t}
         /\ BeforeSlot(t) \/ InSlot(t) => reservations' \subseteq reservations
         /\ reservations' \subseteq reservations
            \/ \E w \in Windows, c \in Clusters : OpenPanelWorkspaceObject(t, w, c)
<1>1. CASE Arrive(t)
  <2>1. panels' \subseteq panels
    BY <1>1 DEF Arrive, ApplyClusterWorkspace, CloseClusterView, OpenPanelWorkspaceObject,
       ObserveWindow, ReleaseWorkspaceWindow, MoveClusterView, ClosePanelWorkspaceObject,
       RecordTransportFailure, KubeconfigSourceChanged, SetKubeconfigSearchPaths, directory
  <2>2. reservations' = reservations
        \/ \E w \in Windows, c \in Clusters : OpenPanelWorkspaceObject(t, w, c)
    BY <1>1 DEF Arrive, ApplyClusterWorkspace, CloseClusterView,
       ObserveWindow, ReleaseWorkspaceWindow, MoveClusterView, ClosePanelWorkspaceObject,
       RecordTransportFailure, KubeconfigSourceChanged, SetKubeconfigSearchPaths, directory
  <2>3. reservations' \subseteq reservations \cup {t}
    BY <2>2 DEF OpenPanelWorkspaceObject
  <2>4. ~BeforeSlot(t) /\ ~InSlot(t)
    BY <1>1, ArriveFrame, BeforeKeeps, InsideKeeps DEF Kept
  <2> QED BY <2>1, <2>2, <2>3, <2>4 DEF Held
<1>2. CASE BeforeSlot(t)
  <2>1. reservations' \subseteq reservations
    BY <1>2 DEF BeforeSlot, ConsumeIntent, LookBeforeClose, ProbeObsolete, TakeGeneration,
       Preempt, AcquireSlot, SkipSuperseded, RetainOwned, CommitPanel, ReleaseReservation,
       CheckUnused, ReleaseOwned, directory
  <2>2. CASE CommitPanel(t)
    BY <1>2, <2>1, <2>2 DEF CommitPanel, Held
  <2>3. CASE panels' = panels
    BY <1>2, <2>1, <2>3 DEF Held
  <2> QED BY <1>2, <2>2, <2>3 DEF BeforeSlot, ConsumeIntent, LookBeforeClose, ProbeObsolete,
          TakeGeneration, Preempt, AcquireSlot, SkipSuperseded, RetainOwned, ReleaseReservation,
          CheckUnused, ReleaseOwned, directory
<1>3. CASE InSlot(t)
  <2>1. panels' \subseteq panels /\ reservations' \subseteq reservations
    BY <1>3 DEF InSlot, StartGeneration, ReleaseSlot, GiveTabs, CommitSelections, CommitClose,
     CommitRelease, CommitStage, CommitMove, CommitCancelMove, CommitRebuild, CommitRetain,
       RecheckReference, DropReference, BeginDeferredGeneration, WipeOwners,
       CommitSelection, ClearRuntime, SyncClientPool, SkipSync, InstallClient,
       BuildFails, BuildLate, BuildCancelled, BuildsDone, DiscoverRemoved, PruneOwners,
       PruneSelection, PruneClients, DirectoryWithout, directory
  <2> QED BY <2>1 DEF Held
<1> QED BY <1>1, <1>2, <1>3

\* Whatever a step adds to what is held has its reference.
LEMMA HeldStep ==
  ASSUME task \in [Tasks -> Task], NEW t \in Tasks, Arrive(t) \/ BeforeSlot(t) \/ InSlot(t),
         reservations' \subseteq Tasks
  PROVE  \A c \in Held' : c \in Held \/ c \in panelRefs'
<1> SUFFICES ASSUME NEW c \in Held' PROVE c \in Held \/ c \in panelRefs'
  OBVIOUS
<1>1. CASE c \in panels'
  BY <1>1, DirectoryStep
<1>2. ASSUME NEW u \in reservations', task'[u].pc = "panel", c = task'[u].cl
      PROVE  c \in Held \/ c \in panelRefs'
  <2>1. CASE u # t
    <3>1. task'[u] = task[u]
      BY <2>1, ArriveFrame, BeforeKeeps, InsideKeeps DEF Kept
    <3>2. u \in reservations
      BY <2>1, DirectoryStep
    <3> QED BY <1>2, <3>1, <3>2 DEF Held
  <2>2. CASE u = t
    BY <1>2, <2>2, ArriveFrame, BeforeKeeps, InsideKeeps DEF Kept
  <2> QED BY <2>1, <2>2
<1> QED BY <1>1, <1>2 DEF Held

\* The steps that take a reference away.
LEMMA ReferenceStep ==
  ASSUME NEW t \in Tasks, Arrive(t) \/ BeforeSlot(t) \/ InSlot(t),
         NEW c \in panelRefs, c \notin panelRefs'
  PROVE  \/ ~HasClusterReference(c)
         \/ DropReference(t) /\ c = task[t].cl /\ owned' = owned
         \/ WipeOwners(t) \/ PruneOwners(t)
<1>1. CASE Arrive(t)
  BY <1>1 DEF Arrive, ApplyClusterWorkspace, CloseClusterView, OpenPanelWorkspaceObject,
     ObserveWindow, ReleaseWorkspaceWindow, MoveClusterView, ClosePanelWorkspaceObject,
     RecordTransportFailure, KubeconfigSourceChanged, SetKubeconfigSearchPaths, ownership
<1>2. CASE BeforeSlot(t)
  BY <1>2 DEF BeforeSlot, ConsumeIntent, LookBeforeClose, ProbeObsolete, TakeGeneration,
     Preempt, AcquireSlot, SkipSuperseded, RetainOwned, CommitPanel, ReleaseReservation,
     CheckUnused, ReleaseOwned, ownership
<1>3. CASE InSlot(t)
  BY <1>3 DEF InSlot, StartGeneration, ReleaseSlot, GiveTabs, CommitSelections, CommitClose,
     CommitRelease, CommitStage, CommitMove, CommitCancelMove, CommitRebuild, CommitRetain, Reconcile,
     RecheckReference, DropReference, BeginDeferredGeneration,
     CommitSelection, ClearRuntime, SyncClientPool, SkipSync, InstallClient,
     BuildFails, BuildLate, BuildCancelled, BuildsDone, DiscoverRemoved,
     PruneSelection, PruneClients, ownership
<1> QED BY <1>1, <1>2, <1>3

\* A queued release found the directory without its cluster.  If the directory
\* needs the cluster again before the reference is deleted, it is because an open
\* was admitted in between, for a window that shows the cluster, and no window
\* loses a tab while the release holds the slot.
DropIsClaimed ==
  /\ \A t \in reservations : task[t].pc # "idle"
  /\ \A t \in Tasks : task[t].pc = "drop" /\ HasClusterReference(task[t].cl)
                      => \E w \in Windows : task[t].cl \in owned[w]

\* Outside the slot no window loses a tab.
LEMMA TabsStay ==
  ASSUME TypeOK, UntrackedOwnsNothing, NEW t \in Tasks, Arrive(t) \/ BeforeSlot(t)
  PROVE  \A w \in Windows : owned[w] \subseteq owned'[w]
<1>1. ASSUME NEW v \in Windows, EnsureWindow(v)
      PROVE  \A w \in Windows : owned[w] \subseteq owned'[w]
  BY <1>1 DEF EnsureWindow, TypeOK, UntrackedOwnsNothing
<1>2. CASE Arrive(t)
  BY <1>1, <1>2 DEF Arrive, ApplyClusterWorkspace, CloseClusterView, OpenPanelWorkspaceObject,
     ObserveWindow, ReleaseWorkspaceWindow, MoveClusterView, ClosePanelWorkspaceObject,
     RecordTransportFailure, KubeconfigSourceChanged, SetKubeconfigSearchPaths, ownership
<1>3. CASE BeforeSlot(t)
  <2>1. task[t].win \in Windows
    BY DEF TypeOK, Task
  <2> QED BY <1>1, <1>3, <2>1 DEF BeforeSlot, ConsumeIntent, LookBeforeClose, ProbeObsolete,
          TakeGeneration, Preempt, AcquireSlot, SkipSuperseded, RetainOwned, CommitPanel,
          ReleaseReservation, CheckUnused, ReleaseOwned, ownership
<1> QED BY <1>2, <1>3

\* What the directory needs after a step it needed before, or a window shows it.
LEMMA NeededStep ==
  ASSUME task \in [Tasks -> Task], NEW t \in Tasks, Arrive(t) \/ BeforeSlot(t) \/ InSlot(t),
         reservations \subseteq Tasks, \A u \in reservations : task[u].pc # "idle",
         NEW c, HasClusterReference(c)'
  PROVE  HasClusterReference(c) \/ \E w \in Windows : c \in owned[w]
<1>1. CASE c \in panels'
  BY <1>1, DirectoryStep, HeldIsNeeded
<1>2. ASSUME NEW u \in reservations', task'[u].cl = c
      PROVE  HasClusterReference(c) \/ \E w \in Windows : c \in owned[w]
  <2>1. CASE u # t
    <3>1. task'[u] = task[u] /\ u \in reservations
      BY <2>1, DirectoryStep, ArriveFrame, BeforeKeeps, InsideKeeps DEF Kept
    <3> QED BY <1>2, <3>1 DEF HasClusterReference
  <2>2. CASE u = t /\ (BeforeSlot(t) \/ InSlot(t))
    <3>1. t \in reservations /\ task[t].cl = c
      BY <1>2, <2>2, DirectoryStep, BeforeKeeps, InsideKeeps DEF Kept
    <3> QED BY <3>1 DEF HasClusterReference
  <2>3. CASE u = t /\ Arrive(t)
    <3>1. t \notin reservations
      BY <2>3, ArriveFrame
    <3>2. PICK w \in Windows, d \in Clusters : OpenPanelWorkspaceObject(t, w, d)
      BY <1>2, <2>3, <3>1, DirectoryStep
    <3>3. task'[t].cl = d /\ d \in owned[w]
      BY <3>2 DEF OpenPanelWorkspaceObject, Issue
    <3> QED BY <1>2, <2>3, <3>3
  <2> QED BY <2>1, <2>2, <2>3
<1> QED BY <1>1, <1>2 DEF HasClusterReference

\* The invariant of the queued release.
LEMMA DropStep ==
  ASSUME OwnershipInv, OwnershipInv', DropIsClaimed, NEW t \in Tasks,
         Arrive(t) \/ BeforeSlot(t) \/ InSlot(t)
  PROVE  DropIsClaimed'
<1>0. /\ TypeOK /\ UntrackedOwnsNothing /\ task \in [Tasks -> Task]
      /\ reservations \subseteq Tasks /\ reservations' \subseteq Tasks
  BY DEF OwnershipInv, TypeOK
<1>1. ASSUME NEW u \in reservations' PROVE task'[u].pc # "idle"
  <2>1. CASE u # t
    BY <1>0, <2>1, DirectoryStep, ArriveFrame, BeforeKeeps, InsideKeeps DEF Kept, DropIsClaimed
  <2>2. CASE u = t
    BY <1>0, <2>2, ArriveFrame, BeforeKeeps, InsideKeeps DEF Kept
  <2> QED BY <2>1, <2>2
<1>2. ASSUME NEW u \in Tasks, task'[u].pc = "drop", HasClusterReference(task[u].cl)'
      PROVE  \E w \in Windows : task'[u].cl \in owned'[w]
  <2>0. PICK c : c = task'[u].cl
    OBVIOUS
  <2>a. HasClusterReference(c)'
    BY <1>2, <2>0 DEF HasClusterReference
  <2>1. CASE u = t
    <3>1. RecheckReference(t) /\ ~HasClusterReference(task[t].cl)
      BY <1>0, <1>2, <2>1, ArriveFrame, BeforeKeeps, InsideKeeps DEF Kept
    <3>2. \A v \in Tasks : task'[v].cl = task[v].cl
      BY <1>0, <3>1, InsideKeeps DEF Kept, InSlot
    <3>3. UNCHANGED <<panels, reservations>>
      BY <3>1 DEF RecheckReference, directory
    <3> QED BY <1>0, <2>0, <2>1, <2>a, <3>1, <3>2, <3>3 DEF HasClusterReference
  <2>2. CASE u # t
    <3>1. task'[u] = task[u]
      BY <1>0, <2>2, ArriveFrame, BeforeKeeps, InsideKeeps DEF Kept
    <3>2. holder = u
      BY <1>2, <3>1 DEF OwnershipInv, SlotExclusive, InLock
    <3>3. ~InSlot(t)
      BY <1>0, <2>2, <3>2, InsideKeeps DEF OwnershipInv, SlotExclusive
    <3>4. HasClusterReference(c) \/ \E w \in Windows : c \in owned[w]
      BY <1>0, <2>a, NeededStep DEF DropIsClaimed
    <3>5. \E w \in Windows : c \in owned[w]
      BY <1>2, <2>0, <3>1, <3>4 DEF DropIsClaimed
    <3> QED BY <1>0, <2>0, <3>3, <3>5, TabsStay
  <2> QED BY <2>1, <2>2
<1> QED BY <1>1, <1>2 DEF DropIsClaimed

\* What is held keeps its panel reference, for any number of windows, clusters and
\* commands in flight, but for retainWorkspaceSelections and the serialized delete
\* of ReleasePanelCluster, which leaves the cluster to a window that shows it.
THEOREM PanelsKeepReferences == Spec => PanelKeepsReference
<1>1. Init => DropIsClaimed
  BY DEF Init, IdleTask, DropIsClaimed
<1>2. OwnershipInv /\ OwnershipInv' /\ DropIsClaimed /\ [Next]_vars => DropIsClaimed'
  <2> SUFFICES ASSUME OwnershipInv, OwnershipInv', DropIsClaimed, [Next]_vars
               PROVE  DropIsClaimed'
    OBVIOUS
  <2>1. CASE UNCHANGED vars
    BY <2>1 DEF vars, ownership, directory, DropIsClaimed, HasClusterReference
  <2>2. CASE Next
    BY <2>2, DropStep DEF Next
  <2> QED BY <2>1, <2>2
<1>3. ASSUME OwnershipInv, OwnershipInv', DropIsClaimed, [Next]_vars
      PROVE  [\A c \in Held' \ panelRefs' :
                \/ c \in Held \ panelRefs
                \/ \E t \in Tasks : /\ task[t].pc = "drop" /\ task[t].cl = c
                                    /\ \E w \in Windows : c \in owned'[w]
                \/ \E t \in Tasks : task[t].pc \in {"wipe", "pruneOwners"}]_vars
  <2>1. CASE UNCHANGED vars
    BY <2>1
  <2>2. ASSUME NEW t \in Tasks, Arrive(t) \/ BeforeSlot(t) \/ InSlot(t),
               NEW c \in Held' \ panelRefs', c \notin Held \ panelRefs
        PROVE  \/ /\ task[t].pc = "drop" /\ task[t].cl = c
                  /\ \E w \in Windows : c \in owned'[w]
               \/ task[t].pc \in {"wipe", "pruneOwners"}
    <3>1. task \in [Tasks -> Task] /\ reservations' \subseteq Tasks
      BY <1>3 DEF OwnershipInv, TypeOK
    <3>2. c \in Held
      BY <2>2, <3>1, HeldStep
    <3>3. HasClusterReference(c)
      BY <3>2, HeldIsNeeded
    <3>4. CASE DropReference(t) /\ c = task[t].cl /\ owned' = owned
      BY <1>3, <3>3, <3>4 DEF DropReference, DropIsClaimed
    <3>5. CASE WipeOwners(t) \/ PruneOwners(t)
      BY <3>5 DEF WipeOwners, PruneOwners
    <3> QED BY <2>2, <3>2, <3>3, <3>4, <3>5, ReferenceStep
  <2>3. CASE Next
    <3>1. PICK t \in Tasks : Arrive(t) \/ BeforeSlot(t) \/ InSlot(t)
      BY <2>3 DEF Next
    <3> QED BY <2>2, <3>1
  <2> QED BY <1>3, <2>1, <2>3
<1> QED BY OwnershipInvariant, <1>1, <1>2, <1>3, PTL DEF Spec, PanelKeepsReference

-----------------------------------------------------------------------------
(* Panels go with their cluster, if nothing is opened between the look of a  *)
(* queued release at the directory and its delete.                           *)

DeletesOnlyUnused ==
  \A t \in Tasks : DropReference(t) => ~HasClusterReference(task[t].cl)

\* The clusters whose owners are pruned and whose panels are about to be.
Departing ==
  UNION {task[t].todo : t \in {u \in Tasks : task[u].pc \in {"pruneSelection", "pruneClients"}}}

HeldInv ==
  /\ Held \subseteq panelRefs \cup Departing
  /\ \A t \in Tasks : task[t].pc = "pruneOwners" => selected \subseteq task[t].union \cup task[t].todo

\* The clusters being pruned.
LEMMA DepartingMember ==
  ASSUME NEW c
  PROVE  c \in Departing <=> \E t \in Tasks : /\ task[t].pc \in {"pruneSelection", "pruneClients"}
                                              /\ c \in task[t].todo
BY DEF Departing

\* A prune goes from its owners to the selection, the clients and the panels.
LEMMA PruneAction ==
  ASSUME NEW t \in Tasks, InSlot(t)
  PROVE  /\ task[t].pc = "pruneSelection" => PruneSelection(t)
         /\ task[t].pc = "pruneClients" => PruneClients(t)
BY DEF InSlot, StartGeneration, ReleaseSlot, GiveTabs, CommitSelections, CommitClose,
   CommitRelease, CommitStage, CommitMove, CommitCancelMove, CommitRebuild, CommitRetain,
   RecheckReference, DropReference, BeginDeferredGeneration, WipeOwners, CommitSelection, ClearRuntime,
   SyncClientPool, SkipSync, InstallClient, BuildFails, BuildLate, BuildCancelled, BuildsDone,
   DiscoverRemoved, PruneOwners, PruneSelection, PruneClients, InBody

\* Outside the slot the selection stays.
LEMMA SelectionStays ==
  ASSUME NEW t \in Tasks, task \in [Tasks -> Task], Arrive(t) \/ BeforeSlot(t)
  PROVE  selected' = selected
BY ArriveFrame DEF BeforeSlot, ConsumeIntent, LookBeforeClose, ProbeObsolete, TakeGeneration,
   Preempt, AcquireSlot, SkipSuperseded, RetainOwned, CommitPanel, ReleaseReservation,
   CheckUnused, ReleaseOwned

\* What is held keeps its reference, or its cluster is being pruned.
LEMMA HeldInvStep ==
  ASSUME OwnershipInv, OwnershipInv', UnionInv, HeldInv, DeletesOnlyUnused, NEW t \in Tasks,
         Arrive(t) \/ BeforeSlot(t) \/ InSlot(t)
  PROVE  HeldInv'
<1>0. /\ task \in [Tasks -> Task] /\ task[t] \in Task
      /\ reservations' \subseteq Tasks /\ reservations \subseteq Tasks
  BY DEF OwnershipInv, TypeOK
<1>a. \A u \in Tasks \ {t} : task'[u] = task[u]
  BY <1>0, ArriveFrame, BeforeKeeps, InsideKeeps DEF Kept
<1>1. ASSUME NEW u \in Tasks, task'[u].pc = "pruneOwners"
      PROVE  selected' \subseteq task'[u].union \cup task'[u].todo
  <2>1. CASE u = t
    BY <1>0, <1>1, <2>1, ArriveFrame, BeforeKeeps, InsideKeeps DEF Kept
  <2>2. CASE u # t
    <3>1. task'[u] = task[u]
      BY <1>a, <2>2
    <3>2. ~InSlot(t)
      BY <1>0, <1>1, <2>2, <3>1, InsideKeeps DEF OwnershipInv, SlotExclusive, InLock
    <3> QED BY <1>0, <1>1, <3>1, <3>2, SelectionStays DEF HeldInv
  <2> QED BY <2>1, <2>2
<1>2. ASSUME NEW c \in Held', c \notin panelRefs'
      PROVE  c \in Departing'
  <2>1. c \in Held
    BY <1>0, <1>2, HeldStep
  <2>d. ASSUME NEW u \in Tasks, task'[u].pc \in {"pruneSelection", "pruneClients"}, c \in task'[u].todo
        PROVE  c \in Departing'
    BY <2>d DEF Departing
  <2>2. CASE c \in panelRefs
    <3>1. HasClusterReference(c)
      BY <2>1, HeldIsNeeded
    <3>2. c \in Owners
      BY <2>2, UnionMember DEF Owners
    <3>3. CASE DropReference(t) /\ c = task[t].cl
      BY <3>1, <3>3 DEF DeletesOnlyUnused
    <3>4. CASE WipeOwners(t)
      <4>1. task[t].pc = "wipe"
        BY <3>4 DEF WipeOwners
      <4> QED BY <3>2, <4>1 DEF OwnershipInv, PlanIsOwned, UnionInv, PlanCoversOwners, Unsettled
    <3>5. CASE PruneOwners(t)
      <4>1. /\ task[t].pc = "pruneOwners" /\ panelRefs' = panelRefs \cap task[t].union
            /\ task'[t].pc = "pruneSelection" /\ task'[t].todo = task[t].todo
        BY <1>0, <3>5 DEF PruneOwners, RetainOwners, Goto, Task
      <4>2. c \in selected
        BY <2>2, <4>1, SettledUnion DEF InLock, Unsettled
      <4>3. c \in task[t].todo
        BY <1>2, <2>2, <4>1, <4>2 DEF HeldInv
      <4> QED BY <2>d, <4>1, <4>3
    <3> QED BY <1>2, <2>2, <3>1, <3>3, <3>4, <3>5, ReferenceStep
  <2>3. CASE c \in Departing
    <3>1. PICK u \in Tasks : task[u].pc \in {"pruneSelection", "pruneClients"} /\ c \in task[u].todo
      BY <2>3, DepartingMember
    <3>2. CASE u # t
      BY <1>a, <2>d, <3>1, <3>2
    <3>3. CASE u = t
      <4>1. InSlot(t)
        BY <1>0, <3>1, <3>3, ArriveFrame, BeforeKeeps DEF InLock
      <4>2. CASE PruneSelection(t)
        <5>1. task'[t].pc = "pruneClients" /\ task'[t].todo = task[t].todo
          BY <1>0, <4>2 DEF PruneSelection, Goto, Task
        <5> QED BY <2>d, <3>1, <3>3, <5>1
      <4>3. CASE PruneClients(t)
        <5>1. /\ panels' = panels \ task[t].todo
              /\ reservations' = {v \in reservations : task[v].cl \notin task[t].todo}
              /\ task'[t].pc = "finish"
          BY <1>0, <4>3 DEF PruneClients, DirectoryWithout, Goto, Task
        <5>2. c \notin panels'
          BY <3>1, <3>3, <5>1
        <5>3. PICK v \in reservations' : task'[v].pc = "panel" /\ c = task'[v].cl
          BY <1>2, <5>2 DEF Held
        <5>4. v # t /\ task'[v] = task[v]
          BY <1>0, <1>a, <5>1, <5>3
        <5> QED BY <3>1, <3>3, <5>1, <5>3, <5>4
      <4> QED BY <3>1, <3>3, <4>1, <4>2, <4>3, PruneAction
    <3> QED BY <3>2, <3>3
  <2> QED BY <2>1, <2>2, <2>3 DEF HeldInv
<1> QED BY <1>1, <1>2 DEF HeldInv

\* When everything is quiet every open panel is of a selected cluster, for any
\* number of windows, clusters and commands, as long as no reference is deleted
\* while the directory needs it and no window is adopted while the selection is
\* being replaced: those two races are the only ways to a panel that outlives its
\* cluster.
THEOREM PanelsGoWithClusters ==
  Spec /\ [][AdoptsWhenSettled]_vars /\ [][DeletesOnlyUnused]_vars => []NoPanelOutlivesCluster
<1>1. Init => HeldInv
  BY DEF Init, IdleTask, HeldInv, Held
<1>2. OwnershipInv /\ OwnershipInv' /\ UnionInv /\ HeldInv /\ [Next]_vars /\ [DeletesOnlyUnused]_vars
      => HeldInv'
  <2> SUFFICES ASSUME OwnershipInv, OwnershipInv', UnionInv, HeldInv, [Next]_vars,
                      [DeletesOnlyUnused]_vars
               PROVE  HeldInv'
    OBVIOUS
  <2>1. CASE UNCHANGED vars
    BY <2>1 DEF vars, ownership, directory, HeldInv, Held, Departing
  <2>2. CASE Next /\ DeletesOnlyUnused
    BY <2>2, HeldInvStep DEF Next
  <2> QED BY <2>1, <2>2
<1>3. OwnershipInv /\ UnionInv /\ HeldInv => NoPanelOutlivesCluster
  <2> SUFFICES ASSUME OwnershipInv, UnionInv, HeldInv, Quiet, NEW c \in panels
               PROVE  c \in selected
    BY DEF NoPanelOutlivesCluster
  <2>1. c \in panelRefs
    BY DepartingMember DEF HeldInv, Held, Quiet
  <2>2. panelRefs \subseteq selected
    BY DEF UnionInv, RefsAreSelected, Quiet, Unsettled
  <2> QED BY <2>1, <2>2
<1> QED BY OwnershipInvariant, UnionInvariant, <1>1, <1>2, <1>3, PTL DEF Spec
-----------------------------------------------------------------------------
(* Connection work that nobody cancelled settles the client pool.            *)

\* The points of a prune.
Pruning == {"pruneOwners", "pruneSelection", "pruneClients"}

\* The points at which a command changes the selection or the pool.
Working == {"wipe", "select", "clear", "sync", "build"} \cup Pruning

\* Generations are taken once, by superseding commands before they queue and by
\* the others when they commit, so the holder of the slot that has one has the
\* newest of all commands that keep their place.
GenerationInv ==
  /\ \A t \in Tasks : task[t].gen <= gen
  /\ \A t, u \in Tasks : t # u /\ task[t].gen = task[u].gen => task[t].gen = 0
  /\ \A t \in Tasks :
       /\ task[t].kind \in SupersedingKinds => task[t].pc \in {"intent", "supersede"} \/ task[t].gen > 0
       /\ task[t].pc \in {"intent", "supersede"} \cup Pruning => task[t].kind \in SupersedingKinds
       /\ task[t].pc \in Working => task[t].gen > 0
       /\ task[t].kind \notin SupersedingKinds /\ task[t].pc \notin Working \cup {"finish", "done"}
          => task[t].gen = 0
       /\ task[t].pc \in InLock /\ task[t].gen > 0
          => \A u \in Tasks \ {t} : task[u].kind \in OrderedKinds => task[u].gen < task[t].gen

\* The pool is that of the selection, except for the clusters S still to build
\* and those whose build failed, or came too late to be started.
PoolSettled(S) ==
  /\ clients \subseteq selected
  /\ \A c \in (selected \ clients) \ S : conn[c] \in {"disconnected", "late"}

\* Work that is neither cancelled nor superseded, point by point.
WorkInv ==
  \A t \in Tasks :
    task[t].kind \in OrderedKinds /\ task[t].gen > 0 /\ task[t].gen = gen /\ t \notin cancelled =>
      /\ task[t].pc = "clear" => selected = {}
      /\ task[t].pc = "sync" => selected = task[t].union
      /\ task[t].pc = "build" => task[t].todo \subseteq selected /\ PoolSettled(task[t].todo)
      /\ task[t].pc \in {"finish", "done"} => PoolSettled({})

\* How a command goes on when it takes no generation.
Proceeds(t) ==
  /\ gen' = gen /\ task'[t].gen = task[t].gen
  /\ task[t].pc \notin {"supersede", "done"} /\ task'[t].pc # "intent"
  /\ task[t].pc = "intent" <=> task'[t].pc = "supersede"
  /\ task'[t].pc \in Working => task[t].pc \in Working \/ task[t].kind \in SupersedingKinds
  /\ task'[t].pc \in Pruning => task[t].pc \in Pruning \/ task[t].kind \in SupersedingKinds
  /\ task[t].pc \in Working => task'[t].pc \in Working \cup {"finish"}
  /\ task[t].pc = "finish" => task'[t].pc = "done"
  /\ task'[t].pc \in InLock => task[t].pc \in InLock \/ AcquireSlot(t)

\* Every step of a command that takes no generation is such a step.
LEMMA Proceeding ==
  ASSUME task \in [Tasks -> Task], NEW t \in Tasks, BeforeSlot(t) \/ InSlot(t),
         ~TakeGeneration(t), ~BeginDeferredGeneration(t)
  PROVE  Proceeds(t)
<1>0. task[t] \in Task
  OBVIOUS
<1>g. ASSUME NEW pc, Goto(t, pc)
      PROVE  task'[t].pc = pc /\ task'[t].gen = task[t].gen
  BY <1>0, <1>g DEF Goto, Task
<1> USE DEF Proceeds, Working, Pruning, InLock
<1>1. CASE LookBeforeClose(t)
  <2> DEFINE S == owned'[task[t].win] \ {task[t].cl}
             pc == IF task[t].cl \in owned'[task[t].win] THEN "probe" ELSE "queue"
  <2>1. task[t].pc = "look" /\ task' = [task EXCEPT ![t].set = S, ![t].pc = pc] /\ gen' = gen
    BY <1>1 DEF LookBeforeClose, preempt
  <2>2. pc \in {"probe", "queue"}
    OBVIOUS
  <2> HIDE DEF S, pc
  <2>3. task'[t].pc = pc /\ task'[t].gen = task[t].gen
    BY <1>0, <2>1 DEF Task
  <2> QED BY <2>1, <2>2, <2>3
<1>2. CASE ReleaseOwned(t)
  <2>1. task[t].pc = "releaseRef" /\ gen' = gen
    BY <1>2 DEF ReleaseOwned, preempt
  <2>2. CASE Goto(t, "done")
    BY <1>g, <2>1, <2>2
  <2>3. CASE task' = [task EXCEPT ![t].pc = "queue", ![t].todo = {task[t].cl}]
    <3>1. task'[t].pc = "queue" /\ task'[t].gen = task[t].gen
      BY <1>0, <2>3 DEF Task
    <3> QED BY <2>1, <3>1
  <2> QED BY <1>2, <2>2, <2>3 DEF ReleaseOwned
<1>3. CASE ConsumeIntent(t) \/ ProbeObsolete(t) \/ Preempt(t) \/ AcquireSlot(t) \/ SkipSuperseded(t)
  BY <1>g, <1>3 DEF ConsumeIntent, ProbeObsolete, Preempt, AcquireSlot, SkipSuperseded, preempt
<1>4. CASE RetainOwned(t) \/ CommitPanel(t) \/ ReleaseReservation(t) \/ CheckUnused(t)
  BY <1>g, <1>4 DEF RetainOwned, CommitPanel, ReleaseReservation, CheckUnused, preempt
<1>r. ASSUME NEW own, NEW refs, Reconcile(t, own, refs), task[t].pc \in {"body", "drop"}, gen' = gen
      PROVE  Proceeds(t)
  <2> DEFINE U == UnionOf(own, refs)
             pc == IF U = selected \/ Refuses(U) THEN "finish" ELSE "activate"
  <2>1. task' = [task EXCEPT ![t].union = U, ![t].pc = pc]
    BY <1>r DEF Reconcile
  <2>2. pc \in {"finish", "activate"}
    OBVIOUS
  <2> HIDE DEF U, pc
  <2>3. task'[t].pc = pc /\ task'[t].gen = task[t].gen
    BY <1>0, <2>1 DEF Task
  <2> QED BY <1>r, <2>2, <2>3
<1>5. CASE CommitSelections(t) \/ CommitCancelMove(t) \/ DropReference(t)
  BY <1>r, <1>g, <1>5
     DEF CommitSelections, CommitCancelMove, GiveTabs, DropReference, InBody, preempt
<1>6. CASE CommitClose(t) \/ CommitRelease(t)
  BY <1>r, <1>g, <1>6 DEF CommitClose, CommitRelease, InBody, preempt
<1>7. CASE StartGeneration(t) \/ ReleaseSlot(t) \/ CommitStage(t) \/ CommitMove(t)
           \/ CommitRebuild(t) \/ CommitRetain(t) \/ RecheckReference(t)
  BY <1>g, <1>7 DEF StartGeneration, ReleaseSlot, CommitStage, CommitMove, CommitRebuild,
     CommitRetain, RecheckReference, InBody, preempt
<1>8. CASE WipeOwners(t) \/ CommitSelection(t) \/ ClearRuntime(t) \/ SkipSync(t)
           \/ BuildsDone(t) \/ PruneOwners(t) \/ PruneSelection(t) \/ PruneClients(t)
  BY <1>g, <1>8 DEF WipeOwners, CommitSelection, ClearRuntime, SkipSync,
     BuildsDone, PruneOwners, PruneSelection, PruneClients, preempt
<1>9. CASE SyncClientPool(t)
           \/ \E c \in Clusters : InstallClient(t, c) \/ BuildFails(t, c)
                                \/ BuildLate(t, c) \/ BuildCancelled(t, c)
  <2>1. task'[t].pc = "build" /\ task'[t].gen = task[t].gen
    BY <1>0, <1>9 DEF SyncClientPool, InstallClient, BuildFails, BuildLate, BuildCancelled, Task
  <2> QED BY <1>9, <2>1 DEF SyncClientPool, InstallClient, BuildFails, BuildLate, BuildCancelled, preempt
<1>10. ASSUME NEW R \in SUBSET Clusters, DiscoverRemoved(t, R)
       PROVE  Proceeds(t)
  <2> DEFINE pc == IF R = {} THEN "finish" ELSE "pruneOwners"
  <2>1. /\ task[t].pc = "body" /\ task[t].kind \in SupersedingKinds /\ gen' = gen
        /\ task' = [task EXCEPT ![t].union = selected \ R, ![t].todo = R, ![t].pc = pc]
    BY <1>10 DEF DiscoverRemoved, InBody, SupersedingKinds, preempt
  <2>2. pc \in {"finish", "pruneOwners"}
    OBVIOUS
  <2> HIDE DEF pc
  <2>3. task'[t].pc = pc /\ task'[t].gen = task[t].gen
    BY <1>0, <2>1 DEF Task
  <2> QED BY <2>1, <2>2, <2>3
<1> QED BY <1>1, <1>2, <1>3, <1>4, <1>5, <1>6, <1>7, <1>8, <1>9, <1>10 DEF BeforeSlot, InSlot

\* Taking a generation gives the command the newest one.
LEMMA TakesGeneration ==
  ASSUME task \in [Tasks -> Task], gen \in Nat, NEW t \in Tasks,
         TakeGeneration(t) \/ BeginDeferredGeneration(t)
  PROVE  /\ gen' = gen + 1 /\ task'[t].gen = gen + 1
         /\ TakeGeneration(t) => task[t].pc = "supersede" /\ task'[t].pc = "preempt"
         /\ BeginDeferredGeneration(t) => task[t].pc = "activate" /\ task'[t].pc \in {"wipe", "select"}
<1>1. CASE TakeGeneration(t)
  BY <1>1 DEF TakeGeneration, BeginDeferredGeneration, Task
<1>2. CASE BeginDeferredGeneration(t)
  <2> DEFINE pc == IF task[t].union = {} THEN "wipe" ELSE "select"
             g == gen + 1
  <2>1. task[t].pc = "activate" /\ task' = [task EXCEPT ![t].gen = g, ![t].pc = pc] /\ gen' = g
    BY <1>2 DEF BeginDeferredGeneration
  <2>2. pc \in {"wipe", "select"}
    OBVIOUS
  <2>3. ~TakeGeneration(t)
    BY <2>1 DEF TakeGeneration
  <2> HIDE DEF pc, g
  <2>4. task'[t].pc = pc /\ task'[t].gen = g
    BY <2>1 DEF Task
  <2> QED BY <2>1, <2>2, <2>3, <2>4 DEF g
<1> QED BY <1>1, <1>2

\* The invariant of the generations.
LEMMA GenerationStep ==
  ASSUME OwnershipInv, OwnershipInv', GenerationInv, NEW t \in Tasks,
         Arrive(t) \/ BeforeSlot(t) \/ InSlot(t)
  PROVE  GenerationInv'
<1>0. /\ task \in [Tasks -> Task] /\ gen \in Nat /\ gen' \in Nat
      /\ \A u \in Tasks : task[u].gen \in Nat /\ task'[u].gen \in Nat
  BY DEF OwnershipInv, TypeOK, Task
<1>a. \A u \in Tasks \ {t} : task'[u] = task[u]
  BY <1>0, ArriveFrame, BeforeKeeps, InsideKeeps DEF Kept
<1>x. \A u, v \in Tasks : task[u].pc \in InLock /\ task[v].pc \in InLock => u = v
  BY DEF OwnershipInv, SlotExclusive
<1> USE DEF GenerationInv
<1>1. CASE Arrive(t)
  <2>1. /\ task'[t].gen = 0 /\ gen' = gen
        /\ task'[t].kind \in SupersedingKinds <=> task'[t].pc \in {"intent", "supersede"}
        /\ task'[t].pc \notin Working /\ task'[t].pc \notin InLock /\ task'[t].pc \notin Pruning
    BY <1>0, <1>1, ArriveFrame DEF Working, Pruning, InLock
  <2> QED BY <1>0, <1>a, <2>1
<1>2. CASE TakeGeneration(t)
  <2>1. /\ task'[t].gen = gen + 1 /\ gen' = gen + 1 /\ task'[t].kind = task[t].kind
        /\ task[t].pc = "supersede" /\ task'[t].pc = "preempt"
    BY <1>0, <1>2, TakesGeneration, BeforeKeeps DEF BeforeSlot, Kept
  <2>2. task[t].kind \in SupersedingKinds /\ task[t].kind \notin OrderedKinds
    BY <2>1 DEF SupersedingKinds, OrderedKinds
  <2>3. \A u \in Tasks : task'[u].gen <= gen' /\ (u # t => task'[u].gen < task'[t].gen)
    BY <1>0, <1>a, <2>1
  <2>4. \A u \in Tasks : task'[u].pc \in InLock =>
            u # t /\ \A v \in Tasks \ {u} : task'[v].kind \in OrderedKinds => v # t
    BY <2>1, <2>2 DEF InLock
  <2> QED BY <1>0, <1>a, <2>1, <2>2, <2>3, <2>4 DEF Working, Pruning, InLock
<1>3. CASE BeginDeferredGeneration(t)
  <2>1. /\ task'[t].gen = gen + 1 /\ gen' = gen + 1
        /\ task[t].pc = "activate" /\ task'[t].pc \in {"wipe", "select"}
    BY <1>0, <1>3, TakesGeneration
  <2>2. \A u \in Tasks : task'[u].gen <= gen' /\ (u # t => task'[u].gen < task'[t].gen)
    BY <1>0, <1>a, <2>1
  <2>3. \A u \in Tasks \ {t} : task'[u].pc \notin InLock
    BY <1>a, <1>x, <2>1 DEF InLock
  <2>4. task'[t].gen > 0
    BY <1>0, <2>1
  <2> QED BY <1>0, <1>a, <2>1, <2>2, <2>3, <2>4 DEF Working, Pruning
<1>4. CASE Proceeds(t) /\ Kept(t)
  <2> USE DEF Proceeds, Kept
  <2>1. \A u \in Tasks : task'[u].gen = task[u].gen /\ task'[u].kind = task[u].kind
    BY <1>a, <1>4
  <2>2. gen' = gen
    BY <1>4
  <2>3. /\ task'[t].kind \in SupersedingKinds => task'[t].pc \in {"intent", "supersede"} \/ task'[t].gen > 0
        /\ task'[t].pc \in {"intent", "supersede"} \cup Pruning => task'[t].kind \in SupersedingKinds
    BY <1>4
  <2>4. task'[t].pc \in Working => task'[t].gen > 0
    <3>1. ASSUME task'[t].pc \in Working, task[t].kind \in SupersedingKinds
          PROVE  task'[t].gen > 0
      BY <2>1, <2>3, <3>1 DEF Working, Pruning
    <3> QED BY <1>4, <3>1
  <2>5. task'[t].kind \notin SupersedingKinds /\ task'[t].pc \notin Working \cup {"finish", "done"}
        => task'[t].gen = 0
    BY <1>4
  <2>6. ASSUME task'[t].pc \in InLock, task'[t].gen > 0, NEW u \in Tasks \ {t}, task'[u].kind \in OrderedKinds
        PROVE  task'[u].gen < task'[t].gen
    <3>1. CASE task[t].pc \in InLock
      BY <1>4, <2>1, <2>6, <3>1
    <3>2. CASE AcquireSlot(t)
      <4>1. task[t].pc = "queue"
        BY <3>2 DEF AcquireSlot
      <4>2. CASE task[t].kind \in SupersedingKinds
        <5>1. task[t].gen = gen /\ task[t].gen # task[u].gen /\ task[u].gen <= gen
          BY <2>1, <2>6, <3>2, <4>2 DEF AcquireSlot
        <5> QED BY <1>0, <2>1, <5>1
      <4>3. CASE task[t].kind \notin SupersedingKinds
        BY <1>0, <2>1, <2>6, <4>1, <4>3 DEF Working, Pruning
      <4> QED BY <4>2, <4>3
    <3> QED BY <1>4, <2>6, <3>1, <3>2
  <2> QED BY <1>a, <2>1, <2>2, <2>3, <2>4, <2>5, <2>6
<1> QED BY <1>0, <1>1, <1>2, <1>3, <1>4, Proceeding, BeforeKeeps, InsideKeeps

\* Only commands at work change the selection or the pool.
LEMMA PoolStays ==
  ASSUME task \in [Tasks -> Task], NEW t \in Tasks, Arrive(t) \/ BeforeSlot(t) \/ InSlot(t),
         task[t].pc \notin Working
  PROVE  UNCHANGED <<selected, clients, conn>>
<1>1. CASE Arrive(t)
  BY <1>1, ArriveFrame
<1>2. CASE BeforeSlot(t)
  BY <1>2 DEF BeforeSlot, ConsumeIntent, LookBeforeClose, ProbeObsolete, TakeGeneration,
     Preempt, AcquireSlot, SkipSuperseded, RetainOwned, CommitPanel, ReleaseReservation,
     CheckUnused, ReleaseOwned, runtime
<1>3. CASE InSlot(t)
  BY <1>3 DEF InSlot, StartGeneration, ReleaseSlot, GiveTabs, CommitSelections, CommitClose,
     CommitRelease, CommitStage, CommitMove, CommitCancelMove, CommitRebuild, CommitRetain,
     RecheckReference, DropReference, BeginDeferredGeneration, WipeOwners, CommitSelection, ClearRuntime,
     SyncClientPool, SkipSync, InstallClient, BuildFails, BuildLate, BuildCancelled, BuildsDone,
     DiscoverRemoved, PruneOwners, PruneSelection, PruneClients, Working, Pruning, runtime
<1> QED BY <1>1, <1>2, <1>3

\* A cancelled command stays cancelled.
LEMMA CancelledStays ==
  ASSUME task \in [Tasks -> Task], NEW t \in Tasks, Arrive(t) \/ BeforeSlot(t) \/ InSlot(t)
  PROVE  cancelled \subseteq cancelled'
<1>1. CASE Arrive(t)
  BY <1>1, ArriveFrame
<1>2. CASE BeforeSlot(t)
  BY <1>2 DEF BeforeSlot, ConsumeIntent, LookBeforeClose, ProbeObsolete, TakeGeneration,
     Preempt, CancelActive, AcquireSlot, SkipSuperseded, RetainOwned, CommitPanel,
     ReleaseReservation, CheckUnused, ReleaseOwned, preempt
<1>3. CASE InSlot(t)
  BY <1>3 DEF InSlot, StartGeneration, ReleaseSlot, GiveTabs, CommitSelections, CommitClose,
     CommitRelease, CommitStage, CommitMove, CommitCancelMove, CommitRebuild, CommitRetain,
     RecheckReference, DropReference, BeginDeferredGeneration, WipeOwners, CommitSelection, ClearRuntime,
     SyncClientPool, SkipSync, InstallClient, BuildFails, BuildLate, BuildCancelled, BuildsDone,
     DiscoverRemoved, PruneOwners, PruneSelection, PruneClients, ActivateFor, preempt
<1> QED BY <1>1, <1>2, <1>3

\* The steps of selection work.
LEMMA WorkAction ==
  ASSUME NEW t \in Tasks, InSlot(t), task[t].pc \in {"wipe", "select", "clear", "sync", "build", "finish"}
  PROVE  \/ WipeOwners(t) \/ CommitSelection(t) \/ ClearRuntime(t) \/ SyncClientPool(t) \/ SkipSync(t)
         \/ \E c \in Clusters : InstallClient(t, c) \/ BuildFails(t, c) \/ BuildLate(t, c) \/ BuildCancelled(t, c)
         \/ BuildsDone(t) \/ ReleaseSlot(t)
BY DEF InSlot, StartGeneration, CommitSelections, CommitClose, CommitRelease,
   CommitStage, CommitMove, CommitCancelMove, CommitRebuild, CommitRetain, RecheckReference,
   DropReference, BeginDeferredGeneration,
   DiscoverRemoved, PruneOwners, PruneSelection, PruneClients, InBody

\* A command's own work keeps the pool on its way to the selection.
LEMMA OwnWork ==
  ASSUME OwnershipInv, GenerationInv, WorkInv, NEW t \in Tasks, BeforeSlot(t) \/ InSlot(t),
         Proceeds(t), Kept(t),
         task[t].kind \in OrderedKinds, task[t].gen > 0, task[t].gen = gen, t \notin cancelled
  PROVE  /\ task'[t].pc = "clear" => selected' = {}
         /\ task'[t].pc = "sync" => selected' = task'[t].union
         /\ task'[t].pc = "build" => task'[t].todo \subseteq selected' /\ PoolSettled(task[t].todo)'
         /\ task'[t].pc \in {"finish", "done"} => PoolSettled({})'
<1>0. task \in [Tasks -> Task] /\ task[t] \in Task /\ TypeOK
  BY DEF OwnershipInv, TypeOK
<1>1. task[t].pc \in {"wipe", "select", "clear", "sync", "build", "finish"}
  <2>1. task[t].kind \notin SupersedingKinds
    BY DEF SupersedingKinds, OrderedKinds
  <2>2. task[t].gen # 0
    BY <1>0 DEF Task
  <2> QED BY <2>1, <2>2 DEF GenerationInv, Proceeds, Working
<1>2. InSlot(t)
  BY <1>0, <1>1, BeforeKeeps DEF InLock
<1>g. ASSUME NEW pc, Goto(t, pc)
      PROVE  task'[t].pc = pc /\ task'[t].union = task[t].union /\ task'[t].todo = task[t].todo
  BY <1>0, <1>g DEF Goto, Task
<1>3. CASE WipeOwners(t)
  BY <1>3, <1>g DEF WipeOwners
<1>4. CASE CommitSelection(t)
  BY <1>4, <1>g DEF CommitSelection
<1>5. CASE ClearRuntime(t)
  <2>1. task'[t].pc = "finish" /\ clients' = {} /\ selected' = {}
    BY <1>5, <1>g DEF ClearRuntime, WorkInv
  <2> QED BY <2>1 DEF PoolSettled
<1>6. CASE SyncClientPool(t)
  <2>1. /\ task'[t].pc = "build" /\ task'[t].todo = task[t].union \ clients
        /\ clients' = clients \cap task[t].union /\ selected' = selected
    BY <1>0, <1>6 DEF SyncClientPool, Task
  <2>2. selected = task[t].union
    BY <1>6 DEF SyncClientPool, WorkInv
  <2> QED BY <2>1, <2>2 DEF PoolSettled
<1>7. CASE SkipSync(t)
  BY <1>7 DEF SkipSync, Obsolete
<1>b. CASE task[t].pc = "build" /\ InSlot(t)
           /\ \E c \in Clusters : InstallClient(t, c) \/ BuildFails(t, c) \/ BuildLate(t, c) \/ BuildCancelled(t, c)
  <2>1. PICK c \in Clusters : InstallClient(t, c) \/ BuildFails(t, c) \/ BuildLate(t, c) \/ BuildCancelled(t, c)
    BY <1>b
  <2>2. /\ task'[t].pc = "build" /\ task'[t].todo = task[t].todo \ {c} /\ selected' = selected
        /\ c \in task[t].todo
    BY <1>0, <1>b, <2>1 DEF InstallClient, BuildFails, BuildLate, BuildCancelled, Task
  <2>3. task[t].todo \subseteq selected /\ PoolSettled(task[t].todo)
    BY <1>b DEF WorkInv
  <2>4. CASE InstallClient(t, c)
    <3>1. clients' = clients \cup {c} /\ conn' = [conn EXCEPT ![c] = "connected"]
      BY <2>4 DEF InstallClient
    <3>2. \A d \in Clusters : d # c => conn'[d] = conn[d]
      BY <1>0, <3>1 DEF TypeOK
    <3> QED BY <1>0, <2>2, <2>3, <3>1, <3>2 DEF PoolSettled, TypeOK
  <2>5. CASE BuildFails(t, c) \/ BuildLate(t, c)
    <3>1. PICK s \in {"disconnected", "late"} : clients' = clients /\ conn' = [conn EXCEPT ![c] = s]
      BY <2>5 DEF BuildFails, BuildLate
    <3>2. \A d \in Clusters : conn'[d] = IF d = c THEN s ELSE conn[d]
      BY <1>0, <3>1 DEF TypeOK
    <3> QED BY <1>0, <2>2, <2>3, <3>1, <3>2 DEF PoolSettled, TypeOK
  <2>6. CASE BuildCancelled(t, c)
    BY <2>6 DEF BuildCancelled
  <2> QED BY <2>1, <2>4, <2>5, <2>6
<1>8. CASE BuildsDone(t)
  <2>1. task'[t].pc = "finish" /\ UNCHANGED <<selected, clients, conn>>
    BY <1>8, <1>g DEF BuildsDone, runtime
  <2>2. PoolSettled({})
    BY <1>8 DEF BuildsDone, WorkInv
  <2> QED BY <2>1, <2>2 DEF PoolSettled
<1>9. CASE ReleaseSlot(t)
  <2>1. task'[t].pc = "done" /\ UNCHANGED <<selected, clients, conn>>
    BY <1>9, <1>g DEF ReleaseSlot, runtime
  <2>2. PoolSettled({})
    BY <1>9 DEF ReleaseSlot, WorkInv
  <2> QED BY <2>1, <2>2 DEF PoolSettled
<1> QED
  <2>1. (\E c \in Clusters : InstallClient(t, c) \/ BuildFails(t, c) \/ BuildLate(t, c) \/ BuildCancelled(t, c))
        => task[t].pc = "build"
    BY DEF InstallClient, BuildFails, BuildLate, BuildCancelled
  <2> QED BY <1>1, <1>2, <1>3, <1>4, <1>5, <1>6, <1>7, <1>b, <1>8, <1>9, <2>1, WorkAction

\* The work of one command is not undone by the steps of another without a newer
\* generation.
LEMMA WorkStep ==
  ASSUME OwnershipInv, OwnershipInv', GenerationInv, WorkInv, NEW t \in Tasks,
         Arrive(t) \/ BeforeSlot(t) \/ InSlot(t)
  PROVE  WorkInv'
<1>0. /\ task \in [Tasks -> Task] /\ gen \in Nat
      /\ \A u \in Tasks : task[u].gen \in Nat
  BY DEF OwnershipInv, TypeOK, Task
<1>a. \A u \in Tasks \ {t} : task'[u] = task[u]
  BY <1>0, ArriveFrame, BeforeKeeps, InsideKeeps DEF Kept
<1>b. gen' = gen \/ gen' = gen + 1
  BY <1>0, ArriveFrame, TakesGeneration, Proceeding DEF Proceeds
<1> SUFFICES ASSUME NEW v \in Tasks, task'[v].kind \in OrderedKinds, task'[v].gen > 0,
                    task'[v].gen = gen', v \notin cancelled'
             PROVE  (/\ task[v].pc = "clear" => selected = {}
                     /\ task[v].pc = "sync" => selected = task[v].union
                     /\ task[v].pc = "build" => task[v].todo \subseteq selected /\ PoolSettled(task[v].todo)
                     /\ task[v].pc \in {"finish", "done"} => PoolSettled({}))'
  BY DEF WorkInv
<1>c. v \notin cancelled
  BY <1>0, CancelledStays
<1>1. CASE v # t
  <2>1. task'[v] = task[v]
    BY <1>a, <1>1
  <2>2. gen' = gen
    BY <1>0, <1>b, <2>1 DEF GenerationInv
  <2>3. task[t].pc \notin Working
    <3> SUFFICES ASSUME task[t].pc \in Working PROVE FALSE
      OBVIOUS
    <3>1. InSlot(t)
      BY <1>0, ArriveFrame, BeforeKeeps DEF Working, Pruning, InLock
    <3>2. task[t].gen > 0 /\ task[t].gen <= gen
      BY DEF GenerationInv
    <3>3. task[v].gen < task[t].gen
      BY <1>0, <1>1, <2>1, <3>1, <3>2, InsideKeeps DEF GenerationInv
    <3> QED BY <1>0, <2>1, <2>2, <3>2, <3>3
  <2>4. UNCHANGED <<selected, clients, conn>>
    BY <1>0, <2>3, PoolStays
  <2> QED BY <1>c, <2>1, <2>2, <2>4 DEF WorkInv, PoolSettled
<1>2. CASE v = t /\ Arrive(t)
  BY <1>0, <1>2, ArriveFrame
<1>3. CASE v = t /\ (TakeGeneration(t) \/ BeginDeferredGeneration(t))
  BY <1>0, <1>3, TakesGeneration
<1>4. CASE v = t /\ ~Arrive(t) /\ ~TakeGeneration(t) /\ ~BeginDeferredGeneration(t)
  <2>1. Proceeds(t) /\ Kept(t)
    BY <1>0, <1>4, Proceeding, BeforeKeeps, InsideKeeps
  <2>2. task[t].kind \in OrderedKinds /\ task[t].gen > 0 /\ task[t].gen = gen
    BY <1>4, <2>1 DEF Proceeds, Kept
  <2>3. /\ task'[t].pc = "clear" => selected' = {}
        /\ task'[t].pc = "sync" => selected' = task'[t].union
        /\ task'[t].pc = "build" => task'[t].todo \subseteq selected' /\ PoolSettled(task[t].todo)'
        /\ task'[t].pc \in {"finish", "done"} => PoolSettled({})'
    BY <1>4, <1>c, <2>1, <2>2, OwnWork
  <2> QED BY <1>4, <2>3
<1> QED BY <1>1, <1>2, <1>3, <1>4

\* Selection work that nobody cancelled and no later generation superseded has
\* settled the client pool by the time it is done, for any number of windows,
\* clusters and commands in flight.
THEOREM WorkSettlesPool == Spec => []UncancelledWorkSettles
<1>1. Init => GenerationInv /\ WorkInv
  <2> SUFFICES ASSUME Init PROVE GenerationInv /\ WorkInv
    OBVIOUS
  <2>1. \A t \in Tasks : task[t].pc = "idle" /\ task[t].gen = 0 /\ task[t].kind = "ensure"
    BY DEF Init, IdleTask
  <2>2. gen = 0
    BY DEF Init
  <2> QED BY <2>1, <2>2 DEF GenerationInv, WorkInv, Working, Pruning, InLock, SupersedingKinds, OrderedKinds
<1>2. OwnershipInv /\ OwnershipInv' /\ GenerationInv /\ WorkInv /\ [Next]_vars
      => GenerationInv' /\ WorkInv'
  <2> SUFFICES ASSUME OwnershipInv, OwnershipInv', GenerationInv, WorkInv, [Next]_vars
               PROVE  GenerationInv' /\ WorkInv'
    OBVIOUS
  <2>1. CASE UNCHANGED vars
    <3>1. UNCHANGED <<task, gen, cancelled, selected, clients, conn>>
      BY <2>1 DEF vars, runtime, preempt
    <3>2. GenerationInv'
      BY <3>1 DEF GenerationInv
    <3>3. WorkInv'
      BY <3>1 DEF WorkInv, PoolSettled
    <3> QED BY <3>2, <3>3
  <2>2. CASE Next
    BY <2>2, GenerationStep, WorkStep DEF Next
  <2> QED BY <2>1, <2>2
<1>3. WorkInv => UncancelledWorkSettles
  BY DEF WorkInv, UncancelledWorkSettles, PoolSettled
<1> QED BY OwnershipInvariant, <1>1, <1>2, <1>3, PTL DEF Spec
=============================================================================
