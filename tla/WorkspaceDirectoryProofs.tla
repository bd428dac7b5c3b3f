---------------------- MODULE WorkspaceDirectoryProofs ----------------------
(***************************************************************************)
(* Proofs about WorkspaceDirectory, for any number of windows, clusters,   *)
(* panels and transfers.                                                   *)
(***************************************************************************)
EXTENDS WorkspaceDirectory, FiniteSetTheorems, TLAPS

\* What the directory may hold for a key.
Sound(p) == /\ p \in Panel
            /\ p.present => p.loc \in Locations
            /\ p.transfer # None => p.target \in Locations

\* The typing of panels, key by key.
LEMMA PanelsSound ==
  ASSUME TypeOK
  PROVE  \A k \in Keys : Sound(panels[k])
BY DEF TypeOK, Sound

\* Positions are numbers: the size of a part of the directory is one.
LEMMA SizeNat ==
  ASSUME NEW S \in SUBSET Keys
  PROVE  Cardinality(S) \in Nat
<1>1. IsFiniteSet(Keys)
  BY DirectoryConstants, FS_Product DEF DirectoryConstants, Keys
<1>2. IsFiniteSet(S)
  BY <1>1, FS_Subset
<1> QED BY <1>2, FS_CardinalityType

\* The position found for arriving panels is a number.
LEMMA InsertIndexNat ==
  ASSUME NEW k, NEW l, NEW moved, l.index \in Nat
  PROVE  insertIndex(k, l, moved) \in Nat
<1> DEFINE S == GroupAt(k, l) \ moved
<1>1. S \in SUBSET Keys
  BY DEF GroupAt, Present
<1>2. Cardinality(S) \in Nat
  BY <1>1, SizeNat
<1> HIDE DEF S
<1>3. insertIndex(k, l, moved) = IF l.index > Cardinality(S) THEN Cardinality(S) ELSE l.index
  BY DEF insertIndex, S
<1> QED BY <1>2, <1>3

-----------------------------------------------------------------------------
\* Panels disappear: each leaves its transfer.
LEMMA DeleteStep ==
  ASSUME DirectoryInv, NEW D \in SUBSET Keys, Delete(D),
         handles' \in [Callers -> Clusters \cup {None}], live' \subseteq Callers
  PROVE  DirectoryInv'
<1>0. TypeOK /\ TransfersAgree /\ OneObjectOnePanel
  BY DEF DirectoryInv
<1>a. NoPanel \in Panel /\ NoPanel.present = FALSE /\ NoPanel.transfer = None
  BY DEF NoPanel, Panel
<1>1. \A k \in Keys : panels'[k] = IF k \in D THEN NoPanel ELSE panels[k]
  BY DEF Delete
<1>2. TypeOK'
  <2>1. \A k \in Keys : Sound(panels'[k])
    BY <1>0, <1>a, <1>1, PanelsSound DEF Sound
  <2> QED BY <1>0, <2>1 DEF Delete, TypeOK, Sound
<1>3. TransfersAgree'
  <2>1. ASSUME NEW k \in Keys, NEW x \in Transfers
        PROVE  panels'[k].transfer = x <=> (x \in pending' /\ k \in members'[x])
    <3> DEFINE leaving == {e \in D : panels[e].transfer = x}
    <3>1. members'[x] = members[x] \ leaving
      BY DEF Delete
    <3>2. x \in pending' <=> x \in pending /\ ~(leaving # {} /\ members[x] \subseteq leaving)
      BY DEF Delete
    <3>3. None # x
      BY DirectoryConstants DEF DirectoryConstants
    <3>4. panels[k].transfer = x <=> (x \in pending /\ k \in members[x])
      BY <1>0 DEF TransfersAgree
    <3>5. CASE k \in D
      BY <3>1, <3>3, <3>4, <3>2, <3>5, <1>1, <1>a
    <3>6. CASE k \notin D
      BY <3>1, <3>2, <3>4, <3>6, <1>1
    <3> QED BY <3>5, <3>6
  <2>2. \A k \in Keys : panels'[k].transfer # None => panels'[k].present
    BY <1>0, <1>1, <1>a DEF TransfersAgree, moving
  <2> QED BY <2>1, <2>2 DEF TransfersAgree, moving
<1>4. OneObjectOnePanel'
  <2>1. \A k \in Keys : panels'[k].present => panels[k].present /\ panels'[k].obj = panels[k].obj
    BY <1>1, <1>a
  <2> QED BY <2>1, <1>0 DEF OneObjectOnePanel, Present
<1> QED BY <1>2, <1>3, <1>4 DEF DirectoryInv

\* A step that changes only where panels are.
LEMMA PlacementStep ==
  ASSUME DirectoryInv, UNCHANGED <<pending, members, handles, live>>,
         panels' \in [Keys -> Panel],
         \A k \in Keys : /\ Sound(panels'[k])
                         /\ panels'[k].present = panels[k].present
                         /\ panels'[k].obj = panels[k].obj
                         /\ panels'[k].transfer = panels[k].transfer
  PROVE  DirectoryInv'
<1>1. TypeOK'
  BY DEF DirectoryInv, TypeOK, Sound
<1>2. TransfersAgree'
  BY DEF DirectoryInv, TransfersAgree, moving
<1>3. OneObjectOnePanel'
  BY DEF DirectoryInv, OneObjectOnePanel, Present
<1> QED BY <1>1, <1>2, <1>3 DEF DirectoryInv

\* A move begins: panels that were not moving are marked and recorded.
LEMMA RecordStep ==
  ASSUME DirectoryInv, NEW x \in Transfers, x \notin pending,
         NEW G \in SUBSET Keys, NEW where \in [G -> Locations],
         \A k \in G : panels[k].present /\ ~moving(k),
         Record(x, G, where)
  PROVE  DirectoryInv'
<1>0. TypeOK /\ TransfersAgree /\ OneObjectOnePanel
  BY DEF DirectoryInv
<1>1. /\ \A k \in G : panels'[k] = [panels[k] EXCEPT !.transfer = x, !.target = where[k]]
      /\ \A k \in Keys \ G : panels'[k] = panels[k]
      /\ panels' = [k \in Keys |-> panels'[k]]
  BY DEF Record
<1>2. \A k \in G : /\ Sound(panels'[k])
                   /\ panels'[k].present = panels[k].present
                   /\ panels'[k].obj = panels[k].obj
                   /\ panels'[k].transfer = x
  <2> SUFFICES ASSUME NEW k \in G
               PROVE  /\ Sound(panels'[k])
                      /\ panels'[k].present = panels[k].present
                      /\ panels'[k].obj = panels[k].obj
                      /\ panels'[k].transfer = x
    OBVIOUS
  <2> DEFINE p == panels[k]
             l == where[k]
  <2>1. p \in Panel /\ l \in Locations /\ (p.present => p.loc \in Locations)
    BY <1>0 DEF TypeOK
  <2>2. panels'[k] = [p EXCEPT !.transfer = x, !.target = l]
    BY <1>1
  <2> HIDE DEF p, l
  <2>3. /\ [p EXCEPT !.transfer = x, !.target = l] \in Panel
        /\ [p EXCEPT !.transfer = x, !.target = l].loc = p.loc
        /\ [p EXCEPT !.transfer = x, !.target = l].target = l
        /\ [p EXCEPT !.transfer = x, !.target = l].present = p.present
        /\ [p EXCEPT !.transfer = x, !.target = l].obj = p.obj
        /\ [p EXCEPT !.transfer = x, !.target = l].transfer = x
    BY <2>1 DEF Panel
  <2> QED BY <2>1, <2>2, <2>3 DEF Sound, p
<1>3. \A k \in Keys : Sound(panels'[k])
  BY <1>0, <1>1, <1>2, PanelsSound
<1>4. TypeOK'
  BY <1>0, <1>1, <1>3 DEF Record, TypeOK, Sound
<1>5. TransfersAgree'
  <2>1. ASSUME NEW k \in Keys, NEW y \in Transfers
        PROVE  panels'[k].transfer = y <=> (y \in pending' /\ k \in members'[y])
    <3>1. members'[y] = (IF y = x THEN G ELSE members[y]) /\ (y \in pending' <=> y \in pending \/ y = x)
      BY <1>0 DEF Record, TypeOK
    <3>2. panels[k].transfer = y <=> (y \in pending /\ k \in members[y])
      BY <1>0 DEF TransfersAgree
    <3>3. CASE k \in G
      <4>1. panels[k].transfer = None /\ None # y
        BY <3>3, DirectoryConstants DEF moving, DirectoryConstants
      <4> QED BY <3>1, <3>2, <3>3, <4>1, <1>2
    <3>4. CASE k \notin G
      BY <3>1, <3>2, <3>4, <1>1
    <3> QED BY <3>3, <3>4
  <2>2. \A k \in Keys : panels'[k].transfer # None => panels'[k].present
    BY <1>0, <1>1, <1>2 DEF TransfersAgree, moving
  <2> QED BY <2>1, <2>2 DEF TransfersAgree, moving
<1>6. OneObjectOnePanel'
  <2>1. \A k \in Keys : panels'[k].present = panels[k].present /\ panels'[k].obj = panels[k].obj
    BY <1>1, <1>2
  <2> QED BY <1>0, <2>1 DEF OneObjectOnePanel, Present
<1> QED BY <1>4, <1>5, <1>6 DEF DirectoryInv

\* A move ends: its panels are unmarked, and the others only change position.
LEMMA EndStep ==
  ASSUME DirectoryInv, NEW x \in Transfers, x \in pending,
         pending' = pending \ {x}, members' = [members EXCEPT ![x] = {}],
         UNCHANGED <<handles, live>>, panels' \in [Keys -> Panel],
         \A k \in Keys : /\ Sound(panels'[k])
                         /\ panels'[k].obj = panels[k].obj
                         /\ panels'[k].present = panels[k].present
                         /\ panels'[k].transfer = IF k \in members[x] THEN None ELSE panels[k].transfer
  PROVE  DirectoryInv'
<1>0. TypeOK /\ TransfersAgree /\ OneObjectOnePanel
  BY DEF DirectoryInv
<1>1. TypeOK'
  BY <1>0 DEF TypeOK, Sound
<1>2. TransfersAgree'
  <2>1. ASSUME NEW k \in Keys, NEW y \in Transfers
        PROVE  panels'[k].transfer = y <=> (y \in pending' /\ k \in members'[y])
    <3>1. members'[y] = (IF y = x THEN {} ELSE members[y]) /\ None # y
      BY <1>0, DirectoryConstants DEF TypeOK, DirectoryConstants
    <3>2. /\ panels[k].transfer = y <=> (y \in pending /\ k \in members[y])
          /\ panels[k].transfer = x <=> (x \in pending /\ k \in members[x])
      BY <1>0 DEF TransfersAgree
    <3> QED BY <3>1, <3>2
  <2>2. \A k \in Keys : panels'[k].transfer # None => panels'[k].present
    BY <1>0 DEF TransfersAgree, moving
  <2> QED BY <2>1, <2>2 DEF TransfersAgree, moving
<1>3. OneObjectOnePanel'
  BY <1>0 DEF OneObjectOnePanel, Present
<1> QED BY <1>1, <1>2, <1>3 DEF DirectoryInv

-----------------------------------------------------------------------------
\* Every operation of the directory keeps the invariant.
LEMMA NextStep ==
  ASSUME DirectoryInv, Next
  PROVE  DirectoryInv'
<1>0. TypeOK /\ TransfersAgree /\ OneObjectOnePanel
  BY DEF DirectoryInv
<1>a. \A k \in Keys : Sound(panels[k])
  BY <1>0, PanelsSound
<1>r. ASSUME UNCHANGED <<panels, pending, members>>,
             handles' \in [Callers -> Clusters \cup {None}], live' \subseteq Callers
      PROVE  DirectoryInv'
  <2>1. TypeOK'
    BY <1>0, <1>r DEF TypeOK
  <2>2. TransfersAgree' /\ OneObjectOnePanel'
    BY <1>0, <1>r DEF TransfersAgree, OneObjectOnePanel, Present, moving
  <2> QED BY <2>1, <2>2 DEF DirectoryInv
<1>1. ASSUME NEW r \in Callers, Release(r)
      PROVE  DirectoryInv'
  BY <1>0, <1>1, <1>r DEF Release, TypeOK
<1>2. ASSUME NEW r \in Callers, NEW c \in Clusters, ReserveCluster(r, c)
      PROVE  DirectoryInv'
  BY <1>0, <1>2, <1>r DEF ReserveCluster, TypeOK
<1>3. ASSUME NEW r \in Callers, NEW k \in Keys, NEW o \in Objects, NEW l \in OpenPlaces, Open(r, k, o, l)
      PROVE  DirectoryInv'
  <2>1. l \in Locations
    BY DEF OpenPlaces, Places, Locations
  <2>2. CASE Showing(k, o) = {} /\ panels' = [panels EXCEPT ![k] = [NoPanel EXCEPT !.present = TRUE, !.obj = o, !.loc = l]]
    <3> DEFINE new == [NoPanel EXCEPT !.present = TRUE, !.obj = o, !.loc = l]
    <3>1. /\ new \in Panel /\ new.present /\ new.obj = o /\ new.loc = l
          /\ new.transfer = None
      BY <2>1 DEF NoPanel, Panel
    <3>2. panels' \in [Keys -> Panel] /\ panels'[k] = new
          /\ \A e \in Keys \ {k} : panels'[e] = panels[e]
      BY <2>2, <3>1, <1>0 DEF TypeOK
    <3> HIDE DEF new
    <3>3. TypeOK'
      BY <1>0, <1>3, <2>1, <3>1, <3>2 DEF Open, TypeOK
    <3>4. panels[k].transfer = None
      <4>1. ~panels[k].present
        BY <1>3, <2>2 DEF Open, Showing
      <4> QED BY <4>1, <1>0 DEF TransfersAgree, moving
    <3>5. TransfersAgree'
      BY <1>0, <1>3, <3>1, <3>2, <3>4 DEF Open, TransfersAgree, moving
    <3>6. OneObjectOnePanel'
      <4>1. \A e \in Keys : e # k /\ ClusterOf(e) = ClusterOf(k) /\ panels[e].present => panels[e].obj # o
        BY <2>2 DEF Showing
      <4> QED BY <1>0, <3>1, <3>2, <4>1 DEF OneObjectOnePanel, Present
    <3> QED BY <3>3, <3>5, <3>6 DEF DirectoryInv
  <2>3. ASSUME NEW e \in Showing(k, o), panels' = [panels EXCEPT ![e].loc = l]
        PROVE  DirectoryInv'
    <3> DEFINE p == panels[e]
    <3>1. e \in Keys /\ Sound(p)
      BY <1>a DEF Showing
    <3>2. panels' = [panels EXCEPT ![e] = [p EXCEPT !.loc = l]]
      BY <2>3
    <3> HIDE DEF p
    <3>3. /\ Sound([p EXCEPT !.loc = l])
          /\ [p EXCEPT !.loc = l].present = p.present /\ [p EXCEPT !.loc = l].obj = p.obj
          /\ [p EXCEPT !.loc = l].transfer = p.transfer
      BY <2>1, <3>1 DEF Sound, Panel
    <3>4. panels' \in [Keys -> Panel] /\ panels'[e] = [p EXCEPT !.loc = l]
          /\ \A k2 \in Keys \ {e} : panels'[k2] = panels[k2]
      BY <3>1, <3>2, <3>3, <1>0 DEF TypeOK, Sound
    <3> QED BY <1>3, <1>a, <3>3, <3>4, PlacementStep DEF Open, p
  <2> QED BY <1>3, <2>2, <2>3 DEF Open
<1>4. ASSUME NEW w \in AppWindows, NEW C \in SUBSET Clusters, RetainWindow(w, C)
      PROVE  DirectoryInv'
  <2>1. ASSUME NEW k \in Keys
        PROVE  /\ Sound(panels'[k])
               /\ panels'[k].present = panels[k].present /\ panels'[k].obj = panels[k].obj
               /\ panels'[k].transfer = panels[k].transfer
    <3> DEFINE p == panels[k]
    <3>1. Sound(p)
      BY <1>a
    <3>2. \/ panels'[k] = p
          \/ p.present /\ p.loc.kind = "docked" /\ panels'[k] = [p EXCEPT !.loc = Retained(@)]
      BY <1>4 DEF RetainWindow
    <3> HIDE DEF p
    <3>3. p.present /\ p.loc.kind = "docked" => Retained(p.loc) \in Locations
      BY <3>1 DEF Sound, Locations, Places, Retained
    <3>4. p.present /\ p.loc.kind = "docked" =>
             /\ Sound([p EXCEPT !.loc = Retained(@)])
             /\ [p EXCEPT !.loc = Retained(@)].present = p.present
             /\ [p EXCEPT !.loc = Retained(@)].obj = p.obj
             /\ [p EXCEPT !.loc = Retained(@)].transfer = p.transfer
      BY <3>1, <3>3 DEF Sound, Panel
    <3> QED BY <3>1, <3>2, <3>4 DEF p
  <2>2. panels' \in [Keys -> Panel]
    BY <1>4, <2>1 DEF RetainWindow, Sound
  <2> QED BY <1>4, <2>1, <2>2, PlacementStep DEF RetainWindow
<1>5. ASSUME NEW w \in PanelWindows, RemoveWindow(w)
      PROVE  DirectoryInv'
  BY <1>0, <1>5, DeleteStep DEF RemoveWindow, Present, TypeOK
<1>6. ASSUME NEW w, NEW k \in Keys, ClosePanel(w, k)
      PROVE  DirectoryInv'
  BY <1>0, <1>6, DeleteStep DEF ClosePanel, TypeOK
<1>7. ASSUME NEW c \in Clusters, RemoveCluster(c)
      PROVE  DirectoryInv'
  BY <1>0, <1>7, DeleteStep DEF RemoveCluster, Present, TypeOK
<1>8. ASSUME NEW w \in AppWindows \cup PanelWindows, NEW kind \in {"docked", "panel-window"},
             NEW A \in SUBSET Keys,
             NEW at \in [A -> [group : GroupsOf(kind), index : 0 .. Cardinality(PanelIDs) - 1]],
             PublishWindow(w, kind, A, at)
      PROVE  DirectoryInv'
  <2>0. Cardinality(PanelIDs) \in Nat
    BY DirectoryConstants, FS_CardinalityType DEF DirectoryConstants
  <2>1. ASSUME NEW k \in Keys
        PROVE  /\ Sound(panels'[k])
               /\ panels'[k].present = panels[k].present /\ panels'[k].obj = panels[k].obj
               /\ panels'[k].transfer = panels[k].transfer
    <3>1. CASE k \notin A
      BY <1>8, <1>a, <3>1 DEF PublishWindow
    <3>2. CASE k \in A
      <4> DEFINE p == panels[k]
                 a == at[k]
                 l == [kind |-> kind, win |-> w, group |-> a.group, index |-> a.index]
      <4>1. Sound(p) /\ p.present /\ p.loc.win = w /\ p.loc.kind = kind
        BY <1>8, <1>a, <3>2 DEF PublishWindow
      <4>2. a.group \in GroupsOf(kind) /\ a.index \in Nat
        BY <2>0, <3>2
      <4>3. panels'[k] = [p EXCEPT !.loc = l]
        BY <1>8, <3>2 DEF PublishWindow
      <4> HIDE DEF p, a
      <4>4. l \in Locations
        BY <4>1, <4>2 DEF Sound, Locations, Places, GroupsOf
      <4> HIDE DEF l
      <4>5. /\ Sound([p EXCEPT !.loc = l])
            /\ [p EXCEPT !.loc = l].present = p.present /\ [p EXCEPT !.loc = l].obj = p.obj
            /\ [p EXCEPT !.loc = l].transfer = p.transfer
        BY <4>1, <4>4 DEF Sound, Panel
      <4> QED BY <4>3, <4>5 DEF p
    <3> QED BY <3>1, <3>2
  <2>2. panels' \in [Keys -> Panel]
    BY <1>8, <2>1 DEF PublishWindow, Sound
  <2> QED BY <1>8, <2>1, <2>2, PlacementStep DEF PublishWindow
<1>9. ASSUME NEW x \in Transfers, NEW src, NEW G \in SUBSET Keys,
             NEW l \in Places(0 .. AppendToGroup), NEW ord \in [G -> 0 .. Cardinality(G) - 1],
             BeginGroupTransfer(x, src, l, G, ord)
      PROVE  DirectoryInv'
  <2> DEFINE where == [k \in G |-> [l EXCEPT !.index = ord[k] + insertIndex(k, l, G)]]
  <2>1. l \in Places(Nat) /\ l.index \in Nat
    BY DirectoryConstants DEF DirectoryConstants, AppendToGroup, Places
  <2>2. ASSUME NEW k \in G
        PROVE  where[k] \in Locations
    <3> DEFINE n == ord[k] + insertIndex(k, l, G)
    <3>1. insertIndex(k, l, G) \in Nat /\ Cardinality(G) \in Nat
      BY <2>1, InsertIndexNat, SizeNat
    <3>2. n \in Nat
      BY <3>1
    <3> HIDE DEF n
    <3>3. [l EXCEPT !.index = n] \in Locations
      BY <2>1, <3>2 DEF Places, Locations
    <3> QED BY <3>3 DEF n
  <2>3. where \in [G -> Locations]
    BY <2>2
  <2>4. x \notin pending /\ Record(x, G, where) /\ \A k \in G : panels[k].present /\ ~moving(k)
    BY <1>9 DEF BeginGroupTransfer, SourceHolds
  <2> HIDE DEF where
  <2> QED BY <2>3, <2>4, RecordStep
<1>10. ASSUME NEW x \in Transfers, NEW src \in AppWindows, NEW tgt \in AppWindows, NEW c \in Clusters,
              BeginViewTransfer(x, src, tgt, c)
      PROVE  DirectoryInv'
  <2> DEFINE G == {k \in Present : /\ ClusterOf(k) = c /\ panels[k].loc.kind = "docked"
                                   /\ panels[k].loc.win = src}
             base(k) == insertIndex(k, [panels[k].loc EXCEPT !.win = tgt, !.index = AppendToGroup], G)
             where == [k \in G |-> [panels[k].loc EXCEPT !.win = tgt, !.index = @ + base(k)]]
  <2>1. G \in SUBSET Keys
    BY DEF Present
  <2>2. ASSUME NEW k \in G
        PROVE  where[k] \in Locations
    <3> DEFINE l == panels[k].loc
               b == base(k)
    <3>1. l \in Locations /\ l.kind = "docked"
      BY <1>0 DEF Present, TypeOK
    <3>2. b \in Nat
      <4> DEFINE t == [l EXCEPT !.win = tgt, !.index = AppendToGroup]
      <4>1. t.index \in Nat
        <5> HIDE DEF l
        <5> QED BY <3>1, DirectoryConstants DEF DirectoryConstants, AppendToGroup, Locations, Places
      <4> HIDE DEF t
      <4>2. insertIndex(k, t, G) \in Nat
        BY <4>1, InsertIndexNat
      <4> QED BY <4>2 DEF t
    <3> DEFINE n == l.index + b
    <3>3. where[k] = [l EXCEPT !.win = tgt, !.index = n]
      OBVIOUS
    <3>4. l \in [kind : {"docked"}, win : AppWindows, group : DockGroups, index : Nat] /\ n \in Nat
      <4> HIDE DEF l, b
      <4>1. l \in [kind : {"docked"}, win : AppWindows, group : DockGroups, index : Nat]
        BY <3>1 DEF Locations, Places
      <4> QED BY <3>2, <4>1
    <3> HIDE DEF l, b, n
    <3>5. [l EXCEPT !.win = tgt, !.index = n]
             \in [kind : {"docked"}, win : AppWindows, group : DockGroups, index : Nat]
      BY <3>4
    <3>6. [l EXCEPT !.win = tgt, !.index = n] \in Locations
      BY <3>5 DEF Locations, Places
    <3> QED BY <3>3, <3>6
  <2>3. where \in [G -> Locations]
    BY <2>2
  <2>4. x \notin pending /\ Record(x, G, where) /\ \A k \in G : panels[k].present /\ ~moving(k)
    BY <1>10 DEF BeginViewTransfer, Present
  <2> HIDE DEF where, G
  <2> QED BY <2>1, <2>3, <2>4, RecordStep
<1>e. ASSUME NEW x \in Transfers, x \in pending, NEW k \in members[x]
      PROVE  /\ k \in Keys /\ panels[k].present /\ panels[k].target \in Locations
  <2>1. k \in Keys /\ x # None
    BY <1>0, <1>e, DirectoryConstants DEF TypeOK, DirectoryConstants
  <2>2. panels[k].transfer = x
    BY <1>0, <1>e, <2>1 DEF TransfersAgree
  <2> QED BY <1>0, <2>1, <2>2 DEF TransfersAgree, TypeOK, moving
<1>11. ASSUME NEW x \in Transfers, CommitGroupTransfer(x)
      PROVE  DirectoryInv'
  <2> DEFINE arriving(k) == {m \in members[x] : refOf(m, panels[m].target) = refOf(k, panels[k].loc)}
             behind(k)   == \E m \in arriving(k) : panels[m].target.index <= panels[k].loc.index
             shifted(k)  == panels[k].loc.index + Cardinality(arriving(k))
  <2>0. x \in pending /\ pending' = pending \ {x} /\ members' = [members EXCEPT ![x] = {}]
        /\ UNCHANGED <<handles, live>>
    BY <1>11 DEF CommitGroupTransfer
  <2>p. panels' = [k \in Keys |->
             IF k \in members[x]
             THEN [panels[k] EXCEPT !.present = TRUE, !.loc = panels[k].target,
                                    !.transfer = None, !.target = None]
             ELSE IF panels[k].present /\ behind(k)
             THEN [panels[k] EXCEPT !.loc.index = shifted(k)]
             ELSE panels[k]]
    BY <1>11 DEF CommitGroupTransfer
  <2>1. ASSUME NEW k \in Keys
        PROVE  /\ Sound(panels'[k])
               /\ panels'[k].obj = panels[k].obj
               /\ panels'[k].present = panels[k].present
               /\ panels'[k].transfer = IF k \in members[x] THEN None ELSE panels[k].transfer
    <3> DEFINE p == panels[k]
    <3>s. Sound(p)
      BY <1>a
    <3>1. CASE k \in members[x]
      <4>1. p.present /\ p.target \in Locations
        BY <1>e, <2>0, <3>1
      <4>2. panels'[k] = [p EXCEPT !.present = TRUE, !.loc = p.target, !.transfer = None, !.target = None]
        BY <2>p, <3>1
      <4> HIDE DEF p
      <4> DEFINE q == [p EXCEPT !.present = TRUE, !.loc = p.target, !.transfer = None, !.target = None]
      <4>3. p.present = TRUE
        BY <3>s, <4>1 DEF Sound, Panel
      <4>4. q \in Panel /\ q.obj = p.obj /\ q.present = TRUE /\ q.loc = p.target /\ q.transfer = None
        BY <3>s, <4>1 DEF Sound, Panel
      <4> HIDE DEF q
      <4>5. panels'[k] = q
        BY <4>2 DEF q
      <4> QED BY <3>1, <4>1, <4>3, <4>4, <4>5 DEF Sound, p
    <3>2. CASE k \notin members[x] /\ p.present /\ behind(k)
      <4> DEFINE n == shifted(k)
      <4>1. Cardinality(arriving(k)) \in Nat
        <5>1. arriving(k) \in SUBSET Keys
          BY <1>0 DEF TypeOK
        <5> HIDE DEF arriving
        <5> QED BY <5>1, SizeNat
      <4>2. p.loc \in Locations /\ p.loc.index \in Nat
        <5>1. p.loc \in Locations
          BY <3>s, <3>2 DEF Sound
        <5> HIDE DEF p
        <5> QED BY <5>1 DEF Locations, Places
      <4>3. n \in Nat
        <5> HIDE DEF arriving
        <5> QED BY <4>1, <4>2
      <4>4. panels'[k] = [p EXCEPT !.loc.index = n]
        BY <2>p, <3>2
      <4> HIDE DEF n, p, arriving, behind, shifted
      <4>5. [p.loc EXCEPT !.index = n] \in Locations
        BY <4>2, <4>3 DEF Locations, Places
      <4> DEFINE l == [p.loc EXCEPT !.index = n]
                 q == [p EXCEPT !.loc = l]
      <4>6. panels'[k] = q
        BY <4>4, <3>s DEF Sound, Panel
      <4> HIDE DEF l
      <4>7. q \in Panel /\ q.obj = p.obj /\ q.present = p.present /\ q.loc = l
            /\ q.transfer = p.transfer /\ q.target = p.target /\ l \in Locations
        BY <3>s, <4>5 DEF Sound, Panel, l
      <4> HIDE DEF q
      <4> QED BY <3>s, <3>2, <4>6, <4>7 DEF Sound, p
    <3>3. CASE k \notin members[x] /\ ~(p.present /\ behind(k))
      <4>1. panels'[k] = p
        BY <2>p, <3>3
      <4> HIDE DEF arriving, behind, shifted
      <4> QED BY <3>s, <3>3, <4>1
    <3> HIDE DEF arriving, behind, shifted
    <3> QED BY <3>1, <3>2, <3>3
  <2>2. panels' \in [Keys -> Panel]
    <3>1. \A k \in Keys : panels'[k] \in Panel
      BY <2>1 DEF Sound
    <3>2. panels' = [k \in Keys |-> panels'[k]]
      BY <2>p
    <3> QED BY <3>1, <3>2
  <2> HIDE DEF arriving, behind, shifted
  <2> QED BY <2>0, <2>1, <2>2, EndStep
<1>12. ASSUME NEW x \in Transfers, CancelGroupTransfer(x)
      PROVE  DirectoryInv'
  <2>0. x \in pending /\ pending' = pending \ {x} /\ members' = [members EXCEPT ![x] = {}]
        /\ UNCHANGED <<handles, live>>
    BY <1>12 DEF CancelGroupTransfer
  <2>1. ASSUME NEW k \in Keys
        PROVE  /\ Sound(panels'[k])
               /\ panels'[k].obj = panels[k].obj
               /\ panels'[k].present = panels[k].present
               /\ panels'[k].transfer = IF k \in members[x] THEN None ELSE panels[k].transfer
    <3> DEFINE p == panels[k]
    <3>s. Sound(p)
      BY <1>a
    <3>1. CASE k \in members[x]
      <4>1. p.present
        BY <1>e, <2>0, <3>1
      <4>2. panels'[k] = [p EXCEPT !.present = TRUE, !.transfer = None, !.target = None]
        BY <1>12, <3>1 DEF CancelGroupTransfer
      <4> HIDE DEF p
      <4> DEFINE q == [p EXCEPT !.present = TRUE, !.transfer = None, !.target = None]
      <4>3. p.present = TRUE
        BY <3>s, <4>1 DEF Sound, Panel
      <4>4. q \in Panel /\ q.obj = p.obj /\ q.present = TRUE /\ q.loc = p.loc /\ q.transfer = None
        BY <3>s, <4>1 DEF Sound, Panel
      <4> HIDE DEF q
      <4>5. panels'[k] = q
        BY <4>2 DEF q
      <4> QED BY <3>1, <3>s, <4>3, <4>4, <4>5 DEF Sound, p
    <3>2. CASE k \notin members[x]
      BY <1>12, <3>s, <3>2 DEF CancelGroupTransfer
    <3> QED BY <3>1, <3>2
  <2>2. panels' \in [Keys -> Panel]
    <3>1. \A k \in Keys : panels'[k] \in Panel
      BY <2>1 DEF Sound
    <3>2. panels' = [k \in Keys |-> panels'[k]]
      BY <1>12 DEF CancelGroupTransfer
    <3> QED BY <3>1, <3>2
  <2> QED BY <2>0, <2>1, <2>2, EndStep
<1>13. CASE \E w \in AppWindows : RetainWindow(w, Clusters) \/ \E c \in Clusters : RetainWindow(w, {c})
  <2>1. PICK w \in AppWindows : RetainWindow(w, Clusters) \/ \E c \in Clusters : RetainWindow(w, {c})
    BY <1>13
  <2>2. CASE RetainWindow(w, Clusters)
    BY <1>4, <2>2
  <2>3. ASSUME NEW c \in Clusters, RetainWindow(w, {c})
        PROVE  DirectoryInv'
    BY <1>4, <2>3
  <2> QED BY <2>1, <2>2, <2>3
<1> QED
  BY <1>1, <1>2, <1>3, <1>5, <1>6, <1>7, <1>8, <1>9, <1>10, <1>11, <1>12, <1>13 DEF Next

-----------------------------------------------------------------------------
\* NewWorkspaceDirectory returns an empty directory, which satisfies the
\* invariant, and stuttering keeps it.
LEMMA InitDirectory == Init => DirectoryInv
<1> SUFFICES ASSUME Init PROVE DirectoryInv
  OBVIOUS
<1>1. NoPanel \in Panel /\ NoPanel.present = FALSE /\ NoPanel.transfer = None
  BY DEF NoPanel, Panel
<1>2. \A k \in Keys : panels[k] = NoPanel
  BY DEF Init
<1>3. TypeOK
  BY <1>1, <1>2 DEF Init, TypeOK
<1>4. TransfersAgree
  BY <1>1, <1>2, DirectoryConstants DEF Init, TransfersAgree, moving, DirectoryConstants
<1>5. OneObjectOnePanel
  BY <1>1, <1>2 DEF OneObjectOnePanel, Present
<1> QED BY <1>3, <1>4, <1>5 DEF DirectoryInv

\* Every reachable directory satisfies the inductive invariant, whatever the
\* renderers, closures and transfers do and in whatever order.
THEOREM DirectoryInvariant == Spec => []DirectoryInv
<1>1. DirectoryInv /\ [Next]_vars => DirectoryInv'
  <2> SUFFICES ASSUME DirectoryInv, [Next]_vars PROVE DirectoryInv'
    OBVIOUS
  <2>1. CASE Next
    BY <2>1, NextStep
  <2>2. CASE UNCHANGED vars
    BY <2>2 DEF vars, DirectoryInv, TypeOK, TransfersAgree, OneObjectOnePanel, Present, moving
  <2> QED BY <2>1, <2>2
<1> QED BY <1>1, InitDirectory, PTL DEF Spec

\* Type correctness: in particular every open panel has a valid location, and
\* every moving one a valid target (validatePanelLocation).
THEOREM TypeCorrect == Spec => []TypeOK
<1>1. DirectoryInv => TypeOK
  BY DEF DirectoryInv
<1> QED BY <1>1, DirectoryInvariant, PTL

\* d.transfers and the marks on the panels never disagree, so no move ends by
\* reviving a closed panel and none is left behind (leaveTransferLocked).
THEOREM TransfersAlwaysAgree == Spec => []TransfersAgree
<1>1. DirectoryInv => TransfersAgree
  BY DEF DirectoryInv
<1> QED BY <1>1, DirectoryInvariant, PTL

\* An object is never shown by two panels, in however many windows it is
\* opened, moved and retained (Open).
THEOREM ObjectsClaimedOnce == Spec => []OneObjectOnePanel
<1>1. DirectoryInv => OneObjectOnePanel
  BY DEF DirectoryInv
<1> QED BY <1>1, DirectoryInvariant, PTL

-----------------------------------------------------------------------------
(* Action properties: what a single command may do to one panel.           *)

\* k comes into the directory only for a caller that still holds an admission.
CreatedByOpen(k) ==
  ~panels[k].present /\ panels'[k].present => \E r \in live : handles[r] = ClusterOf(k)

\* The place of k is the same group, or it is retained.
SamePlace(k) ==
  \/ panels'[k].loc.kind = "retained"
  \/ refOf(k, panels'[k].loc) = refOf(k, panels[k].loc)

\* k, if its move goes on, keeps its mark, its target and its place.
KeptWhileMoving(k) ==
  moving(k) /\ panels'[k].present /\ panels[k].transfer \in pending' =>
    /\ panels'[k].transfer = panels[k].transfer /\ panels'[k].target = panels[k].target
    /\ SamePlace(k)

\* A command that leaves the panel as it is.
LEMMA UntouchedPanel ==
  ASSUME NEW k \in Keys, panels'[k] = panels[k]
  PROVE  CreatedByOpen(k) /\ KeptWhileMoving(k)
BY DEF CreatedByOpen, KeptWhileMoving, SamePlace, refOf

\* A command that removes panels: those it removes are gone, the others untouched.
LEMMA DeletedPanel ==
  ASSUME NEW D \in SUBSET Keys, Delete(D), NEW k \in Keys
  PROVE  CreatedByOpen(k) /\ KeptWhileMoving(k)
<1>1. panels'[k] = IF k \in D THEN NoPanel ELSE panels[k]
  BY DEF Delete
<1>2. CASE k \in D
  <2>1. ~panels'[k].present
    BY <1>1, <1>2 DEF NoPanel
  <2> QED BY <2>1 DEF CreatedByOpen, KeptWhileMoving
<1>3. CASE k \notin D
  BY <1>1, <1>3, UntouchedPanel
<1> QED BY <1>2, <1>3

\* A move that begins marks only open panels that were not moving.
LEMMA RecordedPanel ==
  ASSUME TypeOK, NEW x, NEW G \in SUBSET Keys, NEW where, Record(x, G, where),
         \A k \in G : panels[k].present /\ ~moving(k), NEW k \in Keys
  PROVE  CreatedByOpen(k) /\ KeptWhileMoving(k)
<1>1. CASE k \in G
  BY <1>1 DEF CreatedByOpen, KeptWhileMoving
<1>2. CASE k \notin G
  BY <1>2, UntouchedPanel DEF Record
<1> QED BY <1>1, <1>2

\* A panel that moves with another transfer than x, or with none, is no member of x.
LEMMA MemberOfItsTransfer ==
  ASSUME DirectoryInv, NEW x \in Transfers, x \in pending, NEW k \in members[x]
  PROVE  k \in Keys /\ panels[k].present /\ panels[k].transfer = x
<1>1. TypeOK /\ TransfersAgree
  BY DEF DirectoryInv
<1>2. k \in Keys /\ x # None
  BY <1>1, DirectoryConstants DEF TypeOK, DirectoryConstants
<1> QED BY <1>1, <1>2 DEF TransfersAgree, moving

\* Every command keeps both promises for every panel.
LEMMA PanelStep ==
  ASSUME DirectoryInv, Next, NEW k \in Keys
  PROVE  CreatedByOpen(k) /\ KeptWhileMoving(k)
<1>0. TypeOK /\ TransfersAgree
  BY DEF DirectoryInv
<1>a. Sound(panels[k])
  BY <1>0, PanelsSound
<1>1. ASSUME NEW r \in Callers, Release(r) \/ \E c \in Clusters : ReserveCluster(r, c)
      PROVE  CreatedByOpen(k) /\ KeptWhileMoving(k)
  BY <1>1, UntouchedPanel DEF Release, ReserveCluster
<1>2. ASSUME NEW r \in Callers, NEW j \in Keys, NEW o \in Objects, NEW l \in OpenPlaces, Open(r, j, o, l)
      PROVE  CreatedByOpen(k) /\ KeptWhileMoving(k)
  <2>1. CASE Showing(j, o) = {} /\ panels' = [panels EXCEPT ![j] = [NoPanel EXCEPT !.present = TRUE, !.obj = o, !.loc = l]]
    <3>1. CASE k = j
      <4>1. r \in live /\ handles[r] = ClusterOf(k)
        BY <1>2, <3>1 DEF Open, Admitted
      <4>2. ~panels[k].present
        BY <1>2, <2>1, <3>1 DEF Open, Showing
      <4>3. ~moving(k)
        BY <1>0, <4>2 DEF TransfersAgree
      <4> QED BY <4>1, <4>3 DEF CreatedByOpen, KeptWhileMoving
    <3>2. CASE k # j
      BY <1>0, <2>1, <3>2, UntouchedPanel DEF TypeOK
    <3> QED BY <3>1, <3>2
  <2>2. ASSUME NEW e \in Showing(j, o), ~moving(e), panels' = [panels EXCEPT ![e].loc = l]
        PROVE  CreatedByOpen(k) /\ KeptWhileMoving(k)
    <3>1. CASE k = e
      BY <2>2, <3>1 DEF Showing, CreatedByOpen, KeptWhileMoving
    <3>2. CASE k # e
      BY <1>0, <2>2, <3>2, UntouchedPanel DEF TypeOK
    <3> QED BY <3>1, <3>2
  <2> QED BY <1>2, <2>1, <2>2 DEF Open
<1>3. ASSUME NEW w \in AppWindows, NEW C, RetainWindow(w, C)
      PROVE  CreatedByOpen(k) /\ KeptWhileMoving(k)
  <2> DEFINE p == panels[k]
  <2>1. CASE panels'[k] = p
    BY <2>1, UntouchedPanel
  <2>2. CASE p.present /\ panels'[k] = [p EXCEPT !.loc = Retained(@)]
    <3>1. p \in Panel /\ p.loc \in Locations
      BY <1>a, <2>2 DEF Sound
    <3> HIDE DEF p
    <3>2. Retained(p.loc).kind = "retained"
      BY <3>1 DEF Retained, Locations, Places
    <3>3. /\ panels'[k].loc = Retained(p.loc)
          /\ panels'[k].transfer = p.transfer /\ panels'[k].target = p.target
      BY <2>2, <3>1 DEF Panel
    <3> QED BY <2>2, <3>2, <3>3 DEF CreatedByOpen, KeptWhileMoving, SamePlace, p
  <2> QED BY <1>3, <2>1, <2>2 DEF RetainWindow
<1>4. ASSUME NEW w \in PanelWindows, RemoveWindow(w)
      PROVE  CreatedByOpen(k) /\ KeptWhileMoving(k)
  BY <1>4, DeletedPanel DEF RemoveWindow, Present
<1>5. ASSUME NEW w, NEW j \in Keys, ClosePanel(w, j)
      PROVE  CreatedByOpen(k) /\ KeptWhileMoving(k)
  BY <1>5, DeletedPanel DEF ClosePanel
<1>6. ASSUME NEW c \in Clusters, RemoveCluster(c)
      PROVE  CreatedByOpen(k) /\ KeptWhileMoving(k)
  BY <1>6, DeletedPanel DEF RemoveCluster, Present
<1>7. ASSUME NEW w, NEW kind, NEW A \in SUBSET Keys, NEW at, PublishWindow(w, kind, A, at)
      PROVE  CreatedByOpen(k) /\ KeptWhileMoving(k)
  <2>1. CASE k \in A
    BY <1>7, <2>1 DEF PublishWindow, CreatedByOpen, KeptWhileMoving
  <2>2. CASE k \notin A
    BY <1>7, <2>2, UntouchedPanel DEF PublishWindow
  <2> QED BY <2>1, <2>2
<1>8. ASSUME NEW x, NEW src, NEW G \in SUBSET Keys, NEW l, NEW ord, BeginGroupTransfer(x, src, l, G, ord)
      PROVE  CreatedByOpen(k) /\ KeptWhileMoving(k)
  BY <1>0, <1>8, RecordedPanel DEF BeginGroupTransfer, SourceHolds
<1>9. ASSUME NEW x, NEW src, NEW tgt, NEW c, BeginViewTransfer(x, src, tgt, c)
      PROVE  CreatedByOpen(k) /\ KeptWhileMoving(k)
  <2> DEFINE G == {e \in Present : /\ ClusterOf(e) = c /\ panels[e].loc.kind = "docked"
                                   /\ panels[e].loc.win = src}
             base(e) == insertIndex(e, [panels[e].loc EXCEPT !.win = tgt, !.index = AppendToGroup], G)
             where == [e \in G |-> [panels[e].loc EXCEPT !.win = tgt, !.index = @ + base(e)]]
  <2>1. G \in SUBSET Keys /\ Record(x, G, where) /\ \A e \in G : panels[e].present /\ ~moving(e)
    BY <1>9 DEF BeginViewTransfer, Present
  <2> HIDE DEF where, G
  <2> QED BY <1>0, <2>1, RecordedPanel
<1>10. ASSUME NEW x \in Transfers, CommitGroupTransfer(x)
      PROVE  CreatedByOpen(k) /\ KeptWhileMoving(k)
  <2> DEFINE p == panels[k]
  <2>0. x \in pending /\ x \notin pending'
    BY <1>10 DEF CommitGroupTransfer
  <2>1. CASE k \in members[x]
    BY <2>0, <2>1, MemberOfItsTransfer DEF CreatedByOpen, KeptWhileMoving
  <2>2. CASE k \notin members[x]
    <3>1. \/ panels'[k] = p
          \/ p.present /\ \E n : panels'[k] = [p EXCEPT !.loc.index = n]
      BY <1>10, <2>2 DEF CommitGroupTransfer
    <3>2. CASE panels'[k] = p
      BY <3>2, UntouchedPanel
    <3>3. ASSUME NEW n, p.present, panels'[k] = [p EXCEPT !.loc.index = n]
          PROVE  CreatedByOpen(k) /\ KeptWhileMoving(k)
      <4>1. p \in Panel /\ p.loc \in Locations
        BY <1>a, <3>3 DEF Sound
      <4> HIDE DEF p
      <4>2. /\ panels'[k].transfer = p.transfer /\ panels'[k].target = p.target
            /\ panels'[k].loc = [p.loc EXCEPT !.index = n]
        BY <3>3, <4>1 DEF Panel
      <4>3. refOf(k, [p.loc EXCEPT !.index = n]) = refOf(k, p.loc)
        BY <4>1 DEF refOf, Locations, Places
      <4> QED BY <3>3, <4>2, <4>3 DEF CreatedByOpen, KeptWhileMoving, SamePlace, p
    <3> QED BY <3>1, <3>2, <3>3
  <2> QED BY <2>1, <2>2
<1>11. ASSUME NEW x \in Transfers, CancelGroupTransfer(x)
      PROVE  CreatedByOpen(k) /\ KeptWhileMoving(k)
  <2>0. x \in pending /\ x \notin pending'
    BY <1>11 DEF CancelGroupTransfer
  <2>1. CASE k \in members[x]
    BY <2>0, <2>1, MemberOfItsTransfer DEF CreatedByOpen, KeptWhileMoving
  <2>2. CASE k \notin members[x]
    BY <1>11, <2>2, UntouchedPanel DEF CancelGroupTransfer
  <2> QED BY <2>1, <2>2
<1> QED
  BY <1>1, <1>2, <1>3, <1>4, <1>5, <1>6, <1>7, <1>8, <1>9, <1>10, <1>11 DEF Next

\* Only an admitted Open brings a panel into the directory: no end of a move, no
\* publication and no window closure brings a closed panel back.
THEOREM ClosedPanelsStayClosed == Spec => OnlyOpenCreates
<1>1. DirectoryInv /\ [Next]_vars =>
        [\A k \in Keys : ~panels[k].present /\ panels'[k].present
           => \E r \in live : handles[r] = ClusterOf(k)]_vars
  BY PanelStep DEF CreatedByOpen
<1> QED BY <1>1, DirectoryInvariant, PTL DEF Spec, OnlyOpenCreates

\* Until its transfer is over a moving panel stays in its group, or is retained
\* with its closing window, and keeps the recorded target (BeginGroupTransfer).
THEOREM MovesAreExclusive == Spec => MovingStaysPut
<1>1. DirectoryInv /\ [Next]_vars =>
        [\A k \in Keys : (moving(k) /\ panels'[k].present /\ panels[k].transfer \in pending') =>
           /\ panels'[k].transfer = panels[k].transfer /\ panels'[k].target = panels[k].target
           /\ \/ panels'[k].loc.kind = "retained"
              \/ refOf(k, panels'[k].loc) = refOf(k, panels[k].loc)]_vars
  BY PanelStep DEF KeptWhileMoving, SamePlace
<1> QED BY <1>1, DirectoryInvariant, PTL DEF Spec, MovingStaysPut
=============================================================================
