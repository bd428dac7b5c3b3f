------------------------- MODULE MetricsDemandProofs -------------------------
(* Proofs about MetricsDemand, for any windows, clusters and delays.       *)
EXTENDS MetricsDemand, TLAPS

\* SentInOrder and NothingForgotten hold each other up: a post on the wire is the
\* one its window waits for, and a window waits for a post on the wire.
DemandInv == TypeOK /\ SentInOrder /\ NothingForgotten

Live(r, w) == r.win = w /\ ~r.orphan
Post(w, key) == [win |-> w, key |-> key, state |-> "sent", orphan |-> FALSE]

\* What updateMetricsDemand makes of a state: it waits for the new post, or it
\* wants nothing but the demand; a request under way is left alone.
LEMMA UpdatedState ==
  ASSUME NEW m \in States, NEW key \in Demands
  PROVE  /\ Updated(m, key) \in States
         /\ MustPost(m, key) =>
              /\ Updated(m, key).status = "requesting" /\ Updated(m, key).key = key
              /\ Updated(m, key).key # Updated(m, key).applied
         /\ ~MustPost(m, key) /\ m.status # "requesting" =>
              /\ Updated(m, key).status # "requesting"
              /\ Updated(m, key).status = "idle" => Updated(m, key).applied = key
              /\ Updated(m, key).status = "waiting-retry" =>
                   Updated(m, key).key = key /\ Updated(m, key).key # Updated(m, key).applied
         /\ m.status = "requesting" => Updated(m, key) = m /\ ~MustPost(m, key)
<1> {} \in Demands BY DEF Demands
<1>1. CASE key = m.applied
  BY <1>1 DEF Updated, ClearRetry, Idle, MustPost, States
<1>2. CASE key # m.applied /\ MustPost(m, key)
  BY <1>2 DEF Updated, MustPost, States
<1>3. CASE key # m.applied /\ ~MustPost(m, key)
  BY <1>3 DEF Updated, MustPost, States
<1> QED BY <1>1, <1>2, <1>3

LEMMA PostFields ==
  ASSUME NEW w \in Windows, NEW key \in Demands
  PROVE  /\ Post(w, key) \in Posts /\ Live(Post(w, key), w)
         /\ Post(w, key).key = key /\ Post(w, key).win = w
BY DEF Post, Posts, Live

\* A window that an action leaves alone keeps what the invariant says of it.
LEMMA OthersKeep ==
  ASSUME DemandInv, NEW v \in Windows,
         md'[v] = md[v], demand'[v] = demand[v], \A r \in wire : r.win = v => r \in wire'
  PROVE  /\ md'[v].status = "idle" => md'[v].applied = demand'[v]
         /\ md'[v].status = "waiting-retry" => md'[v].key = demand'[v]
         /\ md'[v].status = "requesting" => \E r \in wire' : r.win = v /\ ~r.orphan
         /\ md'[v].status # "idle" => md'[v].key # md'[v].applied
<1>1. /\ md[v].status = "idle" => md[v].applied = demand[v]
      /\ md[v].status = "waiting-retry" => md[v].key = demand[v]
      /\ md[v].status = "requesting" => \E r \in wire : r.win = v /\ ~r.orphan
      /\ md[v].status # "idle" => md[v].key # md[v].applied
  BY DEF DemandInv, NothingForgotten
<1> QED BY <1>1

\* An update from a state that waits for no post, over posts of other windows.
LEMMA UpdateKeeps ==
  ASSUME DemandInv, NEW w \in Windows, NEW m \in States, NEW key \in Demands,
         NEW rest \in SUBSET wire,
         m.status # "requesting",
         \A r \in wire : ~Live(r, w) => r \in rest,
         \A r \in rest : ~Live(r, w),
         Update(w, m, key, rest),
         demand' = [demand EXCEPT ![w] = key],
         service' \in BOOLEAN, demanded' \in Demands, ops' \in 0..MaxOps
  PROVE  DemandInv'
<1> DEFINE new == Updated(m, key)
           sent == IF MustPost(m, key) THEN {Post(w, key)} ELSE {}
<1>1. /\ new \in States
      /\ MustPost(m, key) => new.status = "requesting" /\ new.key = key /\ new.key # new.applied
      /\ ~MustPost(m, key) =>
           /\ new.status # "requesting"
           /\ new.status = "idle" => new.applied = key
           /\ new.status = "waiting-retry" => new.key = key /\ new.key # new.applied
  BY UpdatedState
<1>2. /\ Post(w, key) \in Posts /\ Live(Post(w, key), w)
      /\ Post(w, key).key = key /\ Post(w, key).win = w
  BY PostFields
<1>3. md' = [md EXCEPT ![w] = new] /\ wire' = rest \cup sent
  BY DEF Update, Post
<1>4. md \in [Windows -> States] /\ demand \in [Windows -> Demands] /\ wire \in SUBSET Posts
  BY DEF DemandInv, TypeOK
<1> HIDE DEF new
<1>5. /\ md'[w] = new /\ demand'[w] = key
      /\ \A v \in Windows : v # w => md'[v] = md[v] /\ demand'[v] = demand[v]
  BY <1>3, <1>4
<1>6. TypeOK'
  <2>1. md' \in [Windows -> States] BY <1>1, <1>3, <1>4
  <2>2. demand' \in [Windows -> Demands] BY <1>4
  <2>3. wire' \in SUBSET Posts BY <1>2, <1>3, <1>4
  <2> QED BY <2>1, <2>2, <2>3 DEF TypeOK
<1>7. \A r \in wire' : (r \in wire /\ ~Live(r, w)) \/ (r = Post(w, key) /\ MustPost(m, key))
  BY <1>3
<1>8. SentInOrder'
  <2> SUFFICES ASSUME NEW r \in wire', ~r.orphan
               PROVE  /\ md'[r.win].status = "requesting" /\ md'[r.win].key = r.key
                      /\ \A q \in wire' : q.win = r.win /\ ~q.orphan => q = r
    BY DEF SentInOrder
  <2>1. CASE r \in wire /\ ~Live(r, w)
    <3>1. r.win \in Windows /\ r.win # w BY <1>4, <2>1 DEF Live, Posts
    <3>2. /\ md[r.win].status = "requesting" /\ md[r.win].key = r.key
          /\ \A q \in wire : q.win = r.win /\ ~q.orphan => q = r
      BY <2>1 DEF DemandInv, SentInOrder
    <3>3. \A q \in wire' : q.win = r.win => q \in wire BY <1>2, <1>7, <3>1
    <3> QED BY <1>5, <3>1, <3>2, <3>3
  <2>2. CASE r = Post(w, key) /\ MustPost(m, key)
    <3>1. \A q \in wire' : q.win = w /\ ~q.orphan => q = r BY <1>7, <2>2 DEF Live
    <3> QED BY <1>1, <1>2, <1>5, <2>2, <3>1
  <2> QED BY <1>7, <2>1, <2>2
<1>9. NothingForgotten'
  <2> SUFFICES ASSUME NEW v \in Windows
               PROVE  /\ md'[v].status = "idle" => md'[v].applied = demand'[v]
                      /\ md'[v].status = "waiting-retry" => md'[v].key = demand'[v]
                      /\ md'[v].status = "requesting" => \E r \in wire' : r.win = v /\ ~r.orphan
                      /\ md'[v].status # "idle" => md'[v].key # md'[v].applied
    BY DEF NothingForgotten
  <2>1. CASE v = w
    <3>1. MustPost(m, key) => \E r \in wire' : r.win = w /\ ~r.orphan
      BY <1>2, <1>3 DEF Live
    <3>2. new.status \in {"idle", "requesting", "waiting-retry"} BY <1>1 DEF States
    <3> QED BY <1>1, <1>5, <2>1, <3>1, <3>2
  <2>2. CASE v # w
    <3>1. \A r \in wire : r.win = v => r \in wire' BY <1>3, <2>2 DEF Live
    <3> QED BY <1>5, <2>2, <3>1, OthersKeep
  <2> QED BY <2>1, <2>2
<1> QED BY <1>6, <1>8, <1>9 DEF DemandInv

\* A window that is not requesting has no live post.
LEMMA NoLivePost ==
  ASSUME DemandInv, NEW w \in Windows, md[w].status # "requesting"
  PROVE  \A r \in wire : ~Live(r, w)
BY DEF DemandInv, SentInOrder, Live

LEMMA ChangeDemandKeeps ==
  ASSUME DemandInv, NEW w \in Windows, NEW key \in SUBSET Clusters, ChangeDemand(w, key)
  PROVE  DemandInv'
<1>0. md[w] \in States /\ key \in Demands BY DEF DemandInv, TypeOK, Demands
<1>1. ops' \in 0..MaxOps BY BoundAssumption DEF BoundAssumption, ChangeDemand, CountOp, DemandInv, TypeOK
<1>2. service' \in BOOLEAN /\ demanded' \in Demands BY DEF ChangeDemand, DemandInv, TypeOK
<1>3. demand' = [demand EXCEPT ![w] = key] /\ Update(w, md[w], key, wire) BY DEF ChangeDemand
<1>4. CASE md[w].status # "requesting"
  <2>1. \A r \in wire : ~Live(r, w) BY <1>4, NoLivePost
  <2> QED BY <1>0, <1>1, <1>2, <1>3, <1>4, <2>1, UpdateKeeps
<1>5. CASE md[w].status = "requesting"
  <2>1. Updated(md[w], key) = md[w] /\ ~MustPost(md[w], key) BY <1>0, <1>5, UpdatedState
  <2>2. md' = [md EXCEPT ![w] = md[w]] /\ wire' = wire BY <1>3, <2>1 DEF Update
  <2>3. md' = md BY <2>2 DEF DemandInv, TypeOK
  <2>4. TypeOK' BY <1>0, <1>1, <1>2, <1>3, <2>2, <2>3 DEF DemandInv, TypeOK
  <2>5. SentInOrder' BY <2>2, <2>3 DEF DemandInv, SentInOrder
  <2>6. demand \in [Windows -> Demands] BY DEF DemandInv, TypeOK
  <2>7. NothingForgotten' BY <1>3, <1>5, <2>2, <2>3, <2>6 DEF DemandInv, NothingForgotten
  <2> QED BY <2>4, <2>5, <2>7 DEF DemandInv
<1> QED BY <1>4, <1>5

\* An answer takes the only live post of its window off the wire.
LEMMA AnswerRest ==
  ASSUME DemandInv, NEW w \in Windows, NEW r \in wire, r.win = w, ~r.orphan
  PROVE  /\ wire \ {r} \in SUBSET wire
         /\ \A q \in wire : ~Live(q, w) => q \in wire \ {r}
         /\ \A q \in wire \ {r} : ~Live(q, w)
         /\ md[w] \in States /\ md[w].status = "requesting" /\ md[w].key = r.key
         /\ r.key \in Demands /\ demand[w] \in Demands
         /\ demand = [demand EXCEPT ![w] = demand[w]]
<1>1. md \in [Windows -> States] /\ demand \in [Windows -> Demands] /\ r \in Posts
  BY DEF DemandInv, TypeOK
<1>2. r.key \in Demands BY <1>1 DEF Posts
<1>3. /\ md[w].status = "requesting" /\ md[w].key = r.key
      /\ \A q \in wire : q.win = w /\ ~q.orphan => q = r
  BY DEF DemandInv, SentInOrder
<1> QED BY <1>1, <1>2, <1>3 DEF Live

LEMMA IdleState ==
  ASSUME NEW applied \in Demands, NEW delay \in 1..MaxDelay
  PROVE  Idle(applied, delay) \in States /\ Idle(applied, delay).status = "idle"
BY DEF Idle, States, Demands

LEMMA InitialInRange == InitialDelay \in 1..MaxDelay
BY DelayAssumption DEF DelayAssumption

LEMMA AnswersKeep ==
  ASSUME DemandInv, NEW w \in Windows, NEW r \in wire,
         Succeeds(w, r) \/ Abandons(w, r)
  PROVE  DemandInv'
<1> DEFINE m == Idle(IF Succeeds(w, r) THEN r.key ELSE md[w].applied, InitialDelay)
<1>1. /\ r.win = w /\ ~r.orphan /\ demand' = demand
      /\ service' = service /\ demanded' = demanded /\ ops' = ops
  BY DEF Succeeds, Abandons
<1>2. /\ wire \ {r} \in SUBSET wire
      /\ \A q \in wire : ~Live(q, w) => q \in wire \ {r}
      /\ \A q \in wire \ {r} : ~Live(q, w)
      /\ md[w] \in States /\ r.key \in Demands /\ demand[w] \in Demands
      /\ demand = [demand EXCEPT ![w] = demand[w]]
  BY <1>1, AnswerRest
<1>3. md[w].applied \in Demands BY <1>2 DEF States
<1>4. m \in States /\ m.status = "idle" BY <1>2, <1>3, IdleState, InitialInRange
<1>5. Update(w, m, demand[w], wire \ {r}) BY DEF Succeeds, Abandons
<1>6. service' \in BOOLEAN /\ demanded' \in Demands /\ ops' \in 0..MaxOps
  BY <1>1 DEF DemandInv, TypeOK
<1> HIDE DEF m
<1>7. m.status # "requesting" /\ demand' = [demand EXCEPT ![w] = demand[w]] BY <1>1, <1>2, <1>4
<1> QED BY <1>2, <1>4, <1>5, <1>6, <1>7, UpdateKeeps

LEMMA RetryFiresKeeps ==
  ASSUME DemandInv, NEW w \in Windows, RetryFires(w)
  PROVE  DemandInv'
<1> DEFINE m == ClearRetry(md[w])
<1>1. /\ md[w] \in States /\ demand[w] \in Demands /\ demand = [demand EXCEPT ![w] = demand[w]]
  BY DEF DemandInv, TypeOK
<1>2. md[w].applied \in Demands /\ md[w].delay \in 1..MaxDelay BY <1>1 DEF States
<1>3. m \in States /\ m.status = "idle" BY <1>2, IdleState DEF RetryFires, ClearRetry
<1>4. \A q \in wire : ~Live(q, w) BY NoLivePost DEF RetryFires
<1>5. /\ Update(w, m, demand[w], wire) /\ demand' = demand
      /\ service' \in BOOLEAN /\ demanded' \in Demands /\ ops' \in 0..MaxOps
  BY DEF RetryFires, DemandInv, TypeOK
<1> HIDE DEF m
<1>6. m.status # "requesting" /\ demand' = [demand EXCEPT ![w] = demand[w]] BY <1>1, <1>3, <1>5
<1> QED BY <1>1, <1>3, <1>4, <1>5, <1>6, UpdateKeeps

LEMMA DoubledInRange ==
  ASSUME NEW delay \in 1..MaxDelay PROVE Doubled(delay) \in 1..MaxDelay
BY DelayAssumption DEF DelayAssumption, Doubled

LEMMA SchedulesRetryKeeps ==
  ASSUME DemandInv, NEW w \in Windows, NEW r \in wire, SchedulesRetry(w, r)
  PROVE  DemandInv'
<1> DEFINE new == [status |-> "waiting-retry", applied |-> md[w].applied,
                   key |-> r.key, delay |-> Doubled(md[w].delay)]
<1>1. /\ r.win = w /\ ~r.orphan /\ demand' = demand /\ demand[w] = r.key
      /\ service' = service /\ demanded' = demanded /\ ops' = ops
      /\ md' = [md EXCEPT ![w] = new] /\ wire' = wire \ {r}
  BY DEF SchedulesRetry
<1>2. /\ \A q \in wire \ {r} : ~Live(q, w)
      /\ md[w] \in States /\ r.key \in Demands /\ md[w].status = "requesting" /\ md[w].key = r.key
  BY <1>1, AnswerRest
<1>3. md \in [Windows -> States] /\ wire \in SUBSET Posts BY DEF DemandInv, TypeOK
<1>4. r.key # md[w].applied BY <1>2 DEF DemandInv, NothingForgotten
<1>5. new \in States
  <2>1. md[w].applied \in Demands /\ md[w].delay \in 1..MaxDelay BY <1>2 DEF States
  <2>2. Doubled(md[w].delay) \in 1..MaxDelay BY <2>1, DoubledInRange
  <2> QED BY <1>2, <2>1, <2>2 DEF States
<1>6. new.status = "waiting-retry" /\ new.key = r.key /\ new.applied = md[w].applied OBVIOUS
<1> HIDE DEF new
<1>7. md'[w] = new /\ \A v \in Windows : v # w => md'[v] = md[v] BY <1>1, <1>3
<1>8. TypeOK' BY <1>1, <1>3, <1>5 DEF DemandInv, TypeOK
<1>9. SentInOrder'
  <2> SUFFICES ASSUME NEW p \in wire', ~p.orphan
               PROVE  /\ md'[p.win].status = "requesting" /\ md'[p.win].key = p.key
                      /\ \A q \in wire' : q.win = p.win /\ ~q.orphan => q = p
    BY DEF SentInOrder
  <2>1. p \in wire /\ p.win \in Windows /\ p.win # w BY <1>1, <1>2, <1>3 DEF Live, Posts
  <2> QED BY <1>1, <1>7, <2>1 DEF DemandInv, SentInOrder
<1>10. NothingForgotten'
  <2> SUFFICES ASSUME NEW v \in Windows
               PROVE  /\ md'[v].status = "idle" => md'[v].applied = demand'[v]
                      /\ md'[v].status = "waiting-retry" => md'[v].key = demand'[v]
                      /\ md'[v].status = "requesting" => \E q \in wire' : q.win = v /\ ~q.orphan
                      /\ md'[v].status # "idle" => md'[v].key # md'[v].applied
    BY DEF NothingForgotten
  <2>1. CASE v = w BY <1>1, <1>4, <1>6, <1>7, <2>1
  <2>2. CASE v # w BY <1>1, <1>7, <2>2, OthersKeep
  <2> QED BY <2>1, <2>2
<1> QED BY <1>8, <1>9, <1>10 DEF DemandInv

\* A post closed with its window keeps its fields.
LEMMA OrphanFields ==
  ASSUME NEW w, NEW r \in Posts
  PROVE  LET k == [r EXCEPT !.orphan = r.orphan \/ r.win = w]
         IN k \in Posts /\ k.win = r.win /\ k.key = r.key /\ k.orphan = (r.orphan \/ r.win = w)
BY DEF Posts

LEMMA CloseWindowKeeps ==
  ASSUME DemandInv, NEW w \in Windows, CloseWindow(w)
  PROVE  DemandInv'
<1> DEFINE Closed(r) == [r EXCEPT !.orphan = r.orphan \/ r.win = w]
<1>1. /\ demand' = [demand EXCEPT ![w] = {}] /\ md' = [md EXCEPT ![w] = Start]
      /\ wire' = {Closed(r) : r \in wire} /\ service' = service /\ demanded' = demanded
  BY DEF CloseWindow
<1>2. ops' \in 0..MaxOps BY BoundAssumption DEF BoundAssumption, CloseWindow, CountOp, DemandInv, TypeOK
<1>3. md \in [Windows -> States] /\ demand \in [Windows -> Demands] /\ wire \in SUBSET Posts
  BY DEF DemandInv, TypeOK
<1>4. Start \in States /\ Start.status = "idle" /\ Start.applied = {} /\ {} \in Demands
  BY InitialInRange DEF Start, States, Demands
<1>5. \A r \in wire : /\ Closed(r) \in Posts /\ Closed(r).win = r.win /\ Closed(r).key = r.key
                      /\ Closed(r).orphan = (r.orphan \/ r.win = w)
                      /\ r.win # w => Closed(r) = r
  <2> SUFFICES ASSUME NEW r \in wire
               PROVE  /\ Closed(r) \in Posts /\ Closed(r).win = r.win /\ Closed(r).key = r.key
                      /\ Closed(r).orphan = (r.orphan \/ r.win = w)
                      /\ r.win # w => Closed(r) = r OBVIOUS
  <2>1. r \in Posts BY <1>3
  <2>2. r.win # w => Closed(r) = r BY <2>1 DEF Posts
  <2> QED BY <2>1, <2>2, OrphanFields
<1> HIDE DEF Closed
<1>6. /\ md'[w] = Start /\ demand'[w] = {}
      /\ \A v \in Windows : v # w => md'[v] = md[v] /\ demand'[v] = demand[v]
  BY <1>1, <1>3
<1>7. TypeOK'
  <2>1. md' \in [Windows -> States] /\ demand' \in [Windows -> Demands] BY <1>1, <1>3, <1>4
  <2>2. wire' \in SUBSET Posts BY <1>1, <1>5
  <2> QED BY <1>1, <1>2, <2>1, <2>2 DEF DemandInv, TypeOK
<1>8. \A p \in wire' : ~p.orphan => p \in wire /\ p.win # w
  <2> SUFFICES ASSUME NEW p \in wire', ~p.orphan PROVE p \in wire /\ p.win # w OBVIOUS
  <2>1. PICK r \in wire : p = Closed(r) BY <1>1
  <2>2. ~(r.orphan \/ r.win = w) BY <1>5, <2>1
  <2> QED BY <1>5, <2>1, <2>2
<1>9. SentInOrder'
  <2> SUFFICES ASSUME NEW p \in wire', ~p.orphan
               PROVE  /\ md'[p.win].status = "requesting" /\ md'[p.win].key = p.key
                      /\ \A q \in wire' : q.win = p.win /\ ~q.orphan => q = p
    BY DEF SentInOrder
  <2>1. p \in wire /\ p.win \in Windows /\ p.win # w BY <1>3, <1>8 DEF Posts
  <2> QED BY <1>6, <1>8, <2>1 DEF DemandInv, SentInOrder
<1>10. NothingForgotten'
  <2> SUFFICES ASSUME NEW v \in Windows
               PROVE  /\ md'[v].status = "idle" => md'[v].applied = demand'[v]
                      /\ md'[v].status = "waiting-retry" => md'[v].key = demand'[v]
                      /\ md'[v].status = "requesting" => \E q \in wire' : q.win = v /\ ~q.orphan
                      /\ md'[v].status # "idle" => md'[v].key # md'[v].applied
    BY DEF NothingForgotten
  <2>1. CASE v = w BY <1>4, <1>6, <2>1
  <2>2. CASE v # w
    <3>1. \A r \in wire : r.win = v => r \in wire' BY <1>1, <1>5, <2>2
    <3> QED BY <1>6, <2>2, <3>1, OthersKeep
  <2> QED BY <2>1, <2>2
<1> QED BY <1>7, <1>9, <1>10 DEF DemandInv

\* The backend answers a post: only its state moves.
LEMMA ServedKeeps ==
  ASSUME DemandInv, NEW r \in wire, NEW st \in {"applied", "refused"},
         wire' = (wire \ {r}) \cup {[r EXCEPT !.state = st]},
         UNCHANGED <<demand, md>>,
         service' \in BOOLEAN, demanded' \in Demands, ops' \in 0..MaxOps
  PROVE  DemandInv'
<1> DEFINE a == [r EXCEPT !.state = st]
<1>1. wire \in SUBSET Posts BY DEF DemandInv, TypeOK
<1>2. a \in Posts /\ a.win = r.win /\ a.key = r.key /\ a.orphan = r.orphan BY <1>1 DEF Posts
<1> HIDE DEF a
<1>3. wire' = (wire \ {r}) \cup {a} BY DEF a
<1>4. TypeOK' BY <1>1, <1>2, <1>3 DEF DemandInv, TypeOK
<1>5. SentInOrder'
  <2> SUFFICES ASSUME NEW p \in wire', ~p.orphan
               PROVE  /\ md[p.win].status = "requesting" /\ md[p.win].key = p.key
                      /\ \A q \in wire' : q.win = p.win /\ ~q.orphan => q = p
    BY DEF SentInOrder
  <2>1. CASE p = a
    <3>1. /\ md[r.win].status = "requesting" /\ md[r.win].key = r.key
          /\ \A q \in wire : q.win = r.win /\ ~q.orphan => q = r
      BY <1>2, <2>1 DEF DemandInv, SentInOrder
    <3> QED BY <1>2, <1>3, <2>1, <3>1
  <2>2. CASE p \in wire /\ p # r
    <3>1. /\ md[p.win].status = "requesting" /\ md[p.win].key = p.key
          /\ \A q \in wire : q.win = p.win /\ ~q.orphan => q = p
      BY <2>2 DEF DemandInv, SentInOrder
    <3>2. ~(r.win = p.win /\ ~r.orphan) BY <2>2, <3>1
    <3> QED BY <1>2, <1>3, <3>1, <3>2
  <2> QED BY <1>3, <2>1, <2>2
<1>6. NothingForgotten'
  <2>1. \A v \in Windows : (\E q \in wire : q.win = v /\ ~q.orphan)
                           => \E q \in wire' : q.win = v /\ ~q.orphan
    BY <1>2, <1>3
  <2> QED BY <2>1 DEF DemandInv, NothingForgotten
<1> QED BY <1>4, <1>5, <1>6 DEF DemandInv

LEMMA UnheardKeeps ==
  ASSUME DemandInv, NEW r \in wire, Unheard(r)
  PROVE  DemandInv'
<1>1. r.orphan /\ wire' = wire \ {r} /\ UNCHANGED <<demand, md, service, demanded, ops>> BY DEF Unheard
<1>2. TypeOK' BY <1>1 DEF DemandInv, TypeOK
<1>3. SentInOrder' BY <1>1 DEF DemandInv, SentInOrder
<1>4. NothingForgotten' BY <1>1 DEF DemandInv, NothingForgotten
<1> QED BY <1>2, <1>3, <1>4 DEF DemandInv

\* A step that leaves windows and posts alone.
LEMMA ElsewhereKeeps ==
  ASSUME DemandInv, UNCHANGED <<demand, md, wire>>,
         service' \in BOOLEAN, demanded' \in Demands, ops' \in 0..MaxOps
  PROVE  DemandInv'
BY DEF DemandInv, TypeOK, SentInOrder, NothingForgotten

LEMMA NextKeeps ==
  ASSUME DemandInv, [Next]_vars PROVE DemandInv'
<1>0. /\ service \in BOOLEAN /\ demanded \in Demands /\ ops \in 0..MaxOps /\ wire \in SUBSET Posts
      /\ {} \in Demands
  BY DEF DemandInv, TypeOK, Demands
<1>1. ASSUME CountOp PROVE ops' \in 0..MaxOps BY <1>0, <1>1, BoundAssumption DEF CountOp, BoundAssumption
<1>2. ASSUME NEW w \in Windows, NEW key \in SUBSET Clusters, ChangeDemand(w, key) PROVE DemandInv'
  BY <1>2, ChangeDemandKeeps
<1>3. ASSUME NEW w \in Windows, Answers(w) PROVE DemandInv'
  BY <1>3, AnswersKeep, SchedulesRetryKeeps DEF Answers
<1>4. ASSUME NEW w \in Windows, RetryFires(w) PROVE DemandInv' BY <1>4, RetryFiresKeeps
<1>5. ASSUME NEW w \in Windows, CloseWindow(w) PROVE DemandInv' BY <1>5, CloseWindowKeeps
<1>6. ASSUME NEW r \in wire, Handles(r) PROVE DemandInv'
  <2>1. r.key \in Demands BY <1>0 DEF Posts
  <2> QED BY <1>0, <1>6, <2>1, ServedKeeps DEF Handles
<1>7. ASSUME NEW r \in wire, Refuses(r) PROVE DemandInv' BY <1>0, <1>7, ServedKeeps DEF Refuses
<1>8. ASSUME NEW r \in wire, Unheard(r) PROVE DemandInv' BY <1>8, UnheardKeeps
<1>9. ASSUME NEW r \in wire, Loses(r) PROVE DemandInv' BY <1>0, <1>1, <1>9, ServedKeeps DEF Loses
<1>10. CASE ServiceStops BY <1>0, <1>1, <1>10, ElsewhereKeeps DEF ServiceStops
<1>11. CASE ServiceStarts BY <1>0, <1>1, <1>11, ElsewhereKeeps DEF ServiceStarts
<1>12. CASE UNCHANGED vars BY <1>0, <1>12, ElsewhereKeeps DEF vars
<1> QED BY <1>2, <1>3, <1>4, <1>5, <1>6, <1>7, <1>8, <1>9, <1>10, <1>11, <1>12 DEF Next, Serves

LEMMA InitDemand ==
  ASSUME Init PROVE DemandInv
<1>1. Start \in States /\ Start.status = "idle" /\ Start.applied = {} /\ {} \in Demands
  BY InitialInRange DEF Start, States, Demands
<1>2. TypeOK
  <2>1. demand \in [Windows -> Demands] /\ md \in [Windows -> States] BY <1>1 DEF Init
  <2>2. wire \in SUBSET Posts /\ service \in BOOLEAN /\ demanded \in Demands BY <1>1 DEF Init
  <2>3. ops \in 0..MaxOps BY BoundAssumption DEF Init, BoundAssumption
  <2> QED BY <2>1, <2>2, <2>3 DEF TypeOK
<1>3. SentInOrder BY DEF Init, SentInOrder
<1>4. NothingForgotten BY <1>1 DEF Init, NothingForgotten
<1> QED BY <1>2, <1>3, <1>4 DEF DemandInv

\* The delay of a retry stays within its limit, whatever fails and however often.
THEOREM DelaysBounded == Spec => []TypeOK
<1>1. DemandInv /\ [Next]_vars => DemandInv' BY NextKeeps
<1>2. DemandInv => TypeOK BY DEF DemandInv
<1> QED BY InitDemand, <1>1, <1>2, PTL DEF Spec

\* The demand changes of a window are sent in order.
THEOREM DemandSentInOrder == Spec => []SentInOrder
<1>1. DemandInv /\ [Next]_vars => DemandInv' BY NextKeeps
<1>2. DemandInv => SentInOrder BY DEF DemandInv
<1> QED BY InitDemand, <1>1, <1>2, PTL DEF Spec

\* No window rests on a set it no longer wants.
THEOREM DemandNotForgotten == Spec => []NothingForgotten
<1>1. DemandInv /\ [Next]_vars => DemandInv' BY NextKeeps
<1>2. DemandInv => NothingForgotten BY DEF DemandInv
<1> QED BY InitDemand, <1>1, <1>2, PTL DEF Spec
=============================================================================
