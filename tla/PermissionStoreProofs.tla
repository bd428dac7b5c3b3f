------------------------ MODULE PermissionStoreProofs ------------------------
(***************************************************************************)
(* Proofs about PermissionStore, for any queries, permissions, request     *)
(* limit and number of events.  An action builds the next state of the     *)
(* store in several calls (Want, Begin, Notify, Reset ...), each of which  *)
(* maps a world to a world; the invariant is therefore stated of a world,  *)
(* and World is the one the variables make up.                             *)
(***************************************************************************)
EXTENDS PermissionStore, FiniteSetTheorems, SequenceTheorems, TLAPS

Worlds == [store : Stores, wire : SUBSET CallRecords, view : ViewStates,
           asked : SUBSET Queries, unheard : SUBSET Queries]

\* The calls of w that will still be taken.
LiveOf(w) == {c \in w.wire : ~c.stale}

\* Types, and the limit of a request.
Typed(w) ==
  /\ w \in Worlds /\ w.unheard \subseteq w.asked
  /\ \A c \in w.wire : Cardinality(c.qs) <= MaxItems

\* AskingIsReal, for w; and a call asks for something that its batch asks for.
Asking(w) ==
  /\ w.store.asking = UNION {c.qs : c \in LiveOf(w)}
  /\ \A c, d \in LiveOf(w) : c # d => c.qs \cap d.qs = {}
  /\ \A c \in LiveOf(w) : c.qs # {} /\ c.qs \subseteq c.batch

\* NothingSurvivesReset, for w.
SinceReset(w) ==
  /\ w.store.asking \cup w.store.meta \cup w.store.stagger \subseteq w.asked
  /\ {q \in Queries : w.store.stamp[q] # "none"} \subseteq w.asked
  /\ \A p \in Permissions : w.store.results[p] # None => \E q \in w.asked : p \in Covers[q]

\* ListenersFollow, for w; and a notification that counts as scheduled is.
AwaitedOf(w, c) == UNION {d.qs : d \in {x \in LiveOf(w) : x.batch = c.batch}}
Shown(w) == w.view.map = Rebuilt(w.store)
Follows(w) ==
  /\ Shown(w) \/ \E c \in LiveOf(w) : AwaitedOf(w, c) # c.batch
  /\ w.view.read \/ w.view.handle
  /\ w.view.flag => w.view.handle

\* Apart from the queries of N, which are about to be asked, every namespace asked
\* for is under way or recorded, and a dated one is recorded.
Kept(w, N) ==
  /\ (w.asked \cap NsQueries) \ N \subseteq w.store.asking \cup w.store.meta
  /\ \A q \in NsQueries : w.store.stamp[q] # "none" => q \in w.store.meta

\* An announcement that the cluster is operational is still to come.
Coming(e) == ~e.up \/ \E i \in 1..Len(e.news) : e.news[i]

\* Apart from those of N, a namespace query without a date that is not under way
\* was refused by a cluster whose announcement is still to come; so was one whose
\* refusal is on its way.
Replayable(w, N, coming) ==
  /\ \A q \in ((w.asked \cap NsQueries) \ w.unheard) \ N :
       w.store.stamp[q] # "none" \/ q \in w.store.asking \cup w.store.stagger \/ coming
  /\ \A c \in LiveOf(w) : c.outcome = "inactive" => c.qs \cap NsQueries \subseteq w.unheard \/ coming

\* The part of the invariant that does not depend on the cluster.
Sound(w) == Typed(w) /\ Asking(w) /\ SinceReset(w) /\ Follows(w)

\* All of it, while the queries of N are about to be asked.
Good(w, N, coming) == Sound(w) /\ Kept(w, N) /\ Replayable(w, N, coming)

\* The inductive invariant.
StoreInv == env \in Environments /\ ops \in 0..MaxOps /\ Good(World, {}, Coming(env))
-----------------------------------------------------------------------------
(* Values.                                                                 *)
LEMMA EntryTypes ==
  /\ None \in Entries /\ Pending \in Entries /\ Error \in Entries
  /\ \A v \in 0..MaxVer : Ready(v) \in Entries
  /\ NoMap \in Maps
BY BoundsAssumption DEF BoundsAssumption, None, Pending, Error, Ready, Entries, Maps, NoMap

LEMMA RebuiltType ==
  ASSUME NEW s \in Stores
  PROVE  Rebuilt(s) \in Maps
<1>1. \A p \in Permissions : s.results[p] \in Entries
  BY DEF Stores, Maps
<1>2. ASSUME NEW p \in Permissions PROVE Rebuilt(s)[p] \in Entries
  BY <1>1, EntryTypes DEF Rebuilt
<1>3. Rebuilt(s) = [p \in Permissions |-> Rebuilt(s)[p]]
  BY DEF Rebuilt
<1> HIDE DEF Entries
<1> QED BY <1>2, <1>3 DEF Maps

\* What notify changes.
LEMMA NotifyFacts ==
  ASSUME NEW w \in Worlds
  PROVE  LET n == Notify(w) IN
         /\ n \in Worlds
         /\ n.store = w.store /\ n.wire = w.wire /\ n.asked = w.asked /\ n.unheard = w.unheard
         /\ n.view.map = Rebuilt(w.store) /\ ~n.view.read /\ n.view.flag
         /\ n.view.handle <=> (w.view.handle \/ ~w.view.flag)
<1> DEFINE v == [map |-> Rebuilt(w.store), read |-> FALSE, flag |-> TRUE,
                 handle |-> w.view.handle \/ ~w.view.flag]
<1>1. Notify(w) = [w EXCEPT !.view = v]
  BY DEF Notify
<1>2. v \in ViewStates
  BY RebuiltType DEF ViewStates, Worlds
<1>3. v.map = Rebuilt(w.store) /\ ~v.read /\ v.flag /\ (v.handle <=> (w.view.handle \/ ~w.view.flag))
  OBVIOUS
<1> HIDE DEF v
<1>4. [w EXCEPT !.view = v] \in Worlds /\ [w EXCEPT !.view = v].view = v
  BY <1>2 DEF Worlds
<1> QED BY <1>1, <1>3, <1>4 DEF Worlds

\* A notified world shows what the store knows.
LEMMA NotifyFollows ==
  ASSUME NEW w \in Worlds, w.view.flag => w.view.handle
  PROVE  Follows(Notify(w))
<1>1. w.view.flag \in BOOLEAN /\ w.view.handle \in BOOLEAN
  BY DEF Worlds, ViewStates
<1> QED BY <1>1, NotifyFacts DEF Follows, Shown
-----------------------------------------------------------------------------
(* Asking.  Whatever asks begins the queries N and sends the calls Cs for  *)
(* them.                                                                   *)
Sent(w, N, Cs) == [Notify(Begin(w, N)) EXCEPT !.wire = @ \cup Cs]

\* The calls ask for N, each query once, within the limit of a request.
Sendable(N, Cs) ==
  /\ Cs \subseteq CallRecords
  /\ UNION {c.qs : c \in Cs} = N
  /\ \A c, d \in Cs : c # d => c.qs \cap d.qs = {}
  /\ \A c \in Cs : /\ ~c.stale /\ c.outcome = "sent"
                   /\ c.qs # {} /\ c.qs \subseteq c.batch /\ Cardinality(c.qs) <= MaxItems

\* The store after N was begun.
Asked(s, N) == [s EXCEPT !.asking = @ \cup N]

LEMMA BeginFacts ==
  ASSUME NEW w \in Worlds, NEW N \in SUBSET Queries
  PROVE  LET b == Begin(w, N) IN
         /\ b \in Worlds
         /\ b.store = Asked(w.store, N)
         /\ b.wire = w.wire /\ b.view = w.view /\ b.asked = w.asked /\ b.unheard = w.unheard
<1>1. Asked(w.store, N) \in Stores
  BY DEF Worlds, Stores, Asked
<1> QED BY <1>1 DEF Begin, Worlds, Asked

LEMMA SentFacts ==
  ASSUME NEW w \in Worlds, NEW N \in SUBSET Queries, NEW Cs \in SUBSET CallRecords
  PROVE  LET n == Sent(w, N, Cs) IN
         /\ n \in Worlds
         /\ n.store = Asked(w.store, N)
         /\ n.wire = w.wire \cup Cs /\ n.asked = w.asked /\ n.unheard = w.unheard
         /\ Shown(n) /\ ~n.view.read /\ n.view.flag
         /\ n.view.handle <=> (w.view.handle \/ ~w.view.flag)
<1> DEFINE b == Begin(w, N)
           m == Notify(b)
<1>1. /\ b \in Worlds
      /\ b.store = Asked(w.store, N)
      /\ b.wire = w.wire /\ b.view = w.view /\ b.asked = w.asked /\ b.unheard = w.unheard
  BY BeginFacts
<1> HIDE DEF b
<1>2. /\ m \in Worlds
      /\ m.store = b.store /\ m.wire = b.wire /\ m.asked = b.asked /\ m.unheard = b.unheard
      /\ m.view.map = Rebuilt(b.store) /\ ~m.view.read /\ m.view.flag
      /\ m.view.handle <=> (b.view.handle \/ ~b.view.flag)
  BY <1>1, NotifyFacts
<1>3. Sent(w, N, Cs) = [m EXCEPT !.wire = @ \cup Cs]
  BY DEF Sent, m, b
<1> HIDE DEF m
<1>4. LET n == [m EXCEPT !.wire = @ \cup Cs] IN
      /\ n \in Worlds
      /\ n.store = m.store /\ n.wire = m.wire \cup Cs /\ n.asked = m.asked /\ n.unheard = m.unheard
      /\ n.view = m.view
  BY <1>2 DEF Worlds
<1> QED BY <1>1, <1>2, <1>3, <1>4 DEF Shown

LEMMA BegunStore ==
  ASSUME NEW s \in Stores, NEW N \in SUBSET Queries
  PROVE  LET n == Asked(s, N) IN
         /\ n.asking = s.asking \cup N
         /\ n.results = s.results /\ n.stamp = s.stamp /\ n.meta = s.meta /\ n.stagger = s.stagger
         /\ n.timer = s.timer /\ n.current = s.current /\ n.listening = s.listening
BY DEF Stores, Asked

\* Sending keeps the invariant, and leaves nothing of N to be asked.
LEMMA SentInv ==
  ASSUME NEW w \in Worlds, NEW N \in SUBSET Queries, NEW Cs \in SUBSET CallRecords,
         NEW coming \in BOOLEAN, Good(w, N, coming), Sendable(N, Cs),
         N \subseteq w.asked, N \cap w.store.asking = {}
  PROVE  Good(Sent(w, N, Cs), {}, coming)
<1> DEFINE n == Sent(w, N, Cs)
<1> USE DEF Good
<1>0. w.store \in Stores
  BY DEF Worlds
<1>1. /\ n \in Worlds
      /\ n.store = Asked(w.store, N)
      /\ n.wire = w.wire \cup Cs /\ n.asked = w.asked /\ n.unheard = w.unheard
      /\ Shown(n) /\ ~n.view.read /\ n.view.flag
      /\ n.view.handle <=> (w.view.handle \/ ~w.view.flag)
  BY <1>0, SentFacts
<1> HIDE DEF n
<1>2. /\ n.store.asking = w.store.asking \cup N
      /\ n.store.results = w.store.results /\ n.store.stamp = w.store.stamp
      /\ n.store.meta = w.store.meta /\ n.store.stagger = w.store.stagger
  BY <1>0, <1>1, BegunStore
<1>3. LiveOf(n) = LiveOf(w) \cup Cs
  BY <1>1 DEF LiveOf, Sendable
<1>4. Typed(n)
  BY <1>1 DEF Typed, Sound, Sendable
<1>5. Asking(n)
  <2>1. n.store.asking = UNION {c.qs : c \in LiveOf(n)}
    BY <1>2, <1>3 DEF Sound, Asking, Sendable
  <2>2. ASSUME NEW c \in LiveOf(w), NEW d \in Cs PROVE c.qs \cap d.qs = {}
    BY DEF Sound, Asking, Sendable
  <2>3. \A c, d \in LiveOf(n) : c # d => c.qs \cap d.qs = {}
    BY <1>3, <2>2 DEF Sound, Asking, Sendable
  <2>4. \A c \in LiveOf(n) : c.qs # {} /\ c.qs \subseteq c.batch
    BY <1>3 DEF Sound, Asking, Sendable
  <2> QED BY <2>1, <2>3, <2>4 DEF Asking
<1>6. SinceReset(n)
  BY <1>1, <1>2 DEF Sound, SinceReset
<1>7. Follows(n)
  <2>1. w.view.flag \in BOOLEAN /\ w.view.handle \in BOOLEAN
    BY <1>0 DEF Worlds, ViewStates
  <2> QED BY <1>1, <2>1 DEF Follows, Sound
<1>8. Kept(n, {})
  BY <1>1, <1>2 DEF Kept
<1>9. Replayable(n, {}, coming)
  BY <1>1, <1>2, <1>3 DEF Replayable, Sendable
<1> QED BY <1>4, <1>5, <1>6, <1>7, <1>8, <1>9 DEF Sound, n

\* Whoever wants qs has to ask for those of them that are neither under way nor
\* dated.
LEMMA WantInv ==
  ASSUME NEW w \in Worlds, NEW qs \in SUBSET Queries, NEW N \in SUBSET Queries,
         NEW coming \in BOOLEAN, Good(w, {}, coming),
         \A q \in (qs \cap NsQueries) \ N : q \in w.store.asking \/ w.store.stamp[q] # "none"
  PROVE  LET n == Want(w, qs) IN
         /\ n \in Worlds /\ Good(n, N, coming)
         /\ n.store = w.store /\ n.wire = w.wire /\ n.view = w.view /\ n.unheard = w.unheard
         /\ n.asked = w.asked \cup qs
<1> DEFINE n == Want(w, qs)
<1>1. /\ n \in Worlds
      /\ n.store = w.store /\ n.wire = w.wire /\ n.view = w.view /\ n.unheard = w.unheard
      /\ n.asked = w.asked \cup qs
  BY DEF Want, Worlds
<1> HIDE DEF n
<1>2. LiveOf(n) = LiveOf(w)
  BY <1>1 DEF LiveOf
<1>3. Typed(n)
  BY <1>1 DEF Typed, Sound, Good
<1>4. Asking(n)
  BY <1>1, <1>2 DEF Asking, Sound, Good
<1>5. SinceReset(n)
  BY <1>1 DEF SinceReset, Sound, Good
<1>6. Follows(n)
  BY <1>1, <1>2 DEF Follows, Shown, AwaitedOf, Sound, Good
<1>7. Kept(n, N)
  BY <1>1 DEF Kept, Good
<1>8. Replayable(n, N, coming)
  BY <1>1, <1>2 DEF Replayable, Good
<1> QED BY <1>1, <1>3, <1>4, <1>5, <1>6, <1>7, <1>8 DEF Good, Sound, n

\* Asking for more than is needed does no harm.
LEMMA GoodForMore ==
  ASSUME NEW w \in Worlds, NEW N \in SUBSET Queries, NEW coming \in BOOLEAN, Good(w, {}, coming)
  PROVE  Good(w, N, coming)
BY DEF Good, Kept, Replayable

LEMMA CallFacts ==
  ASSUME NEW qs \in SUBSET Queries, NEW batch \in SUBSET Queries
  PROVE  LET c == Call(qs, batch) IN
         /\ c \in CallRecords /\ c.qs = qs /\ c.batch = batch /\ c.outcome = "sent" /\ ~c.stale
BY BoundsAssumption DEF BoundsAssumption, Call, CallRecords

LEMMA OneFits ==
  ASSUME NEW q
  PROVE  Cardinality({q}) <= MaxItems
<1>1. Cardinality({q}) = 1
  BY FS_Singleton
<1> QED BY <1>1, BoundsAssumption DEF BoundsAssumption

\* One call for each query.
LEMMA EachSendable ==
  ASSUME NEW N \in SUBSET Queries
  PROVE  Sendable(N, {Call({q}, {q}) : q \in N})
<1>1. ASSUME NEW q \in N
      PROVE  LET c == Call({q}, {q}) IN
             /\ c \in CallRecords /\ c.qs = {q} /\ c.batch = {q} /\ c.outcome = "sent" /\ ~c.stale
             /\ Cardinality(c.qs) <= MaxItems
  <2>1. LET c == Call({q}, {q}) IN
        /\ c \in CallRecords /\ c.qs = {q} /\ c.batch = {q} /\ c.outcome = "sent" /\ ~c.stale
    BY CallFacts
  <2> QED BY <2>1, OneFits
<1> DEFINE Cs == {Call({q}, {q}) : q \in N}
<1>2. ASSUME NEW c \in Cs
      PROVE  \E q \in N : /\ c = Call({q}, {q}) /\ c \in CallRecords /\ c.qs = {q} /\ c.batch = {q}
                         /\ c.outcome = "sent" /\ ~c.stale /\ Cardinality(c.qs) <= MaxItems
  BY <1>1
<1>3. \A q \in N : Call({q}, {q}) \in Cs /\ Call({q}, {q}).qs = {q}
  BY <1>1
<1> HIDE DEF Cs
<1>4. UNION {c.qs : c \in Cs} = N
  <2>1. ASSUME NEW q \in N PROVE \E c \in Cs : q \in c.qs
    BY <1>3
  <2>2. ASSUME NEW c \in Cs, NEW q \in c.qs PROVE q \in N
    BY <1>2
  <2> QED BY <2>1, <2>2
<1>5. ASSUME NEW c \in Cs, NEW d \in Cs, c # d PROVE c.qs \cap d.qs = {}
  <2>1. PICK p \in N : c = Call({p}, {p}) /\ c.qs = {p}
    BY <1>2
  <2>2. PICK q \in N : d = Call({q}, {q}) /\ d.qs = {q}
    BY <1>2
  <2> QED BY <1>5, <2>1, <2>2
<1>6. \A c \in Cs : /\ c \in CallRecords /\ ~c.stale /\ c.outcome = "sent"
                   /\ c.qs # {} /\ c.qs \subseteq c.batch /\ Cardinality(c.qs) <= MaxItems
  BY <1>2
<1> QED BY <1>4, <1>5, <1>6 DEF Sendable, Cs

LEMMA OneSendable ==
  ASSUME NEW q \in Queries
  PROVE  Sendable({q}, {Call({q}, {q})})
<1>1. {Call({x}, {x}) : x \in {q}} = {Call({q}, {q})}
  OBVIOUS
<1> QED BY <1>1, EachSendable

\* The chunks of a batch.
LEMMA ChunksSendable ==
  ASSUME NEW N \in SUBSET Queries, NEW chunks \in Chunkings(N)
  PROVE  Sendable(N, {Call(a, N) : a \in chunks})
<1>1. /\ \A a \in chunks : a \in SUBSET Queries /\ a \subseteq N /\ a # {} /\ Cardinality(a) <= MaxItems
      /\ UNION chunks = N
      /\ \A a, b \in chunks : a # b => a \cap b = {}
  <2>1. chunks \subseteq (SUBSET N) \ {{}}
    BY DEF Chunkings
  <2>2. \A a \in chunks : a \subseteq N /\ a # {}
    BY <2>1
  <2> QED BY <2>2 DEF Chunkings
<1>2. ASSUME NEW a \in chunks
      PROVE  LET c == Call(a, N) IN
             /\ c \in CallRecords /\ c.qs = a /\ c.batch = N /\ c.outcome = "sent" /\ ~c.stale
  <2>1. a \in SUBSET Queries
    BY <1>1
  <2> QED BY <2>1, CallFacts
<1>3. UNION {c.qs : c \in {Call(a, N) : a \in chunks}} = N
  BY <1>1, <1>2
<1> QED BY <1>1, <1>2, <1>3 DEF Sendable
-----------------------------------------------------------------------------
(* The three ways to ask.                                                  *)
LEMMA AsksInv ==
  ASSUME NEW w \in Worlds, NEW N \in SUBSET Queries, NEW chunks, NEW coming \in BOOLEAN,
         Good(w, N, coming), N \subseteq w.asked, N \cap w.store.asking = {},
         Sendable(N, {Call(a, N) : a \in chunks})
  PROVE  Good(Asks(w, N, chunks), {}, coming)
<1> DEFINE Cs == {Call(a, N) : a \in chunks}
<1>1. CASE N = {}
  BY <1>1 DEF Asks
<1>2. CASE N # {}
  <2>1. Asks(w, N, chunks) = Sent(w, N, Cs)
    BY <1>2 DEF Asks, Sent
  <2>2. Cs \in SUBSET CallRecords /\ Sendable(N, Cs)
    BY DEF Sendable
  <2> HIDE DEF Cs
  <2> QED BY <2>1, <2>2, SentInv
<1> QED BY <1>1, <1>2

LEMMA SentOne ==
  ASSUME NEW w \in Worlds, NEW q \in Queries, NEW Cs \in SUBSET CallRecords
  PROVE  LET n == Sent(w, {q}, Cs) IN
         /\ n \in Worlds /\ n.store = Asked(w.store, {q}) /\ n.wire = w.wire \cup Cs
         /\ n.asked = w.asked /\ n.unheard = w.unheard
<1> DEFINE N == {q}
<1>1. N \in SUBSET Queries
  OBVIOUS
<1> HIDE DEF N
<1>2. LET n == Sent(w, N, Cs) IN
      /\ n \in Worlds
      /\ n.store = Asked(w.store, N)
      /\ n.wire = w.wire \cup Cs /\ n.asked = w.asked /\ n.unheard = w.unheard
      /\ Shown(n) /\ ~n.view.read /\ n.view.flag
      /\ n.view.handle <=> (w.view.handle \/ ~w.view.flag)
  BY <1>1, SentFacts
<1> QED BY <1>2 DEF N

\* What queryClusterPermissions leaves alone.
LEMMA ClusterInv ==
  ASSUME NEW w \in Worlds, NEW coming \in BOOLEAN, Good(w, {}, coming), ClusterQuery \in w.asked
  PROVE  LET n == ClusterPermissions(w) IN
         /\ n \in Worlds /\ Good(n, {}, coming)
         /\ n.store = Asked(w.store, {ClusterQuery})
         /\ n.asked = w.asked /\ n.unheard = w.unheard
         /\ \A c \in n.wire : c \in w.wire \/ c.outcome = "sent"
<1> DEFINE Cs == {Call({ClusterQuery}, {ClusterQuery})}
<1>1. {ClusterQuery} \in SUBSET Queries
  BY DEF Queries
<1>2. CASE ClusterQuery \in w.store.asking
  <2>1. w.store.asking \cup {ClusterQuery} = w.store.asking
    BY <1>2
  <2>2. Asked(w.store, {ClusterQuery}) = w.store
    BY <2>1 DEF Asked, Worlds, Stores
  <2> QED BY <1>2, <2>2 DEF ClusterPermissions
<1>3. CASE ClusterQuery \notin w.store.asking
  <2>1. ClusterPermissions(w) = Sent(w, {ClusterQuery}, Cs)
    BY <1>3 DEF ClusterPermissions, Sent
  <2>2. Sendable({ClusterQuery}, Cs) /\ Cs \in SUBSET CallRecords
    BY <1>1, OneSendable DEF Sendable
  <2>3. Good(w, {ClusterQuery}, coming)
    BY <1>1, GoodForMore
  <2> HIDE DEF Cs
  <2>4. Good(Sent(w, {ClusterQuery}, Cs), {}, coming)
    BY <1>1, <1>3, <2>2, <2>3, SentInv
  <2>5. LET n == Sent(w, {ClusterQuery}, Cs) IN
        /\ n \in Worlds /\ n.store = Asked(w.store, {ClusterQuery}) /\ n.wire = w.wire \cup Cs
        /\ n.asked = w.asked /\ n.unheard = w.unheard
    <3>1. ClusterQuery \in Queries
      BY DEF Queries
    <3> QED BY <2>2, <3>1, SentOne
  <2>6. \A c \in Cs : c.outcome = "sent"
    BY <2>2 DEF Sendable
  <2> QED BY <2>1, <2>4, <2>5, <2>6
<1> QED BY <1>2, <1>3

LEMMA CheckInv ==
  ASSUME NEW w \in Worlds, NEW q \in Queries, NEW coming \in BOOLEAN,
         Good(w, {}, coming), q \in w.asked
  PROVE  Good(CheckPermissions(w, {q}), {}, coming)
<1> DEFINE due == {x \in {q} : x \notin w.store.asking /\ w.store.stamp[x] # "fresh"}
           Cs == {Call({q}, {q})}
<1>1. CASE due = {}
  BY <1>1 DEF CheckPermissions
<1>2. CASE due # {}
  <2>1. due = {q} /\ q \notin w.store.asking
    BY <1>2
  <2>2. CheckPermissions(w, {q}) = Sent(w, {q}, Cs)
    BY <1>2, <2>1 DEF CheckPermissions, Sent
  <2>3. Sendable({q}, Cs) /\ Cs \in SUBSET CallRecords
    BY OneSendable DEF Sendable
  <2>4. Good(w, {q}, coming)
    BY GoodForMore
  <2> HIDE DEF Cs
  <2> QED BY <2>1, <2>2, <2>3, <2>4, SentInv
<1> QED BY <1>1, <1>2

\* A refresh asks for q, unless q is under way.
LEMMA RefreshInv ==
  ASSUME NEW w \in Worlds, NEW q \in Queries, NEW coming \in BOOLEAN,
         Good(w, {q}, coming), q \in w.asked
  PROVE  LET n == RefreshNamespace(w, q) IN
         /\ n \in Worlds /\ Good(n, {}, coming)
         /\ n.store = Asked(w.store, {q}) /\ n.asked = w.asked
<1> DEFINE Cs == {Call({q}, {q})}
<1>1. Targets(w, {q}, TRUE) = IF q \in w.store.asking THEN {} ELSE {q}
  BY DEF Targets
<1>2. CASE q \in w.store.asking
  <2>1. RefreshNamespace(w, q) = w
    BY <1>1, <1>2 DEF RefreshNamespace, Asks
  <2>2. w.store.asking \cup {q} = w.store.asking
    BY <1>2
  <2>3. Asked(w.store, {q}) = w.store
    BY <2>2 DEF Asked, Worlds, Stores
  <2>4. Good(w, {}, coming)
    BY <1>2 DEF Good, Kept, Replayable
  <2> QED BY <2>1, <2>3, <2>4
<1>3. CASE q \notin w.store.asking
  <2>1. RefreshNamespace(w, q) = Asks(w, {q}, {{q}})
    BY <1>1, <1>3 DEF RefreshNamespace
  <2>2. {Call(a, {q}) : a \in {{q}}} = Cs
    OBVIOUS
  <2>3. RefreshNamespace(w, q) = Sent(w, {q}, Cs)
    BY <2>1, <2>2 DEF Asks, Sent
  <2>4. Sendable({q}, Cs) /\ Cs \in SUBSET CallRecords
    BY OneSendable DEF Sendable
  <2> HIDE DEF Cs
  <2>5. Good(Sent(w, {q}, Cs), {}, coming)
    BY <1>3, <2>4, SentInv
  <2>6. LET n == Sent(w, {q}, Cs) IN n \in Worlds /\ n.store = Asked(w.store, {q}) /\ n.asked = w.asked
    BY <2>4, SentOne, ZenonT(60)
  <2> QED BY <2>3, <2>5, <2>6
<1> QED BY <1>2, <1>3
-----------------------------------------------------------------------------
(* resetPermissionStore leaves nothing that could break the invariant.     *)
LEMMA EmptiedFacts ==
  ASSUME NEW current \in Selections, NEW listening \in BOOLEAN
  PROVE  LET s == Emptied(current, listening) IN
         /\ s \in Stores
         /\ s.asking = {} /\ s.meta = {} /\ s.stagger = {}
         /\ s.listening = listening /\ s.current = current
         /\ \A q \in Queries : s.stamp[q] = "none"
         /\ \A p \in Permissions : s.results[p] = None
<1>1. [p \in Permissions |-> None] \in Maps
  BY EntryTypes DEF NoMap
<1> HIDE DEF Maps, None
<1> QED BY <1>1 DEF Emptied, Stores

LEMMA OutdatedCall ==
  ASSUME NEW c \in CallRecords
  PROVE  LET d == [c EXCEPT !.stale = TRUE] IN d \in CallRecords /\ d.stale /\ d.qs = c.qs
BY DEF CallRecords

\* A world that knows nothing, asks nothing and shows what it knows.
LEMMA BlankInv ==
  ASSUME NEW w \in Worlds, NEW coming \in BOOLEAN, LiveOf(w) = {}, w.unheard \subseteq w.asked,
         \A c \in w.wire : Cardinality(c.qs) <= MaxItems,
         w.store.asking = {}, w.store.meta = {}, w.store.stagger = {}, w.asked = {},
         \A q \in Queries : w.store.stamp[q] = "none",
         \A p \in Permissions : w.store.results[p] = None,
         Follows(w)
  PROVE  Good(w, {}, coming)
<1>0. \A q \in NsQueries : q \in Queries
  BY DEF Queries
<1>1. Typed(w)
  BY DEF Typed
<1>2. Asking(w)
  BY DEF Asking
<1>3. SinceReset(w)
  BY DEF SinceReset
<1>4. Kept(w, {}) /\ Replayable(w, {}, coming)
  BY <1>0 DEF Kept, Replayable
<1> QED BY <1>1, <1>2, <1>3, <1>4 DEF Good, Sound

LEMMA ResetInv ==
  ASSUME NEW w \in Worlds, NEW coming \in BOOLEAN, Typed(w)
  PROVE  Reset(w) \in Worlds /\ Good(Reset(w), {}, coming)
<1> DEFINE s == Emptied(w.store.current, w.store.listening)
           dead == {[c EXCEPT !.stale = TRUE] : c \in w.wire}
           b == [Cleared(w) EXCEPT !.view.handle = FALSE, !.view.flag = FALSE]
<1>1. w.store.current \in Selections /\ w.store.listening \in BOOLEAN
  BY DEF Worlds, Stores
<1>2. /\ s \in Stores
      /\ s.asking = {} /\ s.meta = {} /\ s.stagger = {}
      /\ \A q \in Queries : s.stamp[q] = "none"
      /\ \A p \in Permissions : s.results[p] = None
  BY <1>1, EmptiedFacts
<1>3. dead \subseteq CallRecords /\ \A d \in dead : d.stale /\ Cardinality(d.qs) <= MaxItems
  <2>1. ASSUME NEW c \in w.wire
        PROVE  LET d == [c EXCEPT !.stale = TRUE] IN
               d \in CallRecords /\ d.stale /\ Cardinality(d.qs) <= MaxItems
    <3>1. c \in CallRecords /\ Cardinality(c.qs) <= MaxItems
      BY DEF Worlds, Typed
    <3> QED BY <3>1, OutdatedCall
  <2> QED BY <2>1
<1> HIDE DEF s, dead
<1>4. LET c == Cleared(w) IN
      /\ c \in Worlds /\ c.store = s /\ c.wire = dead /\ c.asked = {} /\ c.unheard = {}
  BY <1>2, <1>3 DEF Cleared, Worlds, s, dead
<1>5. \A c \in Worlds : LET d == [c EXCEPT !.view.handle = FALSE, !.view.flag = FALSE] IN
         /\ d \in Worlds /\ ~d.view.flag
         /\ d.store = c.store /\ d.wire = c.wire /\ d.asked = c.asked /\ d.unheard = c.unheard
  BY DEF Worlds, ViewStates
<1>6. /\ b \in Worlds /\ b.store = s /\ b.wire = dead /\ ~b.view.flag
      /\ b.asked = {} /\ b.unheard = {}
  BY <1>4, <1>5
<1> HIDE DEF b
<1>7. Reset(w) = Notify(b)
  BY DEF Reset, b
<1> DEFINE n == Notify(b)
<1>8. /\ n \in Worlds
      /\ n.store = b.store /\ n.wire = b.wire /\ n.asked = b.asked /\ n.unheard = b.unheard
  BY <1>6, NotifyFacts
<1>9. Follows(n)
  BY <1>6, NotifyFollows
<1> HIDE DEF n
<1>10. LiveOf(n) = {}
  BY <1>3, <1>6, <1>8 DEF LiveOf
<1>11. Good(n, {}, coming)
  BY <1>2, <1>3, <1>6, <1>8, <1>9, <1>10, BlankInv
<1> QED BY <1>7, <1>8, <1>11 DEF n
-----------------------------------------------------------------------------
(* The end of a call.                                                      *)
LEMMA RecordedFacts ==
  ASSUME NEW results \in Maps, NEW c \in CallRecords
  PROVE  LET r == Recorded(results, c) IN
         /\ r \in Maps
         /\ \A p \in Permissions : r[p] = results[p] \/ \E q \in c.qs : p \in Covers[q]
<1> DEFINE checks == c.qs \subseteq Checks
           entry == CASE c.outcome = "answer" -> Ready(c.at)
                      [] c.outcome = "inactive" -> IF checks THEN Error ELSE None
                      [] OTHER -> IF checks THEN None ELSE Error
           covered == UNION {Covers[q] : q \in c.qs}
           r == [p \in Permissions |-> IF entry # None /\ p \in covered THEN entry ELSE results[p]]
<1>1. Recorded(results, c) = r
  BY DEF Recorded
<1>2. c.at \in 0..MaxVer
  BY DEF CallRecords
<1>3. entry \in Entries
  BY <1>2, EntryTypes
<1>4. \A p \in covered : \E q \in c.qs : p \in Covers[q]
  OBVIOUS
<1> HIDE DEF entry, covered
<1>5. r \in Maps
  BY <1>3 DEF Maps
<1> QED BY <1>1, <1>4, <1>5

\* The store after the live call c was taken.
Taken(s, c) ==
  [s EXCEPT !.results = Recorded(s.results, c),
            !.asking = s.asking \ c.qs,
            !.meta = Interest(s.meta, c),
            !.stamp = [q \in Queries |-> IF q \in c.qs /\ Dates(c) THEN "fresh" ELSE s.stamp[q]]]

LEMMA TakenFacts ==
  ASSUME NEW s \in Stores, NEW c \in CallRecords
  PROVE  LET t == Taken(s, c) IN
         /\ t \in Stores
         /\ t.asking = s.asking \ c.qs /\ t.meta = s.meta \cup (c.qs \cap NsQueries)
         /\ t.stagger = s.stagger
         /\ \A q \in Queries : t.stamp[q] = IF q \in c.qs /\ Dates(c) THEN "fresh" ELSE s.stamp[q]
         /\ \A p \in Permissions : t.results[p] = s.results[p] \/ \E q \in c.qs : p \in Covers[q]
<1> DEFINE r == Recorded(s.results, c)
           m == Interest(s.meta, c)
           st == [q \in Queries |-> IF q \in c.qs /\ Dates(c) THEN "fresh" ELSE s.stamp[q]]
<1>1. /\ r \in Maps
      /\ \A p \in Permissions : r[p] = s.results[p] \/ \E q \in c.qs : p \in Covers[q]
  BY RecordedFacts DEF Stores
<1>2. m = s.meta \cup (c.qs \cap NsQueries)
  BY DEF Interest
<1>3. st \in [Queries -> {"none", "fresh", "expired"}]
  BY DEF Stores
<1>4. \A q \in Queries : st[q] = IF q \in c.qs /\ Dates(c) THEN "fresh" ELSE s.stamp[q]
  OBVIOUS
<1>5. Taken(s, c) = [s EXCEPT !.results = r, !.asking = s.asking \ c.qs, !.meta = m, !.stamp = st]
  BY DEF Taken
<1> HIDE DEF r, m, st
<1>6. LET t == [s EXCEPT !.results = r, !.asking = s.asking \ c.qs, !.meta = m, !.stamp = st] IN
      /\ t \in Stores
      /\ t.asking = s.asking \ c.qs /\ t.meta = m /\ t.stagger = s.stagger
      /\ t.stamp = st /\ t.results = r
  BY <1>1, <1>2, <1>3 DEF Stores
<1> QED BY <1>1, <1>2, <1>4, <1>5, <1>6

\* The world after the live call c was taken, before anybody is notified.
Done(w, c) == [w EXCEPT !.wire = @ \ {c}, !.store = Taken(w.store, c)]

LEMMA DoneFacts ==
  ASSUME NEW w \in Worlds, NEW c \in CallRecords
  PROVE  LET n == Done(w, c) IN
         /\ n \in Worlds /\ n.store = Taken(w.store, c) /\ n.wire = w.wire \ {c}
         /\ n.view = w.view /\ n.asked = w.asked /\ n.unheard = w.unheard
<1>1. Taken(w.store, c) \in Stores
  BY TakenFacts DEF Worlds
<1> QED BY <1>1 DEF Done, Worlds

\* All of the invariant but what listeners are shown.
Unshown(w, N, coming) ==
  Typed(w) /\ Asking(w) /\ SinceReset(w) /\ Kept(w, N) /\ Replayable(w, N, coming)

LEMMA DoneInv ==
  ASSUME NEW w \in Worlds, NEW c \in LiveOf(w), NEW coming \in BOOLEAN,
         Good(w, {}, coming), c.outcome # "sent"
  PROVE  Unshown(Done(w, c), {}, coming)
<1> DEFINE n == Done(w, c)
<1>0. c \in CallRecords /\ c \in w.wire /\ ~c.stale /\ w.store \in Stores
  BY DEF LiveOf, Worlds
<1>1. /\ n \in Worlds /\ n.store = Taken(w.store, c) /\ n.wire = w.wire \ {c}
      /\ n.view = w.view /\ n.asked = w.asked /\ n.unheard = w.unheard
  BY <1>0, DoneFacts
<1> HIDE DEF n
<1>2. /\ n.store.asking = w.store.asking \ c.qs
      /\ n.store.meta = w.store.meta \cup (c.qs \cap NsQueries)
      /\ n.store.stagger = w.store.stagger
      /\ \A q \in Queries : n.store.stamp[q] = IF q \in c.qs /\ Dates(c) THEN "fresh" ELSE w.store.stamp[q]
      /\ \A p \in Permissions : n.store.results[p] = w.store.results[p] \/ \E q \in c.qs : p \in Covers[q]
  BY <1>0, <1>1, TakenFacts
<1>3. LiveOf(n) = LiveOf(w) \ {c}
  BY <1>1 DEF LiveOf
<1>4. /\ c.qs \subseteq w.store.asking /\ c.qs \subseteq w.asked
      /\ \A d \in LiveOf(w) : d # c => d.qs \cap c.qs = {}
  BY DEF Good, Sound, Asking, SinceReset
<1>5. Typed(n)
  BY <1>1 DEF Typed, Good, Sound
<1>6. Asking(n)
  <2>1. ASSUME NEW q \in n.store.asking PROVE \E d \in LiveOf(n) : q \in d.qs
    BY <1>2, <1>3 DEF Good, Sound, Asking
  <2>2. ASSUME NEW d \in LiveOf(n), NEW q \in d.qs PROVE q \in n.store.asking
    BY <1>2, <1>3, <1>4 DEF Good, Sound, Asking
  <2>3. n.store.asking = UNION {d.qs : d \in LiveOf(n)}
    BY <2>1, <2>2
  <2> QED BY <1>3, <2>3 DEF Good, Sound, Asking
<1>7. SinceReset(n)
  BY <1>1, <1>2, <1>4 DEF Good, Sound, SinceReset
<1>8. Kept(n, {})
  <2>1. \A q \in NsQueries : q \in Queries
    BY DEF Queries
  <2> QED BY <1>1, <1>2, <2>1 DEF Good, Kept
<1>9. Replayable(n, {}, coming)
  <2>1. ASSUME NEW q \in (w.asked \cap NsQueries) \ w.unheard
        PROVE  n.store.stamp[q] # "none" \/ q \in n.store.asking \cup n.store.stagger \/ coming
    <3>1. q \in Queries
      BY DEF Queries
    <3>2. CASE q \in c.qs /\ Dates(c)
      BY <1>2, <3>1, <3>2
    <3>3. CASE q \in c.qs /\ ~Dates(c)
      <4>1. c.outcome = "inactive"
        BY <3>3 DEF Dates
      <4> QED BY <3>3, <4>1 DEF Good, Replayable
    <3>4. CASE q \notin c.qs
      BY <1>2, <3>1, <3>4 DEF Good, Replayable
    <3> QED BY <3>2, <3>3, <3>4
  <2>2. \A d \in LiveOf(n) : d.outcome = "inactive" => d.qs \cap NsQueries \subseteq n.unheard \/ coming
    BY <1>1, <1>3 DEF Good, Replayable
  <2> QED BY <1>1, <2>1, <2>2 DEF Replayable
<1> QED BY <1>5, <1>6, <1>7, <1>8, <1>9 DEF Unshown, n

\* notify shows the rest.
LEMMA NotifyInv ==
  ASSUME NEW w \in Worlds, NEW N \in SUBSET Queries, NEW coming \in BOOLEAN,
         Unshown(w, N, coming), w.view.flag => w.view.handle
  PROVE  Good(Notify(w), N, coming)
<1> DEFINE n == Notify(w)
<1>1. /\ n \in Worlds
      /\ n.store = w.store /\ n.wire = w.wire /\ n.asked = w.asked /\ n.unheard = w.unheard
  BY NotifyFacts
<1>2. Follows(n)
  BY NotifyFollows
<1> HIDE DEF n
<1>3. LiveOf(n) = LiveOf(w)
  BY <1>1 DEF LiveOf
<1>4. Typed(n) /\ SinceReset(n) /\ Kept(n, N)
  BY <1>1 DEF Unshown, Typed, SinceReset, Kept
<1>5. Asking(n) /\ Replayable(n, N, coming)
  BY <1>1, <1>3 DEF Unshown, Asking, Replayable
<1> QED BY <1>2, <1>4, <1>5 DEF Good, Sound, n

\* A call of an older generation is dropped.
LEMMA DroppedInv ==
  ASSUME NEW w \in Worlds, NEW c \in w.wire, NEW coming \in BOOLEAN, Good(w, {}, coming), c.stale
  PROVE  Good([w EXCEPT !.wire = @ \ {c}], {}, coming)
<1> DEFINE n == [w EXCEPT !.wire = @ \ {c}]
<1>1. /\ n \in Worlds /\ n.wire = w.wire \ {c}
      /\ n.store = w.store /\ n.view = w.view /\ n.asked = w.asked /\ n.unheard = w.unheard
  BY DEF Worlds
<1> HIDE DEF n
<1>2. LiveOf(n) = LiveOf(w)
  BY <1>1 DEF LiveOf
<1>3. Typed(n) /\ SinceReset(n) /\ Kept(n, {})
  BY <1>1 DEF Good, Sound, Typed, SinceReset, Kept
<1>4. Asking(n) /\ Replayable(n, {}, coming)
  BY <1>1, <1>2 DEF Good, Sound, Asking, Replayable
<1>5. Follows(n)
  BY <1>1, <1>2 DEF Good, Sound, Follows, Shown, AwaitedOf
<1> QED BY <1>3, <1>4, <1>5 DEF Good, Sound, n

LEMMA ReturnedInv ==
  ASSUME NEW w \in Worlds, NEW c \in w.wire, NEW coming \in BOOLEAN,
         Good(w, {}, coming), c.outcome # "sent" \/ c.stale
  PROVE  Good(Returned(w, c), {}, coming)
<1> DEFINE rest == [w EXCEPT !.wire = @ \ {c}]
           done == [rest EXCEPT !.store = Taken(w.store, c)]
           last == \A d \in rest.wire : d.stale \/ d.batch # c.batch
<1>1. Returned(w, c) = IF ~Current(c) THEN rest ELSE IF last THEN Notify(done) ELSE done
  BY DEF Returned, Taken
<1>2. CASE c.stale
  <2>1. Returned(w, c) = rest
    BY <1>1, <1>2 DEF Current
  <2>2. Good(rest, {}, coming)
    BY <1>2, DroppedInv
  <2> QED BY <2>1, <2>2
<1>3. CASE ~c.stale
  <2>0. c \in LiveOf(w) /\ c \in CallRecords
    BY <1>3 DEF LiveOf, Worlds
  <2>1. rest.wire = w.wire \ {c} /\ done = Done(w, c)
    BY DEF Done, Worlds
  <2>2. Returned(w, c) = IF last THEN Notify(Done(w, c)) ELSE Done(w, c)
    BY <1>1, <1>3, <2>1 DEF Current
  <2> DEFINE n == Done(w, c)
  <2>3. Unshown(n, {}, coming)
    BY <1>3, <2>0, DoneInv
  <2>4. /\ n \in Worlds /\ n.wire = w.wire \ {c} /\ n.view = w.view
    BY <2>0, DoneFacts
  <2> HIDE DEF n
  <2>5. n.view.flag => n.view.handle
    BY <2>4 DEF Good, Sound, Follows
  <2>6. CASE last
    <3>1. Good(Notify(n), {}, coming)
      BY <2>3, <2>4, <2>5, NotifyInv
    <3> QED BY <2>2, <2>6, <3>1 DEF n
  <2>7. CASE ~last
    <3>1. PICK d \in w.wire \ {c} : ~d.stale /\ d.batch = c.batch
      BY <2>1, <2>7
    <3>2. d \in LiveOf(n)
      BY <2>4, <3>1 DEF LiveOf
    <3>3. c.qs # {} /\ c.qs \subseteq c.batch
      BY <2>0 DEF Good, Sound, Asking
    <3>4. \A x \in LiveOf(n) : x.qs \cap c.qs = {}
      BY <2>0, <2>4 DEF LiveOf, Good, Sound, Asking
    <3>5. AwaitedOf(n, d) # d.batch
      BY <3>1, <3>3, <3>4 DEF AwaitedOf
    <3>6. Follows(n)
      BY <2>4, <3>2, <3>5 DEF Good, Sound, Follows
    <3>7. Good(n, {}, coming)
      BY <2>3, <3>6 DEF Good, Sound, Unshown
    <3> QED BY <2>2, <2>7, <3>7 DEF n
  <2> QED BY <2>6, <2>7
<1> QED BY <1>2, <1>3
-----------------------------------------------------------------------------
(* The backend answers, or fails.                                          *)
Evaluated(w, c, outcome, at) ==
  [w EXCEPT !.wire = (@ \ {c}) \cup {[c EXCEPT !.outcome = outcome, !.at = at]}]

LEMMA EvaluatedInv ==
  ASSUME NEW w \in Worlds, NEW c \in LiveOf(w), NEW coming \in BOOLEAN,
         NEW outcome \in {"answer", "inactive", "failed"}, NEW at \in 0..MaxVer,
         Good(w, {}, coming), outcome = "inactive" => coming
  PROVE  Good(Evaluated(w, c, outcome, at), {}, coming)
<1> DEFINE e == [c EXCEPT !.outcome = outcome, !.at = at]
           n == Evaluated(w, c, outcome, at)
<1>0. c \in CallRecords /\ c \in w.wire /\ ~c.stale
  BY DEF LiveOf, Worlds
<1>1. e \in CallRecords /\ e.qs = c.qs /\ e.batch = c.batch /\ e.outcome = outcome /\ ~e.stale
  BY <1>0 DEF CallRecords
<1>2. n = [w EXCEPT !.wire = (@ \ {c}) \cup {e}]
  BY DEF Evaluated
<1> HIDE DEF e
<1>3. /\ n \in Worlds /\ n.wire = (w.wire \ {c}) \cup {e}
      /\ n.store = w.store /\ n.view = w.view /\ n.asked = w.asked /\ n.unheard = w.unheard
  BY <1>1, <1>2 DEF Worlds
<1> HIDE DEF n
<1>4. LiveOf(n) = (LiveOf(w) \ {c}) \cup {e}
  BY <1>0, <1>1, <1>3 DEF LiveOf
<1>5. Typed(n) /\ SinceReset(n) /\ Kept(n, {})
  BY <1>0, <1>1, <1>3 DEF Good, Sound, Typed, SinceReset, Kept
<1>6. Asking(n)
  <2>1. UNION {d.qs : d \in LiveOf(n)} = UNION {d.qs : d \in LiveOf(w)}
    BY <1>1, <1>4
  <2> QED BY <1>1, <1>3, <1>4, <2>1 DEF Good, Sound, Asking
<1>7. Replayable(n, {}, coming)
  BY <1>1, <1>3, <1>4 DEF Good, Replayable
<1>8. Follows(n)
  <2>1. ASSUME NEW x \in LiveOf(w), AwaitedOf(w, x) # x.batch
        PROVE  \E y \in LiveOf(n) : AwaitedOf(n, y) # y.batch
    <3>1. PICK y \in LiveOf(n) : y.batch = x.batch
      BY <1>1, <1>4
    <3>2. AwaitedOf(n, y) = AwaitedOf(w, x)
      BY <1>1, <1>4, <3>1 DEF AwaitedOf
    <3> QED BY <2>1, <3>1, <3>2
  <2> QED BY <1>3, <2>1 DEF Good, Sound, Follows, Shown
<1> QED BY <1>5, <1>6, <1>7, <1>8 DEF Good, Sound, n
-----------------------------------------------------------------------------
(* Changes of the store that ask nothing.                                  *)
\* What leaves the timers of staggered refreshes is about to be asked.
LEMMA SameInv ==
  ASSUME NEW w \in Worlds, NEW n \in Worlds, NEW N \in SUBSET Queries, NEW coming \in BOOLEAN,
         Good(w, {}, coming),
         n.wire = w.wire, n.view = w.view, n.asked = w.asked, n.unheard = w.unheard,
         n.store.asking = w.store.asking, n.store.meta = w.store.meta,
         n.store.results = w.store.results,
         \A q \in Queries : n.store.stamp[q] = "none" <=> w.store.stamp[q] = "none",
         n.store.stagger \subseteq w.asked, w.store.stagger \ n.store.stagger \subseteq N
  PROVE  Good(n, N, coming)
<1>1. LiveOf(n) = LiveOf(w)
  BY DEF LiveOf
<1>2. \A q \in NsQueries : q \in Queries
  BY DEF Queries
<1>3. Rebuilt(n.store) = Rebuilt(w.store)
  BY DEF Rebuilt
<1>4. Typed(n)
  BY DEF Good, Sound, Typed
<1>5. Asking(n)
  BY <1>1 DEF Good, Sound, Asking
<1>6. SinceReset(n)
  BY DEF Good, Sound, SinceReset
<1>7. Follows(n)
  BY <1>1, <1>3 DEF Good, Sound, Follows, Shown, AwaitedOf
<1>8. Kept(n, N)
  BY <1>2 DEF Good, Kept
<1>9. Replayable(n, N, coming)
  BY <1>1, <1>2 DEF Good, Replayable
<1> QED BY <1>4, <1>5, <1>6, <1>7, <1>8, <1>9 DEF Good, Sound

\* initializePermissionStore and the event of a selection want the cluster query.
LEMMA WantClusterInv ==
  ASSUME NEW w \in Worlds, NEW coming \in BOOLEAN, Good(w, {}, coming)
  PROVE  LET n == ClusterPermissions(Want(w, {ClusterQuery})) IN
         /\ n \in Worlds /\ Good(n, {}, coming)
         /\ n.store = Asked(w.store, {ClusterQuery})
         /\ n.asked = w.asked \cup {ClusterQuery} /\ n.unheard = w.unheard
         /\ \A c \in n.wire : c \in w.wire \/ c.outcome = "sent"
<1> DEFINE qs == {ClusterQuery}
           v == Want(w, qs)
<1>1. qs \in SUBSET Queries /\ qs \cap NsQueries = {} /\ ClusterQuery \in qs
  BY QueriesAssumption DEF QueriesAssumption, Queries
<1>2. /\ v \in Worlds /\ Good(v, {}, coming)
      /\ v.store = w.store /\ v.wire = w.wire /\ v.view = w.view /\ v.unheard = w.unheard
      /\ v.asked = w.asked \cup qs
  <2> HIDE DEF qs
  <2> QED BY <1>1, WantInv
<1> HIDE DEF v
<1>3. LET n == ClusterPermissions(v) IN
      /\ n \in Worlds /\ Good(n, {}, coming)
      /\ n.store = Asked(v.store, {ClusterQuery})
      /\ n.asked = v.asked /\ n.unheard = v.unheard
      /\ \A c \in n.wire : c \in v.wire \/ c.outcome = "sent"
  BY <1>1, <1>2, ClusterInv
<1> QED BY <1>2, <1>3 DEF v

LEMMA InitializeInv ==
  ASSUME NEW w \in Worlds, NEW coming \in BOOLEAN, NEW cluster, Good(w, {}, coming)
  PROVE  Good(Initialize(w, cluster), {}, coming)
<1> DEFINE on == [w EXCEPT !.store.timer = TRUE, !.store.listening = TRUE]
<1>1. /\ on \in Worlds /\ on.wire = w.wire /\ on.view = w.view
      /\ on.asked = w.asked /\ on.unheard = w.unheard
      /\ on.store.asking = w.store.asking /\ on.store.meta = w.store.meta
      /\ on.store.results = w.store.results /\ on.store.stamp = w.store.stamp
      /\ on.store.stagger = w.store.stagger
  BY DEF Worlds, Stores
<1>2. Initialize(w, cluster) = IF cluster = "this" THEN ClusterPermissions(Want(on, {ClusterQuery})) ELSE on
  BY DEF Initialize
<1> HIDE DEF on
<1>3. w.store.stagger \subseteq w.asked
  BY DEF Good, Sound, SinceReset
<1>4. Good(on, {}, coming)
  BY <1>1, <1>3, SameInv
<1>5. Good(ClusterPermissions(Want(on, {ClusterQuery})), {}, coming)
  BY <1>1, <1>4, WantClusterInv
<1> QED BY <1>2, <1>4, <1>5

LEMMA SetActiveInv ==
  ASSUME NEW w \in Worlds, NEW coming \in BOOLEAN, NEW cluster \in Selections, NEW operational \in BOOLEAN,
         Good(w, {}, coming)
  PROVE  Good(SetActive(w, cluster, operational), {}, coming)
<1> DEFINE active == [w EXCEPT !.store.current = cluster]
<1>1. /\ active \in Worlds /\ active.wire = w.wire /\ active.view = w.view
      /\ active.asked = w.asked /\ active.unheard = w.unheard
      /\ active.store.asking = w.store.asking /\ active.store.meta = w.store.meta
      /\ active.store.results = w.store.results /\ active.store.stamp = w.store.stamp
      /\ active.store.stagger = w.store.stagger
  BY DEF Worlds, Stores
<1>2. SetActive(w, cluster, operational) =
        IF cluster = "none" THEN Reset(active)
        ELSE IF operational THEN Initialize(active, cluster) ELSE active
  BY DEF SetActive
<1> HIDE DEF active
<1>3. w.store.stagger \subseteq w.asked
  BY DEF Good, Sound, SinceReset
<1>4. Good(active, {}, coming)
  BY <1>1, <1>3, SameInv
<1>5. Typed(active)
  BY <1>4 DEF Good, Sound
<1> QED BY <1>1, <1>2, <1>4, <1>5, ResetInv, InitializeInv
-----------------------------------------------------------------------------
(* Timers.                                                                 *)
LEMMA AskedFacts ==
  ASSUME NEW w \in Worlds, NEW n \in Worlds, NEW q \in Queries, n.store = Asked(w.store, {q})
  PROVE  /\ n.store.asking = w.store.asking \cup {q}
         /\ n.store.results = w.store.results /\ n.store.stamp = w.store.stamp
         /\ n.store.meta = w.store.meta /\ n.store.stagger = w.store.stagger
         /\ n.store.listening = w.store.listening
<1>1. w.store \in Stores /\ {q} \in SUBSET Queries
  BY DEF Worlds
<1> QED BY <1>1, BegunStore

\* The first namespace is asked, the others wait.
LEMMA TickInv ==
  ASSUME NEW w \in Worlds, NEW coming \in BOOLEAN, NEW due \in SUBSET NsQueries, NEW first \in due,
         Good(w, {}, coming), due \subseteq w.asked
  PROVE  Good([RefreshNamespace(w, first) EXCEPT !.store.stagger = @ \cup (due \ {first})], {}, coming)
<1> DEFINE r == RefreshNamespace(w, first)
           n == [r EXCEPT !.store.stagger = @ \cup (due \ {first})]
<1>1. first \in Queries /\ {first} \in SUBSET Queries
  BY DEF Queries
<1>2. Good(w, {first}, coming)
  BY <1>1, GoodForMore
<1>3. /\ r \in Worlds /\ Good(r, {}, coming) /\ r.asked = w.asked
  BY <1>1, <1>2, RefreshInv
<1> HIDE DEF r
<1>4. /\ n \in Worlds /\ n.wire = r.wire /\ n.view = r.view
      /\ n.asked = r.asked /\ n.unheard = r.unheard
      /\ n.store.asking = r.store.asking /\ n.store.meta = r.store.meta
      /\ n.store.results = r.store.results /\ n.store.stamp = r.store.stamp
      /\ n.store.stagger = r.store.stagger \cup (due \ {first})
  BY <1>3 DEF Worlds, Stores
<1>5. r.store.stagger \subseteq r.asked
  BY <1>3 DEF Good, Sound, SinceReset
<1> HIDE DEF n
<1>6. Good(n, {}, coming)
  BY <1>3, <1>4, <1>5, SameInv
<1> QED BY <1>6 DEF n, r

LEMMA StaggerInv ==
  ASSUME NEW w \in Worlds, NEW coming \in BOOLEAN, NEW q \in NsQueries,
         Good(w, {}, coming), q \in w.store.stagger
  PROVE  Good(RefreshNamespace([w EXCEPT !.store.stagger = @ \ {q}], q), {}, coming)
<1> DEFINE n == [w EXCEPT !.store.stagger = @ \ {q}]
<1>1. /\ n \in Worlds /\ n.wire = w.wire /\ n.view = w.view
      /\ n.asked = w.asked /\ n.unheard = w.unheard
      /\ n.store.asking = w.store.asking /\ n.store.meta = w.store.meta
      /\ n.store.results = w.store.results /\ n.store.stamp = w.store.stamp
      /\ n.store.stagger = w.store.stagger \ {q}
  BY DEF Worlds, Stores
<1> HIDE DEF n
<1>2. w.store.stagger \subseteq w.asked
  BY DEF Good, Sound, SinceReset
<1>3. q \in Queries /\ {q} \in SUBSET Queries
  BY DEF Queries
<1>4. Good(n, {q}, coming)
  BY <1>1, <1>2, <1>3, SameInv
<1>5. Good(RefreshNamespace(n, q), {}, coming)
  BY <1>1, <1>2, <1>3, <1>4, RefreshInv
<1> QED BY <1>5 DEF n
-----------------------------------------------------------------------------
(* An operational cluster:lifecycle event.  Nothing is left to come: what  *)
(* is neither under way nor unheard was replayed.                          *)
LEMMA UnheardInv ==
  ASSUME NEW w \in Worlds, NEW U \in SUBSET w.asked, NEW coming \in BOOLEAN, NEW old \in BOOLEAN,
         Good(w, {}, old),
         \A q \in (w.asked \cap NsQueries) \ U : q \in w.store.asking,
         \A c \in LiveOf(w) : c.outcome = "inactive" => c.qs \cap NsQueries \subseteq U
  PROVE  Good([w EXCEPT !.unheard = U], {}, coming)
<1> DEFINE n == [w EXCEPT !.unheard = U]
<1>1. /\ n \in Worlds /\ n.store = w.store /\ n.wire = w.wire /\ n.view = w.view
      /\ n.asked = w.asked /\ n.unheard = U
  BY DEF Worlds
<1> HIDE DEF n
<1>2. LiveOf(n) = LiveOf(w)
  BY <1>1 DEF LiveOf
<1>3. Typed(n) /\ SinceReset(n) /\ Kept(n, {})
  BY <1>1 DEF Good, Sound, Typed, SinceReset, Kept
<1>4. Asking(n)
  BY <1>1, <1>2 DEF Good, Sound, Asking
<1>5. Follows(n)
  BY <1>1, <1>2 DEF Good, Sound, Follows, Shown, AwaitedOf
<1>6. Replayable(n, {}, coming)
  BY <1>1, <1>2 DEF Replayable
<1> QED BY <1>3, <1>4, <1>5, <1>6 DEF Good, Sound, n

LEMMA OperationalInv ==
  ASSUME NEW w \in Worlds, NEW coming \in BOOLEAN, NEW old \in BOOLEAN, Good(w, {}, old)
  PROVE  Good(Operational(w), {}, coming)
<1> DEFINE cluster == IF w.store.current = "this" THEN ClusterPermissions(Want(w, {ClusterQuery})) ELSE w
           again == w.store.meta \ w.store.asking
           Cs == {Call({q}, {q}) : q \in again}
           replayed == IF again = {} THEN cluster ELSE Sent(cluster, again, Cs)
           U == w.asked \cap NsQueries \cap w.store.asking
<1>0. /\ \A c \in LiveOf(w) : c.qs \subseteq w.store.asking
      /\ w.store.asking \subseteq w.asked /\ w.store.meta \subseteq w.asked
      /\ w.asked \cap NsQueries \subseteq w.store.asking \cup w.store.meta
      /\ again \in SUBSET Queries /\ again \subseteq NsQueries
  <2>1. w.store.meta \subseteq NsQueries
    BY DEF Worlds, Stores
  <2>2. NsQueries \subseteq Queries
    BY DEF Queries
  <2> QED BY <2>1, <2>2 DEF Good, Sound, Asking, SinceReset, Kept
<1>1. Operational(w) = IF ~w.store.listening THEN [w EXCEPT !.unheard = w.asked \cap NsQueries]
                       ELSE [replayed EXCEPT !.unheard = U]
  BY DEF Operational, Sent
<1>2. CASE ~w.store.listening
  <2>1. Good([w EXCEPT !.unheard = w.asked \cap NsQueries], {}, coming)
    BY <1>0, UnheardInv
  <2> QED BY <1>1, <1>2, <2>1
<1>3. CASE w.store.listening
  <2>1. /\ cluster \in Worlds /\ Good(cluster, {}, old)
        /\ cluster.store.meta = w.store.meta /\ cluster.asked \cap NsQueries = w.asked \cap NsQueries
        /\ w.asked \subseteq cluster.asked
        /\ w.store.asking \subseteq cluster.store.asking
        /\ cluster.store.asking \cap NsQueries = w.store.asking \cap NsQueries
        /\ \A c \in cluster.wire : c \in w.wire \/ c.outcome = "sent"
    <3> DEFINE v == ClusterPermissions(Want(w, {ClusterQuery}))
    <3>1. /\ v \in Worlds /\ Good(v, {}, old)
          /\ v.store = Asked(w.store, {ClusterQuery})
          /\ v.asked = w.asked \cup {ClusterQuery} /\ v.unheard = w.unheard
          /\ \A c \in v.wire : c \in w.wire \/ c.outcome = "sent"
      BY WantClusterInv
    <3> HIDE DEF v
    <3>2. ClusterQuery \in Queries /\ ClusterQuery \notin NsQueries
      BY QueriesAssumption DEF QueriesAssumption, Queries
    <3>3. v.store.asking = w.store.asking \cup {ClusterQuery} /\ v.store.meta = w.store.meta
      BY <3>1, <3>2, AskedFacts
    <3>4. cluster = IF w.store.current = "this" THEN v ELSE w
      BY DEF v
    <3> HIDE DEF cluster
    <3> QED BY <3>1, <3>2, <3>3, <3>4
  <2>2. Sendable(again, Cs) /\ Cs \in SUBSET CallRecords
    BY <1>0, EachSendable DEF Sendable
  <2>3. again \subseteq cluster.asked /\ again \cap cluster.store.asking = {}
    BY <1>0, <2>1
  <2> HIDE DEF cluster, Cs, again
  <2>4. Good(cluster, again, old)
    BY <1>0, <2>1, GoodForMore
  <2> DEFINE n == Sent(cluster, again, Cs)
  <2>5. Good(n, {}, old)
    BY <1>0, <2>1, <2>2, <2>3, <2>4, SentInv
  <2>6. LET x == Sent(cluster, again, Cs) IN
        /\ x \in Worlds
        /\ x.store = Asked(cluster.store, again)
        /\ x.wire = cluster.wire \cup Cs /\ x.asked = cluster.asked /\ x.unheard = cluster.unheard
        /\ Shown(x) /\ ~x.view.read /\ x.view.flag
        /\ x.view.handle <=> (cluster.view.handle \/ ~cluster.view.flag)
    BY <1>0, <2>1, <2>2, SentFacts
  <2>7. n.store.asking = cluster.store.asking \cup again
    <3>1. cluster.store \in Stores
      BY <2>1 DEF Worlds
    <3> QED BY <1>0, <2>6, <3>1, BegunStore
  <2> HIDE DEF n
  <2>8. /\ replayed \in Worlds /\ Good(replayed, {}, old)
        /\ replayed.asked \cap NsQueries = w.asked \cap NsQueries /\ w.asked \subseteq replayed.asked
        /\ w.store.asking \subseteq replayed.store.asking /\ again \subseteq replayed.store.asking
        /\ \A c \in replayed.wire : c \in w.wire \/ c.outcome = "sent"
    <3>1. CASE again = {}
      BY <2>1, <3>1
    <3>2. CASE again # {}
      <4>1. replayed = n
        BY <3>2 DEF n
      <4>2. \A c \in Cs : c.outcome = "sent"
        BY <2>2 DEF Sendable
      <4> HIDE DEF replayed
      <4> QED BY <2>1, <2>5, <2>6, <2>7, <4>1, <4>2 DEF n
    <3> QED BY <3>1, <3>2
  <2> HIDE DEF replayed
  <2>9. U \in SUBSET replayed.asked
    BY <2>8
  <2>10. \A q \in (replayed.asked \cap NsQueries) \ U : q \in replayed.store.asking
    BY <1>0, <2>8 DEF again
  <2>11. ASSUME NEW c \in LiveOf(replayed), c.outcome = "inactive" PROVE c.qs \cap NsQueries \subseteq U
    <3>1. c \in LiveOf(w)
      BY <2>8, <2>11 DEF LiveOf
    <3> QED BY <1>0, <3>1
  <2> HIDE DEF U
  <2>12. Good([replayed EXCEPT !.unheard = U], {}, coming)
    BY <2>8, <2>9, <2>10, <2>11, UnheardInv
  <2> QED BY <1>1, <1>3, <2>12
<1> QED BY <1>2, <1>3 DEF Worlds, Stores
-----------------------------------------------------------------------------
(* Actions.                                                                *)
LEMMA BecomeInv ==
  ASSUME NEW w, NEW coming \in BOOLEAN, Good(w, {}, coming), Become(w)
  PROVE  Good(World', {}, coming)
<1>1. w \in Worlds
  BY DEF Good, Sound, Typed
<1>2. w = [store |-> w.store, wire |-> w.wire, view |-> w.view, asked |-> w.asked, unheard |-> w.unheard]
  BY <1>1 DEF Worlds
<1>3. World' = w
  BY <1>2 DEF Become, World
<1> QED BY <1>3

LEMMA WorldFields ==
  /\ World.store = store /\ World.wire = wire /\ World.view = view
  /\ World.asked = asked /\ World.unheard = unheard
BY DEF World

\* What the invariant says of the variables.
LEMMA GoodWorld ==
  ASSUME StoreInv
  PROVE  World \in Worlds /\ Good(World, {}, Coming(env)) /\ Coming(env) \in BOOLEAN
BY DEF StoreInv, Good, Sound, Typed, Coming

LEMMA Later ==
  ASSUME NEW w, NEW coming \in BOOLEAN, NEW later \in BOOLEAN, Good(w, {}, coming), coming => later
  PROVE  Good(w, {}, later)
BY DEF Good, Replayable

\* A step that leaves the cluster alone and makes the world a good one.
LEMMA StepInv ==
  ASSUME StoreInv, NEW w, Good(w, {}, Coming(env)), Become(w), UNCHANGED env, ops' \in 0..MaxOps
  PROVE  StoreInv'
<1>1. Good(World', {}, Coming(env))
  BY GoodWorld, BecomeInv
<1>2. Coming(env') = Coming(env)
  BY DEF Coming
<1> QED BY <1>1, <1>2 DEF StoreInv

LEMMA CountOpType ==
  ASSUME ops \in 0..MaxOps, CountOp
  PROVE  ops' \in 0..MaxOps
BY BoundsAssumption DEF CountOp, BoundsAssumption

LEMMA ViewAsksStep ==
  ASSUME StoreInv, NEW qs \in SUBSET NsQueries, ViewAsks(qs)
  PROVE  StoreInv'
<1> DEFINE N == Targets(World, qs, FALSE)
           v == Want(World, qs)
<1>1. PICK chunks \in Chunkings(N) : Become(Asks(v, N, chunks))
  BY DEF ViewAsks
<1>2. qs \in SUBSET Queries /\ N \in SUBSET Queries /\ N \subseteq qs /\ N \cap store.asking = {}
  BY WorldFields DEF Queries, Targets
<1>3. \A q \in (qs \cap NsQueries) \ N : q \in World.store.asking \/ World.store.stamp[q] # "none"
  BY DEF Targets
<1>4. Sendable(N, {Call(a, N) : a \in chunks})
  BY <1>2, ChunksSendable
<1> HIDE DEF N
<1>5. /\ v \in Worlds /\ Good(v, N, Coming(env))
      /\ v.store = World.store /\ v.wire = World.wire /\ v.view = World.view
      /\ v.unheard = World.unheard /\ v.asked = World.asked \cup qs
  <2>1. qs \in SUBSET Queries /\ N \in SUBSET Queries
    BY <1>2
  <2>2. Good(v, N, Coming(env))
    BY <1>3, <2>1, GoodWorld, WantInv
  <2>3. v \in Worlds /\ v.store = World.store
    BY GoodWorld, <2>1 DEF Want, Worlds
  <2>4. v.wire = World.wire /\ v.view = World.view
    BY GoodWorld DEF Want, Worlds
  <2>5. v.unheard = World.unheard /\ v.asked = World.asked \cup qs
    BY GoodWorld DEF Want, Worlds
  <2> QED BY <2>2, <2>3, <2>4, <2>5
<1> HIDE DEF v
<1>6. Good(Asks(v, N, chunks), {}, Coming(env))
  BY <1>2, <1>4, <1>5, GoodWorld, WorldFields, AsksInv
<1>7. ops' \in 0..MaxOps /\ UNCHANGED env
  BY CountOpType DEF StoreInv, ViewAsks
<1> QED BY <1>1, <1>6, <1>7, StepInv

LEMMA MenuAsksStep ==
  ASSUME StoreInv, NEW q \in Checks, MenuAsks(q)
  PROVE  StoreInv'
<1> DEFINE qs == {q}
           v == Want(World, qs)
<1>1. qs \in SUBSET Queries /\ qs \cap NsQueries = {} /\ q \in Queries /\ q \in qs
  BY QueriesAssumption DEF QueriesAssumption, Queries
<1>2. Become(CheckPermissions(v, {q})) /\ UNCHANGED env /\ CountOp
  BY DEF MenuAsks
<1> HIDE DEF qs
<1>3. /\ v \in Worlds /\ Good(v, {}, Coming(env))
      /\ v.store = World.store /\ v.wire = World.wire /\ v.view = World.view
      /\ v.unheard = World.unheard /\ v.asked = World.asked \cup qs
  BY <1>1, GoodWorld, WantInv
<1> HIDE DEF v
<1>4. Good(CheckPermissions(v, {q}), {}, Coming(env))
  BY <1>1, <1>3, GoodWorld, CheckInv
<1> QED BY <1>2, <1>4, CountOpType, StepInv DEF StoreInv

LEMMA FlushStep ==
  ASSUME StoreInv, Flush
  PROVE  StoreInv'
<1> DEFINE n == [World EXCEPT !.view = view']
<1>1. view' \in ViewStates /\ view'.map = view.map /\ ~view'.flag /\ view'.read
  BY GoodWorld, WorldFields DEF Flush, Worlds, ViewStates
<1>2. /\ n \in Worlds /\ n.store = store /\ n.wire = wire /\ n.view = view'
      /\ n.asked = asked /\ n.unheard = unheard
  BY <1>1, GoodWorld, WorldFields DEF Worlds
<1>3. Become(n) /\ UNCHANGED <<env, ops>>
  BY <1>2 DEF Become, Flush
<1> HIDE DEF n
<1>4. LiveOf(n) = LiveOf(World)
  BY <1>2, WorldFields DEF LiveOf
<1>5. Typed(n) /\ SinceReset(n) /\ Kept(n, {})
  BY <1>2, GoodWorld, WorldFields DEF Good, Sound, Typed, SinceReset, Kept
<1>6. Asking(n) /\ Replayable(n, {}, Coming(env))
  BY <1>2, <1>4, GoodWorld, WorldFields DEF Good, Sound, Asking, Replayable
<1>7. Follows(n)
  BY <1>1, <1>2, <1>4, GoodWorld, WorldFields DEF Good, Sound, Follows, Shown, AwaitedOf
<1>8. Good(n, {}, Coming(env))
  BY <1>5, <1>6, <1>7 DEF Good, Sound
<1> QED BY <1>3, <1>8, StepInv DEF StoreInv

LEMMA EvaluateStep ==
  ASSUME StoreInv, NEW c \in wire, Evaluate(c)
  PROVE  StoreInv'
<1>0. c \in LiveOf(World) /\ env \in Environments /\ World \in Worlds
  BY WorldFields, GoodWorld DEF Evaluate, LiveOf, StoreInv
<1>1. ASSUME NEW outcome \in {"answer", "inactive", "failed"}, NEW at \in 0..MaxVer,
             outcome = "inactive" => Coming(env),
             wire' = (wire \ {c}) \cup {[c EXCEPT !.outcome = outcome, !.at = at]},
             ops' \in 0..MaxOps
      PROVE  StoreInv'
  <2> DEFINE n == Evaluated(World, c, outcome, at)
  <2>1. Good(n, {}, Coming(env))
    BY <1>0, <1>1, GoodWorld, EvaluatedInv
  <2>2. Become(n) /\ UNCHANGED env
    BY <1>0, <1>1, WorldFields DEF Evaluate, Become, Evaluated, Worlds
  <2> HIDE DEF n
  <2> QED BY <1>1, <2>1, <2>2, StepInv
<1>2. env.ver \in 0..MaxVer /\ 0 \in 0..MaxVer
  BY <1>0, BoundsAssumption DEF Environments, BoundsAssumption
<1>3. CASE env.up /\ wire' = (wire \ {c}) \cup {[c EXCEPT !.outcome = "answer", !.at = env.ver]} /\ UNCHANGED ops
  BY <1>1, <1>2, <1>3 DEF StoreInv
<1>4. CASE ~env.up /\ wire' = (wire \ {c}) \cup {[c EXCEPT !.outcome = "inactive", !.at = 0]} /\ UNCHANGED ops
  <2>1. Coming(env)
    BY <1>4 DEF Coming
  <2> QED BY <1>1, <1>2, <1>4, <2>1 DEF StoreInv
<1>5. CASE wire' = (wire \ {c}) \cup {[c EXCEPT !.outcome = "failed", !.at = 0]} /\ CountOp
  BY <1>1, <1>2, <1>5, CountOpType DEF StoreInv
<1> QED BY <1>3, <1>4, <1>5 DEF Evaluate

LEMMA ReturnStep ==
  ASSUME StoreInv, NEW c \in wire, Return(c)
  PROVE  StoreInv'
<1>1. c \in World.wire /\ (c.outcome # "sent" \/ c.stale) /\ Become(Returned(World, c))
      /\ UNCHANGED <<env, ops>>
  BY WorldFields DEF Return
<1>2. Good(Returned(World, c), {}, Coming(env))
  BY <1>1, GoodWorld, ReturnedInv
<1> QED BY <1>1, <1>2, StepInv DEF StoreInv

\* Whatever the cluster says, an announcement to come stays to come.
LEMMA BackendChangesStep ==
  ASSUME StoreInv, BackendChanges
  PROVE  StoreInv'
<1>1. env \in Environments /\ env.news \in Seq(BOOLEAN) /\ env.up \in BOOLEAN /\ env.ver \in 1..MaxVer
  BY DEF StoreInv, Environments
<1>2. World' = World
  BY DEF BackendChanges, World
<1>3. ops' \in 0..MaxOps
  <2>1. CASE CountOp
    BY <2>1, CountOpType DEF StoreInv
  <2>2. CASE UNCHANGED ops
    BY <2>2 DEF StoreInv
  <2> QED BY <2>1, <2>2 DEF BackendChanges
<1>4. env' \in Environments /\ (Coming(env) => Coming(env'))
  <2>1. ASSUME NEW up \in BOOLEAN, NEW said \in BOOLEAN, ~up \/ said,
               env' = [env EXCEPT !.up = up, !.news = Append(@, said)]
        PROVE  env' \in Environments /\ Coming(env')
    <3> DEFINE news == Append(env.news, said)
    <3>1. news \in Seq(BOOLEAN) /\ Len(env.news) + 1 \in 1..Len(news) /\ news[Len(env.news) + 1] = said
      BY <1>1, AppendProperties
    <3>2. env' = [env EXCEPT !.up = up, !.news = news]
      BY <2>1
    <3> HIDE DEF news
    <3>3. env' \in Environments /\ env'.up = up /\ env'.news = news
      BY <1>1, <3>1, <3>2 DEF Environments
    <3> QED BY <2>1, <3>1, <3>3 DEF Coming
  <2>2. CASE env' = [env EXCEPT !.up = ~@, !.news = Append(@, ~env.up)]
    BY <1>1, <2>1, <2>2
  <2>4. CASE env.up /\ env' = [env EXCEPT !.news = Append(@, TRUE)]
    <3>1. env' = [env EXCEPT !.up = env.up, !.news = Append(@, TRUE)]
      BY <1>1, <2>4 DEF Environments
    <3> QED BY <1>1, <2>1, <3>1
  <2>3. CASE env.ver < MaxVer /\ env' = [env EXCEPT !.ver = @ + 1]
    <3>1. env' \in Environments
      BY <1>1, <2>3, BoundsAssumption DEF Environments, BoundsAssumption
    <3>2. env'.up = env.up /\ env'.news = env.news
      BY <1>1, <2>3 DEF Environments
    <3> QED BY <3>1, <3>2 DEF Coming
  <2> QED BY <2>2, <2>3, <2>4 DEF BackendChanges
<1>5. Coming(env') \in BOOLEAN
  BY DEF Coming
<1>6. Good(World, {}, Coming(env'))
  BY <1>4, <1>5, GoodWorld, Later
<1> QED BY <1>2, <1>3, <1>4, <1>6 DEF StoreInv

LEMMA ExpireStep ==
  ASSUME StoreInv, NEW q \in Queries, Expire(q)
  PROVE  StoreInv'
<1> DEFINE n == [World EXCEPT !.store = store']
<1>1. World \in Worlds /\ store \in Stores
  BY GoodWorld, WorldFields DEF Worlds
<1>2. /\ store' \in Stores
      /\ store'.asking = store.asking /\ store'.meta = store.meta
      /\ store'.results = store.results /\ store'.stagger = store.stagger
      /\ \A x \in Queries : store'.stamp[x] = "none" <=> store.stamp[x] = "none"
  BY <1>1 DEF Expire, Stores
<1>3. /\ n \in Worlds /\ n.store = store' /\ n.wire = wire /\ n.view = view
      /\ n.asked = asked /\ n.unheard = unheard
  BY <1>1, <1>2, WorldFields DEF Worlds
<1>4. Become(n) /\ UNCHANGED <<env, ops>>
  BY <1>3 DEF Become, Expire
<1> HIDE DEF n
<1>5. store.stagger \subseteq asked
  BY GoodWorld, WorldFields DEF Good, Sound, SinceReset
<1>6. Good(n, {}, Coming(env))
  BY <1>1, <1>2, <1>3, <1>5, GoodWorld, WorldFields, SameInv
<1> QED BY <1>4, <1>6, StepInv DEF StoreInv

LEMMA RefreshTickStep ==
  ASSUME StoreInv, RefreshTick
  PROVE  StoreInv'
<1> DEFINE expired == {q \in Queries : store.stamp[q] = "expired"}
           cluster == IF ClusterQuery \in expired THEN ClusterPermissions(World) ELSE World
           due == expired \cap store.meta
<1>1. UNCHANGED <<env, ops>>
  BY DEF RefreshTick
<1>2. World \in Worlds /\ expired \subseteq asked /\ due \in SUBSET NsQueries /\ due \subseteq asked
  BY GoodWorld, WorldFields DEF Good, Sound, SinceReset, Worlds, Stores
<1>3. cluster \in Worlds /\ Good(cluster, {}, Coming(env)) /\ cluster.asked = asked
  <2>1. CASE ClusterQuery \in expired
    <3>1. LET n == ClusterPermissions(World) IN
          n \in Worlds /\ Good(n, {}, Coming(env)) /\ n.asked = World.asked
      BY <1>2, <2>1, GoodWorld, WorldFields, ClusterInv
    <3> QED BY <2>1, <3>1, WorldFields
  <2>2. CASE ClusterQuery \notin expired
    BY <2>2, GoodWorld, WorldFields
  <2> QED BY <2>1, <2>2
<1>4. CASE due = {} /\ Become(cluster)
  <2> HIDE DEF cluster
  <2> QED BY <1>1, <1>3, <1>4, StepInv DEF StoreInv
<1>5. ASSUME NEW first \in due,
             Become([RefreshNamespace(cluster, first) EXCEPT !.store.stagger = @ \cup (due \ {first})])
      PROVE  StoreInv'
  <2> HIDE DEF cluster, due
  <2>1. Good([RefreshNamespace(cluster, first) EXCEPT !.store.stagger = @ \cup (due \ {first})], {}, Coming(env))
    BY <1>2, <1>3, <1>5, GoodWorld, TickInv
  <2> QED BY <1>1, <1>5, <2>1, StepInv DEF StoreInv
<1> QED BY <1>4, <1>5 DEF RefreshTick

LEMMA StaggerFiresStep ==
  ASSUME StoreInv, NEW q \in NsQueries, StaggerFires(q)
  PROVE  StoreInv'
<1>1. Good(RefreshNamespace([World EXCEPT !.store.stagger = @ \ {q}], q), {}, Coming(env))
  BY GoodWorld, WorldFields, StaggerInv DEF StaggerFires
<1> QED BY <1>1, StepInv DEF StaggerFires, StoreInv

\* A step of the selection leaves the cluster and its announcements alone.
LEMMA SelectionStep ==
  ASSUME StoreInv, NEW w, Good(w, {}, Coming(env)), Become(w), ops' \in 0..MaxOps,
         env' \in Environments, env'.up = env.up, env'.news = env.news
  PROVE  StoreInv'
<1>1. Good(World', {}, Coming(env))
  BY GoodWorld, BecomeInv
<1>2. Coming(env') = Coming(env)
  BY DEF Coming
<1> QED BY <1>1, <1>2 DEF StoreInv

LEMMA SelectStep ==
  ASSUME StoreInv, NEW cluster \in {"none", "this", "other"}, NEW announced \in BOOLEAN,
         Select(cluster, announced)
  PROVE  StoreInv'
<1> DEFINE w == IF announced /\ store.listening THEN Reset(World) ELSE World
<1>1. Become(w) /\ ops' \in 0..MaxOps
  BY CountOpType DEF Select, StoreInv
<1>2. Typed(World)
  BY GoodWorld DEF Good, Sound
<1>3. Good(w, {}, Coming(env))
  BY <1>2, GoodWorld, ResetInv
<1>4. env' \in Environments /\ env'.up = env.up /\ env'.news = env.news
  BY DEF Select, StoreInv, Environments, Selections
<1> HIDE DEF w
<1> QED BY <1>1, <1>3, <1>4, SelectionStep

LEMMA AppEffectStep ==
  ASSUME StoreInv, AppEffect
  PROVE  StoreInv'
<1>1. env \in Environments /\ env.selected \in Selections /\ env.told \in BOOLEAN
  BY DEF StoreInv, Environments
<1>2. Dependencies \in Selections \X BOOLEAN /\ Dependencies[2] \in BOOLEAN
  BY <1>1 DEF Dependencies
<1>3. env' \in Environments /\ env'.up = env.up /\ env'.news = env.news
  BY <1>1, <1>2 DEF AppEffect, Environments
<1>4. Good(SetActive(World, env.selected, Dependencies[2]), {}, Coming(env))
  BY <1>1, <1>2, GoodWorld, SetActiveInv
<1>5. Become(SetActive(World, env.selected, Dependencies[2])) /\ ops' \in 0..MaxOps
  BY DEF AppEffect, StoreInv
<1> QED BY <1>3, <1>4, <1>5, SelectionStep

LEMMA SelectionEventStep ==
  ASSUME StoreInv, SelectionEvent
  PROVE  StoreInv'
<1>1. Good(ClusterPermissions(Want(World, {ClusterQuery})), {}, Coming(env))
  BY GoodWorld, WantClusterInv
<1>2. /\ Become(ClusterPermissions(Want(World, {ClusterQuery})))
      /\ UNCHANGED env /\ ops' \in 0..MaxOps
  BY CountOpType DEF SelectionEvent, StoreInv
<1> QED BY <1>1, <1>2, StepInv

\* An announcement that fails to say the cluster is operational is not the one to
\* come.
LEMMA LifecycleStep ==
  ASSUME StoreInv, Lifecycle
  PROVE  StoreInv'
<1> DEFINE said == Head(env.news)
           rest == Tail(env.news)
           w == IF said THEN Operational(World) ELSE World
<1>0. env \in Environments /\ env.news \in Seq(BOOLEAN) /\ env.news # <<>>
  BY DEF StoreInv, Environments, Lifecycle
<1>1. /\ said \in BOOLEAN /\ rest \in Seq(BOOLEAN) /\ said = env.news[1]
      /\ Len(rest) = Len(env.news) - 1 /\ \A i \in 1..Len(rest) : rest[i] = env.news[i + 1]
  <2>1. ASSUME NEW S, NEW seq \in Seq(S), seq # <<>>
        PROVE  /\ Head(seq) \in S /\ Tail(seq) \in Seq(S) /\ Head(seq) = seq[1]
               /\ Len(Tail(seq)) = Len(seq) - 1
               /\ \A i \in 1..Len(Tail(seq)) : Tail(seq)[i] = seq[i + 1]
    BY <2>1, HeadTailProperties
  <2> QED BY <1>0, <2>1
<1>2. Become(w) /\ UNCHANGED ops /\ env' = [env EXCEPT !.told = said, !.news = rest]
  BY DEF Lifecycle
<1> HIDE DEF said, rest
<1>3. env' \in Environments /\ env'.up = env.up /\ env'.news = rest
  BY <1>0, <1>1, <1>2 DEF Environments
<1>4. Coming(env') \in BOOLEAN
  BY DEF Coming
<1>5. Good(w, {}, Coming(env'))
  <2>1. CASE said
    BY <1>4, <2>1, GoodWorld, OperationalInv
  <2>2. CASE ~said
    <3>1. ASSUME NEW i \in 1..Len(env.news), env.news[i] PROVE i - 1 \in 1..Len(rest) /\ rest[i - 1]
      <4>1. i # 1
        BY <1>1, <2>2, <3>1
      <4>2. Len(env.news) \in Nat /\ i - 1 \in 1..Len(rest)
        BY <1>0, <1>1, <4>1
      <4>3. rest[i - 1] = env.news[(i - 1) + 1] /\ (i - 1) + 1 = i
        BY <1>1, <4>2
      <4> QED BY <3>1, <4>2, <4>3
    <3>2. Coming(env) => Coming(env')
      BY <1>3, <3>1 DEF Coming
    <3> QED BY <1>4, <2>2, <3>2, GoodWorld, Later
  <2> QED BY <1>1, <2>1, <2>2
<1> HIDE DEF w
<1>6. Good(World', {}, Coming(env'))
  BY <1>2, <1>4, <1>5, BecomeInv
<1> QED BY <1>2, <1>3, <1>6 DEF StoreInv
-----------------------------------------------------------------------------
LEMMA InitStore ==
  ASSUME Init
  PROVE  StoreInv
<1>1. "none" \in Selections
  BY DEF Selections
<1>2. /\ store \in Stores
      /\ store.asking = {} /\ store.meta = {} /\ store.stagger = {}
      /\ \A q \in Queries : store.stamp[q] = "none"
      /\ \A p \in Permissions : store.results[p] = None
  <2>1. store = Emptied("none", FALSE)
    BY DEF Init
  <2>2. LET s == Emptied("none", FALSE) IN
        /\ s \in Stores
        /\ s.asking = {} /\ s.meta = {} /\ s.stagger = {}
        /\ s.listening = FALSE /\ s.current = "none"
        /\ \A q \in Queries : s.stamp[q] = "none"
        /\ \A p \in Permissions : s.results[p] = None
    BY <1>1, EmptiedFacts
  <2> QED BY <2>1, <2>2
<1>3. /\ view \in ViewStates /\ view.map = NoMap /\ view.read /\ ~view.flag
  BY EntryTypes DEF Init, ViewStates
<1>4. World \in Worlds
  BY <1>2, <1>3 DEF Init, World, Worlds
<1>5. Rebuilt(store) = NoMap
  BY <1>2 DEF Rebuilt, NoMap
<1>6. Follows(World)
  BY <1>3, <1>5, WorldFields DEF Follows, Shown
<1>7. LiveOf(World) = {} /\ wire = {} /\ asked = {} /\ unheard = {} /\ ops = 0
  BY WorldFields DEF Init, LiveOf
<1>8. Coming(env) \in BOOLEAN
  BY DEF Coming
<1>9. Good(World, {}, Coming(env))
  BY <1>2, <1>4, <1>6, <1>7, <1>8, WorldFields, BlankInv
<1>10. env \in Environments
  <2>1. PICK up \in BOOLEAN, selected \in Selections :
          env = [up |-> up, news |-> <<>>, told |-> up, selected |-> selected,
                 effect |-> <<"none", FALSE>>, ver |-> 1]
    BY DEF Init, Selections
  <2>2. <<>> \in Seq(BOOLEAN) /\ <<"none", FALSE>> \in Selections \X BOOLEAN /\ 1 \in 1..MaxVer
    <3>1. <<>> \in Seq(BOOLEAN)
      OBVIOUS
    <3>2. <<"none", FALSE>> \in Selections \X BOOLEAN
      BY <1>1
    <3>3. 1 \in 1..MaxVer
      BY BoundsAssumption DEF BoundsAssumption
    <3> QED BY <3>1, <3>2, <3>3
  <2> QED BY <2>1, <2>2 DEF Environments
<1>11. ops \in 0..MaxOps
  BY <1>7, BoundsAssumption DEF BoundsAssumption
<1> QED BY <1>9, <1>10, <1>11 DEF StoreInv

LEMMA NextStore ==
  ASSUME StoreInv, [Next]_vars
  PROVE  StoreInv'
<1>1. CASE UNCHANGED vars
  <2>1. World' = World
    BY <1>1 DEF vars, World
  <2> QED BY <1>1, <2>1 DEF StoreInv, vars
<1>2. CASE Views
  BY <1>2, ViewAsksStep, MenuAsksStep DEF Views
<1>3. CASE Flush
  BY <1>3, FlushStep
<1>4. CASE Answers
  BY <1>4, EvaluateStep, ReturnStep DEF Answers
<1>5. CASE BackendChanges
  BY <1>5, BackendChangesStep
<1>6. CASE Timers
  BY <1>6, RefreshTickStep, StaggerFiresStep DEF Timers
<1>7. CASE \E q \in Queries : Expire(q)
  BY <1>7, ExpireStep
<1>8. CASE \E cluster \in {"none", "this", "other"}, announced \in BOOLEAN : Select(cluster, announced)
  BY <1>8, SelectStep
<1>9. CASE AppEffect
  BY <1>9, AppEffectStep
<1>10. CASE SelectionEvent
  BY <1>10, SelectionEventStep
<1>11. CASE Lifecycle
  BY <1>11, LifecycleStep
<1> QED BY <1>1, <1>2, <1>3, <1>4, <1>5, <1>6, <1>7, <1>8, <1>9, <1>10, <1>11 DEF Next

\* The inductive invariant of the permission store, for every set of queries, every
\* request limit and every number of events.
THEOREM StoreInvariant == Spec => []StoreInv
<1>1. Init => StoreInv
  BY InitStore
<1>2. StoreInv /\ [Next]_vars => StoreInv'
  BY NextStore
<1> QED BY <1>1, <1>2, PTL DEF Spec

\* Type correctness; in particular no request of queryNamespacesPermissions passes
\* MAX_PERMISSION_QUERY_ITEMS.
THEOREM TypeCorrect == Spec => []TypeOK
<1>1. StoreInv => TypeOK
  BY WorldFields DEF StoreInv, Good, Sound, Typed, Worlds, TypeOK
<1> QED BY <1>1, StoreInvariant, PTL

\* inFlightQueries names exactly the queries that a call of the current generation
\* will end, each by one call.
THEOREM UnderWayIsReal == Spec => []AskingIsReal
<1>1. LiveOf(World) = Live
  BY WorldFields DEF LiveOf, Live
<1>2. StoreInv => AskingIsReal
  BY <1>1, WorldFields DEF StoreInv, Good, Sound, Asking, AskingIsReal
<1> QED BY <1>2, StoreInvariant, PTL

\* Whatever returns after resetPermissionStore, the store knows, dates, records and
\* refreshes nothing but what was asked for since.
THEOREM ResetIsFinal == Spec => []NothingSurvivesReset
<1>1. StoreInv => NothingSurvivesReset
  BY WorldFields DEF StoreInv, Good, Sound, SinceReset, NothingSurvivesReset
<1> QED BY <1>1, StoreInvariant, PTL

\* Listeners are shown what the store knows, but for a batch that is half answered,
\* and a map they have not read has a notification scheduled.
THEOREM ListenersAreTold == Spec => []ListenersFollow
<1>1. LiveOf(World) = Live
  BY WorldFields DEF LiveOf, Live
<1>2. \A c : AwaitedOf(World, c) = Awaited(c)
  BY <1>1 DEF AwaitedOf, Awaited
<1>3. StoreInv => ListenersFollow
  BY <1>1, <1>2, WorldFields DEF StoreInv, Good, Sound, Follows, Shown, ListenersFollow
<1> QED BY <1>3, StoreInvariant, PTL

\* Once a cluster was announced ready, every namespace query it refused before is
\* dated or under way again, unless nobody heard the announcement for it.
THEOREM ReadinessIsReplayed == Spec => []ReadyReplaysInterest
<1>1. Announced => ~Coming(env)
  BY DEF Announced, Coming
<1>2. StoreInv => ReadyReplaysInterest
  BY <1>1, WorldFields DEF StoreInv, Good, Replayable, ReadyReplaysInterest
<1> QED BY <1>2, StoreInvariant, PTL
=============================================================================
