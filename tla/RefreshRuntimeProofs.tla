------------------------ MODULE RefreshRuntimeProofs ------------------------
(***************************************************************************)
(* Proofs about RefreshRuntime, for any bounds.  An action builds the next *)
(* state of the scope in several calls (StopStream, Teardown, PerformFetch *)
(* ...), each of which maps a world to a world; the invariant is therefore *)
(* stated of a world w and the version v of the cluster's data, and World  *)
(* is the world that the variables make up.                                *)
(***************************************************************************)
EXTENDS RefreshRuntime, FiniteSetTheorems, TLAPS

Worlds == [env : Environments, rt : Scope, reads : SUBSET Request, feed : Feeds,
           shown : 0..MaxVer, heard : 0..MaxVer, cut : BOOLEAN]
Vers == 1..MaxVer

\* A request, and a microtask, can still be given an identity of its own.
Free(w) == \E n \in 1..(MaxReads + 1) : \A r \in w.reads : r.id # n
Room(w) == \E n \in 1..(MaxOps + 1) : n \notin w.rt.tasks
-----------------------------------------------------------------------------
(* The invariant.                                                          *)
\* Identities name requests, only the owner of the slot may still commit, what
\* it brings is at least as new as what is shown, and a disabled scope has no owner.
Apart(w) == \A q, r \in w.reads : q.id = r.id => q = r
OwnerOnly(w, v) ==
  /\ \A r \in w.reads : CanCommit(r) => r.id = w.rt.owner /\ r.from >= w.shown
  /\ \A r \in w.reads : r.id = w.rt.owner /\ r.stale => w.cut
  /\ \A r \in w.reads : r.from <= v
  /\ w.shown <= v /\ w.heard <= v
Owned(w) ==
  /\ w.rt.owner # 0 => \E r \in w.reads : r.id = w.rt.owner /\ r.aborted # "owner"
  /\ w.rt.trailing => w.rt.owner # 0
  /\ w.rt.act = "disabled" => w.rt.owner = 0
Slotted(w, v) == Apart(w) /\ OwnerOnly(w, v) /\ Owned(w)

\* StreamFollowsDemand, with the microtasks and the start under way that are
\* still to bring the stream up.
Demanded(w) == w.rt.act = "enabled" <=> Leased(w)
Queued(w) ==
  /\ w.rt.tasks # {} => Streams(w)
  /\ w.rt.ready # 0 => w.rt.ready \in w.rt.tasks
  /\ w.rt.act = "untracked" => w.rt.conn = "inactive" /\ w.rt.tasks = {}
Starting(w) ==
  w.rt.conn = "starting" => Streams(w) /\ (w.rt.cancelled \/ (w.feed.sub = "leased" /\ w.feed.owes))
Active(w) ==
  w.rt.conn = "active" =>
    /\ Leased(w) /\ w.feed.sub = "leased"
    /\ w.env.auto /\ ~w.rt.blocked /\ w.env.auth /\ w.env.holds = 0
Supplied(w) ==
  Leased(w) /\ Streams(w) => w.rt.conn # "inactive" \/ w.rt.retry \/ w.rt.tasks # {}
Streaming(w) == Demanded(w) /\ Queued(w) /\ Starting(w) /\ Active(w) /\ Supplied(w)

\* The signal that was heard last is not forgotten: something is pending, deferred
\* or denied, the stream is to ring again, or (Covered) a read is under way that
\* answers it.
HeldSignal(w) == "stream-signal" \in w.rt.deferred.intents
Missed(w) ==
  \/ w.cut \/ w.shown = 0 \/ w.rt.recon # "clean" \/ HeldSignal(w)
  \/ w.rt.permission = "denied" \/ w.feed.owes \/ w.rt.conn # "active"
Covered(w) ==
  \/ w.rt.trailing
  \/ \E r \in w.reads : r.id = w.rt.owner /\ CanCommit(r) /\ ~r.polled /\ r.from >= w.heard

\* A read under way that left before the signal does not settle it.
Early(w) == \E r \in w.reads : r.id = w.rt.owner /\ CanCommit(r) /\ r.from < w.heard
Followed(w) ==
  \/ w.rt.trailing \/ w.cut \/ HeldSignal(w) \/ w.rt.conn # "active"
  \/ w.feed.owes /\ w.shown # 0
Remembered(w) ==
  /\ w.heard > w.shown => Missed(w) \/ Covered(w)
  /\ Early(w) => Followed(w)
  /\ w.rt.snapshot = 0 => w.heard = 0

Sane(w, v) == w \in Worlds /\ Slotted(w, v) /\ Streaming(w) /\ Remembered(w)

\* The inductive invariant.
RuntimeInv ==
  /\ ver \in Vers /\ ops \in 0..MaxOps
  /\ Sane(World, ver)
  /\ Cardinality(reads) <= MaxReads
  /\ Cardinality(rt.tasks) <= ops + 1
-----------------------------------------------------------------------------
(* What a call leaves alone.                                               *)
SameSlot(w, n) ==
  n.reads = w.reads /\ n.rt.owner = w.rt.owner /\ (n.rt.trailing <=> w.rt.trailing)
SameWork(w, n) ==
  /\ SameSlot(w, n) /\ n.rt.recon = w.rt.recon /\ n.rt.deferred = w.rt.deferred
  /\ n.cut <=> w.cut
SameDemand(w, n) ==
  /\ n.env = w.env /\ n.rt.act = w.rt.act /\ n.rt.query = w.rt.query /\ n.rt.snapshot = w.rt.snapshot
  /\ (n.rt.blocked <=> w.rt.blocked) /\ n.rt.permission = w.rt.permission
SameStream(w, n) ==
  /\ n.rt.tasks = w.rt.tasks /\ n.rt.ready = w.rt.ready /\ n.rt.conn = w.rt.conn
  /\ (n.rt.cancelled <=> w.rt.cancelled) /\ (n.rt.retry <=> w.rt.retry)
  /\ n.feed.sub = w.feed.sub /\ (n.feed.owes <=> w.feed.owes)
SameStore(w, n) == n.shown = w.shown /\ n.heard = w.heard
NoStore(n) == n.shown = 0 /\ n.heard = 0

\* A call that is about the stream only.
OnStream(w, n) == n \in Worlds /\ SameWork(w, n) /\ SameDemand(w, n)
LEMMA Bounds ==
  /\ MaxVer \in Nat \ {0} /\ MaxReads \in Nat \ {0} /\ MaxHolds \in Nat \ {0}
  /\ MaxLeases \in Nat \ {0} /\ MaxOps \in Nat \ {0}
BY BoundsAssumption DEF BoundsAssumption

LEMMA Numbers ==
  /\ 0 \in 0..MaxVer /\ 0 \in 0..(MaxReads + 1) /\ 0 \in 0..MaxHolds
  /\ 0 \in 0..MaxLeases /\ 0 \in 0..(MaxOps + 1)
  /\ \A n \in 1..(MaxOps + 1) : n \in 0..(MaxOps + 1)
  /\ \A n \in 1..(MaxReads + 1) : n \in 0..(MaxReads + 1)
  /\ \A n \in Vers : n \in 0..MaxVer
BY Bounds DEF Vers
-----------------------------------------------------------------------------
(* The stream.                                                             *)
LEMMA ScheduleFacts ==
  ASSUME NEW w \in Worlds, Room(w)
  PROVE  LET n == ScheduleStart(w) IN
         /\ OnStream(w, n) /\ SameStore(w, n)
         /\ n.rt.conn = w.rt.conn /\ n.rt.ready # 0 /\ (n.rt.cancelled <=> w.rt.cancelled)
         /\ (n.rt.retry <=> w.rt.retry)
         /\ n.feed = w.feed
         /\ IF w.rt.ready # 0 THEN n.rt.ready = w.rt.ready /\ n.rt.tasks = w.rt.tasks
            ELSE n.rt.tasks = w.rt.tasks \cup {n.rt.ready}
<1> DEFINE task == CHOOSE n \in 1..(MaxOps + 1) : n \notin w.rt.tasks
<1>1. task \in 1..(MaxOps + 1) /\ task \notin w.rt.tasks
  BY DEF Room
<1>2. ScheduleStart(w) = IF w.rt.ready # 0 THEN w
                         ELSE [w EXCEPT !.rt.ready = task, !.rt.tasks = @ \cup {task}]
  BY DEF ScheduleStart
<1> HIDE DEF task
<1>3. CASE w.rt.ready # 0
  BY <1>2, <1>3 DEF OnStream, SameStore, SameWork, SameSlot, SameDemand
<1>4. CASE w.rt.ready = 0
  <2> DEFINE n == [w EXCEPT !.rt.ready = task, !.rt.tasks = @ \cup {task}]
  <2>0. w.rt \in Scope
    BY DEF Worlds
  <2>1. n.rt \in Scope
    <3>1. n.rt = [w.rt EXCEPT !.ready = task, !.tasks = w.rt.tasks \cup {task}]
      BY DEF Worlds, Scope
    <3>2. [w.rt EXCEPT !.ready = task, !.tasks = w.rt.tasks \cup {task}] \in Scope
      BY <1>1, <2>0, Numbers DEF Scope
    <3> QED BY <3>1, <3>2
  <2>2. n \in Worlds
    BY <2>1 DEF Worlds
  <2>3. OnStream(w, n) /\ SameStore(w, n)
    BY <2>2 DEF Worlds, Scope, OnStream, SameStore, SameWork, SameSlot, SameDemand
  <2>4. /\ n.rt.conn = w.rt.conn /\ n.rt.ready = task /\ (n.rt.cancelled <=> w.rt.cancelled)
        /\ (n.rt.retry <=> w.rt.retry) /\ n.feed = w.feed
        /\ n.rt.tasks = w.rt.tasks \cup {n.rt.ready}
    BY DEF Worlds, Scope
  <2> QED BY <1>1, <1>2, <1>4, <2>3, <2>4
<1> QED BY <1>3, <1>4

LEMMA ResetFacts ==
  ASSUME NEW w \in Worlds
  PROVE  LET n == ResetStore(w) IN
         /\ OnStream(w, n) /\ NoStore(n) /\ SameStream(w, n)
<1>1. ResetStore(w) \in Worlds
  BY Numbers DEF Worlds, ResetStore
<1> QED BY <1>1 DEF Worlds, ResetStore, OnStream, SameWork, SameSlot, SameDemand, NoStore, SameStream

LEMMA StartFacts ==
  ASSUME NEW w \in Worlds
  PROVE  LET n == StartStream(w) IN
         /\ OnStream(w, n) /\ SameStore(w, n)
         /\ n.rt.tasks = w.rt.tasks /\ n.rt.ready = w.rt.ready
         /\ IF ~Serviceable(w) \/ ~IsEnabled(w) \/ w.rt.conn # "inactive" THEN n = w
            ELSE /\ n.rt.conn = IF w.rt.blocked THEN "inactive" ELSE "starting"
                 /\ ~n.rt.cancelled /\ n.feed.sub = "leased" /\ n.feed.owes
<1>1. CASE ~Serviceable(w) \/ ~IsEnabled(w) \/ w.rt.conn # "inactive"
  BY <1>1 DEF StartStream, OnStream, SameStore, SameWork, SameSlot, SameDemand
<1>2. CASE ~(~Serviceable(w) \/ ~IsEnabled(w) \/ w.rt.conn # "inactive")
  <2> DEFINE c == IF w.rt.blocked THEN w.rt.conn ELSE "starting"
             f == [sub |-> "leased", healthy |-> w.feed.healthy /\ w.feed.sub # "none",
                   owes |-> TRUE, told |-> w.feed.told]
             n == [w EXCEPT !.rt.retry = FALSE, !.rt.conn = c, !.rt.cancelled = FALSE, !.feed = f]
  <2>1. StartStream(w) = n
    BY <1>2 DEF StartStream
  <2>2. w.rt \in Scope /\ w.feed \in Feeds /\ w.rt.conn = "inactive"
    BY <1>2 DEF Worlds
  <2>3. f \in Feeds /\ f.sub = "leased" /\ f.owes
    BY <2>2 DEF Feeds
  <2>4. c \in {"inactive", "starting"} /\ c = IF w.rt.blocked THEN "inactive" ELSE "starting"
    BY <2>2
  <2> HIDE DEF c, f
  <2>5. n.rt \in Scope
    <3>1. n.rt = [w.rt EXCEPT !.retry = FALSE, !.conn = c, !.cancelled = FALSE]
      BY DEF Worlds, Scope
    <3>2. [w.rt EXCEPT !.retry = FALSE, !.conn = c, !.cancelled = FALSE] \in Scope
      BY <2>2, <2>4 DEF Scope
    <3> QED BY <3>1, <3>2
  <2>6. n \in Worlds
    BY <2>3, <2>5 DEF Worlds
  <2>7. OnStream(w, n) /\ SameStore(w, n)
    <3>1. SameSlot(w, n)
      BY DEF Worlds, Scope, SameSlot
    <3>2. SameDemand(w, n)
      BY DEF Worlds, Scope, SameDemand
    <3>3. SameStore(w, n) /\ n.rt.recon = w.rt.recon /\ n.rt.deferred = w.rt.deferred /\ n.cut = w.cut
      BY DEF Worlds, Scope, SameStore
    <3> QED BY <2>6, <3>1, <3>2, <3>3 DEF OnStream, SameWork
  <2>8. /\ n.rt.tasks = w.rt.tasks /\ n.rt.ready = w.rt.ready
        /\ n.rt.conn = c /\ ~n.rt.cancelled /\ n.feed = f
    BY DEF Worlds, Scope
  <2> QED BY <1>2, <2>1, <2>3, <2>4, <2>7, <2>8
<1> QED BY <1>1, <1>2

LEMMA StreamType ==
  ASSUME NEW s \in Scope, NEW c \in {"inactive", "starting", "active"}
  PROVE  [s EXCEPT !.retry = FALSE, !.ready = 0, !.conn = c] \in Scope
<1> DEFINE t == [s EXCEPT !.retry = FALSE]
           u == [t EXCEPT !.ready = 0]
<1>1. [s EXCEPT !.retry = FALSE, !.ready = 0, !.conn = c] = [u EXCEPT !.conn = c]
  BY DEF Scope
<1>2. t \in Scope
  BY DEF Scope
<1> HIDE DEF t
<1>3. u \in Scope
  BY <1>2, Numbers DEF Scope
<1> HIDE DEF u
<1>4. [u EXCEPT !.conn = c] \in Scope
  BY <1>3 DEF Scope
<1> QED BY <1>1, <1>4

LEMMA StopFacts ==
  ASSUME NEW w \in Worlds, NEW reset \in BOOLEAN
  PROVE  LET n == StopStream(w, reset) IN
         /\ OnStream(w, n) /\ (IF reset THEN NoStore(n) ELSE SameStore(w, n))
         /\ n.rt.tasks = w.rt.tasks /\ n.rt.ready = 0
         /\ n.rt.conn = IF w.rt.conn = "active" THEN "inactive" ELSE w.rt.conn
         /\ n.rt.conn = "starting" => n.rt.cancelled
<1> DEFINE k == w.rt.conn = "starting"
           flagged == [w EXCEPT !.rt.cancelled = k]
           c == IF flagged.rt.conn = "active" THEN "inactive" ELSE flagged.rt.conn
           f == IF flagged.feed.sub # "leased" THEN flagged.feed ELSE
                  IF reset THEN [flagged.feed EXCEPT !.sub = "none", !.healthy = FALSE, !.owes = FALSE]
                  ELSE [flagged.feed EXCEPT !.sub = "leaving"]
           n == [flagged EXCEPT !.rt.retry = FALSE, !.rt.ready = 0, !.rt.conn = c, !.feed = f]
<1>1. flagged.rt = [w.rt EXCEPT !.cancelled = k] /\ flagged.rt.conn = w.rt.conn /\ flagged.feed = w.feed
  BY DEF Worlds, Scope
<1>2. StopStream(w, reset) = IF reset THEN ResetStore(n) ELSE n
  BY DEF StopStream
<1>3. w.rt \in Scope /\ w.feed \in Feeds
  BY DEF Worlds
<1>4. f \in Feeds
  BY <1>1, <1>3 DEF Feeds
<1>5. c \in {"inactive", "starting", "active"} /\ c = IF w.rt.conn = "active" THEN "inactive" ELSE w.rt.conn
  BY <1>1, <1>3 DEF Scope
<1>6. flagged \in Worlds
  <2>1. [w.rt EXCEPT !.cancelled = k] \in Scope
    BY <1>3 DEF Scope
  <2> QED BY <1>1, <2>1 DEF Worlds
<1>7. OnStream(w, flagged) /\ SameStore(w, flagged) /\ flagged.rt.tasks = w.rt.tasks
      /\ (flagged.rt.cancelled <=> k)
  BY <1>6 DEF Worlds, Scope, OnStream, SameStore, SameWork, SameSlot, SameDemand
<1> HIDE DEF c, f, flagged
<1>8. n \in Worlds
  <2>1. n.rt = [flagged.rt EXCEPT !.retry = FALSE, !.ready = 0, !.conn = c]
    BY <1>6 DEF Worlds, Scope
  <2>2. flagged.rt \in Scope
    BY <1>6 DEF Worlds
  <2>3. [flagged.rt EXCEPT !.retry = FALSE, !.ready = 0, !.conn = c] \in Scope
    BY <2>2, <1>5, StreamType
  <2> QED BY <1>4, <1>6, <2>1, <2>3 DEF Worlds
<1>9. /\ OnStream(flagged, n) /\ SameStore(flagged, n)
      /\ n.rt.tasks = flagged.rt.tasks /\ n.rt.ready = 0 /\ n.rt.conn = c
      /\ n.rt.cancelled <=> flagged.rt.cancelled
  <2>1. SameSlot(flagged, n)
    BY <1>6 DEF Worlds, Scope, SameSlot
  <2>2. SameDemand(flagged, n)
    BY <1>6 DEF Worlds, Scope, SameDemand
  <2>3. /\ SameStore(flagged, n) /\ n.rt.recon = flagged.rt.recon /\ n.rt.deferred = flagged.rt.deferred
        /\ n.cut = flagged.cut
    BY <1>6 DEF Worlds, Scope, SameStore
  <2>4. /\ n.rt.tasks = flagged.rt.tasks /\ n.rt.ready = 0 /\ n.rt.conn = c
        /\ n.rt.cancelled = flagged.rt.cancelled
    BY <1>6 DEF Worlds, Scope
  <2> QED BY <1>8, <2>1, <2>2, <2>3, <2>4 DEF OnStream, SameWork
<1> HIDE DEF n
<1>10. OnStream(w, n) /\ SameStore(w, n)
  BY <1>7, <1>9 DEF OnStream, SameStore, SameWork, SameSlot, SameDemand
<1>11. n.rt.conn = "starting" => n.rt.cancelled
  BY <1>5, <1>7, <1>9
<1>12. CASE ~reset
  BY <1>2, <1>7, <1>9, <1>10, <1>11, <1>12, <1>5
<1>13. CASE reset
  <2>1. OnStream(n, ResetStore(n)) /\ NoStore(ResetStore(n)) /\ SameStream(n, ResetStore(n))
    BY <1>8, ResetFacts
  <2>2. OnStream(w, ResetStore(n))
    BY <1>10, <2>1 DEF OnStream, SameWork, SameSlot, SameDemand
  <2> QED BY <1>2, <1>7, <1>9, <1>11, <1>13, <2>1, <2>2, <1>5 DEF SameStream
<1> QED BY <1>12, <1>13

LEMMA StopRuntimeFacts ==
  ASSUME NEW w \in Worlds
  PROVE  LET n == StopRuntime(w) IN
         /\ OnStream(w, n) /\ SameStore(w, n)
         /\ n.rt.tasks = w.rt.tasks /\ n.rt.ready \in {0, w.rt.ready}
         /\ n.rt.conn = IF w.rt.conn = "active" THEN "inactive" ELSE w.rt.conn
<1> DEFINE q == [w EXCEPT !.rt.retry = FALSE]
<1>1. w.rt \in Scope /\ q.rt = [w.rt EXCEPT !.retry = FALSE]
  BY DEF Worlds, Scope
<1>2. q \in Worlds
  BY <1>1 DEF Worlds, Scope
<1>3. /\ SameSlot(w, q) /\ SameDemand(w, q) /\ SameStore(w, q)
      /\ q.rt.recon = w.rt.recon /\ q.rt.deferred = w.rt.deferred /\ q.cut = w.cut
      /\ q.rt.tasks = w.rt.tasks /\ q.rt.ready = w.rt.ready /\ q.rt.conn = w.rt.conn
  BY DEF Worlds, Scope, SameSlot, SameDemand, SameStore
<1>4. StopRuntime(w) = IF w.rt.conn = "inactive" THEN q ELSE StopStream(q, FALSE)
  BY DEF StopRuntime
<1> HIDE DEF q
<1>5. LET n == StopStream(q, FALSE) IN
      /\ OnStream(q, n) /\ (IF FALSE THEN NoStore(n) ELSE SameStore(q, n))
      /\ n.rt.tasks = q.rt.tasks /\ n.rt.ready = 0
      /\ n.rt.conn = IF q.rt.conn = "active" THEN "inactive" ELSE q.rt.conn
      /\ n.rt.conn = "starting" => n.rt.cancelled
  BY <1>2, StopFacts
<1> QED BY <1>2, <1>3, <1>4, <1>5 DEF OnStream, SameStore, SameWork, SameSlot, SameDemand

\* Between turns: nothing is queued or under way, and an active stream has its lease.
Still(w) ==
  /\ Demanded(w) /\ w.rt.tasks = {} /\ w.rt.ready = 0 /\ w.rt.conn # "starting"
  /\ w.rt.conn = "active" => Leased(w) /\ w.feed.sub = "leased"
  /\ w.rt.act = "untracked" => w.rt.conn = "inactive"

LEMMA SameDemandFacts ==
  ASSUME NEW w, NEW n, SameDemand(w, n)
  PROVE  /\ Streams(n) <=> Streams(w)
         /\ Leased(n) <=> Leased(w)
         /\ Serviceable(n) <=> Serviceable(w)
         /\ IsEnabled(n) <=> IsEnabled(w)
         /\ Demanded(n) <=> Demanded(w)
BY DEF SameDemand, Streams, Leased, Serviceable, IsEnabled, Demanded

\* reconcileScopeStream brings a still scope to what it should be.
LEMMA ReconcileFacts ==
  ASSUME NEW w \in Worlds, Still(w)
  PROVE  LET n == ReconcileStream(w) IN
         /\ OnStream(w, n) /\ SameStore(w, n) /\ Streaming(n)
         /\ n.rt.conn # "active" \/ (w.rt.conn = "active" /\ n.feed = w.feed)
         /\ n.rt.tasks \subseteq {n.rt.ready}
<1> DEFINE n == ReconcileStream(w)
<1>0. w.rt \in Scope /\ Room(w) /\ w.rt.conn \in {"inactive", "active"}
  <2>1. w.rt \in Scope /\ 1 \in 1..(MaxOps + 1)
    BY Bounds DEF Worlds
  <2> QED BY <2>1 DEF Still, Room, Scope
<1>a. OnStream(w, w) /\ SameStore(w, w)
  BY DEF OnStream, SameStore, SameWork, SameSlot, SameDemand
<1>1. CASE w.rt.act # "enabled"
  <2>1. n = w
    BY <1>1 DEF ReconcileStream
  <2>2. ~Leased(w) /\ w.rt.conn = "inactive"
    BY <1>0, <1>1 DEF Still, Demanded
  <2>3. Streaming(w)
    BY <2>2 DEF Still, Streaming, Queued, Starting, Active, Supplied
  <2> QED BY <1>0, <1>a, <2>1, <2>2, <2>3, Numbers DEF Still
<1>2. CASE w.rt.act = "enabled" /\ Streams(w) /\ w.rt.conn = "inactive"
  <2>1. n = ScheduleStart(w)
    BY <1>2 DEF ReconcileStream
  <2> HIDE DEF n
  <2>2. /\ OnStream(w, n) /\ SameStore(w, n)
        /\ n.rt.conn = w.rt.conn /\ n.rt.ready # 0 /\ (n.rt.cancelled <=> w.rt.cancelled)
        /\ (n.rt.retry <=> w.rt.retry)
        /\ n.feed = w.feed
        /\ IF w.rt.ready # 0 THEN n.rt.ready = w.rt.ready /\ n.rt.tasks = w.rt.tasks
           ELSE n.rt.tasks = w.rt.tasks \cup {n.rt.ready}
    BY <1>0, <2>1, ScheduleFacts
  <2>3. n.rt.tasks = {n.rt.ready} /\ n.rt.conn = "inactive" /\ n.rt.act = "enabled"
    BY <1>2, <2>2 DEF Still, OnStream, SameDemand
  <2>4. Streams(n) /\ Demanded(n)
    BY <1>2, <2>2, SameDemandFacts DEF OnStream, Still
  <2>5. Streaming(n)
    BY <2>3, <2>4 DEF Streaming, Queued, Starting, Active, Supplied
  <2> QED BY <2>2, <2>3, <2>5 DEF n
<1>3. CASE w.rt.act = "enabled" /\ Streams(w) /\ w.rt.conn = "active"
  <2>1. n = w
    BY <1>3 DEF ReconcileStream
  <2>2. Streaming(w)
    BY <1>3 DEF Still, Streaming, Queued, Starting, Active, Supplied, Streams, Serviceable
  <2> QED BY <1>a, <1>3, <2>1, <2>2, Numbers DEF Still
<1>4. CASE w.rt.act = "enabled" /\ ~Streams(w) /\ w.rt.conn = "active"
  <2>1. n = StopStream(w, FALSE)
    BY <1>4 DEF ReconcileStream
  <2> HIDE DEF n
  <2>2. /\ OnStream(w, n) /\ (IF FALSE THEN NoStore(n) ELSE SameStore(w, n))
        /\ n.rt.tasks = w.rt.tasks /\ n.rt.ready = 0
        /\ n.rt.conn = IF w.rt.conn = "active" THEN "inactive" ELSE w.rt.conn
        /\ n.rt.conn = "starting" => n.rt.cancelled
    BY <2>1, StopFacts
  <2>3. ~Streams(n) /\ Demanded(n)
    BY <1>4, <2>2, SameDemandFacts DEF OnStream, Still
  <2>4. n.rt.tasks = {} /\ n.rt.conn = "inactive"
    BY <1>4, <2>2 DEF Still
  <2>5. Streaming(n)
    BY <2>2, <2>3, <2>4 DEF Streaming, Queued, Starting, Active, Supplied
  <2> QED BY <2>2, <2>4, <2>5 DEF n
<1>5. CASE w.rt.act = "enabled" /\ ~Streams(w) /\ w.rt.conn = "inactive"
  <2>1. n = [w EXCEPT !.rt.retry = FALSE]
    BY <1>5 DEF ReconcileStream
  <2>2. n.rt = [w.rt EXCEPT !.retry = FALSE]
    BY <2>1 DEF Worlds, Scope
  <2>3. n \in Worlds
    BY <1>0, <2>1, <2>2 DEF Worlds, Scope
  <2>4. /\ SameSlot(w, n) /\ SameDemand(w, n) /\ SameStore(w, n)
        /\ n.rt.recon = w.rt.recon /\ n.rt.deferred = w.rt.deferred /\ n.cut = w.cut
        /\ n.rt.tasks = w.rt.tasks /\ n.rt.ready = w.rt.ready /\ n.rt.conn = w.rt.conn
    BY <2>1 DEF Worlds, Scope, SameSlot, SameDemand, SameStore
  <2> HIDE DEF n
  <2>5. ~Streams(n) /\ Demanded(n)
    BY <1>5, <2>4, SameDemandFacts DEF Still
  <2>6. Streaming(n) /\ n.rt.conn = "inactive"
    BY <1>5, <2>4, <2>5 DEF Still, Streaming, Queued, Starting, Active, Supplied
  <2> QED BY <2>3, <2>4, <2>6 DEF n, OnStream, SameWork, Still
<1> QED BY <1>0, <1>1, <1>2, <1>3, <1>4, <1>5
-----------------------------------------------------------------------------
(* The slot.                                                               *)
\* A call that is about the reads only.
OnReads(w, n) == n \in Worlds /\ SameDemand(w, n) /\ SameStream(w, n)

\* The requests of n are those of w; some can no longer commit.
Elder(q, r) == q.id = r.id /\ q.from = r.from /\ (CanCommit(q) => CanCommit(r))
Aged(w, n) ==
  /\ \A q \in n.reads : \E r \in w.reads : Elder(q, r)
  /\ \A r \in w.reads : \E q \in n.reads : Elder(q, r)

\* What the slot goes through between w and n, at version v: see FetchSlot.
Wilts(w, n) ==
  /\ Aged(w, n) /\ n.shown \in {w.shown, 0}
  /\ n.rt.owner = w.rt.owner /\ (n.rt.trailing <=> w.rt.trailing)
Yields(w, n) ==
  /\ Aged(w, n) /\ n.shown \in {w.shown, 0}
  /\ n.rt.owner = 0 /\ ~n.rt.trailing
  /\ \A q \in n.reads : ~CanCommit(q)
Latches(w, n) ==
  /\ n.reads = w.reads /\ n.rt.owner = w.rt.owner /\ w.rt.owner # 0 /\ n.rt.trailing
  /\ n.shown = w.shown
Begins(w, n, v) ==
  /\ ~n.rt.trailing /\ n.shown = w.shown
  /\ n.rt.owner # 0 /\ \A r \in w.reads : r.id # n.rt.owner
  /\ \E b \in n.reads :
       /\ b.id = n.rt.owner /\ CanCommit(b) /\ b.from = v
       /\ \A q \in n.reads \ {b} : ~CanCommit(q) /\ \E r \in w.reads : q.id = r.id /\ q.from = r.from
       /\ \A r \in w.reads : \E q \in n.reads \ {b} : q.id = r.id /\ q.from = r.from
Moves(w, n, v) == Wilts(w, n) \/ Latches(w, n) \/ Begins(w, n, v)

LEMMA OwnedLives ==
  ASSUME NEW w \in Worlds, NEW v \in Vers, OwnerOnly(w, v)
  PROVE  /\ \A r \in w.reads : r \in Request /\ r.id # 0 /\ r.id \in 1..(MaxReads + 1)
         /\ w.rt.owner = 0 => \A r \in w.reads : ~CanCommit(r)
<1>1. \A r \in w.reads : r \in Request /\ r.id \in 1..(MaxReads + 1)
  BY DEF Worlds, Request
<1>2. \A r \in w.reads : r.id # 0
  BY <1>1, Bounds
<1> QED BY <1>1, <1>2 DEF OwnerOnly

LEMMA TeardownFacts ==
  ASSUME NEW w \in Worlds, NEW v \in Vers, Apart(w), OwnerOnly(w, v)
  PROVE  LET n == Teardown(w) IN
         /\ OnReads(w, n) /\ SameStore(w, n) /\ Slotted(n, v) /\ Aged(w, n)
         /\ n.rt.owner = 0 /\ ~n.rt.trailing
         /\ \A q \in n.reads : ~CanCommit(q)
         /\ n.rt.recon = w.rt.recon /\ n.rt.deferred = w.rt.deferred /\ (n.cut <=> w.cut)
         /\ w.rt.owner = 0 => n.reads = w.reads
<1> DEFINE F(r) == IF r.id = w.rt.owner /\ r.aborted = "no" THEN [r EXCEPT !.aborted = "owner"] ELSE r
           R == {F(r) : r \in w.reads}
           n == [w EXCEPT !.rt.owner = 0, !.rt.trailing = FALSE, !.reads = R]
<1>1. Teardown(w) = n
  BY DEF Teardown
<1>2. w.rt \in Scope /\ w.reads \subseteq Request
  BY DEF Worlds
<1>3. ASSUME NEW r \in w.reads
      PROVE  /\ F(r) \in Request /\ F(r).id = r.id /\ F(r).from = r.from
             /\ (F(r).stale <=> r.stale) /\ ~CanCommit(F(r))
  <2>1. r \in Request /\ (CanCommit(r) => r.id = w.rt.owner)
    BY <1>2 DEF OwnerOnly
  <2>2. CASE r.id = w.rt.owner /\ r.aborted = "no"
    BY <2>1, <2>2 DEF Request, CanCommit
  <2>3. CASE ~(r.id = w.rt.owner /\ r.aborted = "no")
    BY <2>1, <2>3 DEF CanCommit
  <2> QED BY <2>2, <2>3
<1>4. w.rt.owner = 0 => R = w.reads
  <2>1. ASSUME w.rt.owner = 0, NEW r \in w.reads PROVE F(r) = r
    BY <2>1, OwnedLives
  <2> QED BY <2>1
<1> HIDE DEF F
<1>5. R \subseteq Request
  BY <1>3
<1>6. /\ \A q \in R : \E r \in w.reads : q = F(r)
      /\ \A r \in w.reads : F(r) \in R
  OBVIOUS
<1> HIDE DEF R
<1>7. n.rt = [w.rt EXCEPT !.owner = 0, !.trailing = FALSE] /\ n.reads = R
  BY DEF Worlds, Scope
<1>8. n \in Worlds
  <2>1. [w.rt EXCEPT !.owner = 0, !.trailing = FALSE] \in Scope
    BY <1>2, Numbers DEF Scope
  <2> QED BY <1>5, <1>7, <2>1 DEF Worlds
<1>9. SameDemand(w, n) /\ SameStream(w, n)
  BY DEF Worlds, Scope, SameDemand, SameStream
<1>10. /\ SameStore(w, n) /\ n.rt.recon = w.rt.recon /\ n.rt.deferred = w.rt.deferred /\ (n.cut <=> w.cut)
       /\ n.rt.owner = 0 /\ ~n.rt.trailing
  BY DEF Worlds, Scope, SameStore
<1> HIDE DEF n
<1>11. \A q \in n.reads : ~CanCommit(q)
  BY <1>3, <1>6, <1>7
<1>12. Aged(w, n)
  BY <1>3, <1>6, <1>7 DEF Aged, Elder
<1>13. Apart(n)
  BY <1>3, <1>6, <1>7 DEF Apart
<1>14. OwnerOnly(n, v)
  <2>1. \A q \in n.reads : q.from <= v /\ q.id # 0
    BY <1>3, <1>6, <1>7, OwnedLives DEF OwnerOnly
  <2> QED BY <1>10, <1>11, <2>1 DEF OwnerOnly, SameStore
<1>15. Owned(n)
  BY <1>10 DEF Owned
<1> QED BY <1>1, <1>4, <1>7, <1>8, <1>9, <1>10, <1>11, <1>12, <1>13, <1>14, <1>15 DEF OnReads, Slotted

LEMMA OwnerType ==
  ASSUME NEW s \in Scope, NEW id \in 1..(MaxReads + 1)
  PROVE  [s EXCEPT !.owner = id, !.trailing = FALSE] \in Scope
<1>1. id \in 0..(MaxReads + 1)
  BY Bounds
<1>2. [s EXCEPT !.owner = id] \in Scope
  BY <1>1 DEF Scope
<1>3. [s EXCEPT !.owner = id, !.trailing = FALSE] = [[s EXCEPT !.owner = id] EXCEPT !.trailing = FALSE]
  BY DEF Scope
<1> QED BY <1>2, <1>3 DEF Scope

LEMMA BeginFacts ==
  ASSUME NEW w \in Worlds, ver \in Vers, Slotted(w, ver), Free(w), w.rt.owner = 0, IsEnabled(w),
         NEW intent \in Intents, NEW shared \in BOOLEAN, NEW polled \in BOOLEAN
  PROVE  LET n == BeginFetch(w, intent, shared, polled) IN
         /\ OnReads(w, n) /\ SameStore(w, n) /\ Slotted(n, ver) /\ Begins(w, n, ver)
         /\ n.rt.recon = w.rt.recon /\ n.rt.deferred = w.rt.deferred /\ (n.cut <=> w.cut)
         /\ \A r \in n.reads : CanCommit(r) => r.from = ver /\ (r.polled <=> polled)
<1> DEFINE id == CHOOSE n \in 1..(MaxReads + 1) : \A r \in w.reads : r.id # n
           b == [id |-> id, intent |-> intent, shared |-> shared, aborted |-> "no",
                 stale |-> FALSE, polled |-> polled, from |-> ver]
           n == [w EXCEPT !.rt.owner = id, !.rt.trailing = FALSE, !.reads = @ \cup {b}]
<1>1. BeginFetch(w, intent, shared, polled) = n
  BY DEF BeginFetch
<1>2. w.rt \in Scope /\ w.reads \subseteq Request
  BY DEF Worlds
<1>3. id \in 1..(MaxReads + 1) /\ \A r \in w.reads : r.id # id
  BY DEF Free
<1> HIDE DEF id
<1>4. b \in Request /\ b.id = id /\ CanCommit(b) /\ b.from = ver /\ (b.polled <=> polled) /\ ~b.stale
      /\ b.aborted # "owner"
  BY <1>3 DEF Request, CanCommit, Vers
<1> HIDE DEF b
<1>5. n.rt = [w.rt EXCEPT !.owner = id, !.trailing = FALSE] /\ n.reads = w.reads \cup {b}
  BY DEF Worlds, Scope
<1>6. n \in Worlds
  <2>1. [w.rt EXCEPT !.owner = id, !.trailing = FALSE] \in Scope
    BY <1>2, <1>3, OwnerType
  <2>2. n.reads \subseteq Request
    BY <1>2, <1>4, <1>5
  <2> QED BY <1>5, <2>1, <2>2 DEF Worlds
<1>a. n.env = w.env /\ n.feed = w.feed /\ n.cut = w.cut /\ n.shown = w.shown /\ n.heard = w.heard
  BY DEF Worlds
<1> HIDE DEF n
<1>7. SameDemand(w, n) /\ SameStream(w, n)
  <2>1. SameDemand(w, n)
    BY <1>2, <1>5, <1>a DEF Scope, SameDemand
  <2>2. SameStream(w, n)
    BY <1>2, <1>5, <1>a DEF Scope, SameStream
  <2> QED BY <2>1, <2>2
<1>8. /\ SameStore(w, n) /\ n.rt.recon = w.rt.recon /\ n.rt.deferred = w.rt.deferred /\ (n.cut <=> w.cut)
      /\ n.rt.owner = id /\ ~n.rt.trailing
  BY <1>2, <1>5, <1>a DEF Scope, SameStore
<1>9. \A q \in w.reads : ~CanCommit(q)
  BY OwnedLives DEF Slotted
<1>10. id # 0
  BY <1>3, Bounds
<1>11. Apart(n)
  BY <1>3, <1>4, <1>5 DEF Slotted, Apart
<1>12. OwnerOnly(n, ver)
  <2>1. b.from >= w.shown /\ b.from <= ver
    BY <1>4 DEF Slotted, OwnerOnly, Vers, Worlds
  <2> QED BY <1>3, <1>4, <1>5, <1>8, <1>9, <2>1 DEF Slotted, OwnerOnly, SameStore
<1>13. Owned(n)
  BY <1>4, <1>5, <1>7, <1>8 DEF Owned, SameDemand, IsEnabled
<1>14. Begins(w, n, ver)
  <2>1. b \notin w.reads
    BY <1>3, <1>4
  <2>2. n.reads \ {b} = w.reads
    BY <1>5, <2>1
  <2> QED BY <1>3, <1>4, <1>5, <1>8, <1>9, <1>10, <2>2 DEF Begins, SameStore
<1>15. \A r \in n.reads : CanCommit(r) => r.from = ver /\ (r.polled <=> polled)
  BY <1>4, <1>5, <1>9
<1> QED BY <1>1, <1>6, <1>7, <1>8, <1>11, <1>12, <1>13, <1>14, <1>15 DEF OnReads, Slotted
-----------------------------------------------------------------------------
(* What is recorded about reads that were put off.                         *)
OnBooks(w, n) == OnReads(w, n) /\ SameStore(w, n) /\ SameSlot(w, n)

LEMMA DeferFacts ==
  ASSUME NEW w \in Worlds, NEW intent \in Intents, NEW shared \in BOOLEAN, NEW query \in BOOLEAN
  PROVE  LET n == Defer(w, intent, shared, query) IN
         /\ OnBooks(w, n) /\ n.rt.recon = w.rt.recon /\ (n.cut <=> w.cut)
         /\ HeldSignal(n) <=> (HeldSignal(w) \/ intent = "stream-signal")
<1>1. CASE intent = "background"
  BY <1>1 DEF Defer, OnBooks, OnReads, SameDemand, SameStream, SameStore, SameSlot
<1>2. CASE intent # "background"
  <2> DEFINE h == [intents |-> w.rt.deferred.intents \cup {intent},
                   shared |-> w.rt.deferred.shared \/ shared, query |-> w.rt.deferred.query \/ query]
             n == [w EXCEPT !.rt.deferred = h]
  <2>1. Defer(w, intent, shared, query) = n
    BY <1>2 DEF Defer
  <2>2. w.rt \in Scope /\ w.rt.deferred \in Held
    BY DEF Worlds, Scope
  <2>3. h \in Held /\ h.intents = w.rt.deferred.intents \cup {intent}
    BY <1>2, <2>2 DEF Held
  <2> HIDE DEF h
  <2>4. n.rt = [w.rt EXCEPT !.deferred = h] /\ n.rt.deferred = h
    BY DEF Worlds, Scope
  <2>5. n \in Worlds
    <3>1. [w.rt EXCEPT !.deferred = h] \in Scope
      BY <2>2, <2>3 DEF Scope
    <3> QED BY <2>4, <3>1 DEF Worlds
  <2>6. SameDemand(w, n)
    BY DEF Worlds, Scope, SameDemand
  <2>7. SameStream(w, n)
    BY DEF Worlds, Scope, SameStream
  <2>8. SameStore(w, n) /\ SameSlot(w, n) /\ n.rt.recon = w.rt.recon /\ n.cut = w.cut
    BY DEF Worlds, Scope, SameStore, SameSlot
  <2> HIDE DEF n
  <2>9. HeldSignal(n) <=> (HeldSignal(w) \/ intent = "stream-signal")
    BY <2>3, <2>4 DEF HeldSignal
  <2> QED BY <2>1, <2>5, <2>6, <2>7, <2>8, <2>9 DEF OnBooks, OnReads
<1> QED BY <1>1, <1>2

LEMMA MarkFacts ==
  ASSUME NEW w \in Worlds, NEW recon \in {"clean", "pending", "failed", "backoff", "retry"}
  PROVE  LET n == [w EXCEPT !.rt.recon = recon] IN
         /\ OnBooks(w, n) /\ n.rt.recon = recon /\ (n.cut <=> w.cut) /\ n.rt.deferred = w.rt.deferred
<1> DEFINE n == [w EXCEPT !.rt.recon = recon]
<1>1. w.rt \in Scope /\ n.rt = [w.rt EXCEPT !.recon = recon]
  BY DEF Worlds, Scope
<1>2. n \in Worlds
  <2>1. [w.rt EXCEPT !.recon = recon] \in Scope
    BY <1>1 DEF Scope
  <2> QED BY <1>1, <2>1 DEF Worlds
<1>3. SameDemand(w, n)
  BY DEF Worlds, Scope, SameDemand
<1>4. SameStream(w, n)
  BY DEF Worlds, Scope, SameStream
<1>5. /\ SameStore(w, n) /\ SameSlot(w, n) /\ n.rt.recon = recon /\ n.cut = w.cut
      /\ n.rt.deferred = w.rt.deferred
  BY DEF Worlds, Scope, SameStore, SameSlot
<1> QED BY <1>2, <1>3, <1>4, <1>5 DEF OnBooks, OnReads

LEMMA MarkFailedFacts ==
  ASSUME NEW w \in Worlds
  PROVE  LET n == MarkFailed(w) IN
         /\ OnBooks(w, n) /\ n.rt.recon # "clean" /\ (n.cut <=> w.cut) /\ n.rt.deferred = w.rt.deferred
<1> DEFINE c == IF w.rt.recon \in {"clean", "pending"} THEN "failed" ELSE "backoff"
<1>1. MarkFailed(w) = [w EXCEPT !.rt.recon = c]
  BY DEF MarkFailed
<1>2. c \in {"clean", "pending", "failed", "backoff", "retry"} /\ c # "clean"
  OBVIOUS
<1> HIDE DEF c
<1>3. LET n == [w EXCEPT !.rt.recon = c] IN
      /\ OnBooks(w, n) /\ n.rt.recon = c /\ (n.cut <=> w.cut) /\ n.rt.deferred = w.rt.deferred
  BY <1>2, MarkFacts
<1> DEFINE n == [w EXCEPT !.rt.recon = c]
<1> HIDE DEF n
<1>4. OnBooks(w, n) /\ n.rt.recon = c /\ (n.cut <=> w.cut) /\ n.rt.deferred = w.rt.deferred
  BY <1>3 DEF n
<1> QED BY <1>1, <1>2, <1>4 DEF n

LEMMA MarkPendingFacts ==
  ASSUME NEW w \in Worlds
  PROVE  LET n == MarkPending(w) IN
         /\ OnBooks(w, n) /\ n.rt.recon # "clean" /\ (n.cut <=> w.cut) /\ n.rt.deferred = w.rt.deferred
<1> DEFINE c == IF w.rt.recon = "clean" THEN "pending" ELSE w.rt.recon
<1>1. MarkPending(w) = [w EXCEPT !.rt.recon = c]
  BY DEF MarkPending
<1>2. c \in {"clean", "pending", "failed", "backoff", "retry"} /\ c # "clean"
  BY DEF Worlds, Scope
<1> HIDE DEF c
<1>3. LET n == [w EXCEPT !.rt.recon = c] IN
      /\ OnBooks(w, n) /\ n.rt.recon = c /\ (n.cut <=> w.cut) /\ n.rt.deferred = w.rt.deferred
  BY <1>2, MarkFacts
<1> DEFINE n == [w EXCEPT !.rt.recon = c]
<1> HIDE DEF n
<1>4. OnBooks(w, n) /\ n.rt.recon = c /\ (n.cut <=> w.cut) /\ n.rt.deferred = w.rt.deferred
  BY <1>3 DEF n
<1> QED BY <1>1, <1>2, <1>4 DEF n

LEMMA RefuseFacts ==
  ASSUME NEW w \in Worlds, NEW intent
  PROVE  LET n == Refuse(w, intent) IN
         /\ OnBooks(w, n) /\ n.rt = w.rt
         /\ n.cut <=> (w.cut \/ (intent = "stream-signal" /\ w.rt.owner # 0))
<1> DEFINE c == w.cut \/ (intent = "stream-signal" /\ w.rt.owner # 0)
           n == [w EXCEPT !.cut = c]
<1>1. Refuse(w, intent) = n
  BY DEF Refuse
<1>2. c \in BOOLEAN
  BY DEF Worlds
<1> HIDE DEF c
<1>3. /\ n \in Worlds /\ n.env = w.env /\ n.rt = w.rt /\ n.reads = w.reads /\ n.feed = w.feed
      /\ n.shown = w.shown /\ n.heard = w.heard /\ (n.cut <=> c)
  BY <1>2 DEF Worlds
<1> HIDE DEF n
<1>4. OnBooks(w, n)
  BY <1>3 DEF OnBooks, OnReads, SameDemand, SameStream, SameStore, SameSlot
<1> QED BY <1>1, <1>3, <1>4 DEF c

LEMMA LatchFacts ==
  ASSUME NEW w \in Worlds
  PROVE  LET n == Latch(w) IN
         /\ OnReads(w, n) /\ SameStore(w, n) /\ n.reads = w.reads /\ n.rt.owner = w.rt.owner
         /\ n.rt.trailing /\ n.rt.recon = w.rt.recon /\ n.rt.deferred = w.rt.deferred
         /\ (n.cut <=> w.cut)
<1> DEFINE n == [w EXCEPT !.rt.trailing = TRUE]
<1>0. Latch(w) = n
  BY DEF Latch
<1>1. w.rt \in Scope /\ n.rt = [w.rt EXCEPT !.trailing = TRUE]
  BY DEF Worlds, Scope
<1>2. n \in Worlds
  <2>1. [w.rt EXCEPT !.trailing = TRUE] \in Scope
    BY <1>1 DEF Scope
  <2> QED BY <1>1, <2>1 DEF Worlds
<1>3. SameDemand(w, n)
  BY DEF Worlds, Scope, SameDemand
<1>4. SameStream(w, n)
  BY DEF Worlds, Scope, SameStream
<1>5. /\ SameStore(w, n) /\ n.reads = w.reads /\ n.rt.owner = w.rt.owner /\ n.rt.trailing
      /\ n.rt.recon = w.rt.recon /\ n.rt.deferred = w.rt.deferred /\ n.cut = w.cut
  BY DEF Worlds, Scope, SameStore
<1> QED BY <1>0, <1>2, <1>3, <1>4, <1>5 DEF OnReads
-----------------------------------------------------------------------------
(* What keeps the invariant.                                               *)
\* Nothing that makes the scope read again is dropped.
Wary(w, n) ==
  /\ w.cut => n.cut
  /\ w.rt.recon # "clean" => n.rt.recon # "clean"
  /\ HeldSignal(w) => HeldSignal(n)
  /\ w.rt.permission = "denied" => n.rt.permission = "denied"
  /\ n.rt.conn = "active" => w.rt.conn = "active" /\ (w.feed.owes => n.feed.owes)
  /\ n.rt.snapshot = 0 => w.rt.snapshot = 0

LEMMA KeptOwner ==
  ASSUME NEW w \in Worlds, NEW n \in Worlds, NEW v \in Vers, Apart(w), OwnerOnly(w, v), SameSlot(w, n),
         n.shown \in {w.shown, 0}, n.heard <= v, w.cut => n.cut
  PROVE  Apart(n) /\ OwnerOnly(n, v) /\ Wilts(w, n)
<1>1. Apart(n)
  BY DEF Apart, SameSlot
<1>2. \A r \in w.reads : r.from \in Nat /\ r.from >= 0
  BY DEF Worlds, Request
<1>3. OwnerOnly(n, v)
  <2>1. v >= 0
    BY DEF Vers
  <2> QED BY <1>2, <2>1 DEF OwnerOnly, SameSlot
<1>4. Wilts(w, n)
  BY DEF Wilts, Aged, Elder, SameSlot
<1> QED BY <1>1, <1>3, <1>4

LEMMA KeptSlotted ==
  ASSUME NEW w \in Worlds, NEW n \in Worlds, NEW v \in Vers, Slotted(w, v), SameSlot(w, n),
         n.shown \in {w.shown, 0}, n.heard <= v, w.cut => n.cut,
         n.rt.act = "disabled" => w.rt.act = "disabled" \/ w.rt.owner = 0
  PROVE  Slotted(n, v) /\ Wilts(w, n)
<1>1. Owned(n)
  BY DEF Slotted, Owned, SameSlot
<1> QED BY <1>1, KeptOwner DEF Slotted

LEMMA KeepsSlotted ==
  ASSUME NEW w \in Worlds, NEW n \in Worlds, NEW v \in Vers, Slotted(w, v), SameSlot(w, n),
         SameStore(w, n) \/ NoStore(n), w.cut => n.cut,
         n.rt.act = "disabled" => w.rt.act = "disabled" \/ w.rt.owner = 0
  PROVE  Slotted(n, v) /\ Wilts(w, n)
<1>1. n.shown \in {w.shown, 0} /\ n.heard <= v
  BY DEF Slotted, OwnerOnly, SameStore, NoStore, Vers
<1> QED BY <1>1, KeptSlotted

LEMMA KeepsRemembered ==
  ASSUME NEW w, NEW n, Remembered(w), SameSlot(w, n), SameStore(w, n), Wary(w, n)
  PROVE  Remembered(n)
<1>1. Missed(w) => Missed(n)
  BY DEF Missed, Wary, SameStore
<1>2. Covered(w) => Covered(n)
  BY DEF Covered, SameSlot, SameStore
<1>3. Early(n) => Early(w)
  BY DEF Early, SameSlot, SameStore
<1>4. Followed(w) => Followed(n)
  BY DEF Followed, SameSlot, SameStore, Wary
<1> QED BY <1>1, <1>2, <1>3, <1>4 DEF Remembered, SameStore, Wary

\* A scope without data of its own to lose has nothing to remember.
LEMMA ResetRemembered ==
  ASSUME NEW n \in Worlds, NoStore(n)
  PROVE  Remembered(n)
<1>1. \A r \in n.reads : r.from \in Nat /\ ~(r.from < n.heard)
  BY DEF Worlds, Request, NoStore
<1> QED BY <1>1 DEF Remembered, NoStore, Early

\* Nor has one whose stream is not active, which asks for a resync before it is.
LEMMA StoppedRemembered ==
  ASSUME NEW n, n.rt.conn # "active", n.rt.snapshot = 0 => n.heard = 0
  PROVE  Remembered(n)
BY DEF Remembered, Missed, Followed

LEMMA BooksKeep ==
  ASSUME NEW w \in Worlds, NEW n, NEW v \in Vers, Slotted(w, v), OnBooks(w, n), w.cut => n.cut
  PROVE  Slotted(n, v) /\ Wilts(w, n)
BY KeepsSlotted DEF OnBooks, OnReads, SameDemand
-----------------------------------------------------------------------------
(* performFetch.                                                           *)
\* Teardown and begin.
LEMMA ReplaceFacts ==
  ASSUME NEW w \in Worlds, ver \in Vers, Slotted(w, ver), Free(w), IsEnabled(w),
         NEW intent \in Intents, NEW shared \in BOOLEAN, NEW polled \in BOOLEAN
  PROVE  LET n == BeginFetch(Teardown(w), intent, shared, polled) IN
         /\ OnReads(w, n) /\ SameStore(w, n) /\ Slotted(n, ver) /\ Begins(w, n, ver)
         /\ n.rt.recon = w.rt.recon /\ n.rt.deferred = w.rt.deferred /\ (n.cut <=> w.cut)
         /\ \A r \in n.reads : CanCommit(r) => r.from = ver /\ (r.polled <=> polled)
<1> DEFINE t == Teardown(w)
           n == BeginFetch(t, intent, shared, polled)
<1>1. /\ OnReads(w, t) /\ SameStore(w, t) /\ Slotted(t, ver) /\ Aged(w, t)
      /\ t.rt.owner = 0 /\ ~t.rt.trailing
      /\ \A q \in t.reads : ~CanCommit(q)
      /\ t.rt.recon = w.rt.recon /\ t.rt.deferred = w.rt.deferred /\ (t.cut <=> w.cut)
      /\ w.rt.owner = 0 => t.reads = w.reads
  BY TeardownFacts DEF Slotted
<1> HIDE DEF t
<1>2. t \in Worlds /\ IsEnabled(t)
  BY <1>1, SameDemandFacts DEF OnReads
<1>3. Free(t)
  BY <1>1 DEF Free, Aged, Elder
<1>4. /\ OnReads(t, n) /\ SameStore(t, n) /\ Slotted(n, ver) /\ Begins(t, n, ver)
      /\ n.rt.recon = t.rt.recon /\ n.rt.deferred = t.rt.deferred /\ (n.cut <=> t.cut)
      /\ \A r \in n.reads : CanCommit(r) => r.from = ver /\ (r.polled <=> polled)
  BY <1>1, <1>2, <1>3, BeginFacts
<1> HIDE DEF n
<1>5. OnReads(w, n) /\ SameStore(w, n)
  BY <1>1, <1>4 DEF OnReads, SameStore, SameDemand, SameStream
<1>6. Begins(w, n, ver)
  <2>1. PICK b \in n.reads :
          /\ b.id = n.rt.owner /\ CanCommit(b) /\ b.from = ver
          /\ \A q \in n.reads \ {b} : ~CanCommit(q) /\ \E r \in t.reads : q.id = r.id /\ q.from = r.from
          /\ \A r \in t.reads : \E q \in n.reads \ {b} : q.id = r.id /\ q.from = r.from
    BY <1>4 DEF Begins
  <2>2. \A q \in n.reads \ {b} : ~CanCommit(q) /\ \E r \in w.reads : q.id = r.id /\ q.from = r.from
    BY <1>1, <2>1 DEF Aged, Elder
  <2>3. \A r \in w.reads : \E q \in n.reads \ {b} : q.id = r.id /\ q.from = r.from
    BY <1>1, <2>1 DEF Aged, Elder
  <2>4. \A r \in w.reads : r.id # n.rt.owner
    BY <1>1, <1>4 DEF Begins, Aged, Elder
  <2>5. ~n.rt.trailing /\ n.shown = w.shown /\ n.rt.owner # 0
    BY <1>4, <1>5 DEF Begins, SameStore
  <2> QED BY <2>1, <2>2, <2>3, <2>4, <2>5 DEF Begins
<1> QED BY <1>1, <1>4, <1>5, <1>6 DEF t, n

\* A read that begins now answers what was heard.
LEMMA BegunRemembered ==
  ASSUME NEW w \in Worlds, NEW n \in Worlds, ver \in Vers, Slotted(w, ver), Slotted(n, ver),
         NEW polled \in BOOLEAN,
         OnReads(w, n), SameStore(w, n), Begins(w, n, ver),
         n.rt.recon = w.rt.recon, n.rt.deferred = w.rt.deferred, n.cut <=> w.cut,
         \A r \in n.reads : CanCommit(r) => r.from = ver /\ (r.polled <=> polled),
         w.rt.snapshot = 0 => w.heard = 0,
         polled => w.rt.owner = 0 /\ Remembered(w)
  PROVE  Remembered(n)
<1>1. n.heard <= ver /\ n.heard \in Nat /\ ver \in Nat
  BY DEF Slotted, OwnerOnly, Worlds, Vers
<1>2. ~Early(n)
  BY <1>1 DEF Early
<1>3. n.rt.snapshot = 0 => n.heard = 0
  BY DEF OnReads, SameDemand, SameStore
<1>4. CASE ~polled
  <2>1. PICK b \in n.reads : b.id = n.rt.owner /\ CanCommit(b) /\ b.from = ver
    BY DEF Begins
  <2>2. Covered(n)
    BY <1>1, <1>4, <2>1 DEF Covered
  <2> QED BY <1>2, <1>3, <2>2 DEF Remembered
<1>5. CASE polled
  <2>1. ~Covered(w)
    BY <1>5, OwnedLives DEF Covered, Slotted, Owned
  <2>2. Missed(w) => Missed(n)
    BY DEF Missed, OnReads, SameDemand, SameStream, SameStore, HeldSignal
  <2> QED BY <1>2, <1>3, <1>5, <2>1, <2>2 DEF Remembered, SameStore
<1> QED BY <1>4, <1>5

\* So does a latched signal.
LEMMA LatchedRemembered ==
  ASSUME NEW n, n.rt.trailing, n.rt.snapshot = 0 => n.heard = 0
  PROVE  Remembered(n)
BY DEF Remembered, Covered, Followed

\* A signal that is turned away while a read is under way leaves its mark.
LEMMA MarkedRemembered ==
  ASSUME NEW w \in Worlds, NEW n \in Worlds, NEW v \in Vers, Slotted(n, v), n.rt.snapshot = 0 => n.heard = 0,
         Missed(n), n.rt.owner # 0 => n.cut \/ HeldSignal(n)
  PROVE  Remembered(n)
<1>1. Early(n) => n.rt.owner # 0
  BY OwnedLives DEF Early, Slotted
<1> QED BY <1>1 DEF Remembered, Followed

\* performFetch keeps what is remembered; a signal, or a user's read of a scope that
\* may be read, needs nothing to be remembered before.
Decides(w, intent, polled) ==
  /\ ~polled
  /\ \/ intent = "stream-signal"
     \/ intent = "user" /\ Serviceable(w) /\ IsEnabled(w)

LEMMA PerformFacts ==
  ASSUME NEW w \in Worlds, ver \in Vers, Slotted(w, ver), Free(w),
         NEW intent \in Intents, NEW shared \in BOOLEAN, NEW polled \in BOOLEAN,
         polled => intent = "background",
         w.rt.snapshot = 0 => w.heard = 0,
         Remembered(w) \/ Decides(w, intent, polled)
  PROVE  LET n == PerformFetch(w, intent, shared, polled) IN
         /\ OnReads(w, n) /\ (SameStore(w, n) \/ NoStore(n))
         /\ Slotted(n, ver) /\ Moves(w, n, ver) /\ Remembered(n)
<1> DEFINE n == PerformFetch(w, intent, shared, polled)
           P(x) == /\ OnReads(w, x) /\ (SameStore(w, x) \/ NoStore(x))
                   /\ Slotted(x, ver) /\ Moves(w, x, ver) /\ Remembered(x)
           replaces == intent = "user" /\ ~shared
<1>a. OnReads(w, w) /\ SameStore(w, w) /\ SameSlot(w, w) /\ Wary(w, w) /\ Slotted(w, ver)
  BY DEF OnReads, SameStore, SameSlot, SameDemand, SameStream, Wary
<1>b. Wilts(w, w)
  BY <1>a, KeepsSlotted DEF SameDemand
<1>c. Remembered(w) => P(w)
  BY <1>a, <1>b DEF Moves
<1>d. ASSUME NEW x, OnBooks(w, x), w.cut => x.cut, Remembered(x) PROVE P(x)
  <2>1. Slotted(x, ver) /\ Wilts(w, x)
    BY <1>d, BooksKeep
  <2> QED BY <1>d, <2>1 DEF OnBooks, Moves
<1>e. ASSUME NEW x, OnBooks(w, x) PROVE x.rt.snapshot = 0 => x.heard = 0
  BY <1>e DEF OnBooks, OnReads, SameDemand, SameStore
<1>f. ASSUME NEW x, OnBooks(w, x) PROVE x \in Worlds /\ SameStore(w, x) /\ SameSlot(w, x)
  BY <1>f DEF OnBooks, OnReads
<1>g. ASSUME NEW x, OnBooks(w, x), w.cut => x.cut PROVE Slotted(x, ver)
  BY <1>g, BooksKeep
<1> HIDE DEF P
<1>1. CASE ~IntentRuns(w, intent)
  <2>1. CASE intent # "stream-signal"
    <3>1. n = w /\ ~Decides(w, intent, polled)
      BY <1>1, <2>1 DEF PerformFetch, IntentRuns, Decides
    <3> QED BY <1>c, <3>1 DEF P
  <2>2. CASE intent = "stream-signal"
    <3> DEFINE f == Refuse(w, intent)
               m == MarkPending(f)
    <3>1. n = m
      BY <1>1, <2>2 DEF PerformFetch
    <3>2. OnBooks(w, f) /\ f.rt = w.rt /\ (f.cut <=> (w.cut \/ w.rt.owner # 0))
      BY <2>2, RefuseFacts
    <3> HIDE DEF f
    <3>3. f \in Worlds
      BY <3>2, <1>f
    <3>4. OnBooks(f, m) /\ m.rt.recon # "clean" /\ (m.cut <=> f.cut) /\ m.rt.deferred = f.rt.deferred
      BY <3>3, MarkPendingFacts
    <3> HIDE DEF m
    <3>5. OnBooks(w, m) /\ m.rt.owner = w.rt.owner
      BY <3>2, <3>4 DEF OnBooks, OnReads, SameStore, SameSlot, SameDemand, SameStream
    <3>6. Slotted(m, ver)
      BY <3>2, <3>4, <3>5, <1>g
    <3>7. Remembered(m)
      BY <1>e, <1>f, <3>2, <3>4, <3>5, <3>6, MarkedRemembered DEF Missed
    <3>8. P(m)
      BY <1>d, <3>2, <3>4, <3>5, <3>7
    <3> QED BY <3>1, <3>8 DEF P
  <2> QED BY <2>1, <2>2
<1>2. CASE IntentRuns(w, intent) /\ intent # "user" /\ w.rt.recon = "backoff"
  <2> DEFINE f == Refuse(w, intent)
  <2>1. n = f
    BY <1>2 DEF PerformFetch
  <2>2. OnBooks(w, f) /\ f.rt = w.rt /\ (f.cut <=> (w.cut \/ (intent = "stream-signal" /\ w.rt.owner # 0)))
    BY RefuseFacts
  <2> HIDE DEF f
  <2>3. CASE intent = "stream-signal"
    <3>1. Remembered(f)
      BY <1>2, <1>e, <1>f, <1>g, <2>2, <2>3, MarkedRemembered DEF Missed
    <3> QED BY <1>d, <2>1, <2>2, <3>1 DEF P
  <2>4. CASE intent # "stream-signal"
    <3>1. Remembered(w)
      BY <1>2, <2>4 DEF Decides
    <3>2. Wary(w, f)
      BY <2>2 DEF Wary, OnBooks, OnReads, SameStream, HeldSignal
    <3>3. Remembered(f)
      BY <1>f, <2>2, <3>1, <3>2, KeepsRemembered
    <3> QED BY <1>d, <2>1, <2>2, <3>3 DEF P
  <2> QED BY <2>3, <2>4
<1>3. CASE IntentRuns(w, intent) /\ ~(intent # "user" /\ w.rt.recon = "backoff") /\ ~Serviceable(w)
  <2> DEFINE f == Defer(w, intent, shared, FALSE)
  <2>1. n = f
    BY <1>3 DEF PerformFetch
  <2>2. /\ OnBooks(w, f) /\ f.rt.recon = w.rt.recon /\ (f.cut <=> w.cut)
        /\ HeldSignal(f) <=> (HeldSignal(w) \/ intent = "stream-signal")
    BY DeferFacts
  <2> HIDE DEF f
  <2>3. CASE intent = "stream-signal"
    <3>1. Remembered(f)
      BY <1>e, <1>f, <1>g, <2>2, <2>3, MarkedRemembered DEF Missed
    <3> QED BY <1>d, <2>1, <2>2, <3>1 DEF P
  <2>4. CASE intent # "stream-signal"
    <3>1. Remembered(w)
      BY <1>3, <2>4 DEF Decides
    <3>2. Wary(w, f)
      BY <2>2 DEF Wary, OnBooks, OnReads, SameStream, SameDemand
    <3>3. Remembered(f)
      BY <1>f, <2>2, <3>1, <3>2, KeepsRemembered
    <3> QED BY <1>d, <2>1, <2>2, <3>3 DEF P
  <2> QED BY <2>3, <2>4
<1>4. CASE /\ IntentRuns(w, intent) /\ ~(intent # "user" /\ w.rt.recon = "backoff")
           /\ Serviceable(w) /\ ~IsEnabled(w)
  <2> DEFINE f == ResetStore(w)
  <2>1. n = f
    BY <1>4 DEF PerformFetch
  <2>2. OnStream(w, f) /\ NoStore(f) /\ SameStream(w, f)
    BY ResetFacts
  <2> HIDE DEF f
  <2>3. Slotted(f, ver) /\ Wilts(w, f)
    BY <2>2, KeepsSlotted DEF OnStream, SameWork, SameDemand
  <2>4. Remembered(f)
    BY <2>2, ResetRemembered DEF OnStream
  <2> QED BY <2>1, <2>2, <2>3, <2>4 DEF P, OnReads, OnStream, Moves
<1>5. CASE /\ IntentRuns(w, intent) /\ ~(intent # "user" /\ w.rt.recon = "backoff")
           /\ Serviceable(w) /\ IsEnabled(w) /\ w.rt.owner # 0 /\ ~replaces
  <2>1. CASE intent = "stream-signal" \/ shared
    <3> DEFINE f == Latch(w)
    <3>1. n = f
      BY <1>5, <2>1 DEF PerformFetch
    <3>2. /\ OnReads(w, f) /\ SameStore(w, f) /\ f.reads = w.reads /\ f.rt.owner = w.rt.owner
          /\ f.rt.trailing /\ f.rt.recon = w.rt.recon /\ f.rt.deferred = w.rt.deferred
          /\ (f.cut <=> w.cut)
      BY LatchFacts
    <3> HIDE DEF f
    <3>3. Apart(f) /\ OwnerOnly(f, ver)
      BY <3>2 DEF Slotted, Apart, OwnerOnly, SameStore
    <3>4. Owned(f)
      BY <1>5, <3>2 DEF Slotted, Owned, OnReads, SameDemand
    <3>5. Remembered(f)
      BY <3>2, LatchedRemembered DEF OnReads, SameDemand, SameStore
    <3>6. Latches(w, f)
      BY <1>5, <3>2 DEF Latches, SameStore
    <3> QED BY <3>1, <3>2, <3>3, <3>4, <3>5, <3>6 DEF Slotted, Moves
  <2>2. CASE ~(intent = "stream-signal" \/ shared)
    <3>1. n = w /\ ~Decides(w, intent, polled)
      BY <1>5, <2>2 DEF PerformFetch, Decides
    <3> QED BY <1>c, <3>1 DEF P
  <2> QED BY <2>1, <2>2
<1>6. CASE /\ IntentRuns(w, intent) /\ ~(intent # "user" /\ w.rt.recon = "backoff")
           /\ Serviceable(w) /\ IsEnabled(w) /\ ~(w.rt.owner # 0 /\ ~replaces)
           /\ intent # "user" /\ w.rt.permission = "denied"
  <2>1. n = w /\ w.rt.owner = 0
    BY <1>6 DEF PerformFetch
  <2>2. Remembered(w)
    <3>1. Missed(w)
      BY <1>6 DEF Missed
    <3> QED BY <2>1, <3>1, MarkedRemembered
  <2> QED BY <1>c, <2>1, <2>2 DEF P
<1>7. CASE /\ IntentRuns(w, intent) /\ ~(intent # "user" /\ w.rt.recon = "backoff")
           /\ Serviceable(w) /\ IsEnabled(w) /\ ~(w.rt.owner # 0 /\ ~replaces)
           /\ ~(intent # "user" /\ w.rt.permission = "denied")
  <2> DEFINE f == BeginFetch(Teardown(w), intent, shared, polled)
  <2>1. n = f
    BY <1>7 DEF PerformFetch
  <2>2. /\ OnReads(w, f) /\ SameStore(w, f) /\ Slotted(f, ver) /\ Begins(w, f, ver)
        /\ f.rt.recon = w.rt.recon /\ f.rt.deferred = w.rt.deferred /\ (f.cut <=> w.cut)
        /\ \A r \in f.reads : CanCommit(r) => r.from = ver /\ (r.polled <=> polled)
    BY <1>7, ReplaceFacts
  <2> HIDE DEF f
  <2>3. polled => w.rt.owner = 0 /\ Remembered(w)
    BY <1>7 DEF Decides
  <2>4. Remembered(f)
    BY <2>2, <2>3, BegunRemembered DEF OnReads
  <2> QED BY <2>1, <2>2, <2>4 DEF Moves
<1> QED BY <1>1, <1>2, <1>3, <1>4, <1>5, <1>6, <1>7
-----------------------------------------------------------------------------
(* fetchScopedDomain and its callers.                                      *)
\* A call that may ask the stream for a resync, and is else about the reads.
OnFetch(w, n) ==
  /\ n \in Worlds /\ SameDemand(w, n) /\ (SameStore(w, n) \/ NoStore(n))
  /\ n.rt.tasks = w.rt.tasks /\ n.rt.ready = w.rt.ready /\ n.rt.conn = w.rt.conn
  /\ (n.rt.cancelled <=> w.rt.cancelled) /\ (n.rt.retry <=> w.rt.retry)
  /\ n.feed.sub = w.feed.sub /\ (w.feed.owes => n.feed.owes)

LEMMA UnheardRemembered ==
  ASSUME NEW w \in Worlds, w.heard = 0
  PROVE  Remembered(w)
<1>1. \A r \in w.reads : r.from \in Nat /\ ~(r.from < w.heard)
  BY DEF Worlds, Request
<1>2. ~(w.heard > w.shown)
  BY DEF Worlds
<1> QED BY <1>1, <1>2 DEF Remembered, Early

\* The intent decides by itself what is remembered.
Settles(w, intent, polled) ==
  Decides(w, intent, polled) /\ (intent = "user" /\ w.rt.owner # 0 => w.cut)

LEMMA FetchFacts ==
  ASSUME NEW w \in Worlds, ver \in Vers, Slotted(w, ver), Free(w), Active(w),
         NEW intent \in Intents, NEW shared \in BOOLEAN, NEW polled \in BOOLEAN, NEW query \in BOOLEAN,
         polled => intent = "background",
         w.rt.snapshot = 0 => w.heard = 0,
         Remembered(w) \/ Settles(w, intent, polled)
  PROVE  LET n == Fetch(w, intent, shared, polled, query) IN
         OnFetch(w, n) /\ Slotted(n, ver) /\ Moves(w, n, ver) /\ Remembered(n)
<1> DEFINE n == Fetch(w, intent, shared, polled, query)
           P(x) == OnFetch(w, x) /\ Slotted(x, ver) /\ Moves(w, x, ver) /\ Remembered(x)
           idle == query /\ w.rt.query > 0 /\ w.rt.snapshot = 0
           resync == Streams(w) /\ intent = "user" /\ ~shared /\ w.rt.conn = "active"
<1>a. SameSlot(w, w) /\ SameStore(w, w) /\ OnFetch(w, w)
  BY DEF SameSlot, SameStore, OnFetch, SameDemand
<1>b. Remembered(w) => P(w)
  <2>1. Wilts(w, w)
    BY <1>a, KeepsSlotted
  <2> QED BY <1>a, <2>1 DEF Moves
<1> HIDE DEF P
<1>1. CASE ~Serviceable(w)
  <2> DEFINE f == Defer(w, intent, shared, query)
  <2>1. n = f
    BY <1>1 DEF Fetch
  <2>2. /\ OnBooks(w, f) /\ f.rt.recon = w.rt.recon /\ (f.cut <=> w.cut)
        /\ HeldSignal(f) <=> (HeldSignal(w) \/ intent = "stream-signal")
    BY DeferFacts
  <2> HIDE DEF f
  <2>3. /\ Slotted(f, ver) /\ Wilts(w, f) /\ f \in Worlds /\ SameStore(w, f) /\ SameSlot(w, f)
        /\ OnFetch(w, f) /\ f.rt.snapshot = w.rt.snapshot
    BY <2>2, BooksKeep DEF OnBooks, OnReads, OnFetch, SameStream, SameDemand
  <2>4. CASE intent = "stream-signal"
    <3>1. Remembered(f)
      BY <2>2, <2>3, <2>4, MarkedRemembered DEF Missed, SameStore
    <3> QED BY <2>1, <2>3, <3>1 DEF Moves
  <2>5. CASE intent # "stream-signal"
    <3>1. Remembered(w)
      BY <1>1, <2>5 DEF Settles, Decides
    <3>2. Wary(w, f)
      BY <2>2 DEF Wary, OnBooks, OnReads, SameStream, SameDemand
    <3>3. Remembered(f)
      BY <2>3, <3>1, <3>2, KeepsRemembered
    <3> QED BY <2>1, <2>3, <3>3 DEF Moves
  <2> QED BY <2>4, <2>5
<1>2. CASE Serviceable(w) /\ idle
  <2>1. n = w
    BY <1>2 DEF Fetch
  <2>2. Remembered(w)
    BY <1>2, UnheardRemembered
  <2> QED BY <1>b, <2>1, <2>2 DEF P
<1>3. CASE Serviceable(w) /\ ~idle /\ resync
  <2> DEFINE f == [w EXCEPT !.feed.owes = TRUE, !.feed.sub = "leased"]
  <2>1. n = f
    BY <1>3 DEF Fetch
  <2>2. w.feed \in Feeds /\ w.feed.sub = "leased"
    BY <1>3 DEF Worlds, Active
  <2>3. /\ f.env = w.env /\ f.rt = w.rt /\ f.reads = w.reads /\ f.shown = w.shown
        /\ f.heard = w.heard /\ f.cut = w.cut
        /\ f.feed = [w.feed EXCEPT !.owes = TRUE, !.sub = "leased"]
    BY DEF Worlds, Feeds
  <2>4. f \in Worlds
    <3>1. [w.feed EXCEPT !.owes = TRUE, !.sub = "leased"] \in Feeds
      BY <2>2 DEF Feeds
    <3> QED BY <2>3, <3>1 DEF Worlds
  <2>5. f.feed.owes /\ f.feed.sub = "leased"
    BY <2>2, <2>3 DEF Feeds
  <2> HIDE DEF f
  <2>6. OnFetch(w, f) /\ SameSlot(w, f) /\ SameStore(w, f)
    BY <2>2, <2>3, <2>4, <2>5 DEF OnFetch, SameDemand, SameSlot, SameStore
  <2>7. Slotted(f, ver) /\ Wilts(w, f)
    BY <2>3, <2>4, <2>6, KeepsSlotted
  <2>8. CASE Remembered(w)
    <3>1. Wary(w, f)
      BY <2>3, <2>5 DEF Wary, HeldSignal
    <3>2. Remembered(f)
      BY <2>6, <2>8, <3>1, KeepsRemembered
    <3> QED BY <2>1, <2>6, <2>7, <3>2 DEF Moves
  <2>9. CASE ~Remembered(w)
    <3>1. w.rt.owner # 0 => w.cut
      BY <1>3, <2>9 DEF Settles
    <3>2. Missed(f)
      BY <2>5 DEF Missed
    <3>3. Remembered(f)
      BY <2>3, <2>4, <2>7, <3>1, <3>2, MarkedRemembered
    <3> QED BY <2>1, <2>6, <2>7, <3>3 DEF Moves
  <2> QED BY <2>8, <2>9
<1>4. CASE Serviceable(w) /\ ~idle /\ ~resync /\ SkipsRead(w, intent)
  <2>1. n = w
    BY <1>4 DEF Fetch
  <2>2. Remembered(w)
    BY <1>4 DEF SkipsRead, Settles, Decides
  <2> QED BY <1>b, <2>1, <2>2 DEF P
<1>5. CASE Serviceable(w) /\ ~idle /\ ~resync /\ ~SkipsRead(w, intent)
  <2> DEFINE f == PerformFetch(w, intent, shared, polled)
  <2>1. n = f
    BY <1>5 DEF Fetch
  <2>2. /\ OnReads(w, f) /\ (SameStore(w, f) \/ NoStore(f))
        /\ Slotted(f, ver) /\ Moves(w, f, ver) /\ Remembered(f)
    BY PerformFacts DEF Settles
  <2> HIDE DEF f
  <2>3. OnFetch(w, f)
    BY <2>2 DEF OnFetch, OnReads, SameStream
  <2> QED BY <2>1, <2>2, <2>3
<1> QED BY <1>1, <1>2, <1>3, <1>4, <1>5

LEMMA InitialFacts ==
  ASSUME NEW w \in Worlds, ver \in Vers, Slotted(w, ver), Free(w),
         w.rt.snapshot = 0 => w.heard = 0,
         w.shown # 0 => Remembered(w)
  PROVE  LET n == InitialSnapshot(w) IN
         /\ OnReads(w, n) /\ (SameStore(w, n) \/ NoStore(n))
         /\ Slotted(n, ver) /\ Moves(w, n, ver) /\ Remembered(n)
<1> DEFINE n == InitialSnapshot(w)
<1>1. CASE w.shown = 0 /\ (~Leased(w) \/ w.rt.snapshot > 0)
  <2>1. n = PerformFetch(w, "stream-signal", FALSE, FALSE)
    BY <1>1 DEF InitialSnapshot
  <2>2. Decides(w, "stream-signal", FALSE) /\ "stream-signal" \in Intents
    BY DEF Decides, Intents
  <2>3. LET x == PerformFetch(w, "stream-signal", FALSE, FALSE) IN
        /\ OnReads(w, x) /\ (SameStore(w, x) \/ NoStore(x))
        /\ Slotted(x, ver) /\ Moves(w, x, ver) /\ Remembered(x)
    BY <2>2, PerformFacts
  <2> QED BY <2>1, <2>3
<1>2. CASE ~(w.shown = 0 /\ (~Leased(w) \/ w.rt.snapshot > 0))
  <2>1. n = w
    BY <1>2 DEF InitialSnapshot
  <2>2. w.rt.snapshot \in Nat
    BY DEF Worlds, Scope
  <2>3. Remembered(w)
    BY <1>2, <2>2, UnheardRemembered
  <2>4. OnReads(w, w) /\ SameStore(w, w) /\ SameSlot(w, w)
    BY DEF OnReads, SameStore, SameSlot, SameDemand, SameStream
  <2>5. Wilts(w, w)
    BY <2>4, KeepsSlotted
  <2> QED BY <2>1, <2>3, <2>4, <2>5 DEF Moves
<1> QED BY <1>1, <1>2
-----------------------------------------------------------------------------
(* The world of the variables.                                             *)
LEMMA WorldFields ==
  /\ World.env = env /\ World.rt = rt /\ World.reads = reads /\ World.feed = feed
  /\ World.shown = shown /\ World.heard = heard /\ World.cut = cut
BY DEF World

LEMMA SaneWorld ==
  ASSUME RuntimeInv
  PROVE  /\ World \in Worlds /\ ver \in Vers /\ ops \in Nat /\ Slotted(World, ver)
         /\ Streaming(World) /\ Remembered(World) /\ (rt.snapshot = 0 => heard = 0)
         /\ rt \in Scope /\ env \in Environments /\ feed \in Feeds
<1>1. World \in Worlds /\ Slotted(World, ver) /\ Streaming(World) /\ Remembered(World)
  BY DEF RuntimeInv, Sane
<1>2. rt \in Scope /\ env \in Environments /\ feed \in Feeds
  BY <1>1, WorldFields DEF Worlds
<1>3. rt.snapshot = 0 => heard = 0
  BY <1>1, WorldFields DEF Remembered
<1> QED BY <1>1, <1>2, <1>3 DEF RuntimeInv

\* A request is left to be named: the bound on requests leaves one identity free.
LEMMA FreeWorld ==
  ASSUME RuntimeInv
  PROVE  Free(World)
<1> DEFINE I == 1..(MaxReads + 1)
<1>1. reads \subseteq Request /\ (\A q, r \in reads : q.id = r.id => q = r)
      /\ Cardinality(reads) <= MaxReads
  BY WorldFields DEF RuntimeInv, Sane, Worlds, Slotted, Apart
<1>2. MaxReads \in Nat /\ MaxReads + 1 \in Int /\ 1 \in Int /\ ~(1 > MaxReads + 1)
  BY Bounds
<1>3. IsFiniteSet(I) /\ Cardinality(I) = MaxReads + 1
  <2>1. IsFiniteSet(I) /\ Cardinality(I) = IF 1 > MaxReads + 1 THEN 0 ELSE (MaxReads + 1) - 1 + 1
    BY <1>2, FS_Interval
  <2> QED BY <1>2, <2>1
<1>4. IsFiniteSet(reads)
  <2> DEFINE g == [r \in reads |-> r.id]
  <2>1. g \in [reads -> I] /\ \A q, r \in reads : g[q] = g[r] => q = r
    BY <1>1 DEF Request
  <2>2. g \in Injection(reads, I)
    BY <2>1 DEF Injection, IsInjective
  <2> QED BY <1>3, <2>2, FS_Injection
<1>5. SUFFICES ASSUME \A n \in I : \E r \in reads : r.id = n
               PROVE  FALSE
  BY WorldFields DEF Free
<1> DEFINE f == [n \in I |-> CHOOSE r \in reads : r.id = n]
<1>6. f \in [I -> reads] /\ \A n \in I : f[n].id = n
  BY <1>5
<1>7. Cardinality(reads) < Cardinality(I)
  <2>1. Cardinality(reads) \in Nat
    BY <1>4, FS_CardinalityType
  <2> QED BY <1>1, <1>2, <1>3, <2>1
<1> HIDE DEF f, I
<1>8. PICK x, y \in I : x # y /\ f[x] = f[y]
  BY <1>3, <1>4, <1>6, <1>7, FS_PigeonHole
<1> QED BY <1>6, <1>8

LEMMA TasksFinite ==
  ASSUME RuntimeInv
  PROVE  IsFiniteSet(rt.tasks) /\ Cardinality(rt.tasks) \in Nat
<1>1. rt.tasks \in SUBSET (1..(MaxOps + 1))
  BY SaneWorld DEF Scope
<1>2. IsFiniteSet(1..(MaxOps + 1))
  BY Bounds, FS_Interval
<1>3. IsFiniteSet(rt.tasks)
  BY <1>1, <1>2, FS_Subset
<1> QED BY <1>3, FS_CardinalityType

LEMMA RoomWorld ==
  ASSUME RuntimeInv, ops < MaxOps
  PROVE  Room(World)
<1> DEFINE I == 1..(MaxOps + 1)
<1>1. rt.tasks \in SUBSET I /\ Cardinality(rt.tasks) <= ops + 1 /\ ops \in Nat
  BY SaneWorld DEF Scope, RuntimeInv
<1>2. IsFiniteSet(I) /\ Cardinality(I) = MaxOps + 1
  <2>1. MaxOps \in Nat /\ MaxOps + 1 \in Int /\ 1 \in Int /\ ~(1 > MaxOps + 1)
    BY Bounds
  <2>2. IsFiniteSet(I) /\ Cardinality(I) = IF 1 > MaxOps + 1 THEN 0 ELSE (MaxOps + 1) - 1 + 1
    BY <2>1, FS_Interval
  <2> QED BY <2>1, <2>2
<1>3. rt.tasks # I
  BY <1>1, <1>2, Bounds
<1> QED BY <1>1, <1>3, WorldFields DEF Room

LEMMA BecomeFacts ==
  ASSUME NEW n \in Worlds, Become(n)
  PROVE  /\ World' = n /\ Cardinality(reads') <= MaxReads /\ rt' = n.rt
         /\ env' = n.env /\ reads' = n.reads /\ feed' = n.feed /\ shown' = n.shown
         /\ heard' = n.heard /\ cut' = n.cut
<1>1. /\ env' = n.env /\ rt' = n.rt /\ reads' = n.reads /\ feed' = n.feed /\ shown' = n.shown
      /\ heard' = n.heard /\ cut' = n.cut
  BY DEF Become
<1>2. World' = n
  BY <1>1 DEF World, Worlds
<1> QED BY <1>1, <1>2 DEF Become, Bounded

\* A step to a sane world; it may have queued one more microtask if it was counted,
\* or if none was queued.
LEMMA StepInv ==
  ASSUME RuntimeInv, NEW n, Sane(n, ver), Become(n), UNCHANGED ver,
         \/ ops' = ops + 1 /\ ops < MaxOps /\ n.rt.tasks \subseteq rt.tasks \cup {n.rt.ready}
         \/ ops' = ops /\ (n.rt.tasks \subseteq rt.tasks \/ n.rt.tasks \subseteq {n.rt.ready})
  PROVE  RuntimeInv' /\ World' = n
<1>1. n \in Worlds /\ World' = n /\ rt' = n.rt /\ Cardinality(reads') <= MaxReads
  BY BecomeFacts DEF Sane
<1>2. ops' \in 0..MaxOps /\ ops \in Nat /\ ops \in 0..MaxOps /\ Cardinality(rt.tasks) <= ops + 1
  BY Bounds DEF RuntimeInv
<1>3. IsFiniteSet(rt.tasks) /\ Cardinality(rt.tasks) \in Nat
  BY TasksFinite
<1>4. ASSUME NEW S, IsFiniteSet(S), Cardinality(S) <= ops' + 1, n.rt.tasks \subseteq S
      PROVE  Cardinality(n.rt.tasks) <= ops' + 1
  <2>1. IsFiniteSet(n.rt.tasks) /\ Cardinality(n.rt.tasks) <= Cardinality(S)
    BY <1>4, FS_Subset
  <2>2. Cardinality(S) \in Nat /\ Cardinality(n.rt.tasks) \in Nat
    BY <1>4, <2>1, FS_CardinalityType
  <2> QED BY <1>2, <1>4, <2>1, <2>2
<1>5. Cardinality(n.rt.tasks) <= ops' + 1
  <2>1. CASE n.rt.tasks \subseteq rt.tasks /\ ops' \in {ops, ops + 1}
    BY <1>2, <1>3, <1>4, <2>1
  <2>2. CASE n.rt.tasks \subseteq {n.rt.ready} /\ ops' = ops
    <3>1. IsFiniteSet({n.rt.ready}) /\ Cardinality({n.rt.ready}) = 1
      BY FS_Singleton
    <3> QED BY <1>2, <1>4, <2>2, <3>1
  <2>3. CASE n.rt.tasks \subseteq rt.tasks \cup {n.rt.ready} /\ ops' = ops + 1
    <3> DEFINE S == rt.tasks \cup {n.rt.ready}
    <3>1. /\ IsFiniteSet(S)
          /\ Cardinality(S) = IF n.rt.ready \in rt.tasks THEN Cardinality(rt.tasks)
                              ELSE Cardinality(rt.tasks) + 1
      BY <1>3, FS_AddElement
    <3>2. Cardinality(S) <= ops' + 1
      BY <1>2, <1>3, <2>3, <3>1
    <3> HIDE DEF S
    <3> QED BY <1>4, <2>3, <3>1, <3>2 DEF S
  <2> QED BY <2>1, <2>2, <2>3
<1>6. ver' = ver /\ ver \in Vers
  BY DEF RuntimeInv
<1> QED BY <1>1, <1>2, <1>5, <1>6 DEF RuntimeInv
-----------------------------------------------------------------------------
(* Steps.                                                                  *)
\* Standing without a signal that was let go, of w.
Rests(w) ==
  /\ w.shown # 0 /\ Streams(w) /\ ~w.env.hidden /\ w.rt.snapshot > 0 /\ w.rt.permission # "denied"
  /\ w.rt.conn = "active" /\ w.feed.healthy /\ ~w.feed.owes
  /\ w.rt.recon = "clean" /\ w.rt.deferred = Waiting /\ ~w.cut

\* A step that ends no request: what the slot goes through is one move of it, or it
\* is given up, and with it a latched signal only if something else will make the
\* scope read again.
Stepped(w, n, v) ==
  /\ Sane(n, v)
  /\ Moves(w, n, v) \/ (Yields(w, n) /\ (w.rt.trailing => ~Rests(n)))

LEMMA MovesOn ==
  ASSUME NEW w, NEW x, NEW y, NEW n, NEW v,
         SameSlot(w, x), x.shown = w.shown, Moves(x, y, v), SameSlot(y, n), n.shown = y.shown
  PROVE  Moves(w, n, v)
<1>1. CASE Wilts(x, y)
  BY <1>1 DEF Moves, Wilts, Aged, SameSlot
<1>2. CASE Latches(x, y)
  BY <1>2 DEF Moves, Latches, SameSlot
<1>3. CASE Begins(x, y, v)
  <2>1. /\ ~n.rt.trailing /\ n.shown = w.shown
        /\ n.rt.owner # 0 /\ \A r \in w.reads : r.id # n.rt.owner
    BY <1>3 DEF Begins, SameSlot
  <2>2. w.reads = x.reads /\ n.reads = y.reads /\ n.rt.owner = y.rt.owner
    BY DEF SameSlot
  <2> QED BY <1>3, <2>1, <2>2 DEF Begins, Moves
<1> QED BY <1>1, <1>2, <1>3 DEF Moves

LEMMA YieldsOn ==
  ASSUME NEW w, NEW x, NEW y, NEW n,
         SameSlot(w, x), x.shown \in {w.shown, 0}, Yields(x, y), SameSlot(y, n), n.shown \in {y.shown, 0}
  PROVE  Yields(w, n)
BY DEF Yields, Aged, SameSlot

LEMMA FetchStreaming ==
  ASSUME NEW w, NEW n, OnFetch(w, n), Streaming(w)
  PROVE  Streaming(n)
<1>1. /\ Streams(n) <=> Streams(w)
      /\ Leased(n) <=> Leased(w)
      /\ Demanded(n) <=> Demanded(w)
  BY SameDemandFacts DEF OnFetch
<1>2. Queued(n) /\ Supplied(n) /\ Starting(n)
  BY <1>1 DEF Streaming, Queued, Supplied, Starting, OnFetch, SameDemand
<1>3. Active(n)
  BY <1>1 DEF Streaming, Active, OnFetch, SameDemand
<1> QED BY <1>1, <1>2, <1>3 DEF Streaming

LEMMA ReadsFetch ==
  ASSUME NEW w, NEW n, OnReads(w, n), SameStore(w, n) \/ NoStore(n)
  PROVE  OnFetch(w, n)
BY DEF OnReads, OnFetch, SameStream

\* Steps that leave the slot alone.
LEMMA KeepsStepped ==
  ASSUME NEW w \in Worlds, NEW n \in Worlds, NEW v \in Vers, Slotted(w, v), SameSlot(w, n),
         n.shown \in {w.shown, 0}, n.heard <= v, w.cut => n.cut,
         n.rt.act = "disabled" => w.rt.act = "disabled" \/ w.rt.owner = 0,
         Streaming(n), Remembered(n)
  PROVE  Stepped(w, n, v)
<1>1. Slotted(n, v) /\ Wilts(w, n)
  BY KeptSlotted
<1> QED BY <1>1 DEF Stepped, Sane, Moves

\* Worlds that differ in nothing the invariant is about.
Alike(w, n) ==
  n \in Worlds /\ SameWork(w, n) /\ SameDemand(w, n) /\ SameStore(w, n) /\ SameStream(w, n) /\ n.feed = w.feed

LEMMA AlikeSane ==
  ASSUME NEW w \in Worlds, NEW n, NEW v \in Vers, Alike(w, n)
  PROVE  /\ Slotted(w, v) => Slotted(n, v)
         /\ Streaming(w) => Streaming(n)
         /\ Remembered(w) => Remembered(n)
         /\ Rests(n) => Rests(w)
<1>1. n \in Worlds /\ SameSlot(w, n) /\ SameStore(w, n) /\ (w.cut <=> n.cut) /\ n.rt.act = w.rt.act
  BY DEF Alike, SameWork, SameDemand
<1>2. Slotted(w, v) => Slotted(n, v)
  BY <1>1, KeepsSlotted
<1>3. Streaming(w) => Streaming(n)
  BY FetchStreaming DEF Alike, OnFetch, SameStream
<1>4. Wary(w, n)
  BY DEF Wary, Alike, SameWork, SameDemand, SameStream, HeldSignal
<1>5. Remembered(w) => Remembered(n)
  BY <1>1, <1>4, KeepsRemembered
<1>6. Rests(n) => Rests(w)
  <2>1. Streams(n) <=> Streams(w)
    BY SameDemandFacts DEF Alike
  <2> QED BY <1>1, <2>1 DEF Rests, Alike, SameWork, SameDemand, SameStream, SameStore
<1> QED BY <1>2, <1>3, <1>5, <1>6

LEMMA PollFacts ==
  ASSUME NEW w \in Worlds, NEW p \in BOOLEAN
  PROVE  Alike(w, [w EXCEPT !.rt.poll = p])
<1> DEFINE n == [w EXCEPT !.rt.poll = p]
<1>1. w.rt \in Scope /\ n.rt = [w.rt EXCEPT !.poll = p] /\ n.feed = w.feed
  BY DEF Worlds, Scope
<1>2. n \in Worlds
  <2>1. [w.rt EXCEPT !.poll = p] \in Scope
    BY <1>1 DEF Scope
  <2> QED BY <1>1, <2>1 DEF Worlds
<1>3. SameDemand(w, n)
  BY DEF Worlds, Scope, SameDemand
<1>4. SameStream(w, n)
  BY DEF Worlds, Scope, SameStream
<1>5. /\ SameStore(w, n) /\ SameSlot(w, n) /\ n.rt.recon = w.rt.recon /\ n.cut = w.cut
      /\ n.rt.deferred = w.rt.deferred
  BY DEF Worlds, Scope, SameStore, SameSlot
<1> QED BY <1>1, <1>2, <1>3, <1>4, <1>5 DEF Alike, SameWork

LEMMA SchedulePollFacts ==
  ASSUME NEW w \in Worlds
  PROVE  Alike(w, SchedulePoll(w))
<1> DEFINE p == Leased(w) /\ ~PassiveWorkPaused(w)
<1>1. SchedulePoll(w) = [w EXCEPT !.rt.poll = p] /\ p \in BOOLEAN
  BY DEF SchedulePoll
<1> HIDE DEF p
<1> QED BY <1>1, PollFacts

LEMMA ActInv ==
  ASSUME RuntimeInv, NEW n, Stepped(World, n, ver), Become(n), UNCHANGED ver,
         \/ ops' = ops + 1 /\ ops < MaxOps /\ n.rt.tasks \subseteq rt.tasks \cup {n.rt.ready}
         \/ ops' = ops /\ (n.rt.tasks \subseteq rt.tasks \/ n.rt.tasks \subseteq {n.rt.ready})
  PROVE  RuntimeInv' /\ Stepped(World, World', ver)
<1>1. RuntimeInv' /\ World' = n
  BY StepInv DEF Stepped
<1> QED BY <1>1
-----------------------------------------------------------------------------
(* Leases.                                                                 *)
\* The scope with one more lease.
LEMMA HeldFacts ==
  ASSUME RuntimeInv, NEW demand \in {"query", "snapshot"}, rt[demand] < MaxLeases
  PROVE  LET held == [World EXCEPT !.rt = [rt EXCEPT !.act = "enabled", ![demand] = @ + 1]] IN
         /\ held \in Worlds /\ SameWork(World, held) /\ SameStore(World, held) /\ SameStream(World, held)
         /\ held.env = env /\ held.rt.act = "enabled" /\ (held.rt.blocked <=> rt.blocked)
         /\ held.rt.permission = rt.permission /\ held.feed = feed
         /\ Leased(held) /\ (held.rt.snapshot = 0 => rt.snapshot = 0)
         /\ demand = "snapshot" => held.rt.snapshot > 0
<1> DEFINE s == [rt EXCEPT !.act = "enabled", ![demand] = @ + 1]
           held == [World EXCEPT !.rt = s]
<1>1. World \in Worlds /\ rt \in Scope
  BY SaneWorld
<1>2. /\ s \in Scope
      /\ s.owner = rt.owner /\ s.trailing = rt.trailing /\ s.recon = rt.recon /\ s.deferred = rt.deferred
      /\ s.tasks = rt.tasks /\ s.ready = rt.ready /\ s.conn = rt.conn /\ s.cancelled = rt.cancelled
      /\ s.retry = rt.retry /\ s.act = "enabled" /\ s.blocked = rt.blocked /\ s.permission = rt.permission
      /\ s.query + s.snapshot > 0 /\ (s.snapshot = 0 => rt.snapshot = 0)
      /\ demand = "snapshot" => s.snapshot > 0
  <2>0. rt.query \in Nat /\ rt.snapshot \in Nat
    BY <1>1 DEF Scope
  <2>1. CASE demand = "query"
    <3>1. s = [rt EXCEPT !.act = "enabled", !.query = rt.query + 1]
      BY <1>1, <2>1 DEF Scope
    <3>2. rt.query + 1 \in 0..MaxLeases
      BY <1>1, <2>0, <2>1, Bounds
    <3>3. s \in Scope
      BY <1>1, <3>1, <3>2 DEF Scope
    <3>4. s.query = rt.query + 1 /\ s.snapshot = rt.snapshot
      BY <1>1, <3>1 DEF Scope
    <3>5. /\ s.owner = rt.owner /\ s.trailing = rt.trailing /\ s.recon = rt.recon /\ s.deferred = rt.deferred
          /\ s.tasks = rt.tasks /\ s.ready = rt.ready /\ s.conn = rt.conn /\ s.cancelled = rt.cancelled
          /\ s.retry = rt.retry /\ s.act = "enabled" /\ s.blocked = rt.blocked /\ s.permission = rt.permission
      BY <1>1, <3>1 DEF Scope
    <3> QED BY <2>0, <2>1, <3>3, <3>4, <3>5
  <2>2. CASE demand = "snapshot"
    <3>1. s = [rt EXCEPT !.act = "enabled", !.snapshot = rt.snapshot + 1]
      BY <1>1, <2>2 DEF Scope
    <3>2. rt.snapshot + 1 \in 0..MaxLeases
      BY <1>1, <2>0, <2>2, Bounds
    <3>3. s \in Scope
      BY <1>1, <3>1, <3>2 DEF Scope
    <3>4. s.query = rt.query /\ s.snapshot = rt.snapshot + 1
      BY <1>1, <3>1 DEF Scope
    <3>5. /\ s.owner = rt.owner /\ s.trailing = rt.trailing /\ s.recon = rt.recon /\ s.deferred = rt.deferred
          /\ s.tasks = rt.tasks /\ s.ready = rt.ready /\ s.conn = rt.conn /\ s.cancelled = rt.cancelled
          /\ s.retry = rt.retry /\ s.act = "enabled" /\ s.blocked = rt.blocked /\ s.permission = rt.permission
      BY <1>1, <3>1 DEF Scope
    <3> QED BY <2>0, <2>2, <3>3, <3>4, <3>5
  <2> QED BY <2>1, <2>2
<1> HIDE DEF s
<1>3. /\ held \in Worlds /\ held.env = env /\ held.rt = s /\ held.reads = reads /\ held.feed = feed
      /\ held.shown = shown /\ held.heard = heard /\ held.cut = cut
  BY <1>1, <1>2, WorldFields DEF Worlds
<1> HIDE DEF held
<1>4. SameWork(World, held) /\ SameStore(World, held) /\ SameStream(World, held)
  BY <1>2, <1>3, WorldFields DEF SameWork, SameSlot, SameStore, SameStream
<1> QED BY <1>2, <1>3, <1>4 DEF Leased, held, s

LEMMA ReadyZero ==
  ASSUME NEW w \in Worlds
  PROVE  LET n == [w EXCEPT !.rt.ready = 0] IN
         /\ OnStream(w, n) /\ SameStore(w, n) /\ n.rt.tasks = w.rt.tasks /\ n.rt.ready = 0
         /\ n.rt.conn = w.rt.conn /\ (n.rt.cancelled <=> w.rt.cancelled) /\ n.feed = w.feed
<1> DEFINE n == [w EXCEPT !.rt.ready = 0]
<1>1. w.rt \in Scope /\ n.rt = [w.rt EXCEPT !.ready = 0] /\ n.feed = w.feed
  BY DEF Worlds, Scope
<1>2. n \in Worlds
  <2>1. [w.rt EXCEPT !.ready = 0] \in Scope
    BY <1>1, Numbers DEF Scope
  <2> QED BY <1>1, <2>1 DEF Worlds
<1>3. SameDemand(w, n)
  BY DEF Worlds, Scope, SameDemand
<1>4. n.rt.tasks = w.rt.tasks /\ n.rt.ready = 0 /\ n.rt.conn = w.rt.conn /\ n.rt.cancelled = w.rt.cancelled
  BY DEF Worlds, Scope
<1>5. /\ SameStore(w, n) /\ SameSlot(w, n) /\ n.rt.recon = w.rt.recon /\ n.cut = w.cut
      /\ n.rt.deferred = w.rt.deferred
  BY DEF Worlds, Scope, SameStore, SameSlot
<1> QED BY <1>1, <1>2, <1>3, <1>4, <1>5 DEF OnStream, SameWork

\* A scope that may stream has its start scheduled when it is enabled.
LEMMA EnableFacts ==
  ASSUME NEW w \in Worlds, Room(w), NEW preserve \in BOOLEAN, w.rt.act = "enabled", Leased(w),
         w.rt.conn # "active", w.rt.tasks # {} => Streams(w), Starting(w)
  PROVE  LET n == Enable(w, preserve) IN
         /\ OnStream(w, n) /\ (SameStore(w, n) \/ NoStore(n)) /\ Streaming(n)
         /\ n.rt.conn # "active" /\ n.rt.tasks \subseteq w.rt.tasks \cup {n.rt.ready}
<1> DEFINE fresh == [w EXCEPT !.rt.ready = 0]
           n == Enable(w, preserve)
<1>1. /\ OnStream(w, fresh) /\ SameStore(w, fresh) /\ fresh.rt.tasks = w.rt.tasks /\ fresh.rt.ready = 0
      /\ fresh.rt.conn = w.rt.conn /\ (fresh.rt.cancelled <=> w.rt.cancelled) /\ fresh.feed = w.feed
  BY ReadyZero
<1>2. Enable(w, preserve) =
        IF Streams(w) THEN ScheduleStart(IF preserve THEN fresh ELSE ResetStore(fresh))
        ELSE IF w.rt.conn # "inactive" \/ w.rt.ready # 0 THEN StopStream(fresh, FALSE)
        ELSE w
  BY DEF Enable
<1> HIDE DEF fresh
<1>3. fresh \in Worlds
  BY <1>1 DEF OnStream
<1>4. CASE Streams(w)
  <2> DEFINE x == IF preserve THEN fresh ELSE ResetStore(fresh)
  <2>1. /\ OnStream(w, x) /\ (SameStore(w, x) \/ NoStore(x)) /\ x.rt.tasks = w.rt.tasks /\ x.rt.ready = 0
        /\ x.rt.conn = w.rt.conn /\ (x.rt.cancelled <=> w.rt.cancelled)
        /\ x.feed.sub = w.feed.sub /\ (x.feed.owes <=> w.feed.owes)
    <3>1. CASE preserve
      BY <1>1, <3>1
    <3>2. CASE ~preserve
      <4>1. OnStream(fresh, ResetStore(fresh)) /\ NoStore(ResetStore(fresh)) /\ SameStream(fresh, ResetStore(fresh))
        BY <1>3, ResetFacts
      <4> QED BY <1>1, <3>2, <4>1 DEF OnStream, SameStream, SameWork, SameSlot, SameDemand
    <3> QED BY <3>1, <3>2
  <2>2. n = ScheduleStart(x)
    BY <1>2, <1>4
  <2> HIDE DEF x, n
  <2>3. x \in Worlds /\ Room(x)
    BY <2>1 DEF OnStream, Room
  <2>4. /\ OnStream(x, n) /\ SameStore(x, n)
        /\ n.rt.conn = x.rt.conn /\ n.rt.ready # 0 /\ (n.rt.cancelled <=> x.rt.cancelled)
        /\ (n.rt.retry <=> x.rt.retry)
        /\ n.feed = x.feed
        /\ IF x.rt.ready # 0 THEN n.rt.ready = x.rt.ready /\ n.rt.tasks = x.rt.tasks
           ELSE n.rt.tasks = x.rt.tasks \cup {n.rt.ready}
    BY <2>2, <2>3, ScheduleFacts
  <2>5. OnStream(w, n) /\ (SameStore(w, n) \/ NoStore(n))
    BY <2>1, <2>4 DEF OnStream, SameStore, NoStore, SameWork, SameSlot, SameDemand
  <2>6. n.rt.tasks = w.rt.tasks \cup {n.rt.ready} /\ n.rt.conn = w.rt.conn
    BY <2>1, <2>4
  <2>7. Streams(n) /\ Leased(n) /\ n.rt.act = "enabled"
    BY <1>4, <2>5, SameDemandFacts DEF OnStream, SameDemand
  <2>8. Starting(n)
    BY <2>1, <2>4, <2>6, <2>7 DEF Starting
  <2>9. Streaming(n)
    BY <2>6, <2>7, <2>8 DEF Streaming, Demanded, Queued, Active, Supplied
  <2> QED BY <2>5, <2>6, <2>9 DEF n
<1>5. CASE ~Streams(w) /\ (w.rt.conn # "inactive" \/ w.rt.ready # 0)
  <2>1. n = StopStream(fresh, FALSE)
    BY <1>2, <1>5
  <2> HIDE DEF n
  <2>2. /\ OnStream(fresh, n) /\ (IF FALSE THEN NoStore(n) ELSE SameStore(fresh, n))
        /\ n.rt.tasks = fresh.rt.tasks /\ n.rt.ready = 0
        /\ n.rt.conn = IF fresh.rt.conn = "active" THEN "inactive" ELSE fresh.rt.conn
        /\ n.rt.conn = "starting" => n.rt.cancelled
    BY <1>3, <2>1, StopFacts
  <2>3. OnStream(w, n) /\ SameStore(w, n)
    BY <1>1, <2>2 DEF OnStream, SameStore, SameWork, SameSlot, SameDemand
  <2>4. ~Streams(n) /\ Leased(n) /\ n.rt.act = "enabled" /\ n.rt.tasks = {} /\ n.rt.conn # "active"
        /\ n.rt.conn # "starting"
    BY <1>1, <1>5, <2>2, <2>3, SameDemandFacts DEF OnStream, SameDemand, Starting
  <2>5. Streaming(n)
    BY <2>2, <2>4 DEF Streaming, Demanded, Queued, Active, Supplied, Starting
  <2> QED BY <2>3, <2>4, <2>5 DEF n
<1>6. CASE ~Streams(w) /\ ~(w.rt.conn # "inactive" \/ w.rt.ready # 0)
  <2>1. n = w
    BY <1>2, <1>6
  <2>2. Streaming(w)
    BY <1>6 DEF Streaming, Demanded, Queued, Active, Supplied, Starting
  <2>3. OnStream(w, w) /\ SameStore(w, w)
    BY DEF OnStream, SameStore, SameWork, SameSlot, SameDemand
  <2> QED BY <2>1, <2>2, <2>3
<1> QED BY <1>4, <1>5, <1>6

LEMMA AcquireStep ==
  ASSUME RuntimeInv, NEW demand \in {"query", "snapshot"}, NEW preserve \in BOOLEAN,
         AcquireLease(demand, preserve)
  PROVE  RuntimeInv' /\ Stepped(World, World', ver)
<1> DEFINE held == [World EXCEPT !.rt = [rt EXCEPT !.act = "enabled", ![demand] = @ + 1]]
           n == IF ~Leased(World) THEN SchedulePoll(Enable(held, preserve))
                ELSE IF demand = "snapshot" /\ rt.snapshot = 0 THEN InitialSnapshot(held)
                ELSE held
<1>1. /\ rt[demand] < MaxLeases /\ ops < MaxOps /\ ops' = ops + 1 /\ ver' = ver /\ Become(n)
  BY DEF AcquireLease, Call, CountOp
<1>2. /\ held \in Worlds /\ SameWork(World, held) /\ SameStore(World, held) /\ SameStream(World, held)
      /\ held.env = env /\ held.rt.act = "enabled" /\ (held.rt.blocked <=> rt.blocked)
      /\ held.rt.permission = rt.permission /\ held.feed = feed
      /\ Leased(held) /\ (held.rt.snapshot = 0 => rt.snapshot = 0)
      /\ demand = "snapshot" => held.rt.snapshot > 0
  BY <1>1, HeldFacts
<1> HIDE DEF held
<1>3. World \in Worlds /\ Slotted(World, ver) /\ Streaming(World) /\ Remembered(World) /\ ver \in Vers
  BY SaneWorld
<1>4. Streams(held) <=> Streams(World)
  BY <1>2, WorldFields DEF Streams, Serviceable
<1>5. heard <= ver /\ ver \in Nat /\ 0 <= ver
  BY <1>3, WorldFields DEF Slotted, OwnerOnly, Vers
<1>6. /\ n.rt.tasks \subseteq rt.tasks \cup {n.rt.ready}
      /\ Stepped(World, n, ver)
  <2>1. CASE ~Leased(World)
    <3> DEFINE e == Enable(held, preserve)
    <3>1. Room(held)
      BY <1>1, <1>2, RoomWorld DEF Room, SameStream
    <3>2. rt.conn # "active" /\ held.rt.conn = rt.conn /\ held.rt.tasks = rt.tasks
      BY <1>2, <1>3, <2>1, WorldFields DEF Streaming, Active, SameStream
    <3>3. Starting(held) /\ (held.rt.tasks # {} => Streams(held))
      BY <1>2, <1>3, <1>4, <3>2, WorldFields DEF Streaming, Starting, Queued, SameStream
    <3>4. /\ OnStream(held, e) /\ (SameStore(held, e) \/ NoStore(e)) /\ Streaming(e)
          /\ e.rt.conn # "active" /\ e.rt.tasks \subseteq held.rt.tasks \cup {e.rt.ready}
      BY <1>2, <3>1, <3>2, <3>3, EnableFacts
    <3>5. n = SchedulePoll(e)
      BY <2>1
    <3> HIDE DEF e, n
    <3>6. Alike(e, n)
      BY <3>4, <3>5, SchedulePollFacts DEF OnStream
    <3>7. n \in Worlds /\ Streaming(n)
      BY <1>3, <3>4, <3>6, AlikeSane DEF Alike, OnStream
    <3>8. SameSlot(World, n) /\ (World.cut => n.cut) /\ n.rt.act = "enabled"
      BY <1>2, <3>4, <3>6 DEF OnStream, Alike, SameWork, SameSlot, SameDemand
    <3>9. n.shown \in {World.shown, 0} /\ n.heard \in {World.heard, 0}
      BY <1>2, <3>4, <3>6 DEF Alike, SameStore, NoStore
    <3>10. n.rt.conn # "active" /\ (n.rt.snapshot = 0 => n.heard = 0)
      <4>1. n.rt.snapshot = held.rt.snapshot /\ n.rt.conn = e.rt.conn
        BY <3>4, <3>6 DEF OnStream, Alike, SameDemand, SameStream
      <4> QED BY <1>2, <3>4, <3>9, <4>1, SaneWorld, WorldFields
    <3>11. Remembered(n)
      BY <3>10, StoppedRemembered
    <3>12. Stepped(World, n, ver)
      BY <1>3, <1>5, <3>7, <3>8, <3>9, <3>11, WorldFields, KeepsStepped
    <3>13. n.rt.tasks \subseteq rt.tasks \cup {n.rt.ready}
      BY <3>2, <3>4, <3>6 DEF Alike, SameStream
    <3> QED BY <3>12, <3>13
  <2>2. CASE Leased(World)
    <3>1. Streaming(held)
      BY <1>2, <1>3, <1>4, <2>2, WorldFields
         DEF Streaming, Demanded, Queued, Starting, Active, Supplied, SameStream
    <3>2. Wary(World, held) /\ SameSlot(World, held)
      BY <1>2, WorldFields DEF Wary, SameWork, SameStream, HeldSignal
    <3>3. Remembered(held)
      BY <1>2, <1>3, <3>2, KeepsRemembered
    <3>4. Slotted(held, ver)
      BY <1>2, <1>3, <3>2, KeepsSlotted DEF SameWork
    <3>5. CASE demand = "snapshot" /\ rt.snapshot = 0
      <4>1. n = InitialSnapshot(held)
        BY <2>2, <3>5
      <4> HIDE DEF n
      <4>2. Free(held)
        BY <3>2, FreeWorld DEF Free, SameSlot
      <4>3. /\ OnReads(held, n) /\ (SameStore(held, n) \/ NoStore(n))
            /\ Slotted(n, ver) /\ Moves(held, n, ver) /\ Remembered(n)
        <5>1. held.rt.snapshot = 0 => held.heard = 0
          BY <3>3 DEF Remembered
        <5> QED BY <1>2, <1>3, <3>3, <3>4, <4>1, <4>2, <5>1, InitialFacts
      <4>4. Streaming(n) /\ n.rt.tasks = rt.tasks
        BY <1>2, <3>1, <4>3, ReadsFetch, FetchStreaming, WorldFields DEF OnReads, SameStream
      <4>5. Moves(World, n, ver)
        BY <1>2, <3>2, <4>3, MovesOn DEF SameStore, SameSlot
      <4> QED BY <4>3, <4>4, <4>5 DEF Stepped, Sane, OnReads
    <3>6. CASE ~(demand = "snapshot" /\ rt.snapshot = 0)
      <4>1. n = held
        BY <2>2, <3>6
      <4>2. Stepped(World, held, ver)
        BY <1>2, <1>3, <1>5, <3>1, <3>2, <3>3, WorldFields, KeepsStepped DEF SameStore, SameWork
      <4>3. held.rt.tasks = rt.tasks
        BY <1>2, WorldFields DEF SameStream
      <4> QED BY <4>1, <4>2, <4>3
    <3> QED BY <3>5, <3>6
  <2> QED BY <2>1, <2>2
<1> HIDE DEF n
<1> QED BY <1>1, <1>6, ActInv

\* Giving up the slot.
LEMMA TornFacts ==
  ASSUME NEW w \in Worlds, NEW x \in Worlds, NEW v \in Vers, Apart(x), OwnerOnly(x, v),
         SameSlot(w, x), x.shown \in {w.shown, 0}
  PROVE  LET n == Teardown(x) IN
         /\ OnReads(x, n) /\ SameStore(x, n) /\ Slotted(n, v) /\ Yields(w, n)
         /\ n.rt.recon = x.rt.recon /\ n.rt.deferred = x.rt.deferred /\ (n.cut <=> x.cut)
<1> DEFINE n == Teardown(x)
<1>1. /\ OnReads(x, n) /\ SameStore(x, n) /\ Slotted(n, v) /\ Aged(x, n)
      /\ n.rt.owner = 0 /\ ~n.rt.trailing
      /\ \A q \in n.reads : ~CanCommit(q)
      /\ n.rt.recon = x.rt.recon /\ n.rt.deferred = x.rt.deferred /\ (n.cut <=> x.cut)
      /\ x.rt.owner = 0 => n.reads = x.reads
  BY TeardownFacts
<1> HIDE DEF n
<1>2. Yields(x, n)
  BY <1>1 DEF Yields, SameStore
<1>3. SameSlot(n, n) /\ n.shown \in {n.shown, 0}
  BY DEF SameSlot
<1>4. Yields(w, n)
  BY <1>2, <1>3, YieldsOn
<1> QED BY <1>1, <1>4 DEF n

\* The scope with one lease less.
LEMMA LeftFacts ==
  ASSUME RuntimeInv, NEW demand \in {"query", "snapshot"}, rt[demand] > 0
  PROVE  LET left == [World EXCEPT !.rt = [rt EXCEPT ![demand] = @ - 1],
                        !.heard = IF demand = "snapshot" /\ rt.snapshot = 1 THEN 0 ELSE @] IN
         /\ left \in Worlds /\ SameWork(World, left) /\ SameStream(World, left)
         /\ left.shown = shown /\ left.heard \in {heard, 0}
         /\ left.env = env /\ left.rt.act = rt.act /\ (left.rt.blocked <=> rt.blocked)
         /\ left.rt.permission = rt.permission /\ left.feed = feed
         /\ Leased(World) /\ (left.rt.snapshot = 0 => left.heard = 0)
<1> DEFINE s == [rt EXCEPT ![demand] = @ - 1]
           h == IF demand = "snapshot" /\ rt.snapshot = 1 THEN 0 ELSE World.heard
           left == [World EXCEPT !.rt = s, !.heard = h]
<1>1. World \in Worlds /\ rt \in Scope /\ heard \in 0..MaxVer /\ (rt.snapshot = 0 => heard = 0)
  BY SaneWorld, WorldFields DEF Worlds
<1>2. h \in 0..MaxVer /\ h \in {heard, 0} /\ (demand = "snapshot" /\ rt.snapshot = 1 => h = 0)
  BY <1>1, Numbers, WorldFields
<1>3. /\ s \in Scope
      /\ s.owner = rt.owner /\ s.trailing = rt.trailing /\ s.recon = rt.recon /\ s.deferred = rt.deferred
      /\ s.tasks = rt.tasks /\ s.ready = rt.ready /\ s.conn = rt.conn /\ s.cancelled = rt.cancelled
      /\ s.retry = rt.retry /\ s.act = rt.act /\ s.blocked = rt.blocked /\ s.permission = rt.permission
      /\ rt.query + rt.snapshot > 0 /\ (s.snapshot = 0 => h = 0)
  <2>0. rt.query \in Nat /\ rt.snapshot \in Nat
    BY <1>1 DEF Scope
  <2>1. CASE demand = "query"
    <3>1. s = [rt EXCEPT !.query = rt.query - 1] /\ rt.query > 0
      BY <1>1, <2>1 DEF Scope
    <3>2. rt.query - 1 \in 0..MaxLeases
      BY <1>1, <2>0, <3>1, Bounds DEF Scope
    <3>3. s \in Scope
      BY <1>1, <3>1, <3>2 DEF Scope
    <3>4. s.snapshot = rt.snapshot
      BY <1>1, <3>1 DEF Scope
    <3>5. /\ s.owner = rt.owner /\ s.trailing = rt.trailing /\ s.recon = rt.recon /\ s.deferred = rt.deferred
          /\ s.tasks = rt.tasks /\ s.ready = rt.ready /\ s.conn = rt.conn /\ s.cancelled = rt.cancelled
          /\ s.retry = rt.retry /\ s.act = rt.act /\ s.blocked = rt.blocked /\ s.permission = rt.permission
      BY <1>1, <3>1 DEF Scope
    <3> QED BY <1>1, <1>2, <2>0, <3>1, <3>3, <3>4, <3>5
  <2>2. CASE demand = "snapshot"
    <3>1. s = [rt EXCEPT !.snapshot = rt.snapshot - 1] /\ rt.snapshot > 0
      BY <1>1, <2>2 DEF Scope
    <3>2. rt.snapshot - 1 \in 0..MaxLeases
      BY <1>1, <2>0, <3>1, Bounds DEF Scope
    <3>3. s \in Scope
      BY <1>1, <3>1, <3>2 DEF Scope
    <3>4. s.snapshot = rt.snapshot - 1
      BY <1>1, <3>1 DEF Scope
    <3>5. /\ s.owner = rt.owner /\ s.trailing = rt.trailing /\ s.recon = rt.recon /\ s.deferred = rt.deferred
          /\ s.tasks = rt.tasks /\ s.ready = rt.ready /\ s.conn = rt.conn /\ s.cancelled = rt.cancelled
          /\ s.retry = rt.retry /\ s.act = rt.act /\ s.blocked = rt.blocked /\ s.permission = rt.permission
      BY <1>1, <3>1 DEF Scope
    <3>6. s.snapshot = 0 => rt.snapshot = 1
      BY <2>0, <3>4
    <3> QED BY <1>2, <2>0, <2>2, <3>1, <3>3, <3>5, <3>6
  <2> QED BY <2>1, <2>2
<1> HIDE DEF s, h
<1>4. /\ left \in Worlds /\ left.env = env /\ left.rt = s /\ left.reads = reads /\ left.feed = feed
      /\ left.shown = shown /\ left.heard = h /\ left.cut = cut
  BY <1>1, <1>2, <1>3, WorldFields DEF Worlds
<1> HIDE DEF left
<1>5. SameWork(World, left) /\ SameStream(World, left)
  BY <1>3, <1>4, WorldFields DEF SameWork, SameSlot, SameStream
<1> QED BY <1>2, <1>3, <1>4, <1>5, WorldFields DEF Leased, left, s, h

LEMMA DisableFacts ==
  ASSUME NEW w \in Worlds, NEW v \in Vers, Slotted(w, v), Queued(w), Starting(w), NEW preserve \in BOOLEAN,
         ~Leased(w), w.rt.snapshot = 0, w.heard = 0
  PROVE  LET n == Disable(w, preserve) IN
         /\ Sane(n, v) /\ Yields(w, n) /\ n.rt.act = "disabled" /\ n.rt.conn # "active"
         /\ n.rt.tasks = w.rt.tasks /\ ~Leased(n) /\ n.rt.snapshot = 0 /\ n.heard = 0
<1> DEFINE d == [w EXCEPT !.rt.poll = FALSE, !.rt.act = "disabled", !.rt.resetOnRelease = FALSE]
           s == StopStream(d, ~preserve)
           n == Teardown(s)
<1>1. Disable(w, preserve) = n
  BY DEF Disable
<1>2. d \in Worlds
  <2>1. w.rt \in Scope /\ d.rt = [w.rt EXCEPT !.poll = FALSE, !.act = "disabled", !.resetOnRelease = FALSE]
    BY DEF Worlds, Scope
  <2>2. [w.rt EXCEPT !.poll = FALSE, !.act = "disabled", !.resetOnRelease = FALSE] \in Scope
    BY <2>1 DEF Scope
  <2> QED BY <2>1, <2>2 DEF Worlds
<1>3. /\ SameSlot(w, d) /\ SameStore(w, d) /\ d.cut = w.cut /\ d.env = w.env
  BY DEF Worlds, Scope, SameSlot, SameStore
<1>4. /\ SameStream(w, d)
  BY DEF Worlds, Scope, SameStream
<1>5. d.rt.act = "disabled" /\ d.rt.query = w.rt.query /\ d.rt.snapshot = w.rt.snapshot /\ d.rt.blocked = w.rt.blocked
  BY DEF Worlds, Scope
<1> HIDE DEF d
<1>6. ~Leased(d) /\ (Streams(d) <=> Streams(w))
  BY <1>3, <1>5 DEF Leased, Streams, Serviceable
<1>7. /\ OnStream(d, s) /\ (IF ~preserve THEN NoStore(s) ELSE SameStore(d, s))
      /\ s.rt.tasks = d.rt.tasks /\ s.rt.ready = 0
      /\ s.rt.conn = IF d.rt.conn = "active" THEN "inactive" ELSE d.rt.conn
      /\ s.rt.conn = "starting" => s.rt.cancelled
  BY <1>2, StopFacts
<1> HIDE DEF s
<1>8. SameSlot(w, s) /\ s.shown \in {w.shown, 0} /\ s.heard = 0 /\ (w.cut => s.cut) /\ s \in Worlds
  BY <1>3, <1>7 DEF SameSlot, SameStore, NoStore, OnStream, SameWork
<1>9. Apart(s) /\ OwnerOnly(s, v)
  <2>1. s.heard <= v
    BY <1>8 DEF Vers
  <2> QED BY <1>8, <2>1, KeptOwner DEF Slotted
<1>10. /\ OnReads(s, n) /\ SameStore(s, n) /\ Slotted(n, v) /\ Yields(w, n)
       /\ n.rt.recon = s.rt.recon /\ n.rt.deferred = s.rt.deferred /\ (n.cut <=> s.cut)
  BY <1>8, <1>9, TornFacts
<1> HIDE DEF n
<1>11. /\ n.rt.act = "disabled" /\ ~Leased(n) /\ n.rt.snapshot = 0 /\ (Streams(n) <=> Streams(w))
       /\ n.rt.tasks = w.rt.tasks /\ n.rt.ready = 0 /\ n.rt.conn = s.rt.conn
       /\ (n.rt.cancelled <=> s.rt.cancelled)
  <2>1. SameDemand(d, n)
    BY <1>7, <1>10 DEF OnStream, OnReads, SameDemand
  <2>2. SameStream(s, n)
    BY <1>10 DEF OnReads
  <2> QED BY <1>4, <1>5, <1>6, <1>7, <2>1, <2>2, SameDemandFacts DEF SameDemand, SameStream
<1>12. n.rt.conn # "active" /\ (n.rt.conn = "starting" => w.rt.conn = "starting" /\ n.rt.cancelled)
  BY <1>4, <1>7, <1>11 DEF SameStream
<1>13. Streaming(n)
  BY <1>11, <1>12 DEF Streaming, Demanded, Queued, Starting, Active, Supplied
<1>14. n.heard = 0
  BY <1>8, <1>10 DEF SameStore
<1>15. Remembered(n)
  BY <1>12, <1>14, StoppedRemembered
<1> QED BY <1>1, <1>10, <1>11, <1>12, <1>13, <1>14, <1>15 DEF Sane, OnReads

\* A second stop changes no more than the store.
LEMMA StopAgain ==
  ASSUME NEW w \in Worlds, NEW v \in Vers, Sane(w, v), NEW reset \in BOOLEAN, ~Leased(w), w.rt.conn # "active"
  PROVE  LET n == StopStream(w, reset) IN
         /\ Sane(n, v) /\ SameSlot(w, n) /\ n.shown \in {w.shown, 0} /\ n.rt.tasks = w.rt.tasks
         /\ n.rt.conn # "active" /\ (w.cut => n.cut) /\ n.rt.act = w.rt.act /\ n.heard <= v
<1> DEFINE n == StopStream(w, reset)
<1>1. /\ OnStream(w, n) /\ (IF reset THEN NoStore(n) ELSE SameStore(w, n))
      /\ n.rt.tasks = w.rt.tasks /\ n.rt.ready = 0
      /\ n.rt.conn = IF w.rt.conn = "active" THEN "inactive" ELSE w.rt.conn
      /\ n.rt.conn = "starting" => n.rt.cancelled
  BY StopFacts
<1> HIDE DEF n
<1>2. /\ n \in Worlds /\ SameSlot(w, n) /\ (SameStore(w, n) \/ NoStore(n)) /\ (w.cut => n.cut)
      /\ n.rt.act = w.rt.act
  BY <1>1 DEF OnStream, SameWork, SameDemand
<1>3. Slotted(n, v)
  BY <1>2, KeepsSlotted DEF Sane
<1>4. /\ Streams(n) <=> Streams(w)
      /\ Leased(n) <=> Leased(w)
      /\ Demanded(n) <=> Demanded(w)
  BY <1>1, SameDemandFacts DEF OnStream
<1>5. Streaming(n)
  BY <1>1, <1>2, <1>4 DEF Sane, Streaming, Queued, Starting, Active, Supplied
<1>6. n.rt.snapshot = 0 => n.heard = 0
  BY <1>1, <1>2 DEF OnStream, SameDemand, Sane, Remembered, SameStore, NoStore
<1>7. Remembered(n)
  BY <1>1, <1>6, StoppedRemembered
<1>8. n.shown \in {w.shown, 0} /\ n.heard <= v
  BY <1>2, <1>3 DEF SameStore, NoStore, Slotted, OwnerOnly
<1> QED BY <1>1, <1>2, <1>3, <1>5, <1>7, <1>8 DEF n, Sane

LEMMA ReleaseStep ==
  ASSUME RuntimeInv, NEW demand \in {"query", "snapshot"}, NEW preserve \in BOOLEAN,
         ReleaseLease(demand, preserve)
  PROVE  RuntimeInv' /\ Stepped(World, World', ver)
<1> DEFINE left == [World EXCEPT !.rt = [rt EXCEPT ![demand] = @ - 1],
                      !.heard = IF demand = "snapshot" /\ rt.snapshot = 1 THEN 0 ELSE @]
           p == preserve /\ ~rt.resetOnRelease
           gone == Disable(left, p)
           n == IF Leased(left) THEN left
                ELSE IF rt.resetOnRelease THEN StopStream(gone, TRUE) ELSE gone
<1>1. rt[demand] > 0 /\ ops < MaxOps /\ ops' = ops + 1 /\ ver' = ver /\ Become(n)
  BY DEF ReleaseLease, Call, CountOp
<1>2. /\ left \in Worlds /\ SameWork(World, left) /\ SameStream(World, left)
      /\ left.shown = shown /\ left.heard \in {heard, 0}
      /\ left.env = env /\ left.rt.act = rt.act /\ (left.rt.blocked <=> rt.blocked)
      /\ left.rt.permission = rt.permission /\ left.feed = feed
      /\ Leased(World) /\ (left.rt.snapshot = 0 => left.heard = 0)
  BY <1>1, LeftFacts
<1> HIDE DEF left
<1>3. World \in Worlds /\ Slotted(World, ver) /\ Streaming(World) /\ Remembered(World) /\ ver \in Vers
  BY SaneWorld
<1>4. Streams(left) <=> Streams(World)
  BY <1>2, WorldFields DEF Streams, Serviceable
<1>5. heard <= ver /\ ver \in Nat /\ 0 <= ver /\ left.heard <= ver
  BY <1>2, <1>3, WorldFields DEF Slotted, OwnerOnly, Vers
<1>6. SameSlot(World, left) /\ (World.cut => left.cut) /\ left.shown \in {World.shown, 0}
  BY <1>2, WorldFields DEF SameWork
<1>7. Queued(left) /\ Starting(left)
  BY <1>2, <1>3, <1>4, WorldFields DEF Streaming, Queued, Starting, SameStream
<1>8. n.rt.tasks = rt.tasks /\ Stepped(World, n, ver)
  <2>1. CASE Leased(left)
    <3>1. n = left
      BY <2>1
    <3>2. Streaming(left)
      BY <1>2, <1>3, <1>4, <1>7, <2>1, WorldFields
         DEF Streaming, Demanded, Active, Supplied, SameStream
    <3>3. Remembered(left)
      <4>1. CASE left.heard = 0
        BY <1>2, <4>1, UnheardRemembered
      <4>2. CASE left.heard # 0
        <5>1. SameStore(World, left) /\ Wary(World, left)
          BY <1>2, <1>6, <4>2, WorldFields DEF SameStore, Wary, SameWork, SameStream, HeldSignal
        <5> QED BY <1>3, <1>6, <5>1, KeepsRemembered
      <4> QED BY <4>1, <4>2
    <3>4. Stepped(World, left, ver)
      BY <1>2, <1>3, <1>5, <1>6, <3>2, <3>3, WorldFields, KeepsStepped
    <3>5. left.rt.tasks = rt.tasks
      BY <1>2, WorldFields DEF SameStream
    <3> QED BY <3>1, <3>4, <3>5
  <2>2. CASE ~Leased(left)
    <3>1. left.rt.snapshot = 0 /\ left.heard = 0
      <4>1. left.rt.query \in Nat /\ left.rt.snapshot \in Nat
        BY <1>2 DEF Worlds, Scope
      <4> QED BY <1>2, <2>2, <4>1 DEF Leased
    <3>2. Slotted(left, ver)
      BY <1>2, <1>3, <1>5, <1>6, WorldFields, KeptSlotted
    <3>3. p \in BOOLEAN
      BY SaneWorld DEF Scope
    <3> HIDE DEF p
    <3>4. /\ Sane(gone, ver) /\ Yields(left, gone) /\ gone.rt.act = "disabled" /\ gone.rt.conn # "active"
          /\ gone.rt.tasks = left.rt.tasks /\ ~Leased(gone) /\ gone.rt.snapshot = 0 /\ gone.heard = 0
      BY <1>2, <1>3, <1>7, <2>2, <3>1, <3>2, <3>3, DisableFacts
    <3> HIDE DEF gone
    <3>5. gone \in Worlds
      BY <3>4 DEF Sane
    <3>6. ASSUME NEW x, Sane(x, ver), SameSlot(gone, x), x.shown \in {gone.shown, 0}, x.rt.conn # "active"
          PROVE  Stepped(World, x, ver)
      <4>1. Yields(World, x)
        BY <1>6, <3>4, <3>6, YieldsOn
      <4>2. ~Rests(x)
        BY <3>6 DEF Rests
      <4> QED BY <3>6, <4>1, <4>2 DEF Stepped
    <3>7. CASE rt.resetOnRelease
      <4>1. n = StopStream(gone, TRUE)
        BY <2>2, <3>7
      <4> HIDE DEF n
      <4>2. /\ Sane(n, ver) /\ SameSlot(gone, n) /\ n.shown \in {gone.shown, 0} /\ n.rt.tasks = gone.rt.tasks
            /\ n.rt.conn # "active" /\ (gone.cut => n.cut) /\ n.rt.act = gone.rt.act /\ n.heard <= ver
        BY <1>3, <3>4, <3>5, <4>1, StopAgain
      <4>3. n.rt.tasks = rt.tasks
        BY <1>2, <3>4, <4>2, WorldFields DEF SameStream
      <4> QED BY <3>6, <4>2, <4>3
    <3>8. CASE ~rt.resetOnRelease
      <4>1. n = gone
        BY <2>2, <3>8
      <4>2. SameSlot(gone, gone)
        BY DEF SameSlot
      <4>3. gone.rt.tasks = rt.tasks
        BY <1>2, <3>4, WorldFields DEF SameStream
      <4>4. Stepped(World, gone, ver)
        BY <3>4, <3>6, <4>2
      <4> QED BY <4>1, <4>3, <4>4
    <3> QED BY <3>7, <3>8
  <2> QED BY <2>1, <2>2
<1> HIDE DEF n
<1> QED BY <1>1, <1>8, ActInv

LEMMA ResetScopeStep ==
  ASSUME RuntimeInv, ResetScope
  PROVE  RuntimeInv' /\ Stepped(World, World', ver)
<1> DEFINE m == [World EXCEPT !.rt.resetOnRelease = TRUE]
           n == IF Leased(World) THEN m
                ELSE IF ~IsEnabled(World) THEN StopStream(World, TRUE)
                ELSE ResetStore(World)
<1>1. ops < MaxOps /\ ops' = ops + 1 /\ ver' = ver /\ Become(n)
  BY DEF ResetScope, Call, CountOp
<1>2. World \in Worlds /\ Slotted(World, ver) /\ Streaming(World) /\ Remembered(World) /\ ver \in Vers
      /\ Sane(World, ver)
  BY SaneWorld DEF RuntimeInv
<1>3. heard <= ver /\ ver \in Nat /\ 0 <= ver
  BY <1>2, WorldFields DEF Slotted, OwnerOnly, Vers
<1>4. n.rt.tasks = rt.tasks /\ Stepped(World, n, ver)
  <2>1. CASE Leased(World)
    <3>1. Alike(World, m)
      <4>1. World.rt \in Scope /\ m.rt = [World.rt EXCEPT !.resetOnRelease = TRUE] /\ m.feed = World.feed
        BY <1>2 DEF Worlds, Scope
      <4>2. m \in Worlds
        <5>1. [World.rt EXCEPT !.resetOnRelease = TRUE] \in Scope
          BY <4>1 DEF Scope
        <5> QED BY <1>2, <4>1, <5>1 DEF Worlds
      <4>3. SameDemand(World, m)
        BY <1>2 DEF Worlds, Scope, SameDemand
      <4>4. SameStream(World, m)
        BY <1>2 DEF Worlds, Scope, SameStream
      <4>5. /\ SameStore(World, m) /\ SameSlot(World, m) /\ m.rt.recon = World.rt.recon /\ m.cut = World.cut
            /\ m.rt.deferred = World.rt.deferred
        BY <1>2 DEF Worlds, Scope, SameStore, SameSlot
      <4> QED BY <4>1, <4>2, <4>3, <4>4, <4>5 DEF Alike, SameWork
    <3>2. n = m
      BY <2>1
    <3> HIDE DEF m
    <3>3. Streaming(m) /\ Remembered(m)
      BY <1>2, <3>1, AlikeSane
    <3>4. Stepped(World, m, ver)
      BY <1>2, <1>3, <3>1, <3>3, WorldFields, KeepsStepped DEF Alike, SameWork, SameStore, SameDemand
    <3>5. m.rt.tasks = rt.tasks
      BY <3>1, WorldFields DEF Alike, SameStream
    <3> QED BY <3>2, <3>4, <3>5
  <2>2. CASE ~Leased(World) /\ ~IsEnabled(World)
    <3>1. n = StopStream(World, TRUE) /\ World.rt.conn # "active"
      BY <1>2, <2>2 DEF Streaming, Active
    <3> HIDE DEF n
    <3>2. /\ Sane(n, ver) /\ SameSlot(World, n) /\ n.shown \in {World.shown, 0} /\ n.rt.tasks = World.rt.tasks
          /\ n.rt.conn # "active" /\ (World.cut => n.cut) /\ n.rt.act = World.rt.act /\ n.heard <= ver
      BY <1>2, <2>2, <3>1, StopAgain
    <3>3. Stepped(World, n, ver)
      BY <1>2, <3>2, KeepsStepped DEF Sane
    <3> QED BY <3>2, <3>3, WorldFields
  <2>3. CASE ~Leased(World) /\ IsEnabled(World)
    <3> DEFINE f == ResetStore(World)
    <3>1. n = f
      BY <2>3
    <3>2. OnStream(World, f) /\ NoStore(f) /\ SameStream(World, f)
      BY <1>2, ResetFacts
    <3> HIDE DEF f
    <3>3. Remembered(f)
      BY <3>2, ResetRemembered DEF OnStream
    <3>4. Streaming(f)
      BY <1>2, <3>2, FetchStreaming DEF OnFetch, OnStream, SameStream
    <3>5. Stepped(World, f, ver)
      BY <1>2, <1>3, <3>2, <3>3, <3>4, KeepsStepped DEF OnStream, SameWork, SameDemand, NoStore
    <3>6. f.rt.tasks = rt.tasks
      BY <3>2, WorldFields DEF SameStream
    <3> QED BY <3>1, <3>5, <3>6
  <2> QED BY <2>1, <2>2, <2>3
<1> HIDE DEF n
<1> QED BY <1>1, <1>4, ActInv

\* A step that is one call of fetchScopedDomain.
LEMMA FetchStepped ==
  ASSUME RuntimeInv, NEW intent \in Intents, NEW shared \in BOOLEAN, NEW query \in BOOLEAN
  PROVE  LET n == Fetch(World, intent, shared, FALSE, query) IN
         Stepped(World, n, ver) /\ n.rt.tasks = rt.tasks
<1> DEFINE n == Fetch(World, intent, shared, FALSE, query)
<1>1. /\ World \in Worlds /\ Slotted(World, ver) /\ Streaming(World) /\ Remembered(World) /\ ver \in Vers
      /\ Free(World) /\ Active(World)
  BY SaneWorld, FreeWorld DEF Streaming
<1>2. World.rt.snapshot = 0 => World.heard = 0
  BY <1>1 DEF Remembered
<1>3. OnFetch(World, n) /\ Slotted(n, ver) /\ Moves(World, n, ver) /\ Remembered(n)
  BY <1>1, <1>2, FetchFacts
<1> HIDE DEF n
<1>4. Streaming(n) /\ n \in Worlds /\ n.rt.tasks = rt.tasks
  BY <1>1, <1>3, FetchStreaming, WorldFields DEF OnFetch
<1> QED BY <1>3, <1>4 DEF n, Stepped, Sane

LEMMA ReadStep ==
  ASSUME RuntimeInv, NEW intent \in {"startup", "foreground", "user"}, NEW shared \in BOOLEAN,
         Read(intent, shared)
  PROVE  RuntimeInv' /\ Stepped(World, World', ver)
<1> DEFINE n == Fetch(World, intent, shared, FALSE, FALSE)
<1>1. ops < MaxOps /\ ops' = ops + 1 /\ ver' = ver /\ Become(n) /\ intent \in Intents
  BY DEF Read, Call, CountOp, Intents
<1>2. Stepped(World, n, ver) /\ n.rt.tasks = rt.tasks
  BY <1>1, FetchStepped
<1> HIDE DEF n
<1> QED BY <1>1, <1>2, ActInv

LEMMA RefreshClusterStep ==
  ASSUME RuntimeInv, RefreshCluster
  PROVE  RuntimeInv' /\ Stepped(World, World', ver)
<1> DEFINE n == Fetch(World, "user", FALSE, FALSE, TRUE)
<1>1. ops < MaxOps /\ ops' = ops + 1 /\ ver' = ver /\ Become(n) /\ "user" \in Intents
  BY DEF RefreshCluster, Call, CountOp, Intents
<1>2. Stepped(World, n, ver) /\ n.rt.tasks = rt.tasks
  BY <1>1, FetchStepped
<1> HIDE DEF n
<1> QED BY <1>1, <1>2, ActInv
-----------------------------------------------------------------------------
(* Microtasks and timers.                                                  *)
LEMMA InitTaskStep ==
  ASSUME RuntimeInv, NEW k \in rt.tasks, InitTask(k)
  PROVE  RuntimeInv' /\ Stepped(World, World', ver)
<1> DEFINE z == IF World.rt.ready = k THEN 0 ELSE World.rt.ready
           run == [World EXCEPT !.rt.tasks = @ \ {k}, !.rt.ready = z]
           n == IF IsEnabled(World) THEN StartStream(run) ELSE run
<1>1. Become(n) /\ ver' = ver /\ ops' = ops
  BY DEF InitTask
<1>2. World \in Worlds /\ Slotted(World, ver) /\ Streaming(World) /\ Remembered(World) /\ ver \in Vers
  BY SaneWorld
<1>3. heard <= ver
  BY <1>2, WorldFields DEF Slotted, OwnerOnly
<1>4. z \in 0..(MaxOps + 1) /\ (z # 0 => z \in rt.tasks \ {k})
  BY <1>2, Numbers, WorldFields DEF Worlds, Scope, Streaming, Queued
<1> HIDE DEF z
<1>5. run \in Worlds
  <2>1. World.rt \in Scope /\ run.rt = [World.rt EXCEPT !.tasks = World.rt.tasks \ {k}, !.ready = z]
    BY <1>2 DEF Worlds, Scope
  <2>2. World.rt.tasks \ {k} \in SUBSET (1..(MaxOps + 1))
    BY <2>1 DEF Scope
  <2>3. [World.rt EXCEPT !.tasks = World.rt.tasks \ {k}, !.ready = z] \in Scope
    BY <1>4, <2>1, <2>2 DEF Scope
  <2> QED BY <1>2, <2>1, <2>3 DEF Worlds
<1>6. /\ run.rt.tasks = World.rt.tasks \ {k} /\ run.rt.ready = z /\ run.rt.conn = World.rt.conn
      /\ run.rt.cancelled = World.rt.cancelled /\ run.rt.retry = World.rt.retry /\ run.feed = World.feed
  BY <1>2 DEF Worlds, Scope
<1>7. SameDemand(World, run)
  BY <1>2 DEF Worlds, Scope, SameDemand
<1>8. /\ SameStore(World, run) /\ SameSlot(World, run) /\ run.rt.recon = World.rt.recon /\ run.cut = World.cut
      /\ run.rt.deferred = World.rt.deferred
  BY <1>2 DEF Worlds, Scope, SameStore, SameSlot
<1> HIDE DEF run
<1>9. /\ Streams(World) /\ World.rt.act # "untracked"
  BY <1>2, WorldFields DEF Streaming, Queued
<1>10. /\ Streams(run) /\ Serviceable(run) /\ ~run.rt.blocked /\ (Leased(run) <=> Leased(World)) /\ Demanded(run)
       /\ (IsEnabled(run) <=> IsEnabled(World)) /\ run.rt.act = World.rt.act
  BY <1>2, <1>7, <1>9, SameDemandFacts DEF Streams, Streaming, SameDemand
<1>11. OnStream(World, run)
  BY <1>5, <1>7, <1>8 DEF OnStream, SameWork
<1>12. CASE IsEnabled(World) /\ World.rt.conn = "inactive"
  <2>1. n = StartStream(run)
    BY <1>12
  <2> HIDE DEF n
  <2>2. /\ OnStream(run, n) /\ SameStore(run, n)
        /\ n.rt.tasks = run.rt.tasks /\ n.rt.ready = run.rt.ready
        /\ IF ~Serviceable(run) \/ ~IsEnabled(run) \/ run.rt.conn # "inactive" THEN n = run
           ELSE /\ n.rt.conn = IF run.rt.blocked THEN "inactive" ELSE "starting"
                /\ ~n.rt.cancelled /\ n.feed.sub = "leased" /\ n.feed.owes
    BY <1>5, <2>1, StartFacts
  <2>3. n.rt.conn = "starting" /\ n.feed.sub = "leased" /\ n.feed.owes
    BY <1>6, <1>10, <1>12, <2>2
  <2>4. OnStream(World, n) /\ SameStore(World, n) /\ SameDemand(World, n)
    BY <1>8, <1>11, <2>2 DEF OnStream, SameStore, SameWork, SameSlot, SameDemand
  <2>5. Streams(n) /\ Demanded(n) /\ n.rt.act # "untracked"
    BY <1>2, <1>9, <2>4, SameDemandFacts DEF Streaming, SameDemand
  <2>6. Streaming(n)
    BY <1>4, <1>6, <2>2, <2>3, <2>5, WorldFields DEF Streaming, Queued, Starting, Active, Supplied
  <2>7. Remembered(n)
    <3>1. n.rt.snapshot = 0 => n.heard = 0
      BY <1>2, <2>4 DEF Remembered, SameStore, SameDemand
    <3> QED BY <2>3, <3>1, StoppedRemembered
  <2>8. Stepped(World, n, ver)
    BY <1>2, <1>3, <2>4, <2>6, <2>7, WorldFields, KeepsStepped DEF OnStream, SameWork, SameStore, SameDemand
  <2>9. n.rt.tasks \subseteq rt.tasks
    BY <1>6, <2>2, WorldFields
  <2> QED BY <1>1, <2>8, <2>9, ActInv
<1>13. CASE ~(IsEnabled(World) /\ World.rt.conn = "inactive")
  <2>1. n = run
    BY <1>6, <1>13 DEF StartStream
  <2>2. Leased(run) => run.rt.conn # "inactive"
    BY <1>2, <1>6, <1>10, <1>13 DEF Streaming, Demanded, IsEnabled
  <2>3. Streaming(run)
    BY <1>2, <1>4, <1>6, <1>7, <1>9, <1>10, <2>2, WorldFields
       DEF Streaming, Queued, Starting, Active, Supplied, SameDemand
  <2>4. Wary(World, run)
    BY <1>6, <1>7, <1>8 DEF Wary, HeldSignal, SameDemand
  <2>5. Remembered(run)
    BY <1>2, <1>8, <2>4, KeepsRemembered
  <2>6. Stepped(World, run, ver)
    BY <1>2, <1>3, <1>5, <1>8, <1>10, <2>3, <2>5, WorldFields, KeepsStepped DEF SameStore
  <2>7. run.rt.tasks \subseteq rt.tasks
    BY <1>6, WorldFields
  <2> HIDE DEF n
  <2>8. Stepped(World, n, ver) /\ n.rt.tasks \subseteq rt.tasks
    BY <2>1, <2>6, <2>7
  <2> QED BY <1>1, <2>8, ActInv
<1> QED BY <1>12, <1>13

LEMMA EndStartFacts ==
  ASSUME NEW w \in Worlds
  PROVE  LET n == EndStart(w) IN
         /\ OnStream(w, n) /\ SameStore(w, n)
         /\ n.rt.tasks = w.rt.tasks /\ n.rt.ready = w.rt.ready /\ n.rt.conn = "inactive" /\ n.feed = w.feed
<1> DEFINE n == [w EXCEPT !.rt.conn = "inactive", !.rt.cancelled = FALSE]
<1>0. EndStart(w) = n
  BY DEF EndStart
<1>1. w.rt \in Scope /\ n.rt = [w.rt EXCEPT !.conn = "inactive", !.cancelled = FALSE] /\ n.feed = w.feed
  BY DEF Worlds, Scope
<1>2. n \in Worlds
  <2>1. [w.rt EXCEPT !.conn = "inactive", !.cancelled = FALSE] \in Scope
    BY <1>1 DEF Scope
  <2> QED BY <1>1, <2>1 DEF Worlds
<1>3. SameDemand(w, n)
  BY DEF Worlds, Scope, SameDemand
<1>4. n.rt.tasks = w.rt.tasks /\ n.rt.ready = w.rt.ready /\ n.rt.conn = "inactive"
  BY DEF Worlds, Scope
<1>5. /\ SameStore(w, n) /\ SameSlot(w, n) /\ n.rt.recon = w.rt.recon /\ n.cut = w.cut
      /\ n.rt.deferred = w.rt.deferred
  BY DEF Worlds, Scope, SameStore, SameSlot
<1> QED BY <1>0, <1>1, <1>2, <1>3, <1>4, <1>5 DEF OnStream, SameWork

LEMMA FailStartFacts ==
  ASSUME NEW w \in Worlds
  PROVE  LET n == FailStart(w) IN
         /\ OnStream(w, n) /\ SameStore(w, n)
         /\ n.rt.tasks = w.rt.tasks /\ n.rt.ready = w.rt.ready /\ n.rt.conn = "inactive"
         /\ n.rt.retry <=> Leased(w)
<1> DEFINE e == EndStart(w)
           l == Leased(w)
           n == [e EXCEPT !.rt.retry = l, !.feed.sub = "none", !.feed.healthy = FALSE, !.feed.owes = FALSE]
<1>1. /\ OnStream(w, e) /\ SameStore(w, e)
      /\ e.rt.tasks = w.rt.tasks /\ e.rt.ready = w.rt.ready /\ e.rt.conn = "inactive" /\ e.feed = w.feed
  BY EndStartFacts
<1>2. FailStart(w) = n /\ l \in BOOLEAN
  BY DEF FailStart, Leased
<1> HIDE DEF e, l
<1>3. e \in Worlds
  BY <1>1 DEF OnStream
<1>4. n \in Worlds
  <2>1. e.rt \in Scope /\ n.rt = [e.rt EXCEPT !.retry = l]
    BY <1>3 DEF Worlds, Scope
  <2>2. e.feed \in Feeds /\ n.feed = [e.feed EXCEPT !.sub = "none", !.healthy = FALSE, !.owes = FALSE]
    BY <1>3 DEF Worlds, Feeds
  <2>3. [e.rt EXCEPT !.retry = l] \in Scope /\ [e.feed EXCEPT !.sub = "none", !.healthy = FALSE, !.owes = FALSE] \in Feeds
    BY <1>2, <2>1, <2>2 DEF Scope, Feeds
  <2> QED BY <1>3, <2>1, <2>2, <2>3 DEF Worlds
<1>5. SameDemand(e, n)
  BY <1>3 DEF Worlds, Scope, SameDemand
<1>6. n.rt.tasks = e.rt.tasks /\ n.rt.ready = e.rt.ready /\ n.rt.conn = e.rt.conn /\ n.rt.retry = l
  BY <1>3 DEF Worlds, Scope
<1>7. /\ SameStore(e, n) /\ SameSlot(e, n) /\ n.rt.recon = e.rt.recon /\ n.cut = e.cut
      /\ n.rt.deferred = e.rt.deferred
  BY <1>3 DEF Worlds, Scope, SameStore, SameSlot
<1> HIDE DEF n
<1>8. OnStream(w, n) /\ SameStore(w, n)
  BY <1>1, <1>4, <1>5, <1>7 DEF OnStream, SameStore, SameWork, SameSlot, SameDemand
<1> QED BY <1>1, <1>2, <1>6, <1>8 DEF l
LEMMA StartSettlesStep ==
  ASSUME RuntimeInv, StartSettles
  PROVE  RuntimeInv' /\ Stepped(World, World', ver)
<1>1. ver' = ver /\ World.rt.conn = "starting"
  BY WorldFields DEF StartSettles
<1>2. World \in Worlds /\ Slotted(World, ver) /\ Streaming(World) /\ Remembered(World) /\ ver \in Vers
      /\ Free(World)
  BY SaneWorld, FreeWorld
<1>3. World.heard <= ver /\ (World.rt.snapshot = 0 => World.heard = 0)
  BY <1>2 DEF Slotted, OwnerOnly, Remembered
<1>4. Streams(World) /\ Serviceable(World) /\ ~World.rt.blocked /\ Demanded(World) /\ World.rt.act # "untracked"
  BY <1>1, <1>2 DEF Streaming, Starting, Streams, Queued
<1>5. ASSUME NEW n, OnStream(World, n), SameStore(World, n), n.rt.tasks = World.rt.tasks, Streaming(n), Remembered(n)
      PROVE  Stepped(World, n, ver) /\ n.rt.tasks \subseteq rt.tasks
  <2>1. Stepped(World, n, ver)
    BY <1>2, <1>3, <1>5, KeepsStepped DEF OnStream, SameWork, SameStore, SameDemand
  <2> QED BY <1>5, <2>1, WorldFields
<1>6. CASE Become(FailStart(World)) /\ CountOp
  <2> DEFINE n == FailStart(World)
  <2>1. /\ OnStream(World, n) /\ SameStore(World, n)
        /\ n.rt.tasks = World.rt.tasks /\ n.rt.ready = World.rt.ready /\ n.rt.conn = "inactive"
        /\ n.rt.retry <=> Leased(World)
    BY <1>2, FailStartFacts
  <2>2. Become(n)
    BY <1>6
  <2> HIDE DEF n
  <2>3. Streams(n) /\ Demanded(n) /\ (Leased(n) <=> Leased(World)) /\ n.rt.act # "untracked"
    BY <1>4, <2>1, SameDemandFacts DEF OnStream, SameDemand
  <2>4. Streaming(n)
    BY <1>2, <2>1, <2>3 DEF Streaming, Queued, Starting, Active, Supplied
  <2>5. Remembered(n)
    BY <1>3, <2>1, StoppedRemembered DEF SameStore, OnStream, SameDemand
  <2>6. Stepped(World, n, ver) /\ n.rt.tasks \subseteq rt.tasks
    BY <1>5, <2>1, <2>4, <2>5
  <2>7. ops < MaxOps /\ ops' = ops + 1
    BY <1>6 DEF CountOp
  <2> QED BY <1>1, <2>2, <2>6, <2>7, ActInv
<1>7. CASE Become(CompleteStart(World)) /\ UNCHANGED ops
  <2> DEFINE n == CompleteStart(World)
  <2>1. Become(n) /\ ops' = ops
    BY <1>7
  <2>2. SUFFICES Stepped(World, n, ver) /\ n.rt.tasks \subseteq rt.tasks
    <3> HIDE DEF n
    <3> QED BY <1>1, <2>1, ActInv
  <2> DEFINE e == EndStart(World)
  <2>3. /\ OnStream(World, e) /\ SameStore(World, e)
        /\ e.rt.tasks = World.rt.tasks /\ e.rt.ready = World.rt.ready /\ e.rt.conn = "inactive"
        /\ e.feed = World.feed
    BY <1>2, EndStartFacts
  <2>4. CASE ~IsEnabled(World)
    <3>1. n = e
      BY <2>4 DEF CompleteStart
    <3> HIDE DEF e, n
    <3>2. Streams(e) /\ Demanded(e) /\ ~Leased(e) /\ e.rt.act # "untracked"
      BY <1>4, <2>3, <2>4, SameDemandFacts DEF OnStream, SameDemand, Demanded, IsEnabled
    <3>3. Streaming(e)
      BY <1>2, <2>3, <3>2 DEF Streaming, Queued, Starting, Active, Supplied
    <3>4. Remembered(e)
      BY <1>3, <2>3, StoppedRemembered DEF SameStore, OnStream, SameDemand
    <3> QED BY <1>5, <2>3, <3>1, <3>3, <3>4
  <2>5. CASE IsEnabled(World) /\ World.rt.cancelled
    <3>1. n = StartStream(e)
      BY <2>5 DEF CompleteStart
    <3> HIDE DEF e, n
    <3>2. e \in Worlds /\ Serviceable(e) /\ IsEnabled(e) /\ ~e.rt.blocked
      BY <1>4, <2>3, <2>5, SameDemandFacts DEF OnStream, SameDemand
    <3>3. /\ OnStream(e, n) /\ SameStore(e, n)
          /\ n.rt.tasks = e.rt.tasks /\ n.rt.ready = e.rt.ready
          /\ IF ~Serviceable(e) \/ ~IsEnabled(e) \/ e.rt.conn # "inactive" THEN n = e
             ELSE /\ n.rt.conn = IF e.rt.blocked THEN "inactive" ELSE "starting"
                  /\ ~n.rt.cancelled /\ n.feed.sub = "leased" /\ n.feed.owes
      BY <3>1, <3>2, StartFacts
    <3>4. n.rt.conn = "starting" /\ n.feed.sub = "leased" /\ n.feed.owes
      BY <2>3, <3>2, <3>3
    <3>5. OnStream(World, n) /\ SameStore(World, n) /\ n.rt.tasks = World.rt.tasks /\ n.rt.ready = World.rt.ready
      BY <2>3, <3>3 DEF OnStream, SameStore, SameWork, SameSlot, SameDemand
    <3>6. Streams(n) /\ Demanded(n) /\ n.rt.act # "untracked"
      BY <1>4, <3>5, SameDemandFacts DEF OnStream, SameDemand
    <3>7. Streaming(n)
      BY <1>2, <3>4, <3>5, <3>6 DEF Streaming, Queued, Starting, Active, Supplied
    <3>8. Remembered(n)
      BY <1>3, <3>4, <3>5, StoppedRemembered DEF SameStore, OnStream, SameDemand
    <3> QED BY <1>5, <3>5, <3>7, <3>8
  <2>6. CASE IsEnabled(World) /\ ~World.rt.cancelled
    <3> HIDE DEF e
    <3> DEFINE a == [World EXCEPT !.rt.conn = "active", !.rt.retry = FALSE]
    <3>1. n = InitialSnapshot(a)
      BY <2>6 DEF CompleteStart
    <3>2. a \in Worlds
      <4>1. World.rt \in Scope /\ a.rt = [World.rt EXCEPT !.conn = "active", !.retry = FALSE]
        BY <1>2 DEF Worlds, Scope
      <4>2. [World.rt EXCEPT !.conn = "active", !.retry = FALSE] \in Scope
        BY <4>1 DEF Scope
      <4> QED BY <1>2, <4>1, <4>2 DEF Worlds
    <3>3. SameDemand(World, a)
      BY <1>2 DEF Worlds, Scope, SameDemand
    <3>4. a.rt.tasks = World.rt.tasks /\ a.rt.ready = World.rt.ready /\ a.rt.conn = "active" /\ a.feed = World.feed
      BY <1>2 DEF Worlds, Scope
    <3>5. SameStore(World, a) /\ SameSlot(World, a) /\ a.cut = World.cut
      BY <1>2 DEF Worlds, Scope, SameStore, SameSlot
    <3> HIDE DEF a, n
    <3>6. /\ Streams(a) /\ Demanded(a) /\ Leased(a) /\ a.rt.act = "enabled"
          /\ a.feed.sub = "leased" /\ a.feed.owes
      <4>1. World.rt.act = "enabled"
        BY <1>2, <1>4, <2>6 DEF IsEnabled, Worlds, Scope
      <4>2. World.feed.sub = "leased" /\ World.feed.owes
        BY <1>1, <1>2, <2>6 DEF Streaming, Starting
      <4> QED BY <1>4, <3>3, <3>4, <4>1, <4>2, SameDemandFacts DEF SameDemand, Demanded
    <3>7. Streaming(a)
      BY <1>2, <3>4, <3>6 DEF Streaming, Queued, Starting, Active, Supplied, Streams, Serviceable
    <3>8. a.rt.snapshot = 0 => a.heard = 0
      BY <1>3, <3>3, <3>5 DEF SameDemand, SameStore
    <3>9. a.shown # 0 => Remembered(a)
      BY <3>6, <3>8 DEF Remembered, Missed, Followed
    <3>10. Slotted(a, ver) /\ Free(a)
      <4>1. Slotted(a, ver)
        BY <1>2, <3>2, <3>3, <3>5, KeepsSlotted DEF SameDemand
      <4>2. Free(a)
        BY <1>2, <3>5 DEF Free, SameSlot
      <4> QED BY <4>1, <4>2
    <3>11. /\ OnReads(a, n) /\ (SameStore(a, n) \/ NoStore(n))
           /\ Slotted(n, ver) /\ Moves(a, n, ver) /\ Remembered(n)
      BY <1>2, <3>1, <3>2, <3>8, <3>9, <3>10, InitialFacts
    <3>12. Streaming(n) /\ n \in Worlds
      BY <3>7, <3>11, ReadsFetch, FetchStreaming DEF OnReads
    <3>13. Moves(World, n, ver)
      <4>1. SameSlot(n, n) /\ a.shown = World.shown
        BY <3>5 DEF SameSlot, SameStore
      <4> QED BY <3>5, <3>11, <4>1, MovesOn
    <3>14. n.rt.tasks = rt.tasks
      BY <3>4, <3>11, WorldFields DEF OnReads, SameStream
    <3> QED BY <3>11, <3>12, <3>13, <3>14 DEF Stepped, Sane
  <2> QED BY <2>4, <2>5, <2>6
<1> QED BY <1>6, <1>7 DEF StartSettles

-----------------------------------------------------------------------------
(* Turns.                                                                  *)
LEMMA TurnFacts ==
  ASSUME RuntimeInv, OwnTurn
  PROVE  /\ World.rt.tasks = {} /\ World.rt.ready = 0 /\ World.rt.conn \in {"inactive", "active"}
         /\ Still(World)
<1>1. World \in Worlds /\ Streaming(World)
  BY SaneWorld
<1>2. World.rt.tasks = {} /\ World.rt.conn # "starting"
  BY WorldFields DEF OwnTurn
<1>3. World.rt.ready = 0
  BY <1>1, <1>2 DEF Streaming, Queued
<1>4. World.rt.conn \in {"inactive", "active"}
  BY <1>1, <1>2 DEF Worlds, Scope
<1>5. Still(World)
  BY <1>1, <1>2, <1>3 DEF Still, Streaming, Active, Queued
<1> QED BY <1>2, <1>3, <1>4, <1>5

LEMMA TurnInv ==
  ASSUME RuntimeInv, NEW n, Stepped(World, n, ver), n.rt.tasks \subseteq {n.rt.ready}, Event(n) \/ Step(n)
  PROVE  RuntimeInv' /\ Stepped(World, World', ver)
<1>1. /\ Become(n) /\ ver' = ver
      /\ \/ ops' = ops + 1 /\ ops < MaxOps
         \/ ops' = ops
  BY DEF Event, Step, CountOp
<1>2. n.rt.tasks \subseteq rt.tasks \cup {n.rt.ready}
  OBVIOUS
<1> QED BY <1>1, <1>2, ActInv

\* A step about the stream only.
LEMMA StreamStepped ==
  ASSUME RuntimeInv, NEW n, OnStream(World, n), SameStore(World, n) \/ NoStore(n),
         Streaming(n), Remembered(n)
  PROVE  Stepped(World, n, ver)
<1>1. World \in Worlds /\ Slotted(World, ver) /\ ver \in Vers
  BY SaneWorld
<1>2. n.shown \in {World.shown, 0} /\ n.heard <= ver
  BY <1>1 DEF Slotted, OwnerOnly, SameStore, NoStore, Vers
<1> QED BY <1>1, <1>2, KeepsStepped DEF OnStream, SameWork, SameDemand

\* A step about the books only.
LEMMA BooksStepped ==
  ASSUME RuntimeInv, NEW n, OnBooks(World, n), Wary(World, n)
  PROVE  Stepped(World, n, ver) /\ n.rt.tasks = World.rt.tasks
<1>1. World \in Worlds /\ Slotted(World, ver) /\ ver \in Vers /\ Streaming(World) /\ Remembered(World)
  BY SaneWorld
<1>2. Streaming(n) /\ n \in Worlds
  BY <1>1, ReadsFetch, FetchStreaming DEF OnBooks, OnReads
<1>3. Remembered(n)
  BY <1>1, KeepsRemembered DEF OnBooks
<1>4. Slotted(n, ver) /\ Wilts(World, n)
  BY <1>1, BooksKeep DEF Wary
<1> QED BY <1>2, <1>3, <1>4 DEF Stepped, Sane, Moves, OnBooks, OnReads, SameStream

LEMMA RetryTimerStep ==
  ASSUME RuntimeInv, RetryTimer
  PROVE  RuntimeInv' /\ Stepped(World, World', ver)
<1> DEFINE t == [World EXCEPT !.rt.retry = FALSE]
           n == IF Leased(World) /\ Streams(World) THEN StartStream(t) ELSE t
<1>1. Step(n) /\ OwnTurn
  BY DEF RetryTimer, Step
<1>2. World \in Worlds /\ Streaming(World) /\ Remembered(World)
  BY SaneWorld
<1>3. World.rt.tasks = {} /\ World.rt.ready = 0 /\ World.rt.conn \in {"inactive", "active"}
  BY <1>1, TurnFacts
<1>4. t \in Worlds
  <2>1. World.rt \in Scope /\ t.rt = [World.rt EXCEPT !.retry = FALSE]
    BY <1>2 DEF Worlds, Scope
  <2>2. [World.rt EXCEPT !.retry = FALSE] \in Scope
    BY <2>1 DEF Scope
  <2> QED BY <1>2, <2>1, <2>2 DEF Worlds
<1>5. SameDemand(World, t)
  BY <1>2 DEF Worlds, Scope, SameDemand
<1>6. t.rt.tasks = {} /\ t.rt.ready = 0 /\ t.rt.conn = World.rt.conn /\ t.feed = World.feed
  BY <1>2, <1>3 DEF Worlds, Scope
<1>7. /\ SameStore(World, t) /\ SameSlot(World, t) /\ t.rt.recon = World.rt.recon /\ t.cut = World.cut
      /\ t.rt.deferred = World.rt.deferred
  BY <1>2 DEF Worlds, Scope, SameStore, SameSlot
<1> HIDE DEF t
<1>8. OnStream(World, t)
  BY <1>4, <1>5, <1>7 DEF OnStream, SameWork
<1>9. /\ (Streams(t) <=> Streams(World)) /\ (Leased(t) <=> Leased(World)) /\ Demanded(t)
      /\ (Serviceable(t) <=> Serviceable(World)) /\ (IsEnabled(t) <=> IsEnabled(World))
  BY <1>2, <1>5, SameDemandFacts DEF Streaming
<1>10. CASE ~(Leased(World) /\ Streams(World) /\ World.rt.conn = "inactive")
  <2>1. n = t
    BY <1>6, <1>10 DEF StartStream
  <2>2. Streaming(t)
    BY <1>2, <1>3, <1>5, <1>6, <1>9, <1>10 DEF Streaming, Queued, Starting, Active, Supplied, SameDemand
  <2>3. Remembered(t)
    <3>1. Wary(World, t)
      BY <1>5, <1>6, <1>7 DEF Wary, SameDemand, HeldSignal
    <3> QED BY <1>2, <1>7, <3>1, KeepsRemembered
  <2>4. Stepped(World, t, ver)
    BY <1>7, <1>8, <2>2, <2>3, StreamStepped
  <2> QED BY <1>1, <1>6, <2>1, <2>4, TurnInv
<1>11. CASE Leased(World) /\ Streams(World) /\ World.rt.conn = "inactive"
  <2>1. n = StartStream(t)
    BY <1>11
  <2> HIDE DEF n
  <2>2. /\ OnStream(t, n) /\ SameStore(t, n)
        /\ n.rt.tasks = t.rt.tasks /\ n.rt.ready = t.rt.ready
        /\ IF ~Serviceable(t) \/ ~IsEnabled(t) \/ t.rt.conn # "inactive" THEN n = t
           ELSE /\ n.rt.conn = IF t.rt.blocked THEN "inactive" ELSE "starting"
                /\ ~n.rt.cancelled /\ n.feed.sub = "leased" /\ n.feed.owes
    BY <1>4, <2>1, StartFacts
  <2>3. n.rt.conn = "starting" /\ n.feed.sub = "leased" /\ n.feed.owes
    BY <1>2, <1>6, <1>9, <1>11, <2>2 DEF Streaming, Demanded, IsEnabled, Streams
  <2>4. OnStream(World, n) /\ SameStore(World, n)
    BY <1>7, <1>8, <2>2 DEF OnStream, SameStore, SameWork, SameSlot, SameDemand
  <2>5. Streams(n) /\ Demanded(n) /\ Leased(n)
    BY <1>2, <1>11, <2>4, SameDemandFacts DEF OnStream, Streaming
  <2>6. Streaming(n)
    BY <1>6, <2>2, <2>3, <2>5 DEF Streaming, Demanded, Queued, Starting, Active, Supplied
  <2>7. Remembered(n)
    BY <1>2, <2>3, <2>4, StoppedRemembered DEF Remembered, SameStore, OnStream, SameDemand
  <2>8. Stepped(World, n, ver) /\ n.rt.tasks = {}
    BY <1>6, <2>2, <2>4, <2>6, <2>7, StreamStepped
  <2> QED BY <1>1, <2>8, TurnInv
<1> QED BY <1>10, <1>11

LEMMA BackoffEndsStep ==
  ASSUME RuntimeInv, BackoffEnds
  PROVE  RuntimeInv' /\ Stepped(World, World', ver)
<1> DEFINE n == [World EXCEPT !.rt.recon = "retry"]
<1>1. Step(n) /\ OwnTurn
  BY DEF BackoffEnds, Step
<1>2. World \in Worlds
  BY SaneWorld
<1>3. OnBooks(World, n) /\ n.rt.recon = "retry" /\ (n.cut <=> World.cut) /\ n.rt.deferred = World.rt.deferred
  BY <1>2, MarkFacts
<1> HIDE DEF n
<1>4. Wary(World, n)
  BY <1>3 DEF Wary, OnBooks, OnReads, SameDemand, SameStream, HeldSignal
<1>5. Stepped(World, n, ver) /\ n.rt.tasks = {}
  BY <1>1, <1>3, <1>4, BooksStepped, TurnFacts
<1> QED BY <1>1, <1>5, TurnInv

LEMMA PollTimerStep ==
  ASSUME RuntimeInv, PollTimer
  PROVE  RuntimeInv' /\ Stepped(World, World', ver)
<1> DEFINE p == [World EXCEPT !.rt.poll = FALSE]
           f == Fetch(p, "background", FALSE, TRUE, TRUE)
           n == IF f.reads # reads THEN f ELSE SchedulePoll(f)
<1>1. Step(n) /\ OwnTurn
  BY DEF PollTimer, Step
<1>2. World \in Worlds /\ Slotted(World, ver) /\ ver \in Vers /\ Streaming(World) /\ Remembered(World)
      /\ Free(World) /\ World.rt.tasks = {}
  BY <1>1, SaneWorld, FreeWorld, TurnFacts
<1>3. Alike(World, p)
  BY <1>2, PollFacts
<1> HIDE DEF p
<1>4. p \in Worlds /\ Slotted(p, ver) /\ Streaming(p) /\ Remembered(p) /\ Free(p) /\ Active(p)
  <2>1. p \in Worlds /\ Slotted(p, ver) /\ Streaming(p) /\ Remembered(p)
    BY <1>2, <1>3, AlikeSane DEF Alike
  <2>2. Free(p)
    BY <1>2, <1>3 DEF Alike, SameWork, SameSlot, Free
  <2> QED BY <2>1, <2>2 DEF Streaming
<1>5. p.rt.snapshot = 0 => p.heard = 0
  BY <1>4 DEF Remembered
<1>6. OnFetch(p, f) /\ Slotted(f, ver) /\ Moves(p, f, ver) /\ Remembered(f)
  <2>1. "background" \in Intents
    BY DEF Intents
  <2> QED BY <1>2, <1>4, <1>5, <2>1, FetchFacts
<1> HIDE DEF f
<1>7. f \in Worlds /\ Streaming(f) /\ f.rt.tasks = {}
  BY <1>2, <1>3, <1>4, <1>6, FetchStreaming DEF OnFetch, Alike, SameStream
<1>8. Alike(f, SchedulePoll(f)) /\ Alike(f, f)
  BY <1>7, SchedulePollFacts DEF Alike, SameWork, SameSlot, SameDemand, SameStore, SameStream
<1>9. Alike(f, n)
  BY <1>8
<1> HIDE DEF n
<1>10. n \in Worlds /\ Slotted(n, ver) /\ Streaming(n) /\ Remembered(n)
  BY <1>2, <1>6, <1>7, <1>9, AlikeSane DEF Alike
<1>11. Moves(World, n, ver)
  <2>1. SameSlot(World, p) /\ p.shown = World.shown /\ SameSlot(f, n) /\ n.shown = f.shown
    BY <1>3, <1>9 DEF Alike, SameWork, SameStore
  <2> QED BY <1>6, <2>1, MovesOn
<1>12. n.rt.tasks = {}
  BY <1>7, <1>9 DEF Alike, SameStream
<1>13. Stepped(World, n, ver)
  BY <1>10, <1>11 DEF Stepped, Sane
<1> QED BY <1>1, <1>12, <1>13, TurnInv
-----------------------------------------------------------------------------
(* The subscription.                                                       *)
LEMMA FeedFacts ==
  ASSUME NEW w \in Worlds, NEW f \in Feeds
  PROVE  LET n == [w EXCEPT !.feed = f] IN
         /\ n \in Worlds /\ n.env = w.env /\ n.rt = w.rt /\ n.reads = w.reads /\ n.feed = f
         /\ n.shown = w.shown /\ n.heard = w.heard /\ (n.cut <=> w.cut)
         /\ SameWork(w, n) /\ SameDemand(w, n) /\ SameStore(w, n)
BY DEF Worlds, SameWork, SameSlot, SameDemand, SameStore

LEMMA HealthStepped ==
  ASSUME RuntimeInv, NEW healthy \in BOOLEAN
  PROVE  LET n == [World EXCEPT !.feed.healthy = healthy] IN
         Stepped(World, n, ver) /\ n.rt.tasks = World.rt.tasks
<1> DEFINE f == [World.feed EXCEPT !.healthy = healthy]
           n == [World EXCEPT !.feed = f]
<1>1. World \in Worlds /\ World.feed \in Feeds
  BY SaneWorld DEF Worlds
<1>2. f \in Feeds /\ f.sub = World.feed.sub /\ f.owes = World.feed.owes
  BY <1>1 DEF Feeds
<1>3. [World EXCEPT !.feed.healthy = healthy] = n
  OBVIOUS
<1> HIDE DEF f
<1>4. /\ n \in Worlds /\ n.env = World.env /\ n.rt = World.rt /\ n.reads = World.reads /\ n.feed = f
      /\ n.shown = World.shown /\ n.heard = World.heard /\ (n.cut <=> World.cut)
      /\ SameWork(World, n) /\ SameDemand(World, n) /\ SameStore(World, n)
  BY <1>1, <1>2, FeedFacts
<1> HIDE DEF n
<1>5. OnBooks(World, n)
  BY <1>2, <1>4 DEF OnBooks, OnReads, SameStream, SameWork
<1>6. Wary(World, n)
  BY <1>2, <1>4 DEF Wary, HeldSignal
<1> QED BY <1>3, <1>5, <1>6, BooksStepped

LEMMA FeedUpStep ==
  ASSUME RuntimeInv, FeedUp
  PROVE  RuntimeInv' /\ Stepped(World, World', ver)
<1> DEFINE n == [World EXCEPT !.feed.healthy = TRUE]
<1>1. Step(n) /\ OwnTurn
  BY DEF FeedUp, Step
<1>2. Stepped(World, n, ver) /\ n.rt.tasks = World.rt.tasks
  BY HealthStepped
<1> HIDE DEF n
<1> QED BY <1>1, <1>2, TurnFacts, TurnInv

LEMMA FeedDownStep ==
  ASSUME RuntimeInv, FeedDown
  PROVE  RuntimeInv' /\ Stepped(World, World', ver)
<1> DEFINE n == [World EXCEPT !.feed.healthy = FALSE]
<1>1. Event(n) /\ OwnTurn
  BY DEF FeedDown, Event
<1>2. Stepped(World, n, ver) /\ n.rt.tasks = World.rt.tasks
  BY HealthStepped
<1> HIDE DEF n
<1> QED BY <1>1, <1>2, TurnFacts, TurnInv

LEMMA UnsubscribeTimerStep ==
  ASSUME RuntimeInv, UnsubscribeTimer
  PROVE  RuntimeInv' /\ Stepped(World, World', ver)
<1> DEFINE f == [World.feed EXCEPT !.sub = "none", !.healthy = FALSE, !.owes = FALSE]
           n == [World EXCEPT !.feed = f]
<1>1. Step(n) /\ OwnTurn /\ World.feed.sub = "leaving"
  BY WorldFields DEF UnsubscribeTimer, Step
<1>2. World \in Worlds /\ World.feed \in Feeds /\ Streaming(World) /\ Remembered(World)
      /\ World.rt.tasks = {} /\ World.rt.conn \in {"inactive", "active"}
  BY <1>1, SaneWorld, TurnFacts DEF Worlds
<1>3. f \in Feeds
  BY <1>2 DEF Feeds
<1>4. World.rt.conn = "inactive"
  BY <1>1, <1>2 DEF Streaming, Active
<1> HIDE DEF f
<1>5. /\ n \in Worlds /\ n.env = World.env /\ n.rt = World.rt /\ n.reads = World.reads /\ n.feed = f
      /\ n.shown = World.shown /\ n.heard = World.heard /\ (n.cut <=> World.cut)
      /\ SameWork(World, n) /\ SameDemand(World, n) /\ SameStore(World, n)
  BY <1>2, <1>3, FeedFacts
<1> HIDE DEF n
<1>6. Streams(n) <=> Streams(World)
  BY <1>5, SameDemandFacts
<1>7. Streaming(n)
  BY <1>2, <1>4, <1>5, <1>6 DEF Streaming, Demanded, Queued, Starting, Active, Supplied, Leased
<1>8. Remembered(n)
  BY <1>2, <1>4, <1>5, StoppedRemembered DEF Remembered
<1>9. Stepped(World, n, ver)
  BY <1>5, <1>7, <1>8, StreamStepped DEF OnStream
<1> QED BY <1>1, <1>2, <1>5, <1>9, TurnInv

\* handleStreamSignal: the scope hears the version of the signal, and reads again
\* or keeps the signal.
LEMMA DoorbellStep ==
  ASSUME RuntimeInv, Doorbell
  PROVE  RuntimeInv' /\ Stepped(World, World', ver)
<1> DEFINE f == [World.feed EXCEPT !.owes = FALSE, !.told = ver]
           rung == [World EXCEPT !.feed = f]
           n == IF World.feed.owes /\ World.shown = 0 THEN rung ELSE Signal(rung)
<1>1. Step(n) /\ OwnTurn
  BY WorldFields DEF Doorbell, Step
<1>2. /\ World \in Worlds /\ World.feed \in Feeds /\ Streaming(World) /\ Remembered(World)
      /\ Slotted(World, ver) /\ ver \in Vers /\ ver \in 0..MaxVer /\ Free(World)
      /\ World.rt.tasks = {} /\ World.rt.conn \in {"inactive", "active"}
  BY <1>1, SaneWorld, FreeWorld, TurnFacts, Numbers DEF Worlds
<1>3. f \in Feeds /\ f.sub = World.feed.sub /\ ~f.owes
  BY <1>2 DEF Feeds
<1> HIDE DEF f
<1>4. /\ rung \in Worlds /\ rung.env = World.env /\ rung.rt = World.rt /\ rung.reads = World.reads /\ rung.feed = f
      /\ rung.shown = World.shown /\ rung.heard = World.heard /\ (rung.cut <=> World.cut)
      /\ SameWork(World, rung) /\ SameDemand(World, rung) /\ SameStore(World, rung)
  BY <1>2, <1>3, FeedFacts
<1> HIDE DEF rung
<1>5. Streams(rung) <=> Streams(World)
  BY <1>4, SameDemandFacts
<1>6. Streaming(rung)
  BY <1>2, <1>3, <1>4, <1>5 DEF Streaming, Demanded, Queued, Starting, Active, Supplied, Leased
<1>7. CASE n = rung /\ Remembered(rung)
  <2>1. Stepped(World, rung, ver)
    BY <1>4, <1>6, <1>7, StreamStepped DEF OnStream
  <2> QED BY <1>1, <1>2, <1>4, <1>7, <2>1, TurnInv
<1>8. CASE World.feed.owes /\ World.shown = 0
  <2>1. n = rung
    BY <1>8
  <2>2. Missed(rung)
    BY <1>4, <1>8 DEF Missed
  <2>3. Early(rung) => Early(World)
    BY <1>4 DEF Early
  <2>4. Followed(World) => Followed(rung)
    BY <1>4, <1>8 DEF Followed, HeldSignal
  <2>5. Remembered(rung)
    BY <1>2, <1>4, <2>2, <2>3, <2>4 DEF Remembered
  <2> QED BY <1>7, <2>1, <2>5
<1>9. CASE ~(World.feed.owes /\ World.shown = 0) /\ World.rt.snapshot = 0
  <2>1. n = rung
    BY <1>4, <1>9 DEF Signal
  <2>2. rung.heard = 0
    BY <1>2, <1>4, <1>9 DEF Remembered
  <2> QED BY <1>4, <1>7, <2>1, <2>2, UnheardRemembered
<1>10. CASE ~(World.feed.owes /\ World.shown = 0) /\ World.rt.snapshot # 0
  <2> DEFINE s == [rung EXCEPT !.heard = ver]
  <2>1. n = Fetch(s, "stream-signal", FALSE, FALSE, FALSE)
    BY <1>4, <1>10 DEF Signal
  <2>2. /\ s \in Worlds /\ s.env = World.env /\ s.rt = World.rt /\ s.reads = World.reads /\ s.feed = rung.feed
        /\ s.shown = World.shown /\ s.heard = ver /\ (s.cut <=> World.cut)
    BY <1>2, <1>4 DEF Worlds
  <2> HIDE DEF s, n
  <2>3. SameSlot(World, s) /\ SameDemand(World, s) /\ ver <= ver
    BY <1>2, <2>2 DEF SameSlot, SameDemand, Vers
  <2>4. Slotted(s, ver)
    BY <1>2, <2>2, <2>3, KeptSlotted
  <2>5. Streams(s) <=> Streams(rung)
    BY <1>4, <2>2 DEF Streams, Serviceable
  <2>6. Streaming(s)
    BY <1>4, <1>6, <2>2, <2>5 DEF Streaming, Demanded, Queued, Starting, Active, Supplied, Leased
  <2>7. Free(s) /\ Active(s) /\ s.rt.snapshot # 0
    BY <1>2, <1>10, <2>2, <2>6 DEF Free, Streaming
  <2>8. Settles(s, "stream-signal", FALSE) /\ "stream-signal" \in Intents
    BY DEF Settles, Decides, Intents
  <2>9. OnFetch(s, n) /\ Slotted(n, ver) /\ Moves(s, n, ver) /\ Remembered(n)
    BY <1>2, <2>1, <2>2, <2>4, <2>7, <2>8, FetchFacts
  <2>10. Streaming(n) /\ n \in Worlds /\ n.rt.tasks = {}
    BY <1>2, <2>2, <2>6, <2>9, FetchStreaming DEF OnFetch
  <2>11. Moves(World, n, ver)
    <3>1. SameSlot(n, n)
      BY DEF SameSlot
    <3> QED BY <2>2, <2>3, <2>9, <3>1, MovesOn
  <2>12. Stepped(World, n, ver)
    BY <2>9, <2>10, <2>11 DEF Stepped, Sane
  <2> QED BY <1>1, <2>10, <2>12, TurnInv
<1> QED BY <1>8, <1>9, <1>10

LEMMA DeadlineStep ==
  ASSUME RuntimeInv, NEW r \in reads, Deadline(r)
  PROVE  RuntimeInv' /\ Stepped(World, World', ver)
<1> DEFINE d == [r EXCEPT !.aborted = "deadline"]
           R == (World.reads \ {r}) \cup {d}
           n == [World EXCEPT !.reads = R]
<1>1. Event(n) /\ OwnTurn /\ r.polled /\ r.aborted = "no" /\ r \in World.reads
  BY WorldFields DEF Deadline, Event
<1>2. /\ World \in Worlds /\ Streaming(World) /\ Remembered(World) /\ Slotted(World, ver) /\ ver \in Vers
      /\ World.rt.tasks = {} /\ r \in Request /\ World.reads \subseteq Request
  BY <1>1, SaneWorld, TurnFacts DEF Worlds
<1>3. /\ d \in Request /\ d.id = r.id /\ d.from = r.from /\ (d.stale <=> r.stale) /\ (d.polled <=> r.polled)
      /\ d.aborted = "deadline" /\ ~CanCommit(d)
  BY <1>2 DEF Request, CanCommit
<1> HIDE DEF d
<1>4. /\ n \in Worlds /\ n.env = World.env /\ n.rt = World.rt /\ n.reads = R /\ n.feed = World.feed
      /\ n.shown = World.shown /\ n.heard = World.heard /\ (n.cut <=> World.cut)
  <2>1. R \in SUBSET Request
    BY <1>2, <1>3
  <2> HIDE DEF R
  <2> QED BY <1>2, <2>1 DEF Worlds
<1>5. \A q \in R : q = d \/ (q \in World.reads /\ q # r)
  OBVIOUS
<1>6. \A q \in World.reads : q = r \/ q \in R
  OBVIOUS
<1>7. d \in R
  OBVIOUS
<1> HIDE DEF n, R
<1>8. Aged(World, n)
  BY <1>1, <1>3, <1>4, <1>5, <1>6, <1>7 DEF Aged, Elder
<1>9. Apart(n)
  BY <1>1, <1>2, <1>3, <1>4, <1>5 DEF Apart, Slotted
<1>10. OwnerOnly(n, ver)
  BY <1>1, <1>2, <1>3, <1>4, <1>5 DEF OwnerOnly, Slotted
<1>11. Owned(n)
  BY <1>1, <1>2, <1>3, <1>4, <1>6, <1>7 DEF Owned, Slotted
<1>12. Remembered(n)
  <2>1. Missed(World) => Missed(n)
    BY <1>4 DEF Missed, HeldSignal
  <2>2. Covered(World) => Covered(n)
    BY <1>1, <1>4, <1>6 DEF Covered
  <2>3. Early(n) => Early(World)
    BY <1>3, <1>4, <1>5 DEF Early
  <2>4. Followed(World) => Followed(n)
    BY <1>4 DEF Followed, HeldSignal
  <2> QED BY <1>2, <1>4, <2>1, <2>2, <2>3, <2>4 DEF Remembered
<1>13. Streaming(n)
  <2>1. OnFetch(World, n)
    BY <1>4 DEF OnFetch, SameDemand, SameStore
  <2> QED BY <1>2, <2>1, FetchStreaming
<1>14. Wilts(World, n)
  BY <1>4, <1>8 DEF Wilts
<1>15. Stepped(World, n, ver)
  BY <1>4, <1>9, <1>10, <1>11, <1>12, <1>13, <1>14 DEF Stepped, Sane, Slotted, Moves
<1> QED BY <1>1, <1>2, <1>4, <1>15, TurnInv
LEMMA StreamDeniedStep ==
  ASSUME RuntimeInv, StreamDenied
  PROVE  RuntimeInv' /\ Stepped(World, World', ver)
<1> DEFINE b == [World EXCEPT !.rt.blocked = TRUE, !.feed.healthy = FALSE, !.feed.owes = FALSE]
           s == StopStream(b, FALSE)
           n == PerformFetch(s, "user", FALSE, FALSE)
<1>1. Event(n) /\ OwnTurn
  BY DEF StreamDenied, Event
<1>2. /\ World \in Worlds /\ Streaming(World) /\ Remembered(World) /\ Slotted(World, ver) /\ ver \in Vers
      /\ Free(World) /\ World.rt.tasks = {} /\ World.rt.conn \in {"inactive", "active"}
  BY <1>1, SaneWorld, FreeWorld, TurnFacts
<1>3. b \in Worlds
  <2>1. World.rt \in Scope /\ b.rt = [World.rt EXCEPT !.blocked = TRUE]
    BY <1>2 DEF Worlds, Scope
  <2>2. World.feed \in Feeds /\ b.feed = [World.feed EXCEPT !.healthy = FALSE, !.owes = FALSE]
    BY <1>2 DEF Worlds, Feeds
  <2>3. [World.rt EXCEPT !.blocked = TRUE] \in Scope
    BY <2>1 DEF Scope
  <2>4. [World.feed EXCEPT !.healthy = FALSE, !.owes = FALSE] \in Feeds
    BY <2>2 DEF Feeds
  <2> QED BY <1>2, <2>1, <2>2, <2>3, <2>4 DEF Worlds
<1>4. /\ b.rt.blocked /\ b.rt.act = World.rt.act /\ b.rt.query = World.rt.query /\ b.rt.snapshot = World.rt.snapshot
      /\ b.rt.tasks = World.rt.tasks /\ b.rt.conn = World.rt.conn
  BY <1>2 DEF Worlds, Scope
<1>5. SameSlot(World, b) /\ SameStore(World, b) /\ (b.cut <=> World.cut)
  BY <1>2 DEF Worlds, Scope, SameSlot, SameStore
<1> HIDE DEF b
<1>6. /\ OnStream(b, s) /\ (IF FALSE THEN NoStore(s) ELSE SameStore(b, s))
      /\ s.rt.tasks = b.rt.tasks /\ s.rt.ready = 0
      /\ s.rt.conn = IF b.rt.conn = "active" THEN "inactive" ELSE b.rt.conn
      /\ s.rt.conn = "starting" => s.rt.cancelled
  BY <1>3, StopFacts
<1> HIDE DEF s
<1>7. /\ s \in Worlds /\ SameSlot(World, s) /\ SameStore(World, s) /\ (s.cut <=> World.cut) /\ s.rt.blocked
      /\ s.rt.act = World.rt.act /\ s.rt.query = World.rt.query /\ s.rt.snapshot = World.rt.snapshot
      /\ s.rt.tasks = {} /\ s.rt.ready = 0 /\ s.rt.conn = "inactive"
  BY <1>2, <1>4, <1>5, <1>6 DEF OnStream, SameWork, SameSlot, SameDemand, SameStore
<1>8. Slotted(s, ver) /\ Free(s)
  <2>1. Slotted(s, ver)
    BY <1>2, <1>7, KeepsSlotted
  <2> QED BY <1>2, <1>7, <2>1 DEF Free, SameSlot
<1>9. Streaming(s)
  BY <1>2, <1>7 DEF Streaming, Demanded, Queued, Starting, Active, Supplied, Leased, Streams
<1>10. Remembered(s) /\ (s.rt.snapshot = 0 => s.heard = 0)
  BY <1>2, <1>7, StoppedRemembered DEF Remembered, SameStore
<1>11. /\ OnReads(s, n) /\ (SameStore(s, n) \/ NoStore(n))
       /\ Slotted(n, ver) /\ Moves(s, n, ver) /\ Remembered(n)
  <2>1. "user" \in Intents
    BY DEF Intents
  <2> QED BY <1>2, <1>7, <1>8, <1>10, <2>1, PerformFacts
<1> HIDE DEF n
<1>12. Streaming(n) /\ n \in Worlds /\ n.rt.tasks = {}
  BY <1>7, <1>9, <1>11, ReadsFetch, FetchStreaming DEF OnReads, SameStream
<1>13. Moves(World, n, ver)
  <2>1. SameSlot(n, n) /\ s.shown = World.shown
    BY <1>7 DEF SameSlot, SameStore
  <2> QED BY <1>7, <1>11, <2>1, MovesOn
<1>14. Stepped(World, n, ver)
  BY <1>11, <1>12, <1>13 DEF Stepped, Sane
<1> QED BY <1>1, <1>12, <1>14, TurnInv
-----------------------------------------------------------------------------
(* Events of the cluster and the application.                              *)
LEMMA EnvFacts ==
  ASSUME NEW w \in Worlds, NEW e \in Environments
  PROVE  LET n == [w EXCEPT !.env = e] IN
         /\ n \in Worlds /\ n.env = e /\ n.rt = w.rt /\ n.reads = w.reads /\ n.feed = w.feed
         /\ n.shown = w.shown /\ n.heard = w.heard /\ (n.cut <=> w.cut)
         /\ SameWork(w, n) /\ SameStore(w, n) /\ SameStream(w, n)
BY DEF Worlds, SameWork, SameSlot, SameStore, SameStream

\* A scope whose stream was stopped gives up its slot.
LEMMA TornStepped ==
  ASSUME RuntimeInv, NEW x \in Worlds, SameSlot(World, x), SameStore(World, x), World.cut => x.cut,
         x.rt.snapshot = World.rt.snapshot,
         x.rt.conn = "inactive", x.rt.tasks = {}, x.rt.ready = 0, Demanded(x), ~Streams(x)
  PROVE  LET n == Teardown(x) IN Stepped(World, n, ver) /\ n.rt.tasks = {}
<1> DEFINE n == Teardown(x)
<1>1. World \in Worlds /\ Slotted(World, ver) /\ ver \in Vers /\ Remembered(World)
  BY SaneWorld
<1>2. x.shown \in {World.shown, 0} /\ x.heard <= ver
  BY <1>1 DEF SameStore, Slotted, OwnerOnly
<1>3. Apart(x) /\ OwnerOnly(x, ver)
  BY <1>1, <1>2, KeptOwner DEF Slotted
<1>4. /\ OnReads(x, n) /\ SameStore(x, n) /\ Slotted(n, ver) /\ Yields(World, n)
      /\ n.rt.recon = x.rt.recon /\ n.rt.deferred = x.rt.deferred /\ (n.cut <=> x.cut)
  BY <1>1, <1>2, <1>3, TornFacts
<1> HIDE DEF n
<1>5. ~Streams(n) /\ Demanded(n)
  BY <1>4, SameDemandFacts DEF OnReads
<1>6. n \in Worlds /\ n.rt.conn = "inactive" /\ n.rt.tasks = {} /\ n.rt.ready = 0
  BY <1>4 DEF OnReads, SameStream
<1>7. Streaming(n)
  BY <1>5, <1>6 DEF Streaming, Queued, Starting, Active, Supplied
<1>8. Remembered(n)
  BY <1>1, <1>4, <1>6, StoppedRemembered DEF Remembered, SameStore, OnReads, SameDemand
<1>9. ~Rests(n)
  BY <1>6 DEF Rests
<1> QED BY <1>4, <1>6, <1>7, <1>8, <1>9 DEF n, Stepped, Sane

LEMMA AuthFailedStep ==
  ASSUME RuntimeInv, AuthFailed
  PROVE  RuntimeInv' /\ Stepped(World, World', ver)
<1> DEFINE e == [World.env EXCEPT !.auth = FALSE]
           a == [World EXCEPT !.env = e]
           s == StopRuntime(a)
           n == Teardown(s)
<1>1. Event(n) /\ OwnTurn
  BY DEF AuthFailed, Event
<1>2. /\ World \in Worlds /\ World.env \in Environments /\ Streaming(World)
      /\ World.rt.tasks = {} /\ World.rt.ready = 0 /\ World.rt.conn \in {"inactive", "active"}
  BY <1>1, SaneWorld, TurnFacts DEF Worlds
<1>3. e \in Environments /\ ~e.auth
  BY <1>2 DEF Environments
<1> HIDE DEF e
<1>4. /\ a \in Worlds /\ a.env = e /\ a.rt = World.rt /\ a.reads = World.reads /\ a.feed = World.feed
      /\ a.shown = World.shown /\ a.heard = World.heard /\ (a.cut <=> World.cut)
      /\ SameWork(World, a) /\ SameStore(World, a) /\ SameStream(World, a)
  BY <1>2, <1>3, EnvFacts
<1> HIDE DEF a
<1>5. /\ OnStream(a, s) /\ SameStore(a, s)
      /\ s.rt.tasks = a.rt.tasks /\ s.rt.ready \in {0, a.rt.ready}
      /\ s.rt.conn = IF a.rt.conn = "active" THEN "inactive" ELSE a.rt.conn
  BY <1>4, StopRuntimeFacts
<1> HIDE DEF s
<1>6. ~Streams(s) /\ Demanded(s)
  BY <1>2, <1>3, <1>4, <1>5 DEF OnStream, SameDemand, Streams, Serviceable, Streaming, Demanded, Leased
<1>7. /\ s \in Worlds /\ SameSlot(World, s) /\ SameStore(World, s) /\ (World.cut => s.cut)
      /\ s.rt.snapshot = World.rt.snapshot /\ s.rt.conn = "inactive" /\ s.rt.tasks = {} /\ s.rt.ready = 0
  BY <1>2, <1>4, <1>5 DEF OnStream, SameWork, SameSlot, SameStore, SameDemand
<1>8. Stepped(World, n, ver) /\ n.rt.tasks = {}
  BY <1>6, <1>7, TornStepped
<1> HIDE DEF n
<1> QED BY <1>1, <1>8, TurnInv

\* The read under way is held for replay.
LEMMA HeldReadFacts ==
  ASSUME NEW w \in Worlds, Owned(w)
  PROVE  LET n == HeldRead(w) IN OnBooks(w, n) /\ (n.cut <=> w.cut)
<1> DEFINE n == HeldRead(w)
<1>1. CASE w.rt.owner = 0 \/ ~IsEnabled(w)
  <2>1. n = w
    BY <1>1 DEF HeldRead
  <2> QED BY <2>1 DEF OnBooks, OnReads, SameStore, SameSlot, SameDemand, SameStream
<1>2. CASE ~(w.rt.owner = 0 \/ ~IsEnabled(w))
  <2> DEFINE r == CHOOSE x \in w.reads : x.id = w.rt.owner
             i == r.intent
             shared == r.shared
             h == Defer(w, i, shared, FALSE)
             k == Defer(h, "stream-signal", FALSE, FALSE)
  <2>1. n = IF w.rt.trailing THEN k ELSE h
    BY <1>2 DEF HeldRead
  <2>2. r \in w.reads
    BY <1>2 DEF Owned
  <2>3. i \in Intents /\ shared \in BOOLEAN
    BY <2>2 DEF Worlds, Request
  <2> HIDE DEF r, i, shared
  <2>4. /\ OnBooks(w, h) /\ h.rt.recon = w.rt.recon /\ (h.cut <=> w.cut)
        /\ HeldSignal(h) <=> (HeldSignal(w) \/ i = "stream-signal")
    BY <2>3, DeferFacts
  <2> HIDE DEF h
  <2>5. /\ OnBooks(h, k) /\ k.rt.recon = h.rt.recon /\ (k.cut <=> h.cut)
        /\ HeldSignal(k) <=> (HeldSignal(h) \/ "stream-signal" = "stream-signal")
    <3>1. h \in Worlds /\ "stream-signal" \in Intents
      BY <2>4 DEF OnBooks, OnReads, Intents
    <3> QED BY <3>1, DeferFacts
  <2> HIDE DEF k
  <2>6. OnBooks(w, k)
    BY <2>4, <2>5 DEF OnBooks, OnReads, SameStore, SameSlot, SameDemand, SameStream
  <2> QED BY <2>1, <2>4, <2>5, <2>6
<1> QED BY <1>1, <1>2

LEMMA HoldBeginsStep ==
  ASSUME RuntimeInv, HoldBegins
  PROVE  RuntimeInv' /\ Stepped(World, World', ver)
<1> DEFINE e == [World.env EXCEPT !.holds = @ + 1]
           a == [World EXCEPT !.env = e]
           s == StopRuntime(a)
           h == HeldRead(s)
           n == IF World.env.holds > 0 THEN a ELSE Teardown(h)
<1>1. Event(n) /\ OwnTurn /\ World.env.holds < MaxHolds
  BY WorldFields DEF HoldBegins, Event
<1>2. /\ World \in Worlds /\ World.env \in Environments /\ Streaming(World) /\ Remembered(World)
      /\ Slotted(World, ver) /\ ver \in Vers
      /\ World.rt.tasks = {} /\ World.rt.ready = 0 /\ World.rt.conn \in {"inactive", "active"}
  BY <1>1, SaneWorld, TurnFacts DEF Worlds
<1>3. e \in Environments /\ e.holds > 0
  <2>1. World.env.holds \in 0..MaxHolds /\ World.env.holds + 1 \in 0..MaxHolds
    BY <1>1, <1>2, Bounds DEF Environments
  <2> QED BY <1>2, <2>1 DEF Environments
<1> HIDE DEF e
<1>4. /\ a \in Worlds /\ a.env = e /\ a.rt = World.rt /\ a.reads = World.reads /\ a.feed = World.feed
      /\ a.shown = World.shown /\ a.heard = World.heard /\ (a.cut <=> World.cut)
      /\ SameWork(World, a) /\ SameStore(World, a) /\ SameStream(World, a)
  BY <1>2, <1>3, EnvFacts
<1> HIDE DEF a
<1>5. ~Streams(a) /\ Demanded(a)
  <2>1. e.holds # 0
    BY <1>3
  <2> QED BY <1>2, <1>4, <2>1 DEF Streams, Serviceable, Streaming, Demanded, Leased
<1>6. CASE World.env.holds > 0
  <2>1. World.env.holds # 0 /\ World.rt.conn # "active"
    BY <1>2, <1>6 DEF Streaming, Active
  <2>2. Streaming(a)
    BY <1>2, <1>4, <1>5, <2>1 DEF Streaming, Queued, Starting, Active, Supplied
  <2>3. Remembered(a)
    BY <1>2, <1>4, <2>1, StoppedRemembered DEF Remembered
  <2>4. World.heard <= ver
    BY <1>2 DEF Slotted, OwnerOnly
  <2>5. Stepped(World, a, ver)
    BY <1>2, <1>4, <2>2, <2>3, <2>4, KeepsStepped DEF SameWork
  <2>6. n = a
    BY <1>6
  <2> QED BY <1>1, <1>2, <1>4, <2>5, <2>6, TurnInv
<1>7. CASE ~(World.env.holds > 0)
  <2>1. /\ OnStream(a, s) /\ SameStore(a, s)
        /\ s.rt.tasks = a.rt.tasks /\ s.rt.ready \in {0, a.rt.ready}
        /\ s.rt.conn = IF a.rt.conn = "active" THEN "inactive" ELSE a.rt.conn
    BY <1>4, StopRuntimeFacts
  <2> HIDE DEF s
  <2>2. s \in Worlds /\ SameSlot(World, s) /\ s.rt.act = World.rt.act
    BY <1>4, <2>1 DEF OnStream, SameWork, SameSlot, SameDemand
  <2>3. Owned(s)
    BY <1>2, <2>2 DEF Slotted, Owned, SameSlot
  <2>4. OnBooks(s, h) /\ (h.cut <=> s.cut)
    BY <2>2, <2>3, HeldReadFacts
  <2> HIDE DEF h
  <2>5. SameDemand(a, h)
    BY <2>1, <2>4 DEF OnStream, OnBooks, OnReads, SameDemand
  <2>6. ~Streams(h) /\ Demanded(h)
    BY <1>5, <2>5, SameDemandFacts
  <2>7. /\ h \in Worlds /\ SameSlot(World, h) /\ SameStore(World, h) /\ (World.cut => h.cut)
        /\ h.rt.snapshot = World.rt.snapshot /\ h.rt.conn = "inactive" /\ h.rt.tasks = {} /\ h.rt.ready = 0
    BY <1>2, <1>4, <2>1, <2>2, <2>4, <2>5
       DEF OnStream, OnBooks, OnReads, SameWork, SameSlot, SameStore, SameDemand, SameStream
  <2>8. LET x == Teardown(h) IN Stepped(World, x, ver) /\ x.rt.tasks = {}
    BY <2>6, <2>7, TornStepped
  <2>9. n = Teardown(h)
    BY <1>7
  <2> HIDE DEF n
  <2>10. Stepped(World, n, ver) /\ n.rt.tasks = {}
    BY <2>8, <2>9
  <2> QED BY <1>1, <2>10, TurnInv
<1> QED BY <1>6, <1>7

LEMMA LifecycleLostStep ==
  ASSUME RuntimeInv, LifecycleLost
  PROVE  RuntimeInv' /\ Stepped(World, World', ver)
<1> DEFINE e == [World.env EXCEPT !.life = FALSE]
           n == [World EXCEPT !.env = e]
<1>1. Event(n) /\ OwnTurn
  BY DEF LifecycleLost, Event
<1>2. /\ World \in Worlds /\ World.env \in Environments /\ Streaming(World) /\ Remembered(World)
      /\ Slotted(World, ver) /\ ver \in Vers
      /\ World.rt.tasks = {} /\ World.rt.ready = 0 /\ World.rt.conn \in {"inactive", "active"}
  BY <1>1, SaneWorld, TurnFacts DEF Worlds
<1>3. e \in Environments /\ ~e.life /\ e.auto = World.env.auto /\ e.auth = World.env.auth /\ e.holds = World.env.holds
  BY <1>2 DEF Environments
<1> HIDE DEF e
<1>4. /\ n \in Worlds /\ n.env = e /\ n.rt = World.rt /\ n.reads = World.reads /\ n.feed = World.feed
      /\ n.shown = World.shown /\ n.heard = World.heard /\ (n.cut <=> World.cut)
      /\ SameWork(World, n) /\ SameStore(World, n) /\ SameStream(World, n)
  BY <1>2, <1>3, EnvFacts
<1> HIDE DEF n
<1>5. ~Streams(n) /\ Demanded(n) /\ (Leased(n) <=> Leased(World))
  BY <1>2, <1>3, <1>4 DEF Streams, Serviceable, Streaming, Demanded, Leased
<1>6. Streaming(n)
  BY <1>2, <1>3, <1>4, <1>5 DEF Streaming, Queued, Starting, Active, Supplied
<1>7. Remembered(n)
  <2>1. Wary(World, n)
    BY <1>4 DEF Wary, HeldSignal
  <2> QED BY <1>2, <1>4, <2>1, KeepsRemembered DEF SameWork
<1>8. Stepped(World, n, ver)
  <2>1. n.heard <= ver
    BY <1>2, <1>4 DEF Slotted, OwnerOnly
  <2> QED BY <1>2, <1>4, <1>6, <1>7, <2>1, KeepsStepped DEF SameWork
<1> QED BY <1>1, <1>2, <1>4, <1>8, TurnInv
\* clearBlockedStreaming and resetPermissionEpoch.
LEMMA NewEpochFacts ==
  ASSUME NEW w \in Worlds
  PROVE  LET n == NewEpoch(w) IN
         /\ n \in Worlds /\ SameWork(w, n) /\ SameStore(w, n) /\ SameStream(w, n)
         /\ n.env = w.env /\ n.rt.act = w.rt.act /\ n.rt.query = w.rt.query /\ n.rt.snapshot = w.rt.snapshot
         /\ n.feed = w.feed
<1> DEFINE n == [w EXCEPT !.rt.blocked = FALSE, !.rt.permission = "unknown"]
<1>1. NewEpoch(w) = n
  BY DEF NewEpoch
<1>2. n \in Worlds
  <2>1. w.rt \in Scope /\ n.rt = [w.rt EXCEPT !.blocked = FALSE, !.permission = "unknown"]
    BY DEF Worlds, Scope
  <2>2. [w.rt EXCEPT !.blocked = FALSE, !.permission = "unknown"] \in Scope
    BY <2>1 DEF Scope
  <2> QED BY <2>1, <2>2 DEF Worlds
<1>3. SameStream(w, n)
  BY DEF Worlds, Scope, SameStream
<1>4. SameWork(w, n) /\ SameStore(w, n)
  BY DEF Worlds, Scope, SameWork, SameSlot, SameStore
<1>5. /\ n.env = w.env /\ n.rt.act = w.rt.act /\ n.rt.query = w.rt.query /\ n.rt.snapshot = w.rt.snapshot
      /\ n.feed = w.feed
  BY DEF Worlds, Scope
<1> QED BY <1>1, <1>2, <1>3, <1>4, <1>5

\* reconcileScopeStream at the end of an event.
LEMMA ReconcileKeeps ==
  ASSUME NEW w \in Worlds, Still(w), NEW v \in Vers, Slotted(w, v), Remembered(w)
  PROVE  LET n == ReconcileStream(w) IN
         Sane(n, v) /\ SameSlot(w, n) /\ SameStore(w, n) /\ n.rt.tasks \subseteq {n.rt.ready}
<1> DEFINE n == ReconcileStream(w)
<1>1. /\ OnStream(w, n) /\ SameStore(w, n) /\ Streaming(n)
      /\ n.rt.conn # "active" \/ (w.rt.conn = "active" /\ n.feed = w.feed)
      /\ n.rt.tasks \subseteq {n.rt.ready}
  BY ReconcileFacts
<1> HIDE DEF n
<1>2. n \in Worlds /\ SameSlot(w, n) /\ (w.cut <=> n.cut) /\ n.rt.act = w.rt.act
  BY <1>1 DEF OnStream, SameWork, SameDemand
<1>3. Slotted(n, v)
  BY <1>1, <1>2, KeepsSlotted
<1>4. Wary(w, n)
  BY <1>1 DEF Wary, OnStream, SameWork, SameDemand, HeldSignal
<1>5. Remembered(n)
  BY <1>1, <1>2, <1>4, KeepsRemembered
<1> QED BY <1>1, <1>2, <1>3, <1>5 DEF n, Sane

LEMMA AuthRecoveredStep ==
  ASSUME RuntimeInv, AuthRecovered
  PROVE  RuntimeInv' /\ Stepped(World, World', ver)
<1> DEFINE e == [World.env EXCEPT !.auth = TRUE]
           a == [World EXCEPT !.env = e]
           x == NewEpoch(a)
           n == ReconcileStream(x)
<1>1. Event(n) /\ OwnTurn /\ ~World.env.auth
  BY WorldFields DEF AuthRecovered, Event
<1>2. /\ World \in Worlds /\ World.env \in Environments /\ Streaming(World) /\ Remembered(World)
      /\ Slotted(World, ver) /\ ver \in Vers /\ Still(World)
      /\ World.rt.tasks = {} /\ World.rt.ready = 0 /\ World.rt.conn \in {"inactive", "active"}
  BY <1>1, SaneWorld, TurnFacts DEF Worlds
<1>3. e \in Environments
  BY <1>2 DEF Environments
<1> HIDE DEF e
<1>4. /\ a \in Worlds /\ a.env = e /\ a.rt = World.rt /\ a.reads = World.reads /\ a.feed = World.feed
      /\ a.shown = World.shown /\ a.heard = World.heard /\ (a.cut <=> World.cut)
      /\ SameWork(World, a) /\ SameStore(World, a) /\ SameStream(World, a)
  BY <1>2, <1>3, EnvFacts
<1> HIDE DEF a
<1>5. /\ x \in Worlds /\ SameWork(a, x) /\ SameStore(a, x) /\ SameStream(a, x)
      /\ x.env = a.env /\ x.rt.act = a.rt.act /\ x.rt.query = a.rt.query /\ x.rt.snapshot = a.rt.snapshot
      /\ x.feed = a.feed
  BY <1>4, NewEpochFacts
<1> HIDE DEF x
<1>6. World.rt.conn = "inactive"
  BY <1>1, <1>2 DEF Streaming, Active
<1>7. x.rt.conn = "inactive" /\ SameSlot(World, x) /\ SameStore(World, x) /\ x.rt.act = World.rt.act
      /\ (World.cut <=> x.cut)
  BY <1>4, <1>5, <1>6 DEF SameStream, SameWork, SameSlot, SameStore
<1>8. Still(x)
  BY <1>2, <1>4, <1>5, <1>7 DEF Still, Demanded, Leased, SameStream
<1>9. Remembered(x)
  BY <1>2, <1>4, <1>5, <1>7, StoppedRemembered DEF Remembered, SameStore
<1>10. Slotted(x, ver) /\ Wilts(World, x)
  BY <1>2, <1>5, <1>7, KeepsSlotted
<1>11. Sane(n, ver) /\ SameSlot(x, n) /\ SameStore(x, n) /\ n.rt.tasks \subseteq {n.rt.ready}
  BY <1>2, <1>5, <1>8, <1>9, <1>10, ReconcileKeeps
<1> HIDE DEF n
<1>12. Moves(World, n, ver)
  <2>1. SameSlot(World, World) /\ Moves(World, x, ver) /\ n.shown = x.shown
    BY <1>10, <1>11 DEF SameSlot, Moves, SameStore
  <2> QED BY <1>11, <2>1, MovesOn
<1>13. Stepped(World, n, ver)
  BY <1>11, <1>12 DEF Stepped
<1> QED BY <1>1, <1>11, <1>13, TurnInv

LEMMA ScopeChangedStep ==
  ASSUME RuntimeInv, ScopeChanged
  PROVE  RuntimeInv' /\ Stepped(World, World', ver)
<1> DEFINE b == IF World.rt.permission = "denied" THEN ResetStore(World) ELSE World
           s == StopRuntime(b)
           t == Teardown(s)
           m == IF World.rt.act = "untracked" THEN t ELSE MarkFailed(t)
           x == NewEpoch(m)
           n == ReconcileStream(x)
<1>1. Event(n) /\ OwnTurn
  BY WorldFields DEF ScopeChanged, Event
<1>2. /\ World \in Worlds /\ Streaming(World) /\ Remembered(World)
      /\ Slotted(World, ver) /\ ver \in Vers /\ Still(World)
      /\ World.rt.tasks = {} /\ World.rt.ready = 0 /\ World.rt.conn \in {"inactive", "active"}
  BY <1>1, SaneWorld, TurnFacts
<1>3. OnStream(World, b) /\ SameStream(World, b) /\ (SameStore(World, b) \/ NoStore(b))
  <2>1. LET f == ResetStore(World) IN OnStream(World, f) /\ NoStore(f) /\ SameStream(World, f)
    BY <1>2, ResetFacts
  <2>2. OnStream(World, World) /\ SameStream(World, World) /\ SameStore(World, World)
    BY <1>2 DEF OnStream, SameStream, SameStore, SameWork, SameSlot, SameDemand
  <2> QED BY <2>1, <2>2
<1> HIDE DEF b
<1>4. /\ OnStream(b, s) /\ SameStore(b, s)
      /\ s.rt.tasks = b.rt.tasks /\ s.rt.ready \in {0, b.rt.ready}
      /\ s.rt.conn = IF b.rt.conn = "active" THEN "inactive" ELSE b.rt.conn
  BY <1>3, StopRuntimeFacts DEF OnStream
<1> HIDE DEF s
<1>5. /\ s \in Worlds /\ SameSlot(World, s) /\ SameDemand(World, s) /\ (World.cut <=> s.cut)
      /\ SameStore(World, s) \/ NoStore(s)
      /\ s.rt.tasks = {} /\ s.rt.ready = 0 /\ s.rt.conn = "inactive"
  BY <1>2, <1>3, <1>4 DEF OnStream, SameStream, SameStore, NoStore, SameWork, SameSlot, SameDemand
<1>6. s.shown \in {World.shown, 0} /\ s.heard <= ver /\ (s.rt.snapshot = 0 => s.heard = 0)
  BY <1>2, <1>5 DEF Slotted, OwnerOnly, SameStore, NoStore, SameDemand, Remembered, Vers
<1>7. Apart(s) /\ OwnerOnly(s, ver)
  BY <1>2, <1>5, <1>6, KeptOwner DEF Slotted
<1>8. /\ OnReads(s, t) /\ SameStore(s, t) /\ Slotted(t, ver) /\ Yields(World, t)
      /\ t.rt.recon = s.rt.recon /\ t.rt.deferred = s.rt.deferred /\ (t.cut <=> s.cut)
  BY <1>2, <1>5, <1>6, <1>7, TornFacts
<1> HIDE DEF t
<1>9. OnBooks(t, m) /\ (m.cut <=> t.cut)
  <2>1. LET k == MarkFailed(t) IN
        /\ OnBooks(t, k) /\ k.rt.recon # "clean" /\ (k.cut <=> t.cut) /\ k.rt.deferred = t.rt.deferred
    BY <1>8, MarkFailedFacts DEF OnReads
  <2>2. OnBooks(t, t)
    BY <1>8 DEF OnBooks, OnReads, SameStore, SameSlot, SameDemand, SameStream
  <2> QED BY <2>1, <2>2
<1> HIDE DEF m
<1>10. /\ x \in Worlds /\ SameWork(m, x) /\ SameStore(m, x) /\ SameStream(m, x)
       /\ x.env = m.env /\ x.rt.act = m.rt.act /\ x.rt.query = m.rt.query /\ x.rt.snapshot = m.rt.snapshot
       /\ x.feed = m.feed
  BY <1>9, NewEpochFacts DEF OnBooks, OnReads
<1> HIDE DEF x
<1>11. /\ SameSlot(t, x) /\ SameStore(t, x) /\ (t.cut <=> x.cut) /\ x.rt.act = t.rt.act /\ t \in Worlds
  BY <1>8, <1>9, <1>10 DEF OnBooks, OnReads, SameWork, SameSlot, SameStore, SameDemand
<1>12. /\ x.rt.act = World.rt.act /\ x.rt.query = World.rt.query /\ x.rt.snapshot = World.rt.snapshot
       /\ x.rt.tasks = {} /\ x.rt.ready = 0 /\ x.rt.conn = "inactive" /\ x.heard = s.heard
  BY <1>5, <1>8, <1>9, <1>10, <1>11 DEF OnBooks, OnReads, SameStream, SameDemand, SameStore
<1>13. Still(x)
  BY <1>2, <1>12 DEF Still, Demanded, Leased
<1>14. Remembered(x)
  BY <1>5, <1>6, <1>12, StoppedRemembered DEF SameDemand
<1>15. Slotted(x, ver)
  BY <1>2, <1>8, <1>10, <1>11, KeepsSlotted
<1>16. Sane(n, ver) /\ SameSlot(x, n) /\ SameStore(x, n) /\ n.rt.tasks \subseteq {n.rt.ready}
  BY <1>2, <1>10, <1>13, <1>14, <1>15, ReconcileKeeps
<1>17. n.rt.conn # "active"
  BY <1>10, <1>12, <1>13, ReconcileFacts
<1> HIDE DEF n
<1>18. Yields(World, n)
  <2>1. SameSlot(World, World) /\ World.shown \in {World.shown, 0}
    BY DEF SameSlot
  <2>2. SameSlot(t, n) /\ n.shown \in {t.shown, 0}
    BY <1>11, <1>16 DEF SameSlot, SameStore
  <2> QED BY <1>8, <2>1, <2>2, YieldsOn
<1>19. Stepped(World, n, ver)
  BY <1>16, <1>17, <1>18 DEF Stepped, Rests
<1> QED BY <1>1, <1>16, <1>19, TurnInv
\* A new context version: no read under way can commit any more.
Outdated(q, r) == q.id = r.id /\ q.from = r.from /\ q.aborted = r.aborted /\ q.stale

LEMMA OutdatedFacts ==
  ASSUME NEW w \in Worlds, NEW v \in Vers, Slotted(w, v), NEW n \in Worlds, Apart(n),
         \A q \in n.reads : \E r \in w.reads : Outdated(q, r),
         \A r \in w.reads : \E q \in n.reads : Outdated(q, r),
         n.rt.owner = w.rt.owner, n.rt.trailing <=> w.rt.trailing,
         n.shown \in {w.shown, 0}, n.heard <= v, w.rt.owner # 0 => n.cut,
         n.rt.act = "disabled" => w.rt.act = "disabled"
  PROVE  Slotted(n, v) /\ Wilts(w, n) /\ \A q \in n.reads : ~CanCommit(q)
<1>1. \A q \in n.reads : ~CanCommit(q)
  BY DEF CanCommit, Outdated
<1>2. OwnerOnly(n, v)
  <2>1. \A q \in n.reads : q.from <= v
    BY DEF Slotted, OwnerOnly, Outdated
  <2>2. n.shown <= v
    BY DEF Slotted, OwnerOnly, Vers
  <2>3. \A q \in n.reads : q.id = n.rt.owner => n.cut
    BY OwnedLives DEF Slotted, Outdated
  <2> QED BY <1>1, <2>1, <2>2, <2>3 DEF OwnerOnly
<1>3. Owned(n)
  BY DEF Slotted, Owned, Outdated
<1>4. Aged(w, n)
  BY <1>1 DEF Aged, Elder, Outdated
<1> QED BY <1>1, <1>2, <1>3, <1>4 DEF Slotted, Wilts

LEMMA SelectionChangedStep ==
  ASSUME RuntimeInv, SelectionChanged
  PROVE  RuntimeInv' /\ Stepped(World, World', ver)
<1> DEFINE c == World.cut \/ World.rt.trailing \/ World.rt.owner # 0
           G(r) == [r EXCEPT !.stale = TRUE]
           R == {G(r) : r \in World.reads}
           x == [World EXCEPT !.rt.blocked = FALSE, !.cut = c, !.reads = R]
           n == ReconcileStream(x)
<1>1. Event(n) /\ OwnTurn
  BY WorldFields DEF SelectionChanged, Event
<1>2. /\ World \in Worlds /\ World.reads \subseteq Request /\ Streaming(World) /\ Remembered(World)
      /\ Slotted(World, ver) /\ ver \in Vers /\ Still(World)
  BY <1>1, SaneWorld, TurnFacts DEF Worlds
<1>3. \A r \in World.reads : G(r) \in Request /\ G(r).id = r.id /\ Outdated(G(r), r)
  BY <1>2 DEF Request, Outdated
<1>4. c \in BOOLEAN
  BY <1>2 DEF Worlds
<1> HIDE DEF G, c
<1>5. R \in SUBSET Request
  BY <1>3
<1>6. (\A q \in R : \E r \in World.reads : q = G(r)) /\ (\A r \in World.reads : G(r) \in R)
  OBVIOUS
<1> HIDE DEF R
<1>7. x \in Worlds
  <2>1. World.rt \in Scope /\ x.rt = [World.rt EXCEPT !.blocked = FALSE]
    BY <1>2 DEF Worlds, Scope
  <2>2. [World.rt EXCEPT !.blocked = FALSE] \in Scope
    BY <2>1 DEF Scope
  <2> QED BY <1>2, <1>4, <1>5, <2>1, <2>2 DEF Worlds
<1>8. SameStream(World, x) /\ SameStore(World, x)
  BY <1>2 DEF Worlds, Scope, SameStream, SameStore
<1>9. /\ x.rt.act = World.rt.act /\ x.rt.query = World.rt.query /\ x.rt.snapshot = World.rt.snapshot
      /\ x.rt.owner = World.rt.owner /\ (x.rt.trailing <=> World.rt.trailing) /\ x.reads = R /\ (x.cut <=> c)
  BY <1>2, <1>4 DEF Worlds, Scope
<1>10. x.rt.recon = World.rt.recon /\ x.rt.deferred = World.rt.deferred /\ x.rt.permission = World.rt.permission
  BY <1>2 DEF Worlds, Scope
<1> HIDE DEF x
<1>11. Apart(x)
  BY <1>2, <1>3, <1>6, <1>9 DEF Apart, Slotted
<1>12. Slotted(x, ver) /\ Wilts(World, x) /\ \A q \in x.reads : ~CanCommit(q)
  <2>1. /\ \A q \in x.reads : \E r \in World.reads : Outdated(q, r)
        /\ \A r \in World.reads : \E q \in x.reads : Outdated(q, r)
    BY <1>3, <1>6, <1>9
  <2>2. x.shown \in {World.shown, 0} /\ x.heard <= ver
    BY <1>2, <1>8 DEF SameStore, Slotted, OwnerOnly
  <2>3. World.rt.owner # 0 => x.cut
    BY <1>9 DEF c
  <2> QED BY <1>2, <1>7, <1>9, <1>11, <2>1, <2>2, <2>3, OutdatedFacts
<1>13. Remembered(x)
  <2>1. ~Early(x)
    BY <1>12 DEF Early
  <2>2. Missed(World) => Missed(x)
    BY <1>8, <1>9, <1>10 DEF Missed, SameStore, SameStream, HeldSignal, c
  <2>3. Covered(World) => x.cut
    BY <1>2, <1>9, OwnedLives DEF Covered, c, Slotted
  <2> QED BY <1>2, <1>8, <1>9, <2>1, <2>2, <2>3 DEF Remembered, SameStore, Missed
<1>14. Still(x)
  BY <1>2, <1>8, <1>9 DEF Still, Demanded, Leased, SameStream
<1>15. Sane(n, ver) /\ SameSlot(x, n) /\ SameStore(x, n) /\ n.rt.tasks \subseteq {n.rt.ready}
  BY <1>2, <1>7, <1>12, <1>13, <1>14, ReconcileKeeps
<1> HIDE DEF n
<1>16. Moves(World, n, ver)
  <2>1. SameSlot(World, World) /\ Moves(World, x, ver) /\ n.shown = x.shown
    BY <1>12, <1>15 DEF SameSlot, Moves, SameStore
  <2> QED BY <1>15, <2>1, MovesOn
<1>17. Stepped(World, n, ver)
  BY <1>15, <1>16 DEF Stepped
<1> QED BY <1>1, <1>15, <1>17, TurnInv

\* A runtime that is dropped: the scope is as nobody had used it, and nothing that
\* still answers can commit.
LEMMA ForgetFacts ==
  ASSUME RuntimeInv
  PROVE  LET n == Forget(World) IN
         /\ n \in Worlds /\ n.rt = Untracked /\ NoStore(n) /\ Apart(n)
         /\ \A q \in n.reads : /\ ~CanCommit(q) /\ q.from <= ver /\ q.id # 0
                               /\ \E r \in World.reads : q.id = r.id /\ q.from = r.from
         /\ \A r \in World.reads : \E q \in n.reads : q.id = r.id /\ q.from = r.from
<1> DEFINE t == Teardown(World)
           f == [t EXCEPT !.rt = Untracked, !.env.auth = TRUE, !.feed = NoFeed, !.cut = FALSE]
           n == [f EXCEPT !.shown = 0, !.heard = 0]
<1>0. Forget(World) = n
  BY DEF Forget, ResetStore
<1>1. World \in Worlds /\ Slotted(World, ver) /\ ver \in Vers
  BY SaneWorld
<1>2. /\ OnReads(World, t) /\ SameStore(World, t) /\ Slotted(t, ver) /\ Aged(World, t)
      /\ t.rt.owner = 0 /\ ~t.rt.trailing
      /\ \A q \in t.reads : ~CanCommit(q)
      /\ t.rt.recon = World.rt.recon /\ t.rt.deferred = World.rt.deferred /\ (t.cut <=> World.cut)
      /\ World.rt.owner = 0 => t.reads = World.reads
  BY <1>1, TeardownFacts DEF Slotted
<1> HIDE DEF t
<1>3. t \in Worlds /\ t.env \in Environments
  BY <1>2 DEF OnReads, Worlds
<1>4. Untracked \in Scope
  <2>1. Waiting \in Held
    BY DEF Waiting, Held
  <2> QED BY <2>1, Numbers DEF Untracked, Scope
<1>5. NoFeed \in Feeds
  BY Numbers DEF NoFeed, Feeds
<1>6. [t.env EXCEPT !.auth = TRUE] \in Environments
  BY <1>3 DEF Environments
<1>7. /\ f \in Worlds /\ f.rt = Untracked /\ f.reads = t.reads
  BY <1>3, <1>4, <1>5, <1>6 DEF Worlds
<1> HIDE DEF f
<1>8. n \in Worlds /\ n.rt = Untracked /\ n.reads = t.reads /\ n.shown = 0 /\ n.heard = 0
  BY <1>7, Numbers DEF Worlds
<1> HIDE DEF n
<1>9. \A q \in t.reads : q.from <= ver /\ q.id # 0
  BY <1>1, <1>2, <1>3, OwnedLives DEF Slotted, OwnerOnly
<1> QED BY <1>0, <1>2, <1>8, <1>9 DEF NoStore, Slotted, Apart, Aged, Elder

\* handleKubeconfigChanging and pruneRemovedClusterRuntimes, whose requests go on as R.
LEMMA ForgottenStepped ==
  ASSUME RuntimeInv, NEW w, w = Forget(World), NEW R \in SUBSET Request,
         \A p, q \in R : p.id = q.id => p = q,
         \A q \in R : \E r \in w.reads : q.id = r.id /\ q.from = r.from /\ q.stale,
         \A r \in w.reads : \E q \in R : q.id = r.id /\ q.from = r.from
  PROVE  LET n == [w EXCEPT !.reads = R] IN Stepped(World, n, ver) /\ n.rt.tasks = {}
<1> DEFINE n == [w EXCEPT !.reads = R]
<1>1. /\ w \in Worlds /\ w.rt = Untracked /\ NoStore(w) /\ Apart(w)
      /\ \A q \in w.reads : /\ ~CanCommit(q) /\ q.from <= ver /\ q.id # 0
                            /\ \E r \in World.reads : q.id = r.id /\ q.from = r.from
      /\ \A r \in World.reads : \E q \in w.reads : q.id = r.id /\ q.from = r.from
  BY ForgetFacts
<1>2. ver \in Vers
  BY SaneWorld
<1>3. n \in Worlds /\ n.rt = Untracked /\ n.reads = R /\ NoStore(n)
  BY <1>1 DEF Worlds, NoStore
<1> HIDE DEF n
<1>4. /\ n.rt.act = "untracked" /\ n.rt.query = 0 /\ n.rt.snapshot = 0 /\ n.rt.owner = 0 /\ ~n.rt.trailing
      /\ n.rt.tasks = {} /\ n.rt.ready = 0 /\ n.rt.conn = "inactive"
  BY <1>3 DEF Untracked
<1>5. \A q \in n.reads : ~CanCommit(q) /\ q.from <= ver /\ q.id # 0
  BY <1>1, <1>3 DEF CanCommit
<1>6. Slotted(n, ver)
  <2>1. OwnerOnly(n, ver)
    BY <1>2, <1>3, <1>4, <1>5 DEF OwnerOnly, NoStore, Vers
  <2> QED BY <1>3, <1>4, <2>1 DEF Slotted, Apart, Owned
<1>7. Streaming(n)
  BY <1>4 DEF Streaming, Demanded, Queued, Starting, Active, Supplied, Leased
<1>8. Remembered(n)
  BY <1>3, ResetRemembered
<1>9. Yields(World, n)
  <2>1. Aged(World, n)
    BY <1>1, <1>3, <1>5 DEF Aged, Elder
  <2> QED BY <1>3, <1>4, <1>5, <2>1 DEF Yields, NoStore
<1>10. ~Rests(n)
  BY <1>4 DEF Rests
<1> QED BY <1>3, <1>4, <1>6, <1>7, <1>8, <1>9, <1>10 DEF n, Stepped, Sane

LEMMA KubeconfigChangingStep ==
  ASSUME RuntimeInv, KubeconfigChanging
  PROVE  RuntimeInv' /\ Stepped(World, World', ver)
<1> DEFINE w == Forget(World)
           G(r) == [r EXCEPT !.stale = TRUE]
           R == {G(r) : r \in w.reads}
           n == [w EXCEPT !.reads = R]
<1>1. Event(n)
  BY DEF KubeconfigChanging
<1>2. w.reads \subseteq Request /\ Apart(w)
  BY ForgetFacts DEF Worlds
<1>3. w = Forget(World)
  OBVIOUS
<1> HIDE DEF w
<1>4. \A r \in w.reads : G(r) \in Request /\ G(r).id = r.id /\ G(r).from = r.from /\ G(r).stale
  BY <1>2 DEF Request
<1> HIDE DEF G
<1>5. R \in SUBSET Request /\ \A p, q \in R : p.id = q.id => p = q
  BY <1>2, <1>4 DEF Apart
<1>6. /\ \A q \in R : \E r \in w.reads : q.id = r.id /\ q.from = r.from /\ q.stale
      /\ \A r \in w.reads : \E q \in R : q.id = r.id /\ q.from = r.from
  BY <1>4
<1> HIDE DEF R
<1>7. Stepped(World, n, ver) /\ n.rt.tasks = {}
  BY <1>3, <1>5, <1>6, ForgottenStepped
<1> HIDE DEF n
<1> QED BY <1>1, <1>7, TurnInv

LEMMA PruneStep ==
  ASSUME RuntimeInv, Prune
  PROVE  RuntimeInv' /\ Stepped(World, World', ver)
<1> DEFINE w == Forget(World)
           G(r) == [r EXCEPT !.polled = FALSE, !.stale = TRUE]
           R == {G(r) : r \in w.reads}
           n == [w EXCEPT !.reads = R]
<1>1. Event(n)
  BY DEF Prune
<1>2. w.reads \subseteq Request /\ Apart(w)
  BY ForgetFacts DEF Worlds
<1>3. w = Forget(World)
  OBVIOUS
<1> HIDE DEF w
<1>4. \A r \in w.reads : G(r) \in Request /\ G(r).id = r.id /\ G(r).from = r.from /\ G(r).stale
  BY <1>2 DEF Request
<1> HIDE DEF G
<1>5. R \in SUBSET Request /\ \A p, q \in R : p.id = q.id => p = q
  BY <1>2, <1>4 DEF Apart
<1>6. /\ \A q \in R : \E r \in w.reads : q.id = r.id /\ q.from = r.from /\ q.stale
      /\ \A r \in w.reads : \E q \in R : q.id = r.id /\ q.from = r.from
  BY <1>4
<1> HIDE DEF R
<1>7. Stepped(World, n, ver) /\ n.rt.tasks = {}
  BY <1>3, <1>5, <1>6, ForgottenStepped
<1> HIDE DEF n
<1> QED BY <1>1, <1>7, TurnInv
LEMMA AutoRefreshChangedStep ==
  ASSUME RuntimeInv, AutoRefreshChanged
  PROVE  RuntimeInv' /\ Stepped(World, World', ver)
<1> DEFINE e == [World.env EXCEPT !.auto = ~@]
           x == [World EXCEPT !.env = e]
           y == ReconcileStream(x)
           n == SchedulePoll(y)
<1>1. Event(n) /\ OwnTurn
  BY DEF AutoRefreshChanged, Event
<1>2. /\ World \in Worlds /\ World.env \in Environments /\ Remembered(World)
      /\ Slotted(World, ver) /\ ver \in Vers /\ Still(World)
  BY <1>1, SaneWorld, TurnFacts DEF Worlds
<1>3. e \in Environments
  BY <1>2 DEF Environments
<1> HIDE DEF e
<1>4. /\ x \in Worlds /\ x.env = e /\ x.rt = World.rt /\ x.reads = World.reads /\ x.feed = World.feed
      /\ x.shown = World.shown /\ x.heard = World.heard /\ (x.cut <=> World.cut)
      /\ SameWork(World, x) /\ SameStore(World, x) /\ SameStream(World, x)
  BY <1>2, <1>3, EnvFacts
<1> HIDE DEF x
<1>5. Still(x)
  BY <1>2, <1>4 DEF Still, Demanded, Leased
<1>6. Remembered(x)
  <2>1. Wary(World, x)
    BY <1>4 DEF Wary, HeldSignal
  <2> QED BY <1>2, <1>4, <2>1, KeepsRemembered DEF SameWork
<1>7. Slotted(x, ver) /\ Wilts(World, x)
  BY <1>2, <1>4, KeepsSlotted DEF SameWork
<1>8. Sane(y, ver) /\ SameSlot(x, y) /\ SameStore(x, y) /\ y.rt.tasks \subseteq {y.rt.ready}
  BY <1>2, <1>4, <1>5, <1>6, <1>7, ReconcileKeeps
<1> HIDE DEF y
<1>9. Alike(y, n)
  BY <1>8, SchedulePollFacts DEF Sane
<1> HIDE DEF n
<1>10. Sane(n, ver)
  BY <1>2, <1>8, <1>9, AlikeSane DEF Sane, Alike
<1>11. Moves(World, n, ver)
  <2>1. SameSlot(World, World) /\ Moves(World, x, ver)
    BY <1>7 DEF SameSlot, Moves
  <2>2. SameSlot(x, n) /\ n.shown = x.shown
    BY <1>8, <1>9 DEF Alike, SameWork, SameSlot, SameStore
  <2> QED BY <2>1, <2>2, MovesOn
<1>12. n.rt.tasks \subseteq {n.rt.ready}
  BY <1>8, <1>9 DEF Alike, SameStream
<1>13. Stepped(World, n, ver)
  BY <1>10, <1>11 DEF Stepped
<1> QED BY <1>1, <1>12, <1>13, TurnInv

LEMMA VisibilityChangedStep ==
  ASSUME RuntimeInv, VisibilityChanged
  PROVE  RuntimeInv' /\ Stepped(World, World', ver)
<1> DEFINE e == [World.env EXCEPT !.hidden = ~@]
           f == [World.feed EXCEPT !.healthy = FALSE, !.owes = @ \/ World.feed.sub # "none"]
           x == [World EXCEPT !.env = e]
           y == [x EXCEPT !.feed = f]
           n == SchedulePoll(y)
<1>1. Event(n) /\ OwnTurn
  <2>1. y = [World EXCEPT !.env.hidden = ~@, !.feed.healthy = FALSE,
                          !.feed.owes = @ \/ World.feed.sub # "none"]
    BY SaneWorld DEF Worlds
  <2> QED BY <2>1, WorldFields DEF VisibilityChanged, Event
<1>2. /\ World \in Worlds /\ World.env \in Environments /\ World.feed \in Feeds
      /\ Streaming(World) /\ Remembered(World)
      /\ Slotted(World, ver) /\ ver \in Vers /\ World.rt.tasks = {}
  BY <1>1, SaneWorld, TurnFacts DEF Worlds
<1>3. /\ e \in Environments /\ e.auto = World.env.auto /\ e.life = World.env.life
      /\ e.holds = World.env.holds /\ e.auth = World.env.auth
  BY <1>2 DEF Environments
<1>4. f \in Feeds /\ f.sub = World.feed.sub /\ (World.feed.owes => f.owes)
  BY <1>2 DEF Feeds
<1> HIDE DEF e, f
<1>5. /\ x \in Worlds /\ x.env = e /\ x.rt = World.rt /\ x.reads = World.reads /\ x.feed = World.feed
      /\ x.shown = World.shown /\ x.heard = World.heard /\ (x.cut <=> World.cut)
      /\ SameWork(World, x) /\ SameStore(World, x) /\ SameStream(World, x)
  BY <1>2, <1>3, EnvFacts
<1> HIDE DEF x
<1>6. /\ y \in Worlds /\ y.env = x.env /\ y.rt = x.rt /\ y.reads = x.reads /\ y.feed = f
      /\ y.shown = x.shown /\ y.heard = x.heard /\ (y.cut <=> x.cut)
      /\ SameWork(x, y) /\ SameDemand(x, y) /\ SameStore(x, y)
  BY <1>4, <1>5, FeedFacts
<1> HIDE DEF y
<1>7. SameSlot(World, y) /\ SameStore(World, y) /\ Wary(World, y)
  BY <1>4, <1>5, <1>6 DEF SameSlot, SameStore, Wary, HeldSignal
<1>8. (Streams(y) <=> Streams(World)) /\ (Leased(y) <=> Leased(World))
  BY <1>3, <1>5, <1>6 DEF Streams, Serviceable, Leased
<1>9. Streaming(y)
  BY <1>2, <1>3, <1>4, <1>5, <1>6, <1>8 DEF Streaming, Demanded, Queued, Starting, Active, Supplied
<1>10. Remembered(y)
  BY <1>2, <1>7, KeepsRemembered
<1>11. Slotted(y, ver) /\ Wilts(World, y)
  BY <1>2, <1>5, <1>6, <1>7, KeepsSlotted DEF Wary
<1>12. Alike(y, n)
  BY <1>6, SchedulePollFacts
<1> HIDE DEF n
<1>13. Sane(n, ver)
  BY <1>2, <1>6, <1>9, <1>10, <1>11, <1>12, AlikeSane DEF Sane, Alike
<1>14. Moves(World, n, ver)
  <2>1. SameSlot(World, World) /\ Moves(World, y, ver) /\ SameSlot(y, n) /\ n.shown = y.shown
    BY <1>11, <1>12 DEF SameSlot, Moves, Alike, SameWork, SameStore
  <2> QED BY <2>1, MovesOn
<1>15. n.rt.tasks = {}
  BY <1>2, <1>5, <1>6, <1>12 DEF Alike, SameStream
<1>16. Stepped(World, n, ver)
  BY <1>13, <1>14 DEF Stepped
<1> QED BY <1>1, <1>15, <1>16, TurnInv

LEMMA DeferredFacts ==
  ASSUME NEW w \in Worlds, NEW h \in Held
  PROVE  LET n == [w EXCEPT !.rt.deferred = h] IN
         OnBooks(w, n) /\ n.rt.deferred = h /\ n.rt.recon = w.rt.recon /\ (n.cut <=> w.cut) /\ n.feed = w.feed
<1> DEFINE n == [w EXCEPT !.rt.deferred = h]
<1>1. w.rt \in Scope /\ n.rt = [w.rt EXCEPT !.deferred = h] /\ n.rt.deferred = h
  BY DEF Worlds, Scope
<1>2. n \in Worlds
  <2>1. [w.rt EXCEPT !.deferred = h] \in Scope
    BY <1>1 DEF Scope
  <2> QED BY <1>1, <2>1 DEF Worlds
<1>3. SameDemand(w, n)
  BY DEF Worlds, Scope, SameDemand
<1>4. SameStream(w, n)
  BY DEF Worlds, Scope, SameStream
<1>5. SameStore(w, n) /\ SameSlot(w, n) /\ n.rt.recon = w.rt.recon /\ n.cut = w.cut /\ n.feed = w.feed
  BY DEF Worlds, Scope, SameStore, SameSlot
<1> QED BY <1>1, <1>2, <1>3, <1>4, <1>5 DEF OnBooks, OnReads

\* replayDeferredRequest: a signal that was held is read for, kept, or leaves its mark.
LEMMA ReplayFacts ==
  ASSUME NEW w \in Worlds, ver \in Vers, Slotted(w, ver), Free(w), Demanded(w), Active(w), Remembered(w)
  PROVE  LET n == Replay([w EXCEPT !.rt.deferred = Waiting], w.rt.deferred) IN
         OnFetch(w, n) /\ Slotted(n, ver) /\ Moves(w, n, ver) /\ Remembered(n)
<1> DEFINE held == w.rt.deferred
           d == [w EXCEPT !.rt.deferred = Waiting]
           n == Replay(d, held)
           intents == {i \in held.intents : IntentRuns(d, i)}
           P(x) == OnFetch(w, x) /\ Slotted(x, ver) /\ Moves(w, x, ver) /\ Remembered(x)
<1>0. SUFFICES P(n)
  OBVIOUS
<1>1. held \in Held /\ Waiting \in Held /\ Waiting.intents = {}
  BY DEF Worlds, Scope, Held, Waiting
<1>2. /\ OnBooks(w, d) /\ d.rt.deferred = Waiting /\ d.rt.recon = w.rt.recon /\ (d.cut <=> w.cut)
      /\ d.feed = w.feed
  BY <1>1, DeferredFacts
<1> HIDE DEF d
<1>3. d \in Worlds /\ SameDemand(w, d) /\ SameStream(w, d) /\ SameStore(w, d) /\ SameSlot(w, d)
  BY <1>2 DEF OnBooks, OnReads
<1>4. Slotted(d, ver) /\ Wilts(w, d) /\ OnFetch(w, d) /\ Free(d) /\ Active(d)
  <2>1. Slotted(d, ver) /\ Wilts(w, d)
    BY <1>2, BooksKeep
  <2>2. OnFetch(w, d)
    BY <1>2, <1>3, ReadsFetch DEF OnBooks
  <2>3. Free(d)
    BY <1>3 DEF Free, SameSlot
  <2>4. Active(d)
    BY <1>3, SameDemandFacts DEF Active, SameDemand, SameStream
  <2> QED BY <2>1, <2>2, <2>3, <2>4
<1>5. d.rt.snapshot = 0 => d.heard = 0
  BY <1>3 DEF Remembered, SameDemand, SameStore
<1>6. ~HeldSignal(w) => Remembered(d)
  <2>1. ~HeldSignal(w) => Wary(w, d)
    BY <1>2, <1>3 DEF Wary, SameDemand, SameStream
  <2> QED BY <1>3, <2>1, KeepsRemembered
<1>7. w.rt.conn # "active" => Remembered(d)
  BY <1>3, <1>5, StoppedRemembered DEF SameStream
<1>8. Remembered(d) => P(d)
  BY <1>4 DEF Moves
<1>9. ~w.env.auto => w.rt.conn # "active"
  BY DEF Active
<1>10. "stream-signal" \notin intents => Remembered(d)
  <2>1. SUFFICES ASSUME "stream-signal" \notin intents, HeldSignal(w) PROVE ~w.env.auto
    BY <1>6, <1>7, <1>9
  <2>2. d.env.auto <=> w.env.auto
    BY <1>3 DEF SameDemand
  <2> QED BY <2>1, <2>2 DEF HeldSignal, IntentRuns
<1>11. CASE held.intents = {} \/ ~IsEnabled(d)
  <2>1. n = d
    BY <1>11 DEF Replay
  <2>2. Remembered(d)
    <3>1. CASE held.intents = {}
      BY <1>6, <3>1 DEF HeldSignal
    <3>2. CASE ~IsEnabled(d)
      <4>1. w.rt.act = "disabled"
        BY <1>3, <3>2 DEF IsEnabled, SameDemand
      <4> QED BY <1>7, <4>1 DEF Active, Demanded
    <3> QED BY <1>11, <3>1, <3>2
  <2> QED BY <1>8, <2>1, <2>2
<1>12. CASE ~(held.intents = {} \/ ~IsEnabled(d)) /\ ~Serviceable(d)
  <2> DEFINE k == [d EXCEPT !.rt.deferred = held]
  <2>1. n = k
    BY <1>12 DEF Replay
  <2>2. OnBooks(d, k) /\ k.rt.deferred = held /\ k.rt.recon = d.rt.recon /\ (k.cut <=> d.cut) /\ k.feed = d.feed
    BY <1>1, <1>3, DeferredFacts
  <2> HIDE DEF k
  <2>3. OnBooks(w, k)
    BY <1>2, <2>2 DEF OnBooks, OnReads, SameStore, SameSlot, SameDemand, SameStream
  <2>4. Wary(w, k)
    BY <1>2, <2>2, <2>3 DEF Wary, OnBooks, OnReads, SameDemand, SameStream, HeldSignal
  <2>5. Remembered(k)
    BY <2>3, <2>4, KeepsRemembered DEF OnBooks
  <2>6. Slotted(k, ver) /\ Wilts(w, k) /\ OnFetch(w, k)
    BY <2>3, <2>4, BooksKeep, ReadsFetch DEF Wary, OnBooks
  <2> QED BY <2>1, <2>5, <2>6 DEF Moves
<1>13. CASE ~(held.intents = {} \/ ~IsEnabled(d)) /\ Serviceable(d) /\ intents = {}
  <2>1. n = d
    BY <1>13 DEF Replay
  <2> QED BY <1>8, <1>10, <1>13, <2>1
<1>14. CASE ~(held.intents = {} \/ ~IsEnabled(d)) /\ Serviceable(d) /\ intents # {}
  <2> DEFINE out == IF "stream-signal" \in intents THEN Refuse(d, "stream-signal") ELSE d
             i == Strongest(intents)
             shared == held.shared
             query == held.query
  <2>1. n = Fetch(out, i, shared, FALSE, query)
    BY <1>14 DEF Replay
  <2>2. shared \in BOOLEAN /\ query \in BOOLEAN /\ i \in Intents
    BY <1>1 DEF Held, Strongest, Intents
  <2>3. OnBooks(d, out) /\ (d.cut => out.cut) /\ out.rt = d.rt
        /\ ("stream-signal" \in intents /\ d.rt.owner # 0 => out.cut)
    <3>1. OnBooks(d, d)
      BY <1>3 DEF OnBooks, OnReads, SameStore, SameSlot, SameDemand, SameStream
    <3>2. LET z == Refuse(d, "stream-signal") IN
          /\ OnBooks(d, z) /\ z.rt = d.rt
          /\ z.cut <=> (d.cut \/ ("stream-signal" = "stream-signal" /\ d.rt.owner # 0))
      BY <1>3, RefuseFacts
    <3> QED BY <3>1, <3>2
  <2>4. "stream-signal" \in intents => i \in {"user", "stream-signal"}
    BY DEF Strongest
  <2>5. "stream-signal" \notin intents => out = d
    OBVIOUS
  <2> HIDE DEF n, out, i, shared, query, intents
  <2>6. out \in Worlds /\ SameSlot(d, out) /\ SameStore(d, out) /\ SameDemand(d, out) /\ SameStream(d, out)
    BY <2>3 DEF OnBooks, OnReads
  <2>7. Slotted(out, ver) /\ Free(out) /\ Active(out) /\ Serviceable(out) /\ IsEnabled(out)
    <3>1. Slotted(out, ver)
      BY <1>3, <1>4, <2>3, BooksKeep
    <3>2. Free(out)
      BY <1>4, <2>6 DEF Free, SameSlot
    <3>3. Active(out)
      BY <1>4, <2>6, SameDemandFacts DEF Active, SameDemand, SameStream
    <3> QED BY <1>14, <2>6, <3>1, <3>2, <3>3, SameDemandFacts
  <2>8. Remembered(out) \/ Settles(out, i, FALSE)
    <3>1. CASE "stream-signal" \in intents
      BY <2>3, <2>4, <2>7, <3>1 DEF Settles, Decides
    <3>2. CASE "stream-signal" \notin intents
      BY <1>10, <2>5, <3>2
    <3> QED BY <3>1, <3>2
  <2>9. out.rt.snapshot = 0 => out.heard = 0
    BY <1>5, <2>6 DEF SameDemand, SameStore
  <2>10. OnFetch(out, n) /\ Slotted(n, ver) /\ Moves(out, n, ver) /\ Remembered(n)
    BY <2>1, <2>2, <2>6, <2>7, <2>8, <2>9, FetchFacts
  <2>11. OnFetch(w, n)
    BY <1>3, <2>6, <2>10 DEF OnFetch, SameDemand, SameStream, SameStore
  <2>12. Moves(w, n, ver)
    <3>1. SameSlot(w, out) /\ out.shown = w.shown /\ SameSlot(n, n)
      BY <1>3, <2>6 DEF SameSlot, SameStore
    <3> QED BY <2>10, <3>1, MovesOn
  <2> QED BY <2>10, <2>11, <2>12
<1> QED BY <1>11, <1>12, <1>13, <1>14
\* A turn that changes the environment of a scope, and no more.
LEMMA EnvTurn ==
  ASSUME RuntimeInv, OwnTurn, NEW e \in Environments
  PROVE  LET w == [World EXCEPT !.env = e] IN
         /\ w \in Worlds /\ w.env = e /\ w.rt = World.rt /\ w.feed = World.feed
         /\ SameSlot(World, w) /\ SameStore(World, w)
         /\ Slotted(w, ver) /\ Wilts(World, w) /\ Free(w) /\ Remembered(w) /\ Still(w)
<1> DEFINE w == [World EXCEPT !.env = e]
<1>1. /\ World \in Worlds /\ Remembered(World) /\ Slotted(World, ver) /\ ver \in Vers /\ Still(World)
      /\ Free(World)
  BY SaneWorld, TurnFacts, FreeWorld
<1>2. /\ w \in Worlds /\ w.env = e /\ w.rt = World.rt /\ w.reads = World.reads /\ w.feed = World.feed
      /\ w.shown = World.shown /\ w.heard = World.heard /\ (w.cut <=> World.cut)
      /\ SameWork(World, w) /\ SameStore(World, w) /\ SameStream(World, w)
  BY <1>1, EnvFacts
<1> HIDE DEF w
<1>3. Slotted(w, ver) /\ Wilts(World, w)
  BY <1>1, <1>2, KeepsSlotted DEF SameWork
<1>4. Remembered(w)
  <2>1. Wary(World, w)
    BY <1>2 DEF Wary, HeldSignal
  <2> QED BY <1>1, <1>2, <2>1, KeepsRemembered DEF SameWork
<1>5. Still(w) /\ Free(w)
  BY <1>1, <1>2 DEF Still, Demanded, Leased, Free
<1> QED BY <1>2, <1>3, <1>4, <1>5 DEF w, SameWork

LEMMA ServiceableStepped ==
  ASSUME RuntimeInv, OwnTurn, NEW e \in Environments, NEW w, w = [World EXCEPT !.env = e], Active(w)
  PROVE  LET n == BecameServiceable(w) IN Stepped(World, n, ver) /\ n.rt.tasks \subseteq {n.rt.ready}
<1> DEFINE y == Replay([w EXCEPT !.rt.deferred = Waiting], w.rt.deferred)
           n == ReconcileStream(y)
<1>0. BecameServiceable(w) = n
  BY DEF BecameServiceable
<1>1. /\ w \in Worlds /\ w.env = e /\ w.rt = World.rt /\ w.feed = World.feed
      /\ SameSlot(World, w) /\ SameStore(World, w)
      /\ Slotted(w, ver) /\ Wilts(World, w) /\ Free(w) /\ Remembered(w) /\ Still(w)
  BY EnvTurn
<1>2. ver \in Vers
  BY SaneWorld
<1>3. Demanded(w)
  BY <1>1 DEF Still
<1>4. OnFetch(w, y) /\ Slotted(y, ver) /\ Moves(w, y, ver) /\ Remembered(y)
  BY <1>1, <1>2, <1>3, ReplayFacts
<1> HIDE DEF y
<1>5. y \in Worlds /\ Still(y)
  BY <1>1, <1>4, SameDemandFacts DEF OnFetch, Still, SameDemand
<1>6. Sane(n, ver) /\ SameSlot(y, n) /\ SameStore(y, n) /\ n.rt.tasks \subseteq {n.rt.ready}
  BY <1>2, <1>4, <1>5, ReconcileKeeps
<1> HIDE DEF n
<1>7. Moves(World, n, ver)
  <2>1. w.shown = World.shown /\ n.shown = y.shown
    BY <1>1, <1>6 DEF SameStore
  <2> QED BY <1>1, <1>4, <1>6, <2>1, MovesOn
<1> QED BY <1>0, <1>6, <1>7 DEF Stepped

LEMMA EnvStepped ==
  ASSUME RuntimeInv, OwnTurn, NEW e \in Environments, NEW w, w = [World EXCEPT !.env = e],
         Active(w), ~Streams(w)
  PROVE  Stepped(World, w, ver) /\ w.rt.tasks = {}
<1>1. /\ w \in Worlds /\ w.env = e /\ w.rt = World.rt /\ w.feed = World.feed
      /\ SameSlot(World, w) /\ SameStore(World, w)
      /\ Slotted(w, ver) /\ Wilts(World, w) /\ Free(w) /\ Remembered(w) /\ Still(w)
  BY EnvTurn
<1>2. Streaming(w) /\ w.rt.tasks = {}
  BY <1>1 DEF Still, Streaming, Queued, Starting, Supplied
<1> QED BY <1>1, <1>2 DEF Stepped, Sane, Moves

LEMMA HoldEndsStep ==
  ASSUME RuntimeInv, HoldEnds
  PROVE  RuntimeInv' /\ Stepped(World, World', ver)
<1> DEFINE e == [World.env EXCEPT !.holds = @ - 1]
           w == [World EXCEPT !.env = e]
           n == IF World.env.holds = 1 /\ World.env.life THEN BecameServiceable(w) ELSE w
<1>1. Step(n) /\ OwnTurn /\ World.env.holds > 0
  BY WorldFields DEF HoldEnds, Step
<1>2. World \in Worlds /\ World.env \in Environments /\ Streaming(World)
  BY SaneWorld DEF Worlds
<1>3. /\ e \in Environments /\ e.holds = World.env.holds - 1 /\ e.life = World.env.life
      /\ World.env.holds \in Nat /\ World.env.holds # 0
  <2>1. World.env.holds \in 0..MaxHolds /\ World.env.holds - 1 \in 0..MaxHolds
    BY <1>1, <1>2, Bounds DEF Environments
  <2> QED BY <1>1, <1>2, <2>1 DEF Environments
<1>4. w.env = e /\ w.rt = World.rt
  BY <1>2 DEF Worlds
<1>5. w = [World EXCEPT !.env = e]
  OBVIOUS
<1> HIDE DEF w, e
<1>6. Active(w)
  BY <1>2, <1>3, <1>4 DEF Streaming, Active
<1>7. CASE World.env.holds = 1 /\ World.env.life
  <2>1. n = BecameServiceable(w)
    BY <1>7
  <2> HIDE DEF n
  <2>2. Stepped(World, n, ver) /\ n.rt.tasks \subseteq {n.rt.ready}
    BY <1>1, <1>3, <1>5, <1>6, <2>1, ServiceableStepped
  <2> QED BY <1>1, <2>2, TurnInv
<1>8. CASE ~(World.env.holds = 1 /\ World.env.life)
  <2>1. n = w
    BY <1>8
  <2>2. ~Streams(w)
    <3>1. ~(e.life /\ e.holds = 0)
      BY <1>3, <1>8
    <3> QED BY <1>4, <3>1 DEF Streams, Serviceable
  <2>3. Stepped(World, w, ver) /\ w.rt.tasks = {}
    BY <1>1, <1>3, <1>5, <1>6, <2>2, EnvStepped
  <2> QED BY <1>1, <2>1, <2>3, TurnInv
<1> QED BY <1>7, <1>8

LEMMA LifecycleServesStep ==
  ASSUME RuntimeInv, LifecycleServes
  PROVE  RuntimeInv' /\ Stepped(World, World', ver)
<1> DEFINE e == [World.env EXCEPT !.life = TRUE]
           w == [World EXCEPT !.env = e]
           n == IF World.env.holds = 0 THEN BecameServiceable(w) ELSE w
<1>1. Step(n) /\ OwnTurn
  BY WorldFields DEF LifecycleServes, Step
<1>2. World \in Worlds /\ World.env \in Environments /\ Streaming(World)
  BY SaneWorld DEF Worlds
<1>3. /\ e \in Environments /\ e.holds = World.env.holds /\ e.auto = World.env.auto /\ e.auth = World.env.auth
  BY <1>2 DEF Environments
<1>4. w.env = e /\ w.rt = World.rt /\ w.feed = World.feed
  BY <1>2 DEF Worlds
<1>5. w = [World EXCEPT !.env = e]
  OBVIOUS
<1> HIDE DEF w, e
<1>6. Active(w)
  BY <1>2, <1>3, <1>4 DEF Streaming, Active, Leased
<1>7. CASE World.env.holds = 0
  <2>1. n = BecameServiceable(w)
    BY <1>7
  <2> HIDE DEF n
  <2>2. Stepped(World, n, ver) /\ n.rt.tasks \subseteq {n.rt.ready}
    BY <1>1, <1>3, <1>5, <1>6, <2>1, ServiceableStepped
  <2> QED BY <1>1, <2>2, TurnInv
<1>8. CASE World.env.holds # 0
  <2>1. n = w
    BY <1>8
  <2>2. ~Streams(w)
    BY <1>3, <1>4, <1>8 DEF Streams, Serviceable
  <2>3. Stepped(World, w, ver) /\ w.rt.tasks = {}
    BY <1>1, <1>3, <1>5, <1>6, <2>2, EnvStepped
  <2> QED BY <1>1, <2>1, <2>3, TurnInv
<1> QED BY <1>7, <1>8

LEMMA ClusterChangesStep ==
  ASSUME RuntimeInv, ClusterChanges
  PROVE  RuntimeInv' /\ World' = World
<1>1. World' = World /\ reads' = reads /\ rt' = rt /\ ops' = ops /\ ver' = ver + 1 /\ ver < MaxVer
  BY DEF ClusterChanges, World
<1>2. World \in Worlds /\ Slotted(World, ver) /\ Streaming(World) /\ Remembered(World) /\ ver \in Vers
  BY SaneWorld
<1>3. ver' \in Vers /\ ver \in Nat
  BY <1>1, <1>2, Bounds DEF Vers
<1>4. Slotted(World, ver')
  <2>1. \A r \in World.reads : r.from \in Nat
    BY <1>2 DEF Worlds, Request
  <2>2. OwnerOnly(World, ver + 1)
    BY <1>2, <1>3, <2>1 DEF Slotted, OwnerOnly, Worlds
  <2> QED BY <1>1, <1>2, <2>2 DEF Slotted
<1>5. Sane(World, ver')
  BY <1>2, <1>4 DEF Sane
<1>6. Sane(World, ver)'
  BY <1>1, <1>5
<1> QED BY <1>1, <1>3, <1>6 DEF RuntimeInv
-----------------------------------------------------------------------------
(* Requests that end.                                                      *)
\* What the end of request r makes of the slot: see FetchSlot.
Shows(w, n, r, v) == n.shown = w.shown \/ (CanCommit(r) /\ n.shown \in r.from..v)
EndsOther(w, n, r) ==
  /\ r.id # w.rt.owner /\ n.reads = w.reads \ {r} /\ n.shown = w.shown
  /\ n.rt.owner = w.rt.owner /\ (n.rt.trailing <=> w.rt.trailing)
Closes(w, n, r, v) ==
  /\ r.id = w.rt.owner /\ n.reads = w.reads \ {r} /\ Shows(w, n, r, v)
  /\ n.rt.owner = 0 /\ ~n.rt.trailing
Ends(w, n, r, v) ==
  \/ EndsOther(w, n, r)
  \/ Closes(w, n, r, v) /\ (w.rt.trailing => ~Rests(n))
  \/ w.rt.trailing /\ \E s : Closes(w, s, r, v) /\ Begins(s, n, v)
Settled(w, n, v) == Sane(n, v) /\ \E r \in w.reads : Ends(w, n, r, v)

\* A trailing signal reads again, or something else will make the scope do so.
LEMMA AgainFacts ==
  ASSUME NEW w \in Worlds, ver \in Vers, Slotted(w, ver), Free(w), w.rt.owner = 0, IsEnabled(w)
  PROVE  LET n == PerformFetch(w, "stream-signal", FALSE, FALSE) IN
         Begins(w, n, ver) \/ (SameSlot(w, n) /\ n.shown = w.shown /\ ~Rests(n))
<1> DEFINE n == PerformFetch(w, "stream-signal", FALSE, FALSE)
           i == "stream-signal"
<1>1. CASE ~IntentRuns(w, i)
  <2> DEFINE f == Refuse(w, i)
             m == MarkPending(f)
  <2>1. n = m
    BY <1>1 DEF PerformFetch
  <2>2. OnBooks(w, f)
    BY RefuseFacts
  <2> HIDE DEF f
  <2>3. OnBooks(f, m) /\ m.rt.recon # "clean" /\ (m.cut <=> f.cut) /\ m.rt.deferred = f.rt.deferred
    BY <2>2, MarkPendingFacts DEF OnBooks, OnReads
  <2> HIDE DEF m
  <2>4. SameSlot(w, m) /\ m.shown = w.shown
    BY <2>2, <2>3 DEF OnBooks, SameSlot, SameStore
  <2> QED BY <2>1, <2>3, <2>4 DEF Rests
<1>2. CASE IntentRuns(w, i) /\ w.rt.recon = "backoff"
  <2> DEFINE f == Refuse(w, i)
  <2>1. n = f
    BY <1>2 DEF PerformFetch
  <2>2. OnBooks(w, f) /\ f.rt = w.rt
    BY RefuseFacts
  <2> HIDE DEF f
  <2> QED BY <1>2, <2>1, <2>2 DEF OnBooks, SameStore, Rests
<1>3. CASE IntentRuns(w, i) /\ w.rt.recon # "backoff" /\ ~Serviceable(w)
  <2> DEFINE f == Defer(w, i, FALSE, FALSE)
  <2>1. n = f
    BY <1>3 DEF PerformFetch
  <2>2. /\ OnBooks(w, f) /\ f.rt.recon = w.rt.recon /\ (f.cut <=> w.cut)
        /\ HeldSignal(f) <=> (HeldSignal(w) \/ i = "stream-signal")
    BY DeferFacts DEF Intents
  <2> HIDE DEF f
  <2>3. f.rt.deferred # Waiting
    BY <2>2 DEF HeldSignal, Waiting
  <2> QED BY <2>1, <2>2, <2>3 DEF OnBooks, SameStore, Rests
<1>4. CASE IntentRuns(w, i) /\ w.rt.recon # "backoff" /\ Serviceable(w) /\ w.rt.permission = "denied"
  <2>1. n = w
    BY <1>4 DEF PerformFetch
  <2> QED BY <1>4, <2>1 DEF SameSlot, Rests
<1>5. CASE IntentRuns(w, i) /\ w.rt.recon # "backoff" /\ Serviceable(w) /\ w.rt.permission # "denied"
  <2> DEFINE f == BeginFetch(Teardown(w), i, FALSE, FALSE)
  <2>1. n = f
    BY <1>5 DEF PerformFetch
  <2>2. /\ OnReads(w, f) /\ SameStore(w, f) /\ Slotted(f, ver) /\ Begins(w, f, ver)
        /\ f.rt.recon = w.rt.recon /\ f.rt.deferred = w.rt.deferred /\ (f.cut <=> w.cut)
        /\ \A r \in f.reads : CanCommit(r) => r.from = ver /\ (r.polled <=> FALSE)
    BY ReplaceFacts DEF Intents
  <2> QED BY <2>1, <2>2
<1> QED BY <1>1, <1>2, <1>3, <1>4, <1>5

\* What a request's outcome makes of the scope, before the request ends.
Judged(w, c, r, v) ==
  /\ c \in Worlds /\ SameSlot(w, c) /\ SameStream(w, c)
  /\ c.env = w.env /\ c.rt.act = w.rt.act /\ c.rt.query = w.rt.query /\ c.rt.snapshot = w.rt.snapshot
  /\ (c.rt.blocked <=> w.rt.blocked) /\ c.heard = w.heard
  /\ Shows(w, c, r, v)
  /\ r.id # w.rt.owner => c.shown = w.shown /\ Wary(w, c)
  /\ r.stale => (w.cut => c.cut)
  /\ r.id = w.rt.owner /\ ~w.rt.trailing => (c.heard > c.shown => Missed(c))

LEMMA JudgedStreaming ==
  ASSUME NEW w, NEW n, Streaming(w), SameStream(w, n), n.env = w.env, n.rt.act = w.rt.act,
         n.rt.query = w.rt.query, n.rt.snapshot = w.rt.snapshot, n.rt.blocked <=> w.rt.blocked
  PROVE  Streaming(n) /\ (IsEnabled(n) <=> IsEnabled(w))
<1>1. (Streams(n) <=> Streams(w)) /\ (Leased(n) <=> Leased(w)) /\ (IsEnabled(n) <=> IsEnabled(w))
  BY DEF Streams, Serviceable, Leased, IsEnabled
<1>2. Demanded(n) /\ Queued(n) /\ Starting(n)
  BY <1>1 DEF Streaming, Demanded, Queued, Starting, SameStream
<1>3. Active(n) /\ Supplied(n)
  BY <1>1 DEF Streaming, Active, Supplied, SameStream
<1> QED BY <1>1, <1>2, <1>3 DEF Streaming

\* The request leaves the wire.
LEMMA GoneFacts ==
  ASSUME NEW c \in Worlds, NEW r \in c.reads
  PROVE  LET n == [c EXCEPT !.reads = @ \ {r}] IN
         /\ n \in Worlds /\ n.env = c.env /\ n.rt = c.rt /\ n.feed = c.feed /\ n.shown = c.shown
         /\ n.heard = c.heard /\ (n.cut <=> c.cut) /\ n.reads = c.reads \ {r}
<1>1. c.reads \ {r} \in SUBSET Request
  BY DEF Worlds
<1> QED BY <1>1 DEF Worlds

LEMMA FreedFacts ==
  ASSUME NEW w \in Worlds
  PROVE  LET n == [w EXCEPT !.rt.owner = 0, !.rt.trailing = FALSE] IN
         /\ OnReads(w, n) /\ SameStore(w, n) /\ n.reads = w.reads
         /\ n.rt.owner = 0 /\ ~n.rt.trailing /\ n.rt.recon = w.rt.recon /\ n.rt.deferred = w.rt.deferred
         /\ (n.cut <=> w.cut)
<1> DEFINE n == [w EXCEPT !.rt.owner = 0, !.rt.trailing = FALSE]
<1>1. n \in Worlds
  <2>1. w.rt \in Scope /\ n.rt = [w.rt EXCEPT !.owner = 0, !.trailing = FALSE]
    BY DEF Worlds, Scope
  <2>2. [w.rt EXCEPT !.owner = 0, !.trailing = FALSE] \in Scope
    BY <2>1, Numbers DEF Scope
  <2> QED BY <2>1, <2>2 DEF Worlds
<1>2. SameDemand(w, n)
  BY DEF Worlds, Scope, SameDemand
<1>3. SameStream(w, n)
  BY DEF Worlds, Scope, SameStream
<1>4. /\ SameStore(w, n) /\ n.reads = w.reads /\ n.rt.owner = 0 /\ ~n.rt.trailing
      /\ n.rt.recon = w.rt.recon /\ n.rt.deferred = w.rt.deferred /\ n.cut = w.cut
  BY DEF Worlds, Scope, SameStore
<1> QED BY <1>1, <1>2, <1>3, <1>4 DEF OnReads

LEMMA RepollFacts ==
  ASSUME NEW w \in Worlds, NEW r
  PROVE  Alike(w, Repoll(w, r))
<1>1. Alike(w, w)
  BY DEF Alike, SameWork, SameSlot, SameDemand, SameStore, SameStream
<1> QED BY <1>1, SchedulePollFacts DEF Repoll

LEMMA EndsOn ==
  ASSUME NEW w, NEW y \in Worlds, NEW n, NEW r, NEW v \in Vers, Alike(y, n), Ends(w, y, r, v)
  PROVE  Ends(w, n, r, v)
<1>1. SameSlot(y, n) /\ n.shown = y.shown /\ (Rests(n) => Rests(y))
  BY AlikeSane DEF Alike, SameWork, SameStore
<1>2. CASE EndsOther(w, y, r)
  BY <1>1, <1>2 DEF EndsOther, SameSlot, Ends
<1>3. CASE Closes(w, y, r, v) /\ (w.rt.trailing => ~Rests(y))
  BY <1>1, <1>3 DEF Closes, SameSlot, Ends, Shows
<1>4. CASE w.rt.trailing /\ \E s : Closes(w, s, r, v) /\ Begins(s, y, v)
  <2>1. PICK s : Closes(w, s, r, v) /\ Begins(s, y, v)
    BY <1>4
  <2>2. Begins(s, n, v)
    BY <1>1, <2>1 DEF Begins, SameSlot
  <2> QED BY <1>4, <2>1, <2>2 DEF Ends
<1> QED BY <1>2, <1>3, <1>4 DEF Ends
\* executeFetch once the request is over.
LEMMA SettleFacts ==
  ASSUME RuntimeInv, NEW r \in reads, NEW c, Judged(World, c, r, ver)
  PROVE  LET n == Settle(c, r) IN Settled(World, n, ver) /\ n.rt.tasks = World.rt.tasks
<1> DEFINE g == [c EXCEPT !.reads = @ \ {r}]
           f == [g EXCEPT !.rt.owner = 0, !.rt.trailing = FALSE]
           y == Finish(g, r)
           n == Repoll(y, r)
<1>0. Settle(c, r) = n
  BY DEF Settle
<1>1. /\ World \in Worlds /\ Slotted(World, ver) /\ Streaming(World) /\ Remembered(World) /\ ver \in Vers
      /\ Free(World) /\ r \in World.reads
  BY SaneWorld, FreeWorld, WorldFields
<1>2. c \in Worlds /\ r \in c.reads /\ c.reads = World.reads
  BY <1>1 DEF Judged, SameSlot
<1>3. /\ g \in Worlds /\ g.env = c.env /\ g.rt = c.rt /\ g.feed = c.feed /\ g.shown = c.shown
      /\ g.heard = c.heard /\ (g.cut <=> c.cut) /\ g.reads = c.reads \ {r}
  BY <1>2, GoneFacts
<1> HIDE DEF g
<1>4. /\ OnReads(g, f) /\ SameStore(g, f) /\ f.reads = g.reads
      /\ f.rt.owner = 0 /\ ~f.rt.trailing /\ f.rt.recon = g.rt.recon /\ f.rt.deferred = g.rt.deferred
      /\ (f.cut <=> g.cut)
  BY <1>3, FreedFacts
<1>5. y = IF g.rt.owner # r.id THEN g
          ELSE IF g.rt.trailing /\ ~r.stale THEN PerformFetch(f, "stream-signal", FALSE, FALSE) ELSE f
  BY DEF Finish
<1> HIDE DEF f, y
<1>6. /\ g.rt.owner = World.rt.owner /\ (g.rt.trailing <=> World.rt.trailing) /\ g.reads = World.reads \ {r}
      /\ g.heard = World.heard
  BY <1>2, <1>3 DEF Judged, SameSlot
<1>7. Streaming(g) /\ (IsEnabled(g) <=> IsEnabled(World)) /\ SameStream(World, g)
  <2>1. SameStream(World, g)
    BY <1>3 DEF Judged, SameStream
  <2> QED BY <1>1, <1>3, <2>1, JudgedStreaming DEF Judged
<1>8. g.shown \in Nat /\ g.shown <= ver /\ g.heard <= ver
  BY <1>1, <1>3, <1>6 DEF Judged, Shows, Slotted, OwnerOnly, Worlds, Vers
<1>9. \A q \in World.reads : q.from \in Nat /\ q.id # 0 /\ q.from <= ver
  BY <1>1, OwnedLives DEF Slotted, OwnerOnly, Worlds, Request
<1>10. g.rt.snapshot = 0 => g.heard = 0
  BY <1>1, <1>3, <1>6 DEF Judged, Remembered
<1>11. Apart(g)
  BY <1>1, <1>6 DEF Slotted, Apart
<1>12. SUFFICES Sane(y, ver) /\ Ends(World, y, r, ver) /\ y.rt.tasks = World.rt.tasks
  <2>1. Alike(y, n)
    BY <1>12, RepollFacts DEF Sane
  <2> HIDE DEF n
  <2>2. Sane(n, ver)
    BY <1>1, <1>12, <2>1, AlikeSane DEF Sane, Alike
  <2>3. Ends(World, n, r, ver)
    BY <1>1, <1>12, <2>1, EndsOn DEF Sane
  <2> QED BY <1>0, <1>1, <1>12, <2>1, <2>2, <2>3 DEF Settled, Alike, SameStream
<1>13. CASE r.id # World.rt.owner
  <2>1. y = g
    BY <1>5, <1>6, <1>13
  <2>2. g.shown = World.shown /\ Wary(World, c)
    BY <1>3, <1>13 DEF Judged
  <2>3. Wary(World, g)
    BY <1>3, <2>2 DEF Wary, HeldSignal
  <2>4. OwnerOnly(g, ver)
    <3>1. World.cut => g.cut
      BY <2>3 DEF Wary
    <3> QED BY <1>1, <1>6, <1>8, <2>2, <3>1 DEF Slotted, OwnerOnly
  <2>5. Owned(g)
    BY <1>1, <1>3, <1>6, <1>13 DEF Slotted, Owned, Judged
  <2>6. Remembered(g)
    <3>1. Missed(World) => Missed(g)
      BY <2>2, <2>3 DEF Missed, Wary
    <3>2. Covered(World) => Covered(g)
      BY <1>6, <1>13 DEF Covered
    <3>3. Early(g) => Early(World)
      BY <1>6 DEF Early
    <3>4. Followed(World) => Followed(g)
      BY <1>6, <2>2, <2>3 DEF Followed, Wary
    <3> QED BY <1>1, <1>6, <1>10, <2>2, <3>1, <3>2, <3>3, <3>4 DEF Remembered
  <2>7. Ends(World, g, r, ver)
    BY <1>6, <1>13, <2>2 DEF Ends, EndsOther
  <2> QED BY <1>3, <1>7, <1>11, <2>1, <2>4, <2>5, <2>6, <2>7 DEF Sane, Slotted, SameStream
<1>14. CASE r.id = World.rt.owner
  <2>1. \A q \in f.reads : ~CanCommit(q) /\ q.id # r.id
    BY <1>1, <1>4, <1>6, <1>14 DEF Slotted, OwnerOnly, Apart
  <2>2. Slotted(f, ver)
    <3>1. OwnerOnly(f, ver)
      BY <1>4, <1>6, <1>8, <1>9, <2>1 DEF OwnerOnly, SameStore
    <3>2. Apart(f)
      BY <1>4, <1>11 DEF Apart
    <3>3. Owned(f)
      BY <1>4 DEF Owned
    <3> QED BY <3>1, <3>2, <3>3 DEF Slotted
  <2>3. f \in Worlds /\ Streaming(f) /\ IsEnabled(f) /\ f.rt.tasks = World.rt.tasks
    <3>1. f \in Worlds /\ Streaming(f) /\ (IsEnabled(f) <=> IsEnabled(g))
      BY <1>4, <1>7, FetchStreaming, ReadsFetch, SameDemandFacts DEF OnReads
    <3>2. World.rt.act # "disabled"
      BY <1>1, <1>9, <1>14 DEF Slotted, Owned
    <3> QED BY <1>4, <1>7, <3>1, <3>2 DEF IsEnabled, OnReads, SameStream
  <2>4. Closes(World, f, r, ver)
    BY <1>3, <1>4, <1>6, <1>14 DEF Closes, Shows, Judged, SameStore
  <2>5. f.rt.snapshot = 0 => f.heard = 0
    BY <1>4, <1>10 DEF OnReads, SameDemand, SameStore
  <2>6. ~Early(f)
    BY <2>1 DEF Early
  <2>7. r.stale => f.cut
    BY <1>1, <1>3, <1>4, <1>14 DEF Judged, Slotted, OwnerOnly
  <2>8. CASE ~(World.rt.trailing /\ ~r.stale)
    <3>1. y = f
      BY <1>5, <1>6, <1>14, <2>8
    <3>2. f.heard > f.shown => Missed(f)
      <4>1. CASE r.stale
        BY <2>7, <4>1 DEF Missed
      <4>2. CASE ~World.rt.trailing
        <5>1. c.heard > c.shown => Missed(c)
          BY <1>14, <4>2 DEF Judged
        <5>2. Missed(c) => Missed(f)
          BY <1>3, <1>4 DEF Missed, OnReads, SameStream, SameDemand, SameStore, HeldSignal
        <5> QED BY <1>3, <1>4, <5>1, <5>2 DEF SameStore
      <4> QED BY <2>8, <4>1, <4>2
    <3>3. Remembered(f)
      BY <2>5, <2>6, <3>2 DEF Remembered
    <3>4. World.rt.trailing => ~Rests(f)
      BY <2>7, <2>8 DEF Rests
    <3> QED BY <2>2, <2>3, <2>4, <3>1, <3>3, <3>4 DEF Sane, Ends
  <2>9. CASE World.rt.trailing /\ ~r.stale
    <3>1. y = PerformFetch(f, "stream-signal", FALSE, FALSE)
      BY <1>5, <1>6, <1>14, <2>9
    <3>2. Free(f)
      BY <1>1, <1>4, <1>6 DEF Free
    <3>3. Decides(f, "stream-signal", FALSE) /\ "stream-signal" \in Intents
      BY DEF Decides, Intents
    <3>4. /\ OnReads(f, y) /\ (SameStore(f, y) \/ NoStore(y))
          /\ Slotted(y, ver) /\ Moves(f, y, ver) /\ Remembered(y)
      BY <1>1, <2>2, <2>3, <2>5, <3>1, <3>2, <3>3, PerformFacts
    <3>5. Begins(f, y, ver) \/ (SameSlot(f, y) /\ y.shown = f.shown /\ ~Rests(y))
      BY <1>1, <1>4, <2>2, <2>3, <3>1, <3>2, AgainFacts
    <3>6. Streaming(y) /\ y \in Worlds /\ y.rt.tasks = World.rt.tasks
      BY <2>3, <3>4, FetchStreaming, ReadsFetch DEF OnReads, SameStream
    <3>7. Ends(World, y, r, ver)
      <4>1. CASE Begins(f, y, ver)
        BY <2>4, <2>9, <4>1 DEF Ends
      <4>2. CASE SameSlot(f, y) /\ y.shown = f.shown /\ ~Rests(y)
        BY <2>4, <4>2 DEF Ends, Closes, Shows, SameSlot
      <4> QED BY <3>5, <4>1, <4>2
    <3> QED BY <3>4, <3>6, <3>7 DEF Sane
  <2> QED BY <2>8, <2>9
<1> QED BY <1>13, <1>14

LEMMA SettleInv ==
  ASSUME RuntimeInv, NEW r \in reads, NEW c, Judged(World, c, r, ver), NEW n, n = Settle(c, r),
         Event(n) \/ Step(n)
  PROVE  RuntimeInv' /\ Settled(World, World', ver)
<1>1. Settled(World, n, ver) /\ n.rt.tasks = World.rt.tasks
  BY SettleFacts
<1>2. /\ Become(n) /\ ver' = ver
      /\ \/ ops' = ops + 1 /\ ops < MaxOps
         \/ ops' = ops
  BY DEF Event, Step, CountOp
<1>3. Sane(n, ver) /\ n.rt.tasks \subseteq rt.tasks
  BY <1>1, WorldFields DEF Settled
<1>4. RuntimeInv' /\ World' = n
  BY <1>2, <1>3, StepInv
<1> QED BY <1>1, <1>4

\* A request whose end says nothing of the data leaves the scope as it is; a late
\* answer of an aborted owner does not settle what was heard.
LEMMA SilentJudged ==
  ASSUME RuntimeInv, NEW r \in reads, ~CanCommit(r)
  PROVE  Judged(World, World, r, ver)
<1>1. /\ World \in Worlds /\ Slotted(World, ver) /\ Remembered(World) /\ r \in World.reads
  BY SaneWorld, WorldFields
<1>2. SameSlot(World, World) /\ SameStream(World, World) /\ Wary(World, World) /\ Shows(World, World, r, ver)
  BY DEF SameSlot, SameStream, Wary, Shows
<1>3. r.id = World.rt.owner /\ ~World.rt.trailing => ~Covered(World)
  BY <1>1 DEF Covered, Slotted, Apart
<1> QED BY <1>1, <1>2, <1>3 DEF Judged, Remembered

LEMMA CommitFacts ==
  ASSUME NEW w \in Worlds, IsEnabled(w), NEW v \in 0..MaxVer
  PROVE  LET n == Commit(w, v) IN
         /\ n \in Worlds /\ SameSlot(w, n) /\ SameStream(w, n) /\ n.feed = w.feed
         /\ n.env = w.env /\ n.rt.act = w.rt.act /\ n.rt.query = w.rt.query /\ n.rt.snapshot = w.rt.snapshot
         /\ (n.rt.blocked <=> w.rt.blocked) /\ n.heard = w.heard /\ n.rt.deferred = w.rt.deferred
         /\ n.shown = v /\ (n.cut <=> w.cut /\ v < w.heard)
<1> DEFINE k == w.cut /\ v < w.heard
           n == [w EXCEPT !.rt.recon = "clean", !.rt.permission = "allowed", !.shown = v, !.cut = k]
<1>1. Commit(w, v) = n
  BY DEF Commit
<1>2. k \in BOOLEAN
  BY DEF Worlds
<1> HIDE DEF k
<1>3. n \in Worlds
  <2>1. w.rt \in Scope /\ n.rt = [w.rt EXCEPT !.recon = "clean", !.permission = "allowed"]
    BY DEF Worlds, Scope
  <2>2. [w.rt EXCEPT !.recon = "clean", !.permission = "allowed"] \in Scope
    BY <2>1 DEF Scope
  <2> QED BY <1>2, <2>1, <2>2 DEF Worlds
<1>4. SameSlot(w, n) /\ n.feed = w.feed /\ n.env = w.env
  BY DEF Worlds, Scope, SameSlot
<1>5. SameStream(w, n)
  BY DEF Worlds, Scope, SameStream
<1>6. /\ n.rt.act = w.rt.act /\ n.rt.query = w.rt.query /\ n.rt.snapshot = w.rt.snapshot
      /\ n.rt.blocked = w.rt.blocked /\ n.rt.deferred = w.rt.deferred
  BY DEF Worlds, Scope
<1>7. n.heard = w.heard /\ n.shown = v /\ n.cut = k
  BY DEF Worlds
<1> QED BY <1>1, <1>3, <1>4, <1>5, <1>6, <1>7 DEF k

\* An answer that may be shown: what is still older than the last signal was
\* followed by something else than this read.
LEMMA CommitJudged ==
  ASSUME RuntimeInv, NEW r \in reads, CanCommit(r), NEW v \in r.from..ver
  PROVE  Judged(World, Commit(World, v), r, ver)
<1> DEFINE c == Commit(World, v)
<1>1. /\ World \in Worlds /\ Slotted(World, ver) /\ Remembered(World) /\ r \in World.reads /\ ver \in Vers
      /\ r \in Request
  BY SaneWorld, WorldFields DEF Worlds
<1>2. r.id = World.rt.owner /\ r.id # 0
  BY <1>1, OwnedLives DEF Slotted, OwnerOnly
<1>3. IsEnabled(World)
  BY <1>1, <1>2 DEF Slotted, Owned, IsEnabled
<1>4. v \in 0..MaxVer /\ v \in Nat /\ r.from \in Nat /\ r.from <= v
  BY <1>1, Bounds DEF Request, Vers
<1>5. /\ c \in Worlds /\ SameSlot(World, c) /\ SameStream(World, c) /\ c.feed = World.feed
      /\ c.env = World.env /\ c.rt.act = World.rt.act /\ c.rt.query = World.rt.query
      /\ c.rt.snapshot = World.rt.snapshot
      /\ (c.rt.blocked <=> World.rt.blocked) /\ c.heard = World.heard /\ c.rt.deferred = World.rt.deferred
      /\ c.shown = v /\ (c.cut <=> World.cut /\ v < World.heard)
  BY <1>1, <1>3, <1>4, CommitFacts
<1> HIDE DEF c
<1>6. Shows(World, c, r, ver)
  BY <1>5 DEF Shows
<1>7. ASSUME ~World.rt.trailing, c.heard > c.shown PROVE Missed(c)
  <2>1. World.heard \in Nat /\ v < World.heard /\ r.from < World.heard
    BY <1>1, <1>4, <1>5, <1>7 DEF Worlds
  <2>2. Followed(World)
    BY <1>1, <1>2, <2>1 DEF Remembered, Early
  <2> QED BY <1>5, <1>7, <2>1, <2>2 DEF Followed, Missed, HeldSignal, SameStream
<1>8. ~r.stale
  BY DEF CanCommit
<1> QED BY <1>2, <1>5, <1>6, <1>7, <1>8 DEF Judged, c

LEMMA AnsweredStep ==
  ASSUME RuntimeInv, NEW r \in reads, Answered(r)
  PROVE  RuntimeInv' /\ Settled(World, World', ver)
<1>1. PICK v \in r.from..ver : Step(Settle(IF CanCommit(r) THEN Commit(World, v) ELSE World, r))
  BY DEF Answered
<1> DEFINE c == IF CanCommit(r) THEN Commit(World, v) ELSE World
           n == Settle(c, r)
<1>2. Judged(World, c, r, ver)
  BY SilentJudged, CommitJudged
<1>3. Step(n) /\ n = Settle(c, r)
  BY <1>1
<1> HIDE DEF c, n
<1> QED BY <1>2, <1>3, SettleInv

\* Of the owner of the slot, a failure is recorded unless the request is stale.
LEMMA RecordableFacts ==
  ASSUME RuntimeInv, NEW r \in reads
  PROVE  /\ r.id = World.rt.owner /\ ~r.stale => Recordable(r)
         /\ Recordable(r) => ~r.stale
         /\ r.aborted = "no" /\ Recordable(r) => r.id = World.rt.owner
<1>1. /\ World \in Worlds /\ Slotted(World, ver) /\ r \in World.reads /\ ver \in Vers
      /\ r \in Request
  BY SaneWorld, WorldFields DEF Worlds
<1>2. ASSUME r.id = World.rt.owner, ~r.stale PROVE Recordable(r)
  <2>1. r.id # 0
    BY <1>1, OwnedLives DEF Slotted
  <2>2. r.aborted # "owner"
    BY <1>1, <1>2, <2>1 DEF Slotted, Owned, Apart
  <2>3. IsEnabled(World)
    BY <1>1, <1>2, <2>1 DEF Slotted, Owned, IsEnabled
  <2> QED BY <1>1, <1>2, <2>2, <2>3 DEF Recordable, CanCommit, Request
<1>3. Recordable(r) => ~r.stale
  BY DEF Recordable, CanCommit
<1>4. r.aborted = "no" /\ Recordable(r) => r.id = World.rt.owner
  BY <1>1 DEF Recordable, Slotted, OwnerOnly
<1> QED BY <1>2, <1>3, <1>4

LEMMA BooksJudged ==
  ASSUME RuntimeInv, NEW r \in reads, NEW c, OnBooks(World, c), c.rt.recon # "clean", c.cut <=> World.cut,
         HeldSignal(World) => HeldSignal(c)
  PROVE  Judged(World, c, r, ver)
<1>1. c \in Worlds /\ SameSlot(World, c) /\ SameStream(World, c) /\ SameDemand(World, c) /\ SameStore(World, c)
  BY DEF OnBooks, OnReads
<1>2. Wary(World, c)
  BY <1>1 DEF Wary, SameDemand, SameStream
<1>3. Missed(c)
  BY DEF Missed
<1> QED BY <1>1, <1>2, <1>3 DEF Judged, SameDemand, SameStore, Shows

LEMMA DeniedFacts ==
  ASSUME NEW w \in Worlds
  PROVE  LET n == [w EXCEPT !.rt.permission = "denied", !.rt.recon = "clean"] IN
         /\ n \in Worlds /\ SameSlot(w, n) /\ SameStream(w, n)
         /\ n.env = w.env /\ n.rt.act = w.rt.act /\ n.rt.query = w.rt.query /\ n.rt.snapshot = w.rt.snapshot
         /\ (n.rt.blocked <=> w.rt.blocked) /\ SameStore(w, n)
         /\ (n.cut <=> w.cut) /\ n.rt.permission = "denied"
<1> DEFINE n == [w EXCEPT !.rt.permission = "denied", !.rt.recon = "clean"]
<1>1. n \in Worlds
  <2>1. w.rt \in Scope /\ n.rt = [w.rt EXCEPT !.permission = "denied", !.recon = "clean"]
    BY DEF Worlds, Scope
  <2>2. [w.rt EXCEPT !.permission = "denied", !.recon = "clean"] \in Scope
    BY <2>1 DEF Scope
  <2> QED BY <2>1, <2>2 DEF Worlds
<1>2. SameStream(w, n)
  BY DEF Worlds, Scope, SameStream
<1>3. SameSlot(w, n) /\ SameStore(w, n) /\ n.env = w.env /\ n.cut = w.cut
  BY DEF Worlds, Scope, SameSlot, SameStore
<1>4. /\ n.rt.act = w.rt.act /\ n.rt.query = w.rt.query /\ n.rt.snapshot = w.rt.snapshot
      /\ n.rt.blocked = w.rt.blocked /\ n.rt.permission = "denied"
  BY DEF Worlds, Scope
<1> QED BY <1>1, <1>2, <1>3, <1>4

\* A failure: it is recorded, held for replay or settles the denial.
LEMMA FailJudged ==
  ASSUME RuntimeInv, NEW r \in reads, NEW why,
         why = "denied" => r.aborted = "no"
  PROVE  Judged(World, Fail(World, r, why), r, ver)
<1> DEFINE c == Fail(World, r, why)
<1>1. World \in Worlds /\ r \in World.reads /\ r \in Request
  BY SaneWorld, WorldFields DEF Worlds
<1>2. /\ r.id = World.rt.owner /\ ~r.stale => Recordable(r)
      /\ Recordable(r) => ~r.stale
      /\ r.aborted = "no" /\ Recordable(r) => r.id = World.rt.owner
  BY RecordableFacts
<1> DEFINE m == MarkFailed(World)
<1>3. OnBooks(World, m) /\ m.rt.recon # "clean" /\ (m.cut <=> World.cut) /\ m.rt.deferred = World.rt.deferred
  BY <1>1, MarkFailedFacts
<1>4. CASE ~Recordable(r)
  <2>1. c = World /\ ~CanCommit(r)
    BY <1>4 DEF Fail, Recordable
  <2> QED BY <2>1, SilentJudged
<1>5. CASE Recordable(r) /\ why = "denied"
  <2> DEFINE d == [World EXCEPT !.rt.permission = "denied", !.rt.recon = "clean"]
  <2>1. c = d
    BY <1>5 DEF Fail
  <2>2. /\ d \in Worlds /\ SameSlot(World, d) /\ SameStream(World, d)
        /\ d.env = World.env /\ d.rt.act = World.rt.act /\ d.rt.query = World.rt.query
        /\ d.rt.snapshot = World.rt.snapshot
        /\ (d.rt.blocked <=> World.rt.blocked) /\ SameStore(World, d)
        /\ (d.cut <=> World.cut) /\ d.rt.permission = "denied"
    BY <1>1, DeniedFacts
  <2> HIDE DEF d
  <2>3. Missed(d) /\ r.id = World.rt.owner
    BY <1>2, <1>5, <2>2 DEF Missed
  <2>4. Judged(World, d, r, ver)
    BY <1>2, <1>5, <2>2, <2>3 DEF Judged, SameStore, Shows
  <2> QED BY <2>1, <2>4
<1>6. CASE Recordable(r) /\ why = "not-ready"
  <2> DEFINE i == r.intent
             shared == r.shared
             d == Defer(m, i, shared, FALSE)
  <2>1. c = d
    BY <1>6 DEF Fail
  <2>2. i \in Intents /\ shared \in BOOLEAN
    BY <1>1 DEF Request
  <2> HIDE DEF m, i, shared
  <2>3. /\ OnBooks(m, d) /\ d.rt.recon = m.rt.recon /\ (d.cut <=> m.cut)
        /\ HeldSignal(d) <=> (HeldSignal(m) \/ i = "stream-signal")
    BY <1>3, <2>2, DeferFacts, ZenonT(60) DEF OnBooks, OnReads
  <2> HIDE DEF d
  <2>4. OnBooks(World, d)
    BY <1>3, <2>3 DEF OnBooks, OnReads, SameStore, SameSlot, SameDemand, SameStream
  <2>5. Judged(World, d, r, ver)
    BY <1>3, <2>3, <2>4, BooksJudged DEF HeldSignal
  <2> QED BY <2>1, <2>5
<1>7. CASE Recordable(r) /\ why \notin {"denied", "not-ready"}
  <2>1. c = m
    BY <1>7 DEF Fail
  <2> HIDE DEF m
  <2>2. Judged(World, m, r, ver)
    BY <1>3, BooksJudged DEF HeldSignal
  <2> QED BY <2>1, <2>2
<1> QED BY <1>4, <1>5, <1>6, <1>7

LEMMA FailedStep ==
  ASSUME RuntimeInv, NEW r \in reads, Failed(r)
  PROVE  RuntimeInv' /\ Settled(World, World', ver)
<1>1. PICK why \in {"error", "denied", "not-ready"} : Event(Settle(Fail(World, r, why), r))
  BY DEF Failed
<1> DEFINE c == Fail(World, r, why)
           n == Settle(c, r)
<1>2. Judged(World, c, r, ver)
  BY FailJudged DEF Failed
<1>3. Event(n) /\ n = Settle(c, r)
  BY <1>1
<1> HIDE DEF c, n
<1> QED BY <1>2, <1>3, SettleInv

LEMMA AbortedStep ==
  ASSUME RuntimeInv, NEW r \in reads, Aborted(r)
  PROVE  RuntimeInv' /\ Settled(World, World', ver)
<1> DEFINE c == Fail(World, r, "aborted")
           n == Settle(c, r)
<1>1. Judged(World, c, r, ver)
  BY FailJudged
<1>2. Step(n) /\ n = Settle(c, r)
  BY DEF Aborted
<1> HIDE DEF c, n
<1> QED BY <1>1, <1>2, SettleInv
-----------------------------------------------------------------------------
(* The invariant holds.                                                    *)
LEMMA InitRuntime ==
  ASSUME Init
  PROVE  RuntimeInv
<1>1. /\ World.env = env /\ World.rt = Untracked /\ World.reads = {} /\ World.feed = NoFeed
      /\ World.shown = 0 /\ World.heard = 0 /\ World.cut = FALSE /\ reads = {} /\ rt = Untracked
  BY WorldFields DEF Init
<1>2. ver \in Vers /\ ver = 1 /\ ops = 0 /\ ops \in 0..MaxOps
  BY Bounds DEF Init, Vers
<1>3. World \in Worlds
  <2>1. env \in Environments
    BY Numbers DEF Init, Environments
  <2>2. Untracked \in Scope
    <3>1. Waiting \in Held
      BY DEF Waiting, Held
    <3> QED BY <3>1, Numbers DEF Untracked, Scope
  <2>3. NoFeed \in Feeds
    BY Numbers DEF NoFeed, Feeds
  <2> QED BY <2>1, <2>2, <2>3, Numbers DEF Init, World, Worlds
<1>4. /\ World.rt.act = "untracked" /\ World.rt.query = 0 /\ World.rt.snapshot = 0 /\ World.rt.owner = 0
      /\ ~World.rt.trailing /\ World.rt.tasks = {} /\ World.rt.ready = 0 /\ World.rt.conn = "inactive"
      /\ rt.tasks = {}
  BY <1>1 DEF Untracked
<1>5. Slotted(World, ver)
  BY <1>1, <1>2, <1>4 DEF Slotted, Apart, OwnerOnly, Owned
<1>6. Streaming(World)
  BY <1>4 DEF Streaming, Demanded, Queued, Starting, Active, Supplied, Leased
<1>7. Remembered(World)
  BY <1>1, <1>3, ResetRemembered DEF NoStore
<1>8. Cardinality({}) = 0
  BY FS_EmptySet
<1>9. Cardinality(reads) <= MaxReads /\ Cardinality(rt.tasks) <= ops + 1
  BY <1>1, <1>2, <1>4, <1>8, Bounds
<1> QED BY <1>2, <1>3, <1>5, <1>6, <1>7, <1>9 DEF RuntimeInv, Sane

\* What a step of the scope is.
Scoped == ver' = ver /\ (Stepped(World, World', ver) \/ Settled(World, World', ver))
Ages == ver' = ver + 1 /\ ver < MaxVer /\ World' = World

LEMMA CallsStep ==
  ASSUME RuntimeInv, Calls
  PROVE  RuntimeInv' /\ Scoped
<1>1. ASSUME NEW demand \in {"query", "snapshot"}, NEW preserve \in BOOLEAN, AcquireLease(demand, preserve)
      PROVE  RuntimeInv' /\ Scoped
  BY <1>1, AcquireStep DEF AcquireLease, Call, Scoped
<1>2. ASSUME NEW demand \in {"query", "snapshot"}, NEW preserve \in BOOLEAN, ReleaseLease(demand, preserve)
      PROVE  RuntimeInv' /\ Scoped
  BY <1>2, ReleaseStep DEF ReleaseLease, Call, Scoped
<1>3. CASE ResetScope
  BY <1>3, ResetScopeStep DEF ResetScope, Call, Scoped
<1>4. ASSUME NEW intent \in {"startup", "foreground", "user"}, NEW shared \in BOOLEAN, Read(intent, shared)
      PROVE  RuntimeInv' /\ Scoped
  BY <1>4, ReadStep DEF Read, Call, Scoped
<1>5. CASE RefreshCluster
  BY <1>5, RefreshClusterStep DEF RefreshCluster, Call, Scoped
<1> QED BY <1>1, <1>2, <1>3, <1>4, <1>5 DEF Calls

LEMMA RunsStep ==
  ASSUME RuntimeInv, Runs
  PROVE  RuntimeInv' /\ Scoped
<1>1. ASSUME NEW k \in rt.tasks, InitTask(k) PROVE RuntimeInv' /\ Scoped
  BY <1>1, InitTaskStep DEF InitTask, Scoped
<1>2. CASE StartSettles
  BY <1>2, StartSettlesStep DEF StartSettles, Scoped
<1>3. CASE RetryTimer
  BY <1>3, RetryTimerStep DEF RetryTimer, Step, Scoped
<1>4. CASE BackoffEnds
  BY <1>4, BackoffEndsStep DEF BackoffEnds, Step, Scoped
<1>5. CASE PollTimer
  BY <1>5, PollTimerStep DEF PollTimer, Step, Scoped
<1>6. ASSUME NEW r \in reads, Answered(r) PROVE RuntimeInv' /\ Scoped
  BY <1>6, AnsweredStep DEF Answered, Step, Scoped
<1>7. ASSUME NEW r \in reads, Failed(r) PROVE RuntimeInv' /\ Scoped
  BY <1>7, FailedStep DEF Failed, Event, Scoped
<1>8. ASSUME NEW r \in reads, Aborted(r) PROVE RuntimeInv' /\ Scoped
  BY <1>8, AbortedStep DEF Aborted, Step, Scoped
<1>9. CASE Doorbell
  BY <1>9, DoorbellStep DEF Doorbell, Step, Scoped
<1>10. CASE FeedUp
  BY <1>10, FeedUpStep DEF FeedUp, Step, Scoped
<1>11. CASE UnsubscribeTimer
  BY <1>11, UnsubscribeTimerStep DEF UnsubscribeTimer, Step, Scoped
<1> QED BY <1>1, <1>2, <1>3, <1>4, <1>5, <1>6, <1>7, <1>8, <1>9, <1>10, <1>11 DEF Runs

LEMMA EventsStep ==
  ASSUME RuntimeInv, Events
  PROVE  RuntimeInv' /\ (Scoped \/ Ages)
<1>1. ASSUME NEW r \in reads, Deadline(r) PROVE RuntimeInv' /\ Scoped
  BY <1>1, DeadlineStep DEF Deadline, Event, Scoped
<1>2. CASE FeedDown
  BY <1>2, FeedDownStep DEF FeedDown, Event, Scoped
<1>3. CASE StreamDenied
  BY <1>3, StreamDeniedStep DEF StreamDenied, Event, Scoped
<1>4. CASE AuthFailed
  BY <1>4, AuthFailedStep DEF AuthFailed, Event, Scoped
<1>5. CASE AuthRecovered
  BY <1>5, AuthRecoveredStep DEF AuthRecovered, Event, Scoped
<1>6. CASE ScopeChanged
  BY <1>6, ScopeChangedStep DEF ScopeChanged, Event, Scoped
<1>7. CASE HoldBegins
  BY <1>7, HoldBeginsStep DEF HoldBegins, Event, Scoped
<1>8. CASE HoldEnds
  BY <1>8, HoldEndsStep DEF HoldEnds, Step, Scoped
<1>9. CASE LifecycleServes
  BY <1>9, LifecycleServesStep DEF LifecycleServes, Step, Scoped
<1>10. CASE LifecycleLost
  BY <1>10, LifecycleLostStep DEF LifecycleLost, Event, Scoped
<1>11. CASE SelectionChanged
  BY <1>11, SelectionChangedStep DEF SelectionChanged, Event, Scoped
<1>12. CASE KubeconfigChanging
  BY <1>12, KubeconfigChangingStep DEF KubeconfigChanging, Event, Scoped
<1>13. CASE Prune
  BY <1>13, PruneStep DEF Prune, Event, Scoped
<1>14. CASE AutoRefreshChanged
  BY <1>14, AutoRefreshChangedStep DEF AutoRefreshChanged, Event, Scoped
<1>15. CASE VisibilityChanged
  BY <1>15, VisibilityChangedStep DEF VisibilityChanged, Event, Scoped
<1>16. CASE ClusterChanges
  BY <1>16, ClusterChangesStep DEF ClusterChanges, Ages
<1> QED BY <1>1, <1>2, <1>3, <1>4, <1>5, <1>6, <1>7, <1>8, <1>9, <1>10, <1>11, <1>12, <1>13, <1>14,
           <1>15, <1>16 DEF Events

LEMMA NextRuntime ==
  ASSUME RuntimeInv, Next
  PROVE  RuntimeInv' /\ (Scoped \/ Ages)
BY CallsStep, RunsStep, EventsStep DEF Next

LEMMA StutterRuntime ==
  ASSUME RuntimeInv, UNCHANGED vars
  PROVE  RuntimeInv'
<1>1. ver' = ver /\ ops' = ops /\ reads' = reads /\ rt' = rt /\ World' = World
  BY DEF vars, World
<1>2. Sane(World, ver)'
  BY <1>1 DEF RuntimeInv
<1> QED BY <1>1, <1>2 DEF RuntimeInv

\* The invariant of the scope's record, its slot, its stream and its signals holds in
\* every reachable state.
THEOREM RuntimeInvariant == Spec => []RuntimeInv
<1>1. Init => RuntimeInv
  BY InitRuntime
<1>2. RuntimeInv /\ [Next]_vars => RuntimeInv'
  BY NextRuntime, StutterRuntime
<1> QED BY <1>1, <1>2, PTL DEF Spec

\* The state is well formed: a scope is enabled exactly while it is leased, the slot is
\* owned by a live request on the wire, and only a slot in use latches a signal
\* (transitionScopedFetchState, acquireScopedDomainLease).
THEOREM TypeCorrect == Spec => []TypeOK
<1>1. RuntimeInv => TypeOK
  <2> SUFFICES ASSUME RuntimeInv PROVE TypeOK
    OBVIOUS
  <2>1. World \in Worlds /\ Slotted(World, ver) /\ Streaming(World) /\ ver \in Vers /\ ops \in 0..MaxOps
    BY SaneWorld DEF RuntimeInv
  <2>2. /\ env \in Environments /\ rt \in Scope /\ reads \subseteq Request /\ feed \in Feeds
        /\ {shown, heard} \subseteq 0..MaxVer /\ cut \in BOOLEAN
    BY <2>1, WorldFields DEF Worlds
  <2>3. /\ rt.act = "enabled" <=> Leased(World)
        /\ rt.owner # 0 => \E r \in reads : r.id = rt.owner /\ r.aborted # "owner"
        /\ rt.trailing => rt.owner # 0
        /\ \A q, r \in reads : q.id = r.id => q = r
    BY <2>1, WorldFields DEF Streaming, Demanded, Slotted, Owned, Apart
  <2> QED BY <2>1, <2>2, <2>3 DEF TypeOK, Vers
<1> QED BY <1>1, RuntimeInvariant, PTL

\* A stream is active only for a leased scope that may stream, and between turns a
\* scope that should stream does, or retries (reconcileScopeStream,
\* completeStreamingStart, stopStreamingScope).
THEOREM StreamMatchesDemand == Spec => []StreamFollowsDemand
<1>1. RuntimeInv => StreamFollowsDemand
  <2> SUFFICES ASSUME RuntimeInv PROVE StreamFollowsDemand
    OBVIOUS
  <2>1. Streaming(World)
    BY SaneWorld
  <2>2. rt.conn = "active" =>
          /\ Leased(World) /\ feed.sub = "leased"
          /\ env.auto /\ ~rt.blocked /\ env.auth /\ env.holds = 0
    BY <2>1, WorldFields DEF Streaming, Active
  <2>3. OwnTurn /\ Leased(World) /\ Streams(World) => rt.conn = "active" \/ rt.retry
    <3> SUFFICES ASSUME OwnTurn, Leased(World), Streams(World) PROVE rt.conn = "active" \/ rt.retry
      OBVIOUS
    <3>1. World.rt.tasks = {} /\ World.rt.conn \in {"inactive", "active"}
      BY TurnFacts
    <3> QED BY <2>1, <3>1, WorldFields DEF Streaming, Supplied
  <2> QED BY <2>2, <2>3 DEF StreamFollowsDemand
<1> QED BY <1>1, RuntimeInvariant, PTL

\* A scope at rest shows data at least as new as the last signal it took, unless that
\* signal was turned away while a read was under way (latchTrailingStreamSignal, the
\* deferred intents and the pending reconciliation lose no signal).
THEOREM SignalsAreKept == Spec => []QuietMeansFresh
<1>1. RuntimeInv => QuietMeansFresh
  <2> SUFFICES ASSUME RuntimeInv, Quiet, ~cut PROVE shown >= heard
    BY DEF QuietMeansFresh
  <2>1. World \in Worlds /\ Slotted(World, ver) /\ Remembered(World) /\ ver \in Vers
    BY SaneWorld
  <2>2. ~Missed(World)
    BY WorldFields DEF Quiet, Standing, Missed, HeldSignal, Waiting
  <2>3. ~Covered(World)
    BY <2>1, WorldFields, OwnedLives DEF Quiet, Covered, Slotted, Owned
  <2>4. ~(heard > shown) /\ heard \in Nat /\ shown \in Nat
    BY <2>1, <2>2, <2>3, WorldFields DEF Remembered, Worlds
  <2> QED BY <2>4
<1> QED BY <1>1, RuntimeInvariant, PTL

LEMMA SteppedShown ==
  ASSUME NEW w, NEW n, NEW v, Stepped(w, n, v)
  PROVE  n.shown \in {w.shown, 0}
BY DEF Stepped, Moves, Wilts, Latches, Begins, Yields

LEMMA SettledShown ==
  ASSUME NEW w \in Worlds, NEW n, NEW v \in Vers, Slotted(w, v), Settled(w, n, v)
  PROVE  n.shown >= w.shown
<1>1. PICK r \in w.reads : Ends(w, n, r, v)
  BY DEF Settled
<1>2. n.shown = w.shown \/ (CanCommit(r) /\ n.shown \in r.from..v)
  BY <1>1 DEF Ends, EndsOther, Closes, Shows, Begins
<1>3. w.shown \in Nat /\ r.from \in Nat /\ (CanCommit(r) => r.from >= w.shown)
  BY DEF Worlds, Request, Slotted, OwnerOnly
<1> QED BY <1>2, <1>3 DEF Vers

\* A payload is never replaced by an older one, in whatever order the requests of a
\* scope answer (fetchCanCommit).
THEOREM PayloadNeverOlder == Spec => NeverOlder
<1>1. RuntimeInv /\ [Next]_vars => [shown' >= shown \/ shown' = 0]_vars
  <2> SUFFICES ASSUME RuntimeInv, Next PROVE shown' >= shown \/ shown' = 0
    OBVIOUS
  <2>1. World \in Worlds /\ Slotted(World, ver) /\ ver \in Vers /\ shown \in Nat
    BY SaneWorld, WorldFields DEF Worlds
  <2>2. World'.shown = shown' /\ World.shown = shown
    BY DEF World
  <2>3. CASE Stepped(World, World', ver)
    BY <2>1, <2>2, <2>3, SteppedShown
  <2>4. CASE Settled(World, World', ver)
    BY <2>1, <2>2, <2>4, SettledShown
  <2>5. CASE World' = World
    BY <2>1, <2>2, <2>5
  <2> QED BY <2>3, <2>4, <2>5, NextRuntime DEF Scoped, Ages
<1> QED BY <1>1, RuntimeInvariant, PTL DEF Spec, NeverOlder
-----------------------------------------------------------------------------
(* The reads of the scope implement FetchSlot.                             *)
Image(r) == [id |-> r.id, from |-> r.from, live |-> CanCommit(r)]
Wire(w) == {Image(r) : r \in w.reads}

LEMMA ImageFacts ==
  ASSUME NEW q, NEW r
  PROVE  /\ Image(r).id = r.id /\ Image(r).from = r.from /\ (Image(r).live <=> CanCommit(r))
         /\ q.id = r.id /\ q.from = r.from /\ (CanCommit(q) <=> CanCommit(r)) => Image(q) = Image(r)
<1>1. CanCommit(r) \in BOOLEAN /\ CanCommit(q) \in BOOLEAN
  BY DEF CanCommit
<1>2. Image(r).id = r.id /\ Image(r).from = r.from /\ Image(r).live = CanCommit(r)
  BY DEF Image
<1>3. ASSUME q.id = r.id, q.from = r.from, CanCommit(q) <=> CanCommit(r) PROVE Image(q) = Image(r)
  <2>1. CanCommit(q) = CanCommit(r)
    BY <1>1, <1>3
  <2> QED BY <1>3, <2>1 DEF Image
<1> QED BY <1>2, <1>3

\* A request that dies.
LEMMA KilledImage ==
  ASSUME NEW q, NEW r, NEW b \in BOOLEAN, q.id = r.id, q.from = r.from, CanCommit(q) <=> (CanCommit(r) /\ b)
  PROVE  [Image(r) EXCEPT !.live = Image(r).live /\ b] = Image(q)
<1>1. CanCommit(r) \in BOOLEAN /\ CanCommit(q) \in BOOLEAN
  BY DEF CanCommit
<1>2. CanCommit(q) = (Image(r).live /\ b)
  BY <1>1, ImageFacts
<1>3. [Image(r) EXCEPT !.live = Image(r).live /\ b] = [id |-> r.id, from |-> r.from, live |-> (Image(r).live /\ b)]
  BY DEF Image
<1>4. [id |-> r.id, from |-> r.from, live |-> (Image(r).live /\ b)]
      = [id |-> q.id, from |-> q.from, live |-> CanCommit(q)]
  BY <1>2
<1> QED BY <1>3, <1>4 DEF Image

Doomed(w, n) == {x \in Wire(w) : \E q \in n.reads : q.id = x.id /\ ~CanCommit(q)}
Marked(W, dead) == {[x EXCEPT !.live = x.live /\ x \notin dead] : x \in W}

LEMMA AgedWire ==
  ASSUME NEW w, NEW n, Apart(n), Aged(w, n)
  PROVE  Wire(n) = Marked(Wire(w), Doomed(w, n))
<1> DEFINE dead == Doomed(w, n)
           K(x) == [x EXCEPT !.live = x.live /\ x \notin dead]
<1>1. ASSUME NEW q \in n.reads, NEW r \in w.reads, Elder(q, r) PROVE K(Image(r)) = Image(q)
  <2> DEFINE b == Image(r) \notin dead
  <2>1. Image(r) \in Wire(w)
    BY DEF Wire
  <2>2. b <=> CanCommit(q)
    BY <1>1, <2>1, ImageFacts DEF Doomed, Elder, Apart
  <2>3. b \in BOOLEAN
    OBVIOUS
  <2> HIDE DEF b
  <2>4. [Image(r) EXCEPT !.live = Image(r).live /\ b] = Image(q)
    BY <1>1, <2>2, <2>3, KilledImage DEF Elder
  <2> QED BY <2>4 DEF b
<1> HIDE DEF K, dead
<1>2. \A y \in Wire(n) : \E x \in Wire(w) : y = K(x)
  <2> SUFFICES ASSUME NEW q \in n.reads PROVE \E x \in Wire(w) : Image(q) = K(x)
    BY DEF Wire
  <2>1. PICK r \in w.reads : Elder(q, r)
    BY DEF Aged
  <2> QED BY <1>1, <2>1 DEF Wire
<1>3. \A x \in Wire(w) : K(x) \in Wire(n)
  <2> SUFFICES ASSUME NEW r \in w.reads PROVE K(Image(r)) \in Wire(n)
    BY DEF Wire
  <2>1. PICK q \in n.reads : Elder(q, r)
    BY DEF Aged
  <2> QED BY <1>1, <2>1 DEF Wire
<1>4. Marked(Wire(w), dead) = {K(x) : x \in Wire(w)}
  BY DEF Marked, K
<1> QED BY <1>2, <1>3, <1>4 DEF dead

\* A new read: the requests of w are all dead in n.
LEMMA BegunWire ==
  ASSUME NEW w, NEW n, NEW v, NEW dead, Begins(w, n, v), \A r \in w.reads : CanCommit(r) => Image(r) \in dead
  PROVE  /\ Wire(n) = Marked(Wire(w), dead) \cup {[id |-> n.rt.owner, from |-> v, live |-> TRUE]}
         /\ \A x \in Wire(w) : x.id # n.rt.owner
<1> DEFINE K(x) == [x EXCEPT !.live = x.live /\ x \notin dead]
           new == [id |-> n.rt.owner, from |-> v, live |-> TRUE]
<1>1. PICK b \in n.reads :
        /\ b.id = n.rt.owner /\ CanCommit(b) /\ b.from = v
        /\ \A q \in n.reads \ {b} : ~CanCommit(q) /\ \E r \in w.reads : q.id = r.id /\ q.from = r.from
        /\ \A r \in w.reads : \E q \in n.reads \ {b} : q.id = r.id /\ q.from = r.from
  BY DEF Begins
<1>2. Image(b) = new
  <2>1. CanCommit(b) = TRUE
    BY <1>1 DEF CanCommit
  <2> QED BY <1>1, <2>1 DEF Image
<1>3. ASSUME NEW q \in n.reads \ {b}, NEW r \in w.reads, q.id = r.id, q.from = r.from
      PROVE  K(Image(r)) = Image(q)
  <2> DEFINE c == Image(r) \notin dead
  <2>1. c \in BOOLEAN /\ (CanCommit(q) <=> (CanCommit(r) /\ c))
    BY <1>1
  <2> HIDE DEF c
  <2>2. [Image(r) EXCEPT !.live = Image(r).live /\ c] = Image(q)
    BY <1>3, <2>1, KilledImage
  <2> QED BY <2>2 DEF c
<1>4. Marked(Wire(w), dead) = {K(x) : x \in Wire(w)}
  BY DEF Marked
<1> HIDE DEF K, new
<1>5. \A y \in Wire(n) : y = new \/ \E x \in Wire(w) : y = K(x)
  <2> SUFFICES ASSUME NEW q \in n.reads, q # b PROVE \E x \in Wire(w) : Image(q) = K(x)
    BY <1>2 DEF Wire
  <2>1. PICK r \in w.reads : q.id = r.id /\ q.from = r.from
    BY <1>1
  <2> QED BY <1>3, <2>1 DEF Wire
<1>6. \A x \in Wire(w) : K(x) \in Wire(n)
  <2> SUFFICES ASSUME NEW r \in w.reads PROVE K(Image(r)) \in Wire(n)
    BY DEF Wire
  <2>1. PICK q \in n.reads \ {b} : q.id = r.id /\ q.from = r.from
    BY <1>1
  <2> QED BY <1>3, <2>1 DEF Wire
<1>7. new \in Wire(n)
  BY <1>2 DEF Wire
<1>8. \A x \in Wire(w) : x.id # n.rt.owner
  BY ImageFacts DEF Wire, Begins
<1> QED BY <1>4, <1>5, <1>6, <1>7, <1>8 DEF new

\* Requests that are dead stay as they are.
LEMMA DeadWire ==
  ASSUME NEW w, \A r \in w.reads : ~CanCommit(r), NEW dead
  PROVE  Marked(Wire(w), dead) = Wire(w)
<1> DEFINE K(x) == [x EXCEPT !.live = x.live /\ x \notin dead]
<1>1. ASSUME NEW r \in w.reads PROVE K(Image(r)) = Image(r)
  <2> DEFINE c == Image(r) \notin dead
  <2>1. c \in BOOLEAN /\ (CanCommit(r) <=> (CanCommit(r) /\ c))
    OBVIOUS
  <2> HIDE DEF c
  <2>2. [Image(r) EXCEPT !.live = Image(r).live /\ c] = Image(r)
    BY <2>1, KilledImage
  <2> QED BY <2>2 DEF c
<1>2. Marked(Wire(w), dead) = {K(x) : x \in Wire(w)}
  BY DEF Marked
<1> HIDE DEF K
<1>3. \A x \in Wire(w) : K(x) = x
  BY <1>1 DEF Wire
<1> QED BY <1>2, <1>3

LEMMA GoneWire ==
  ASSUME NEW w, Apart(w), NEW r \in w.reads, NEW n, n.reads = w.reads \ {r}
  PROVE  Wire(n) = Wire(w) \ {Image(r)} /\ Image(r) \in Wire(w)
<1>1. \A q \in w.reads : Image(q) = Image(r) => q = r
  BY ImageFacts DEF Apart
<1>2. \A q \in w.reads : q \in n.reads <=> q # r
  OBVIOUS
<1> QED BY <1>1, <1>2 DEF Wire

SlotOf(w) == {w.rt.owner} \ {0}

\* The mapping of ImplementsFetchSlot in terms of worlds.
LEMMA Mapping ==
  /\ {[id |-> r.id, from |-> r.from, live |-> CanCommit(r)] : r \in reads} = Wire(World)
  /\ {[id |-> r.id, from |-> r.from, live |-> CanCommit(r)] : r \in reads'} = Wire(World')
  /\ {rt.owner} \ {0} = SlotOf(World) /\ {rt'.owner} \ {0} = SlotOf(World')
  /\ rt.trailing = World.rt.trailing /\ rt'.trailing = World'.rt.trailing
  /\ (Standing /\ ~cut) <=> Rests(World)
  /\ (Standing' /\ ~cut') <=> Rests(World')
  /\ shown = World.shown /\ shown' = World'.shown
<1>1. World.reads = reads /\ World'.reads = reads' /\ World.rt = rt /\ World'.rt = rt'
      /\ shown = World.shown /\ shown' = World'.shown
  BY DEF World
<1>2. (Standing /\ ~cut) <=> Rests(World)
  BY WorldFields DEF Standing, Rests
<1>3. (Standing' /\ ~cut') <=> Rests(World')
  <2>1. /\ World'.rt = rt' /\ World'.env = env' /\ World'.feed = feed' /\ World'.shown = shown'
        /\ World'.cut = cut'
    BY DEF World
  <2> QED BY <2>1 DEF Standing, Rests
<1>4. \A w : {[id |-> r.id, from |-> r.from, live |-> CanCommit(r)] : r \in w.reads} = Wire(w)
  BY DEF Wire, Image
<1> QED BY <1>1, <1>2, <1>3, <1>4 DEF SlotOf

LEMMA MarkedSlot ==
  ASSUME NEW dead
  PROVE  Slot!Killed(dead) = Marked(Wire(World), dead)
BY Mapping DEF Slot!Killed, Marked

\* Each thing a step of the scope does to its slot is the action of FetchSlot that
\* promises it.
LEMMA SaneSlot ==
  ASSUME RuntimeInv, Sane(World', ver)
  PROVE  /\ ver \in Vers /\ World \in Worlds /\ World' \in Worlds
         /\ Apart(World) /\ Apart(World') /\ OwnerOnly(World, ver) /\ OwnerOnly(World', ver)
         /\ World.rt.trailing \in BOOLEAN /\ World'.rt.trailing \in BOOLEAN
         /\ World.rt.trailing => World.rt.owner # 0
         /\ World.rt.owner \in 0..(MaxReads + 1) /\ World'.rt.owner \in 0..(MaxReads + 1)
BY SaneWorld DEF Sane, Slotted, Worlds, Scope, Owned

LEMMA WiltsLose ==
  ASSUME RuntimeInv, Sane(World', ver), ver' = ver, Wilts(World, World')
  PROVE  Slot!Lose
<1> DEFINE dead == Doomed(World, World')
<1>1. Wire(World') = Marked(Wire(World), dead)
  BY SaneSlot, AgedWire DEF Wilts
<1>2. dead \in SUBSET Wire(World)
  BY DEF Doomed
<1>3. SlotOf(World') = SlotOf(World) /\ World'.rt.trailing = World.rt.trailing
  BY SaneSlot DEF Wilts, SlotOf
<1>4. World'.shown \in {World.shown, 0}
  BY DEF Wilts
<1> HIDE DEF dead
<1>5. Wire(World') = Slot!Killed(dead)
  BY <1>1, MarkedSlot
<1> QED BY <1>2, <1>3, <1>4, <1>5, Mapping DEF Slot!Lose

LEMMA YieldsLose ==
  ASSUME RuntimeInv, Sane(World', ver), ver' = ver, Yields(World, World'),
         World.rt.trailing => ~Rests(World')
  PROVE  Slot!Lose
<1> DEFINE dead == Wire(World)
<1>1. Wire(World') = Marked(Wire(World), dead)
  <2>1. Doomed(World, World') = Wire(World)
    BY ImageFacts DEF Doomed, Wire, Yields, Aged, Elder
  <2> QED BY <2>1, SaneSlot, AgedWire DEF Yields
<1>2. dead \in SUBSET Wire(World)
  OBVIOUS
<1>3. SlotOf(World') = {} /\ World'.rt.trailing = FALSE
  BY SaneSlot DEF Yields, SlotOf
<1>4. World'.shown \in {World.shown, 0}
  BY DEF Yields
<1>5. Wire(World') = Slot!Killed(dead)
  BY <1>1, MarkedSlot
<1>6. {r \in Wire(World) : Slot!Owned(r)} \subseteq dead
  OBVIOUS
<1>7. World.rt.trailing => ~(Standing' /\ ~cut')
  BY Mapping
<1> HIDE DEF dead
<1> QED BY <1>2, <1>3, <1>4, <1>5, <1>6, <1>7, Mapping DEF Slot!Lose

LEMMA LatchesSlot ==
  ASSUME RuntimeInv, Sane(World', ver), ver' = ver, Latches(World, World')
  PROVE  Slot!LatchSignal
<1>1. Wire(World') = Wire(World) /\ SlotOf(World') = SlotOf(World) /\ World'.shown = World.shown
  BY DEF Latches, Wire, SlotOf
<1>2. SlotOf(World) # {} /\ World'.rt.trailing = TRUE
  BY SaneSlot DEF Latches, SlotOf
<1> QED BY <1>1, <1>2, Mapping DEF Slot!LatchSignal

LEMMA BeginsSlot ==
  ASSUME RuntimeInv, Sane(World', ver), ver' = ver, Begins(World, World', ver)
  PROVE  \E id \in 1..(MaxReads + 1) : Slot!Begin(id)
<1> DEFINE dead == {r \in Wire(World) : Slot!Owned(r)}
<1>1. PICK id \in 1..(MaxReads + 1) : id = World'.rt.owner
  BY SaneSlot, Bounds DEF Begins
<1>2. \A r \in World.reads : CanCommit(r) => Image(r) \in dead
  <2> SUFFICES ASSUME NEW r \in World.reads, CanCommit(r) PROVE Image(r) \in dead
    OBVIOUS
  <2>1. Image(r) \in Wire(World) /\ Image(r).id = r.id
    BY ImageFacts DEF Wire
  <2>2. r.id \in SlotOf(World)
    BY SaneSlot, OwnedLives DEF OwnerOnly, SlotOf
  <2>3. Slot!Owned(Image(r))
    BY <2>1, <2>2, Mapping DEF Slot!Owned
  <2> QED BY <2>1, <2>3
<1>3. /\ Wire(World') = Marked(Wire(World), dead) \cup {[id |-> id, from |-> ver, live |-> TRUE]}
      /\ \A x \in Wire(World) : x.id # id
  <2> HIDE DEF dead
  <2>1. /\ Wire(World') = Marked(Wire(World), dead)
                          \cup {[id |-> World'.rt.owner, from |-> ver, live |-> TRUE]}
        /\ \A x \in Wire(World) : x.id # World'.rt.owner
    BY <1>2, BegunWire
  <2> QED BY <1>1, <2>1
<1>4. SlotOf(World') = {id} /\ World'.rt.trailing = FALSE /\ World'.shown = World.shown
  BY <1>1, SaneSlot DEF Begins, SlotOf
<1>5. Wire(World') = Slot!Killed(dead) \cup {Slot!Fresh(id)}
  BY <1>3, MarkedSlot DEF Slot!Fresh
<1>6. Slot!Begin(id)
  BY <1>3, <1>4, <1>5, Mapping DEF Slot!Begin
<1> QED BY <1>6

LEMMA EndsOtherSlot ==
  ASSUME RuntimeInv, Sane(World', ver), ver' = ver, NEW r \in World.reads, EndsOther(World, World', r)
  PROVE  \E x \in Wire(World) : Slot!EndOther(x)
<1>1. Wire(World') = Wire(World) \ {Image(r)} /\ Image(r) \in Wire(World)
  BY SaneSlot, GoneWire DEF EndsOther
<1>2. SlotOf(World') = SlotOf(World) /\ World'.rt.trailing = World.rt.trailing /\ World'.shown = World.shown
  BY SaneSlot DEF EndsOther, SlotOf
<1>3. Image(r).id \notin SlotOf(World)
  BY ImageFacts DEF EndsOther, SlotOf
<1>4. PICK x \in Wire(World) : x = Image(r)
  BY <1>1
<1>5. ~Slot!Owned(x)
  BY <1>3, <1>4, Mapping DEF Slot!Owned
<1>6. Slot!EndOther(x)
  BY <1>1, <1>2, <1>4, <1>5, Mapping DEF Slot!EndOther
<1> QED BY <1>6

\* What the owner of the slot shows when it ends.
LEMMA ShowsSlot ==
  ASSUME NEW r \in World.reads, NEW s, Shows(World, s, r, ver), World'.shown = s.shown, NEW x, x = Image(r)
  PROVE  Slot!ShowsAnswer(x)
<1>1. x.from = r.from /\ (x.live <=> CanCommit(r))
  BY ImageFacts
<1>2. World'.shown = World.shown \/ (CanCommit(r) /\ World'.shown \in r.from..ver)
  BY DEF Shows
<1> QED BY <1>1, <1>2, Mapping DEF Slot!ShowsAnswer

LEMMA ClosesSlot ==
  ASSUME RuntimeInv, Sane(World', ver), ver' = ver, NEW r \in World.reads, Closes(World, World', r, ver),
         World.rt.trailing => ~Rests(World')
  PROVE  \E x \in Wire(World) : Slot!EndOwner(x)
<1>1. Wire(World') = Wire(World) \ {Image(r)} /\ Image(r) \in Wire(World)
  BY SaneSlot, GoneWire DEF Closes
<1>2. SlotOf(World') = {} /\ World'.rt.trailing = FALSE
  BY SaneSlot DEF Closes, SlotOf
<1>3. Image(r).id \in SlotOf(World)
  BY ImageFacts, SaneSlot, OwnedLives DEF Closes, SlotOf
<1>4. PICK x \in Wire(World) : x = Image(r)
  BY <1>1
<1>5. Slot!Owned(x)
  BY <1>3, <1>4, Mapping DEF Slot!Owned
<1>6. Slot!ShowsAnswer(x)
  BY <1>4, ShowsSlot DEF Closes
<1>7. World.rt.trailing => ~(Standing' /\ ~cut')
  BY Mapping
<1>8. Slot!EndOwner(x)
  BY <1>1, <1>2, <1>4, <1>5, <1>6, <1>7, Mapping DEF Slot!EndOwner
<1> QED BY <1>8

LEMMA AgainSlot ==
  ASSUME RuntimeInv, Sane(World', ver), ver' = ver, NEW r \in World.reads, World.rt.trailing,
         NEW s, Closes(World, s, r, ver), Begins(s, World', ver)
  PROVE  \E x \in Wire(World) : \E id \in 1..(MaxReads + 1) : Slot!ReadAgain(x, id)
<1>1. Wire(s) = Wire(World) \ {Image(r)} /\ Image(r) \in Wire(World)
  BY SaneSlot, GoneWire DEF Closes
<1>2. \A q \in s.reads : ~CanCommit(q)
  BY SaneSlot DEF Closes, OwnerOnly, Apart
<1>3. /\ Wire(World') = Marked(Wire(s), {}) \cup {[id |-> World'.rt.owner, from |-> ver, live |-> TRUE]}
      /\ \A x \in Wire(s) : x.id # World'.rt.owner
  BY <1>2, BegunWire
<1>4. Marked(Wire(s), {}) = Wire(s)
  BY <1>2, DeadWire
<1>5. PICK id \in 1..(MaxReads + 1) : id = World'.rt.owner
  BY SaneSlot, Bounds DEF Begins
<1>6. PICK x \in Wire(World) : x = Image(r)
  BY <1>1
<1>7. Image(r).id \in SlotOf(World)
  BY ImageFacts, SaneSlot, OwnedLives DEF Closes, SlotOf
<1>8. Slot!Owned(x)
  BY <1>6, <1>7, Mapping DEF Slot!Owned
<1>9. Slot!ShowsAnswer(x)
  <2>1. World'.shown = s.shown /\ Shows(World, s, r, ver)
    BY DEF Begins, Closes
  <2> QED BY <1>6, <2>1, ShowsSlot
<1>10. SlotOf(World') = {id} /\ World'.rt.trailing = FALSE
  BY <1>5, SaneSlot DEF Begins, SlotOf
<1>11. Wire(World') = (Wire(World) \ {x}) \cup {Slot!Fresh(id)}
  BY <1>1, <1>3, <1>4, <1>5, <1>6 DEF Slot!Fresh
<1>12. \A q \in Wire(World) \ {x} : q.id # id
  BY <1>1, <1>3, <1>5, <1>6
<1>13. Slot!ReadAgain(x, id)
  BY <1>8, <1>9, <1>10, <1>11, <1>12, Mapping DEF Slot!ReadAgain
<1> QED BY <1>13

LEMMA SlotSteps ==
  ASSUME RuntimeInv, Next
  PROVE  Slot!Next
<1>1. RuntimeInv' /\ (Scoped \/ Ages)
  BY NextRuntime
<1>2. (Standing' /\ ~cut') \in BOOLEAN
  BY DEF Standing
<1>3. CASE Ages
  <2>1. Slot!Change
    BY <1>3, Mapping DEF Ages, Slot!Change
  <2> QED BY <1>2, <2>1 DEF Slot!Next
<1>4. CASE ver' = ver /\ Stepped(World, World', ver)
  <2>1. Sane(World', ver)
    BY <1>4 DEF Stepped
  <2>2. Slot!Lose \/ Slot!LatchSignal \/ \E id \in 1..(MaxReads + 1) : Slot!Begin(id)
    BY <1>4, <2>1, WiltsLose, YieldsLose, LatchesSlot, BeginsSlot DEF Stepped, Moves
  <2> QED BY <1>2, <2>2 DEF Slot!Next
<1>5. CASE ver' = ver /\ Settled(World, World', ver)
  <2>1. Sane(World', ver)
    BY <1>5 DEF Settled
  <2>2. PICK r \in World.reads : Ends(World, World', r, ver)
    BY <1>5 DEF Settled
  <2>3. \E x \in Wire(World) :
          Slot!EndOther(x) \/ Slot!EndOwner(x) \/ \E id \in 1..(MaxReads + 1) : Slot!ReadAgain(x, id)
    BY <1>5, <2>1, <2>2, EndsOtherSlot, ClosesSlot, AgainSlot DEF Ends
  <2> QED BY <1>2, <2>3, Mapping DEF Slot!Next
<1> QED BY <1>1, <1>3, <1>4, <1>5 DEF Scoped

\* The reads of the scope keep the promise of FetchSlot: one request owns the slot, only
\* its answer is shown and only its end frees the slot, and a signal latched behind it
\* ends in a fresh read or leaves the scope with something that makes it read again
\* (transitionScopedFetchState, performFetch).
THEOREM SlotRefinement == Spec => ImplementsFetchSlot
<1>1. Init => Slot!Init
  <2> SUFFICES ASSUME Init PROVE Slot!Init
    OBVIOUS
  <2>1. reads = {} /\ rt = Untracked /\ shown = 0 /\ ver = 1
    BY DEF Init
  <2>2. rt.owner = 0 /\ rt.trailing = FALSE
    BY <2>1 DEF Untracked
  <2>3. (Standing /\ ~cut) = FALSE
    BY <2>1 DEF Standing
  <2> QED BY <2>1, <2>2, <2>3 DEF Slot!Init
<1>2. RuntimeInv /\ [Next]_vars => [Slot!Next]_(Slot!vars)
  <2>1. ASSUME UNCHANGED vars PROVE UNCHANGED Slot!vars
    <3>1. World' = World /\ ver' = ver
      BY <2>1 DEF vars, World
    <3>2. (Standing' /\ ~cut') = (Standing /\ ~cut)
      BY <3>1, Mapping DEF Standing
    <3> QED BY <3>1, <3>2, Mapping DEF Slot!vars
  <2> QED BY <2>1, SlotSteps
<1> QED BY <1>1, <1>2, RuntimeInvariant, PTL DEF Spec, ImplementsFetchSlot, Slot!Spec
-----------------------------------------------------------------------------
(* What the promise of FetchSlot is worth: proofs about it for any set of  *)
(* identities and any versions, whoever keeps it.                          *)
CONSTANT AnyIds
VARIABLES aSlot, aLate, aWire, aShown, aVer, aResting

Any == INSTANCE FetchSlot WITH
  Ids <- AnyIds, slot <- aSlot, late <- aLate, wire <- aWire, shown <- aShown,
  ver <- aVer, resting <- aResting

Requests == [id : AnyIds, from : Nat, live : BOOLEAN]

\* OnlyOwnerCommits is inductive with the types, with versions that bound what
\* is shown and what a request left at, and with identities that name requests.
SlotInv ==
  /\ aSlot \in SUBSET AnyIds /\ aLate \in BOOLEAN /\ aWire \in SUBSET Requests
  /\ aShown \in Nat /\ aVer \in Nat /\ aResting \in BOOLEAN
  /\ aShown <= aVer
  /\ \A r \in aWire : r.from <= aVer
  /\ \A q, r \in aWire : q.id = r.id => q = r
  /\ \A i, j \in aSlot : i = j
  /\ Any!OnlyOwnerCommits

\* The fields of a request survive being killed.
LEMMA KilledFields ==
  ASSUME aWire \in SUBSET Requests, NEW dead, NEW k \in Any!Killed(dead)
  PROVE  \E r \in aWire : /\ k \in Requests /\ k.id = r.id /\ k.from = r.from
                          /\ k.live = (r.live /\ r \notin dead)
                          /\ k = [r EXCEPT !.live = r.live /\ r \notin dead]
<1>1. PICK r \in aWire : k = [r EXCEPT !.live = r.live /\ r \notin dead] BY DEF Any!Killed
<1>2. r \in Requests OBVIOUS
<1>3. /\ k \in Requests /\ k.id = r.id /\ k.from = r.from
      /\ k.live = (r.live /\ r \notin dead)
  BY <1>1, <1>2 DEF Requests
<1> QED BY <1>1, <1>3

\* Killing requests keeps names apart.
LEMMA KilledApart ==
  ASSUME aWire \in SUBSET Requests, \A q, r \in aWire : q.id = r.id => q = r, NEW dead,
         NEW k \in Any!Killed(dead), NEW m \in Any!Killed(dead), k.id = m.id
  PROVE  k = m
<1>1. PICK q \in aWire : k.id = q.id /\ k = [q EXCEPT !.live = q.live /\ q \notin dead]
  BY KilledFields
<1>2. PICK r \in aWire : m.id = r.id /\ m = [r EXCEPT !.live = r.live /\ r \notin dead]
  BY KilledFields
<1>3. q = r BY <1>1, <1>2
<1> QED BY <1>1, <1>2, <1>3

\* A fresh request is a request that left at the present version.
LEMMA FreshFields ==
  ASSUME NEW id \in AnyIds, aVer \in Nat
  PROVE  /\ Any!Fresh(id) \in Requests /\ Any!Fresh(id).id = id /\ Any!Fresh(id).from = aVer
         /\ Any!Fresh(id).live
BY DEF Any!Fresh, Requests

LEMMA BeginKeeps ==
  ASSUME SlotInv, NEW id \in AnyIds, Any!Begin(id), aResting' \in BOOLEAN
  PROVE  SlotInv' /\ aShown' = aShown
<1> DEFINE dead == {r \in aWire : Any!Owned(r)}
<1> USE DEF SlotInv
<1>1. /\ aSlot' = {id} /\ aLate' = FALSE /\ aShown' = aShown /\ aVer' = aVer
      /\ aWire' = Any!Killed(dead) \cup {Any!Fresh(id)} /\ \A r \in aWire : r.id # id
  BY DEF Any!Begin
<1>2. \A k \in Any!Killed(dead) : k \in Requests /\ k.from <= aVer /\ ~k.live /\ k.id # id
  <2> SUFFICES ASSUME NEW k \in Any!Killed(dead)
               PROVE  k \in Requests /\ k.from <= aVer /\ ~k.live /\ k.id # id OBVIOUS
  <2> HIDE DEF dead
  <2>1. PICK r \in aWire : /\ k \in Requests /\ k.id = r.id /\ k.from = r.from
                           /\ k.live = (r.live /\ r \notin dead) BY KilledFields
  <2>2. r.live => r \in dead BY DEF dead, Any!OnlyOwnerCommits
  <2> QED BY <1>1, <2>1, <2>2
<1>3. \A k, m \in Any!Killed(dead) : k.id = m.id => k = m BY KilledApart
<1>4. /\ Any!Fresh(id) \in Requests /\ Any!Fresh(id).id = id /\ Any!Fresh(id).from = aVer
      /\ Any!Fresh(id).live
  BY FreshFields
<1> HIDE DEF dead
<1>5. aWire' \in SUBSET Requests BY <1>1, <1>2, <1>4
<1>6. \A r \in aWire' : r.from <= aVer' BY <1>1, <1>2, <1>4
<1>7. \A q, r \in aWire' : q.id = r.id => q = r BY <1>1, <1>2, <1>3, <1>4
<1>8. Any!OnlyOwnerCommits' BY <1>1, <1>2, <1>4 DEF Any!OnlyOwnerCommits, Any!Owned
<1> QED BY <1>1, <1>5, <1>6, <1>7, <1>8

LEMMA LoseKeeps ==
  ASSUME SlotInv, Any!Lose, aResting' \in BOOLEAN
  PROVE  SlotInv' /\ aShown' \in {aShown, 0}
<1> USE DEF SlotInv
<1>1. PICK dead \in SUBSET aWire :
        /\ aWire' = Any!Killed(dead)
        /\ \/ UNCHANGED <<aSlot, aLate>>
           \/ {r \in aWire : Any!Owned(r)} \subseteq dead /\ aSlot' = {} /\ aLate' = FALSE
  BY DEF Any!Lose
<1>2. aShown' \in {aShown, 0} /\ aVer' = aVer BY DEF Any!Lose
<1>3. \A k \in Any!Killed(dead) :
        /\ k \in Requests /\ k.from <= aVer
        /\ k.live => aSlot' = aSlot /\ k.id \in aSlot /\ k.from >= aShown
  <2> SUFFICES ASSUME NEW k \in Any!Killed(dead)
               PROVE  /\ k \in Requests /\ k.from <= aVer
                      /\ k.live => aSlot' = aSlot /\ k.id \in aSlot /\ k.from >= aShown OBVIOUS
  <2>1. PICK r \in aWire : /\ k \in Requests /\ k.id = r.id /\ k.from = r.from
                           /\ k.live = (r.live /\ r \notin dead) BY KilledFields
  <2>2. r.live => r.id \in aSlot /\ r.from >= aShown BY DEF Any!OnlyOwnerCommits, Any!Owned
  <2>3. r \notin dead /\ r.id \in aSlot => aSlot' = aSlot BY <1>1 DEF Any!Owned
  <2> QED BY <2>1, <2>2, <2>3
<1>4. \A k, m \in Any!Killed(dead) : k.id = m.id => k = m BY KilledApart
<1>5. Any!OnlyOwnerCommits' BY <1>1, <1>2, <1>3 DEF Any!OnlyOwnerCommits, Any!Owned, Requests
<1>6. aSlot' \in SUBSET AnyIds /\ aLate' \in BOOLEAN /\ \A i, j \in aSlot' : i = j BY <1>1
<1>7. aShown' \in Nat /\ aVer' \in Nat /\ aShown' <= aVer' BY <1>2
<1>8. /\ aWire' \in SUBSET Requests /\ \A q \in aWire' : q.from <= aVer'
      /\ \A p, q \in aWire' : p.id = q.id => p = q
  BY <1>1, <1>2, <1>3, <1>4
<1> QED BY <1>2, <1>5, <1>6, <1>7, <1>8

\* The end of a request: what is left on the wire, and what is shown.
LEMMA EndKeeps ==
  ASSUME SlotInv, NEW r \in aWire,
         Any!EndOther(r) \/ Any!EndOwner(r) \/ \E id \in AnyIds : Any!ReadAgain(r, id),
         aResting' \in BOOLEAN
  PROVE  SlotInv' /\ aShown' >= aShown
<1> USE DEF SlotInv
<1>0. r \in Requests OBVIOUS
<1>1. CASE Any!EndOther(r)
  BY <1>1 DEF Any!EndOther, Any!OnlyOwnerCommits, Any!Owned
<1>2. ASSUME Any!ShowsAnswer(r), Any!Owned(r), aVer' = aVer
      PROVE  /\ aShown' \in Nat /\ aShown' <= aVer /\ aShown' >= aShown
             /\ \A q \in aWire \ {r} : ~q.live
  <2>1. r.live => r.from >= aShown BY DEF Any!OnlyOwnerCommits
  <2>2. aShown' \in Nat /\ aShown' <= aVer /\ aShown' >= aShown
    BY <1>0, <1>2, <2>1 DEF Any!ShowsAnswer, Requests
  <2>3. \A q \in aWire \ {r} : ~q.live BY <1>2 DEF Any!OnlyOwnerCommits, Any!Owned
  <2> QED BY <2>2, <2>3
<1>3. CASE Any!EndOwner(r)
  <2>1. /\ aShown' \in Nat /\ aShown' <= aVer /\ aShown' >= aShown
        /\ \A q \in aWire \ {r} : ~q.live
    BY <1>2, <1>3 DEF Any!EndOwner
  <2> QED BY <1>3, <2>1 DEF Any!EndOwner, Any!OnlyOwnerCommits
<1>4. ASSUME NEW id \in AnyIds, Any!ReadAgain(r, id)
      PROVE  SlotInv' /\ aShown' >= aShown
  <2>1. /\ aShown' \in Nat /\ aShown' <= aVer /\ aShown' >= aShown
        /\ \A q \in aWire \ {r} : ~q.live
    BY <1>2, <1>4 DEF Any!ReadAgain
  <2>2. /\ Any!Fresh(id) \in Requests /\ Any!Fresh(id).id = id /\ Any!Fresh(id).from = aVer
        /\ Any!Fresh(id).live
    BY FreshFields
  <2>3. /\ aSlot' = {id} /\ aLate' = FALSE /\ aVer' = aVer
        /\ aWire' = (aWire \ {r}) \cup {Any!Fresh(id)}
        /\ \A q \in aWire \ {r} : q.id # id
    BY <1>4 DEF Any!ReadAgain
  <2>4. Any!OnlyOwnerCommits' BY <2>1, <2>2, <2>3 DEF Any!OnlyOwnerCommits, Any!Owned
  <2>5. \A p, q \in aWire' : p.id = q.id => p = q BY <2>2, <2>3
  <2>6. aWire' \in SUBSET Requests /\ \A q \in aWire' : q.from <= aVer' BY <2>2, <2>3
  <2> QED BY <2>1, <2>3, <2>4, <2>5, <2>6
<1> QED BY <1>1, <1>3, <1>4

\* One step keeps the invariant and never shows an older payload.
LEMMA StepKeeps ==
  ASSUME SlotInv, [Any!Next]_(Any!vars)
  PROVE  SlotInv' /\ (aShown' >= aShown \/ aShown' = 0)
<1>1. CASE UNCHANGED Any!vars
  BY <1>1 DEF SlotInv, Any!vars, Any!OnlyOwnerCommits, Any!Owned
<1>2. ASSUME NEW id \in AnyIds, Any!Begin(id), aResting' \in BOOLEAN
      PROVE  SlotInv' /\ aShown' = aShown
  BY <1>2, BeginKeeps
<1>3. CASE Any!LatchSignal /\ aResting' \in BOOLEAN
  BY <1>3 DEF Any!LatchSignal, SlotInv, Any!OnlyOwnerCommits, Any!Owned
<1>4. CASE Any!Lose /\ aResting' \in BOOLEAN
  <2>1. SlotInv' /\ aShown' \in {aShown, 0} BY <1>4, LoseKeeps
  <2>2. aShown >= aShown BY DEF SlotInv
  <2> QED BY <2>1, <2>2
<1>5. ASSUME NEW r \in aWire,
             Any!EndOther(r) \/ Any!EndOwner(r) \/ \E id \in AnyIds : Any!ReadAgain(r, id),
             aResting' \in BOOLEAN
      PROVE  SlotInv' /\ aShown' >= aShown
  BY <1>5, EndKeeps
<1>6. CASE Any!Change /\ aResting' \in BOOLEAN
  BY <1>6 DEF Any!Change, SlotInv, Any!OnlyOwnerCommits, Any!Owned, Requests
<1>7. CASE Any!Elsewhere /\ aResting' \in BOOLEAN
  BY <1>7 DEF Any!Elsewhere, SlotInv, Any!OnlyOwnerCommits, Any!Owned
<1>8. aShown \in Nat BY DEF SlotInv
<1> QED BY <1>1, <1>2, <1>3, <1>4, <1>5, <1>6, <1>7, <1>8 DEF Any!Next

LEMMA InitSlot ==
  ASSUME Any!Init PROVE SlotInv
<1>1. aWire \in SUBSET Requests /\ aSlot \in SUBSET AnyIds /\ Any!OnlyOwnerCommits
  BY DEF Any!Init, Any!OnlyOwnerCommits
<1>2. /\ \A r \in aWire : r.from <= aVer
      /\ \A q, r \in aWire : q.id = r.id => q = r
      /\ \A i, j \in aSlot : i = j
  BY DEF Any!Init
<1>3. aShown \in Nat /\ aVer \in Nat /\ aShown <= aVer BY DEF Any!Init
<1>4. aLate \in BOOLEAN /\ aResting \in BOOLEAN BY DEF Any!Init
<1> QED BY <1>1, <1>2, <1>3, <1>4 DEF SlotInv

\* Only the owner of the slot may still commit, whatever ends in whatever order.
THEOREM OwnerSafety == Any!Spec => []Any!OnlyOwnerCommits
<1>1. SlotInv /\ [Any!Next]_(Any!vars) => SlotInv' BY StepKeeps
<1>2. SlotInv => Any!OnlyOwnerCommits BY DEF SlotInv
<1> QED BY InitSlot, <1>1, <1>2, PTL DEF Any!Spec

\* A payload is replaced by a newer one or dropped: by SlotRefinement, the promise
\* of fetchCanCommit.
THEOREM SlotNeverOlder == Any!Spec => Any!NeverOlder
<1>1. SlotInv /\ [Any!Next]_(Any!vars) => SlotInv' BY StepKeeps
<1>2. SlotInv /\ [Any!Next]_(Any!vars) => [aShown' >= aShown \/ aShown' = 0]_(Any!vars) BY StepKeeps
<1> QED BY InitSlot, <1>1, <1>2, PTL DEF Any!Spec, Any!NeverOlder
=============================================================================
