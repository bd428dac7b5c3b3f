------------------------- MODULE ResourceStreamProofs -------------------------
(***************************************************************************)
(* Proofs about ResourceStream, for buffers, channels and queues of any    *)
(* size and any number of changes, faults and calls.                       *)
(*                                                                         *)
(* The argument follows what is under way.  A client that is connected,    *)
(* has nothing left to send and owes no resync is attached: its last       *)
(* request was answered.  Then either the session delivers, or a frame that*)
(* ends what the client knows is in its channel or on the wire; and since  *)
(* the one reset a client expects is taken for an answer, there must be    *)
(* another beside it.                                                      *)
(***************************************************************************)
EXTENDS ResourceStream, SequenceTheorems, TLAPS

-----------------------------------------------------------------------------
(* The invariant.                                                          *)

Terminal == {"RESET", "COMPLETE", "ERROR", "FORBIDDEN"}
Ended == Terminal \ {"RESET"}

\* Two frames of the queue end what the client knows.
SentTwice(q) ==
  \E i, j \in 1 .. Len(q) : i # j /\ q[i].type \in Terminal /\ q[j].type \in Terminal

\* A change carries the version it is of, at most v, and every reset a token.
Dated(q, v) ==
  \A i \in 1 .. Len(q) :
    /\ q[i].type = "CHANGED" => q[i].tok # NoToken /\ q[i].tok[2] <= v
    /\ q[i].type \in {"RESET", "COMPLETE"} => q[i].tok # NoToken

\* The last message of the queue, if any, is a request.
EndsAsking(q) == q # <<>> => q[Len(q)].type = "REQUEST"

\* Nothing in the queue names a number to resume from.
Tokenless(q) == \A i \in 1 .. Len(q) : q[i].seq = 0

\* A client that asks to resume from its number is alone on the wire.
Resuming ==
  sub.phase # "none" /\ up # <<>> /\ up[Len(up)].seq # 0 =>
    /\ Len(up) = 1 /\ down = <<>> /\ srv.sub = "none" /\ srv.chan = <<>>
    /\ sub.seq = up[Len(up)].seq /\ ~sub.expectsReset

\* What the ends of the connection know of one another.
Wired ==
  /\ conn # "open" => up = <<>> /\ down = <<>> /\ srv = NoSession
  /\ conn = "open" => outbox = <<>>
  /\ sub.phase # "none" => EndsAsking(up) /\ EndsAsking(outbox)
  /\ Tokenless(outbox)
  /\ Resuming
  /\ Dated(down, ver) /\ Dated(srv.chan, ver)

\* What the fields of a subscription say of one another.
Coherent(s) ==
  /\ s.phase = "none" => s = NoSub
  /\ s.leased => s.phase # "none" /\ ~s.unsubscribing
  /\ s.expectsReset => s.phase \in {"awaiting-ack", "synchronized"}
  /\ s.pending > 0 => s.latest # NoToken

\* The ring holds the last changes, numbered and dated without a gap, and
\* nothing that nobody listened to.
Ringed ==
  /\ Len(hub.buf) <= hub.seq /\ hub.seq <= ver
  /\ hub.seq > 0 => Len(hub.buf) > 0
  /\ \A i \in 1 .. Len(hub.buf) :
       hub.buf[i] = Changed((hub.seq - Len(hub.buf)) + i, (ver - Len(hub.buf)) + i)
  /\ hub.seq > 0 => Subscribed(srv.sub) \/ oldSub \/ otherSub
  /\ Subscribed(srv.sub) => srv.high <= hub.seq

\* The scope is wanted and connected, and the client has nothing left to send.
Attached ==
  /\ conn = "open" /\ sub.leased /\ ~Blocked(sub) /\ sub.trailing = "idle"
  /\ up = <<>> /\ ~srv.dead

\* Who expects a reset will get one, or a refusal ...
Answered == Attached /\ sub.expectsReset => Sent(down, Terminal)

\* ... and what does not deliver will say so, beside the reset that is expected.
Served ==
  Attached /\ srv.sub \notin {"live", "ending"} =>
    \/ Sent(srv.chan, {"RESET"})
    \/ Sent(down, Ended)
    \/ IF sub.expectsReset THEN SentTwice(down) ELSE Sent(down, Terminal)

\* A change the client will take in, wherever it stands by then.
Coming(q, n) == \E i \in 1 .. Len(q) : q[i].type = "CHANGED" /\ q[i].seq > n

\* The number that the client has, or that the replay on its way brings it to.
Reached == IF sub.seq > srv.high THEN sub.seq ELSE srv.high

\* The payload, held or being read, has missed no RESET.
Following == IF hasData THEN read # "kept" ELSE read = "out"

\* The client has signalled what it has taken in, and what it has not is coming.
Signalled ==
  sub.leased /\ ~Blocked(sub) /\ sub.trailing = "idle" /\ Following /\ sub.seq # 0 /\ sub.pending = 0
    => sub.at <= told
Announced ==
  Attached /\ Following /\ told < ver /\ sub.pending = 0 /\ Continuous =>
    \/ Sent(down, Terminal) \/ Sent(srv.chan, {"RESET"}) \/ srv.sub = "ending"
    \/ Coming(down, sub.seq) \/ Coming(srv.chan, Reached)

\* What holds of every domain, and of those whose resets are heard.
BaseInv == TypeOK /\ Wired /\ Coherent(sub) /\ Ringed
Flow == Answered /\ Served /\ Signalled /\ Announced
StreamInv == BaseInv /\ (domain.object => Flow)

-----------------------------------------------------------------------------
(* Queues of frames.                                                       *)

LEMMA FrameTypes ==
  /\ Cancel \in Frame /\ Ack \in Frame
  /\ \A n \in Nat : Request(n) \in Frame
BY DEF Request, Cancel, Ack, Frame, Token, NoToken

LEMMA ChangedFields ==
  ASSUME NEW n, NEW v
  PROVE  /\ Changed(n, v).type = "CHANGED" /\ Changed(n, v).seq = n
         /\ Changed(n, v).tok # NoToken /\ Changed(n, v).tok[2] = v
         /\ n \in Nat /\ v \in Nat => Changed(n, v) \in Frame
BY DEF Changed, NoToken, Frame, Token

LEMMA ResetFields ==
  ASSUME NEW k, NEW n
  PROVE  /\ Reset(k, n).type = k /\ Reset(k, n).seq = 0 /\ Reset(k, n).tok # NoToken
         /\ k \in {"RESET", "COMPLETE"} /\ n \in Nat => Reset(k, n) \in Frame
BY DEF Reset, NoToken, Frame, Token

LEMMA ErrorFields ==
  ASSUME NEW denied \in BOOLEAN
  PROVE  /\ Error(denied).type \in {"ERROR", "FORBIDDEN"} /\ Error(denied) \in Frame
BY DEF Error, Frame, Token, NoToken

LEMMA NoTokenType ==
  NoToken \in Token
BY DEF NoToken, Token

LEMMA OneFrame ==
  ASSUME NEW f \in Frame
  PROVE  <<f>> \in Seq(Frame) /\ Len(<<f>>) = 1 /\ <<f>>[1] = f
OBVIOUS

\* A queue grows at its end ...
LEMMA Joined ==
  ASSUME NEW q \in Seq(Frame), NEW r \in Seq(Frame)
  PROVE  /\ q \o r \in Seq(Frame)
         /\ \A S : Sent(q \o r, S) <=> Sent(q, S) \/ Sent(r, S)
         /\ \A n : Coming(q \o r, n) <=> Coming(q, n) \/ Coming(r, n)
         /\ SentTwice(q) => SentTwice(q \o r)
         /\ Sent(q, Terminal) /\ Sent(r, Terminal) => SentTwice(q \o r)
         /\ \A v : Dated(q \o r, v) <=> Dated(q, v) /\ Dated(r, v)
         /\ EndsAsking(r) /\ (r = <<>> => EndsAsking(q)) => EndsAsking(q \o r)
         /\ Tokenless(q) /\ Tokenless(r) => Tokenless(q \o r)
         /\ r = <<>> => q \o r = q
         /\ q = <<>> => q \o r = r
         /\ r # <<>> => q \o r # <<>> /\ (q \o r)[Len(q \o r)] = r[Len(r)]
         /\ Len(q \o r) = Len(q) + Len(r)
<1> DEFINE c == q \o r
<1>1. /\ c \in Seq(Frame) /\ Len(c) = Len(q) + Len(r)
      /\ \A i \in 1 .. Len(q) + Len(r) : c[i] = IF i <= Len(q) THEN q[i] ELSE r[i - Len(q)]
  BY ConcatProperties
<1>2. Len(q) \in Nat /\ Len(r) \in Nat /\ (Len(q) = 0 <=> q = <<>>) /\ (Len(r) = 0 <=> r = <<>>)
  BY EmptySeq, LenProperties
<1>3. \A i \in 1 .. Len(q) : i \in 1 .. Len(c) /\ c[i] = q[i]
  BY <1>1, <1>2
<1>4. \A i \in 1 .. Len(r) : Len(q) + i \in 1 .. Len(c) /\ c[Len(q) + i] = r[i]
  BY <1>1, <1>2
<1>5. \A i \in 1 .. Len(c) : \/ (i \in 1 .. Len(q) /\ c[i] = q[i])
                           \/ (i - Len(q) \in 1 .. Len(r) /\ c[i] = r[i - Len(q)])
  BY <1>1, <1>2
<1> HIDE DEF c
<1>6. ASSUME NEW S PROVE Sent(c, S) <=> Sent(q, S) \/ Sent(r, S)
  <2>1. Sent(c, S) => Sent(q, S) \/ Sent(r, S)
    BY <1>5 DEF Sent
  <2>2. Sent(q, S) => Sent(c, S)
    BY <1>3 DEF Sent
  <2>3. Sent(r, S) => Sent(c, S)
    BY <1>4 DEF Sent
  <2> QED BY <2>1, <2>2, <2>3
<1>7. ASSUME NEW n PROVE Coming(c, n) <=> Coming(q, n) \/ Coming(r, n)
  <2>1. Coming(c, n) => Coming(q, n) \/ Coming(r, n)
    BY <1>5 DEF Coming
  <2>2. Coming(q, n) => Coming(c, n)
    BY <1>3 DEF Coming
  <2>3. Coming(r, n) => Coming(c, n)
    BY <1>4 DEF Coming
  <2> QED BY <2>1, <2>2, <2>3
<1>8. SentTwice(q) => SentTwice(c)
  BY <1>3 DEF SentTwice
<1>9. ASSUME Sent(q, Terminal), Sent(r, Terminal) PROVE SentTwice(c)
  <2>1. PICK i \in 1 .. Len(q) : q[i].type \in Terminal
    BY <1>9 DEF Sent
  <2>2. PICK j \in 1 .. Len(r) : r[j].type \in Terminal
    BY <1>9 DEF Sent
  <2>3. i # Len(q) + j
    BY <1>2
  <2> QED BY <1>3, <1>4, <2>1, <2>2, <2>3 DEF SentTwice
<1>10. ASSUME NEW v PROVE Dated(c, v) <=> Dated(q, v) /\ Dated(r, v)
  <2>1. Dated(c, v) => Dated(q, v)
    BY <1>3 DEF Dated
  <2>2. Dated(c, v) => Dated(r, v)
    BY <1>4 DEF Dated
  <2>3. Dated(q, v) /\ Dated(r, v) => Dated(c, v)
    BY <1>5 DEF Dated
  <2> QED BY <2>1, <2>2, <2>3
<1>11. r = <<>> => c = q
  BY ConcatEmptySeq DEF c
<1>12. q = <<>> => c = r
  BY ConcatEmptySeq DEF c
<1>13. r # <<>> => c # <<>> /\ c[Len(c)] = r[Len(r)]
  BY <1>1, <1>2, <1>4
<1>14. EndsAsking(r) /\ (r = <<>> => EndsAsking(q)) => EndsAsking(c)
  BY <1>11, <1>13 DEF EndsAsking
<1>15. Tokenless(q) /\ Tokenless(r) => Tokenless(c)
  BY <1>5 DEF Tokenless
<1> QED BY <1>1, <1>6, <1>7, <1>8, <1>9, <1>10, <1>11, <1>12, <1>13, <1>14, <1>15 DEF c

\* ... is taken from its head ...
LEMMA Taken ==
  ASSUME NEW q \in Seq(Frame), q # <<>>
  PROVE  /\ Head(q) \in Frame /\ Tail(q) \in Seq(Frame) /\ Len(Tail(q)) = Len(q) - 1
         /\ \A S : Sent(q, S) => Head(q).type \in S \/ Sent(Tail(q), S)
         /\ \A n : Coming(q, n) => Coming(Tail(q), n)
                                   \/ (Head(q).type = "CHANGED" /\ Head(q).seq > n)
         /\ SentTwice(q) => Sent(Tail(q), Terminal)
         /\ SentTwice(q) => Head(q).type \in Terminal \/ SentTwice(Tail(q))
         /\ \A v : Dated(q, v) => Dated(Tail(q), v) /\ Dated(<<Head(q)>>, v)
         /\ EndsAsking(q) => EndsAsking(Tail(q))
         /\ Tail(q) = <<>> => Len(q) = 1 /\ Head(q) = q[Len(q)]
         /\ Tail(q) # <<>> => Tail(q)[Len(Tail(q))] = q[Len(q)]
<1> DEFINE c == Tail(q)
<1>1. /\ Head(q) \in Frame /\ c \in Seq(Frame) /\ Len(c) = Len(q) - 1
      /\ \A i \in 1 .. Len(c) : c[i] = q[i + 1]
  BY HeadTailProperties
<1>2. Len(q) \in Nat \ {0} /\ Head(q) = q[1] /\ (c = <<>> <=> Len(c) = 0)
  BY <1>1, EmptySeq
<1>3. \A i \in 1 .. Len(q) : i = 1 \/ (i - 1 \in 1 .. Len(c) /\ q[i] = c[i - 1])
  BY <1>1, <1>2
<1>4. \A i \in 1 .. Len(c) : i + 1 \in 1 .. Len(q) /\ c[i] = q[i + 1]
  BY <1>1, <1>2
<1> HIDE DEF c
<1>5. ASSUME NEW S PROVE Sent(q, S) => Head(q).type \in S \/ Sent(c, S)
  BY <1>2, <1>3 DEF Sent
<1>6. ASSUME NEW n
      PROVE  Coming(q, n) => Coming(c, n) \/ (Head(q).type = "CHANGED" /\ Head(q).seq > n)
  BY <1>2, <1>3 DEF Coming
<1>7. SentTwice(q) => Sent(c, Terminal)
  BY <1>3 DEF SentTwice, Sent
<1>13. SentTwice(q) => Head(q).type \in Terminal \/ SentTwice(c)
  <2> SUFFICES ASSUME SentTwice(q), Head(q).type \notin Terminal PROVE SentTwice(c)
    OBVIOUS
  <2>1. PICK i, j \in 1 .. Len(q) : i # j /\ q[i].type \in Terminal /\ q[j].type \in Terminal
    BY DEF SentTwice
  <2>2. /\ i - 1 \in 1 .. Len(c) /\ q[i] = c[i - 1] /\ j - 1 \in 1 .. Len(c) /\ q[j] = c[j - 1]
        /\ i - 1 # j - 1
    BY <1>2, <1>3, <2>1
  <2> QED BY <2>1, <2>2 DEF SentTwice
<1>8. ASSUME NEW v PROVE Dated(q, v) => Dated(c, v)
  BY <1>4 DEF Dated
<1>9. ASSUME NEW v PROVE Dated(q, v) => Dated(<<Head(q)>>, v)
  BY <1>1, <1>2, OneFrame DEF Dated
<1>10. c = <<>> => Len(q) = 1 /\ Head(q) = q[Len(q)]
  BY <1>1, <1>2
<1>11. c # <<>> => c[Len(c)] = q[Len(q)]
  BY <1>1, <1>2
<1>12. EndsAsking(q) => EndsAsking(c)
  BY <1>2, <1>11 DEF EndsAsking
<1> QED BY <1>1, <1>5, <1>6, <1>7, <1>8, <1>9, <1>10, <1>11, <1>12, <1>13 DEF c

\* ... and is cut when it is full.
LEMMA Cut ==
  ASSUME NEW q \in Seq(Frame), NEW n \in Nat, n <= Len(q)
  PROVE  /\ SubSeq(q, 1, n) \in Seq(Frame) /\ Len(SubSeq(q, 1, n)) = n
         /\ \A v : Dated(q, v) => Dated(SubSeq(q, 1, n), v)
<1>1. Len(q) \in Nat /\ \A i \in 1 .. n : q[i] \in Frame
  BY ElementOfSeq, LenProperties
<1>2. /\ SubSeq(q, 1, n) \in Seq(Frame) /\ Len(SubSeq(q, 1, n)) = n
      /\ \A i \in 1 .. n : SubSeq(q, 1, n)[i] = q[i]
  BY <1>1, SubSeqProperties
<1>3. \A i \in 1 .. n : i \in 1 .. Len(q)
  BY <1>1
<1>4. ASSUME NEW v PROVE Dated(q, v) => Dated(SubSeq(q, 1, n), v)
  BY <1>2, <1>3 DEF Dated
<1> QED BY <1>2, <1>4

LEMMA NothingQueued ==
  /\ <<>> \in Seq(Frame) /\ Len(<<>>) = 0 /\ EndsAsking(<<>>) /\ Tokenless(<<>>)
  /\ \A n : ~Coming(<<>>, n)
  /\ \A S : ~Sent(<<>>, S)
  /\ \A v : Dated(<<>>, v)
BY EmptySeq DEF EndsAsking, Sent, Dated, Tokenless, Coming

LEMMA Single ==
  ASSUME NEW f \in Frame
  PROVE  /\ <<f>> \in Seq(Frame) /\ <<f>> # <<>> /\ Len(<<f>>) = 1
         /\ \A S : Sent(<<f>>, S) <=> f.type \in S
         /\ \A n : Coming(<<f>>, n) <=> f.type = "CHANGED" /\ f.seq > n
         /\ \A v : Dated(<<f>>, v) <=>
              /\ f.type = "CHANGED" => f.tok # NoToken /\ f.tok[2] <= v
              /\ f.type \in {"RESET", "COMPLETE"} => f.tok # NoToken
         /\ EndsAsking(<<f>>) <=> f.type = "REQUEST"
         /\ Tokenless(<<f>>) <=> f.seq = 0
<1>1. <<f>> \in Seq(Frame) /\ Len(<<f>>) = 1 /\ <<f>>[1] = f /\ <<f>> # <<>>
  BY OneFrame
<1>2. \A i : i \in 1 .. Len(<<f>>) <=> i = 1
  BY <1>1
<1> QED BY <1>1, <1>2 DEF Sent, Coming, Dated, EndsAsking, Tokenless

-----------------------------------------------------------------------------
(* Turns of the client.                                                    *)

TurnSet == [s : Subscription, out : Seq(Frame), sig : Token, told : Nat,
            read : {"none", "out", "missed", "kept"}]

\* A turn speaks of the newest version, or says nothing of it.
Informs(t, r) ==
  /\ r.read \in {t.read, Refetched(t.read)}
  /\ r.told = ver \/ (r.told = t.told /\ r.read = t.read)

\* It lets a payload that has missed a RESET follow the cluster again only by
\* signalling the newest version.
Followed(read0) == IF hasData THEN read0 # "kept" ELSE read0 = "out"
Follows(t) == t.read \in ReadStates /\ (t.told # ver /\ Followed(t.read) => Followed(read))

\* A resync was started ...
Restarted(s, t) ==
  /\ t.out = <<Request(0)>>
  /\ t.s.phase = "awaiting-ack" /\ t.s.expectsReset /\ t.s.seq = 0 /\ t.s.at = 0
  /\ t.s.pending = 0 /\ t.s.latest = NoToken /\ t.s.trailing = "idle"
  /\ t.s.leased = s.leased /\ t.s.unsubscribing = s.unsubscribing

\* ... or is owed, for the cooldown of the last one is not over.
Owes(t, r) ==
  /\ t.s.cooling /\ r.out = t.out /\ r.told = t.told /\ r.read = t.read /\ r.s.trailing # "idle"
  /\ r.s = [t.s EXCEPT !.trailing = r.s.trailing]

LEMMA TurnFacts ==
  ASSUME NEW s \in Subscription, TypeOK
  PROVE  /\ Turn(s) \in TurnSet /\ Turn(s).s = s /\ Turn(s).out = <<>>
         /\ Turn(s).told = told /\ Turn(s).sig = sig /\ Turn(s).read = read
BY NothingQueued DEF Turn, TurnSet, TypeOK, ReadStates

LEMMA InformsFollows ==
  ASSUME NEW t, NEW r, Informs(t, r), Follows(t)
  PROVE  Follows(r)
BY DEF Informs, Follows, Refetched, ReadStates

LEMMA AdvanceFacts ==
  ASSUME NEW t \in TurnSet, NEW token \in Token, TypeOK
  PROVE  LET r == Advance(t, token)
         IN /\ r \in TurnSet /\ r.s = t.s /\ r.out = t.out
            /\ Informs(t, r) /\ r.told \in {t.told, ver}
            /\ token # NoToken => r.told = ver
<1>1. ver \in Nat
  BY BoundsAssumption DEF TypeOK
<1> QED BY <1>1 DEF Advance, TurnSet, Informs, Refetched

LEMMA RequestResyncFacts ==
  ASSUME NEW t \in TurnSet, NEW force \in BOOLEAN, NEW why \in {"lifecycle", "recovery"},
         TypeOK, t.out = <<>>, ~Blocked(t.s)
  PROVE  LET r == RequestResync(t, force, why)
         IN /\ r \in TurnSet /\ Informs(t, r)
            /\ Restarted(t.s, r) \/ Owes(t, r)
<1> DEFINE s == t.s
           started == [s EXCEPT !.phase = "awaiting-ack", !.expectsReset = TRUE,
                         !.preserved = why = "lifecycle" /\ Confirmed(s), !.seq = 0, !.at = 0,
                         !.pending = 0, !.latest = NoToken, !.cooling = TRUE, !.trailing = "idle"]
           a == Advance(t, s.latest)
           r == RequestResync(t, force, why)
<1>1. s \in Subscription /\ s.latest \in Token
  BY DEF TurnSet, Subscription
<1>2. CASE s.cooling /\ ~force
  <2>1. r = [t EXCEPT !.s = LatchTrailing(s, why)]
    BY <1>2 DEF RequestResync
  <2>2. PICK w \in {"lifecycle", "recovery"} : LatchTrailing(s, why) = [s EXCEPT !.trailing = w]
    BY <1>1 DEF LatchTrailing, Subscription
  <2>3. [s EXCEPT !.trailing = w] \in Subscription /\ [s EXCEPT !.trailing = w].trailing = w
    BY <1>1 DEF Subscription
  <2>4. /\ r \in TurnSet /\ r.s = [s EXCEPT !.trailing = w] /\ r.out = t.out
        /\ r.told = t.told /\ r.read = t.read
    BY <2>1, <2>2, <2>3 DEF TurnSet
  <2> QED BY <1>2, <2>3, <2>4 DEF Owes, Informs
<1>3. CASE ~(s.cooling /\ ~force)
  <2>1. r = [a EXCEPT !.s = started, !.out = Append(@, Request(0))]
    BY <1>3 DEF RequestResync
  <2>2. a \in TurnSet /\ a.out = <<>> /\ Informs(t, a)
    BY <1>1, AdvanceFacts
  <2>3. Confirmed(s) \in BOOLEAN
    BY <1>1 DEF Confirmed, Subscription
  <2>4. started \in Subscription
    <3> DEFINE p == why = "lifecycle" /\ Confirmed(s)
    <3>1. p \in BOOLEAN
      BY <2>3
    <3>2. 0 \in 0 .. MaxPending /\ NoToken \in Token
      BY NoTokenType, BoundsAssumption
    <3> HIDE DEF p
    <3>3. [s EXCEPT !.phase = "awaiting-ack", !.expectsReset = TRUE, !.preserved = p, !.seq = 0,
             !.at = 0, !.pending = 0, !.latest = NoToken, !.cooling = TRUE, !.trailing = "idle"]
            \in Subscription
      BY <1>1, <3>1, <3>2 DEF Subscription
    <3> QED BY <3>3 DEF p
  <2>5. Append(<<>>, Request(0)) = <<Request(0)>> /\ <<Request(0)>> \in Seq(Frame)
    BY FrameTypes, Single
  <2>6. /\ r \in TurnSet /\ r.s = started /\ r.out = <<Request(0)>>
        /\ r.told = a.told /\ r.read = a.read
    <3> DEFINE out == <<Request(0)>>
    <3>1. out \in Seq(Frame) /\ Append(a.out, Request(0)) = out
      BY <2>2, <2>5
    <3> HIDE DEF started, out, a, r
    <3>2. r = [a EXCEPT !.s = started, !.out = out]
      BY <2>1, <3>1 DEF a
    <3>3. r \in TurnSet /\ r.s = started /\ r.out = out /\ r.told = a.told /\ r.read = a.read
      BY <2>2, <2>4, <3>1, <3>2 DEF TurnSet
    <3> QED BY <3>3 DEF out, a
  <2>7. Restarted(s, r)
    BY <1>1, <2>6 DEF Restarted, Subscription
  <2>8. Informs(t, r)
    BY <2>2, <2>6 DEF Informs
  <2> QED BY <2>6, <2>7, <2>8
<1> QED BY <1>2, <1>3

LEMMA ResyncFacts ==
  ASSUME NEW t \in TurnSet, NEW force \in BOOLEAN, NEW why \in {"lifecycle", "recovery"},
         TypeOK, t.out = <<>>
  PROVE  LET r == Resync(t, force, why)
         IN /\ r \in TurnSet /\ Informs(t, r)
            /\ \/ r = t /\ (Blocked(t.s) \/ t.s.unsubscribing)
               \/ ~t.s.unsubscribing /\ ~Blocked(t.s) /\ (Restarted(t.s, r) \/ Owes(t, r))
<1>1. CASE t.s.unsubscribing
  BY <1>1 DEF Resync, Informs
<1>2. CASE ~t.s.unsubscribing /\ Blocked(t.s)
  BY <1>2 DEF Resync, RequestResync, Informs
<1>3. CASE ~t.s.unsubscribing /\ ~Blocked(t.s)
  BY <1>3, RequestResyncFacts DEF Resync
<1> QED BY <1>1, <1>2, <1>3

LEMMA RestartedCoherent ==
  ASSUME NEW t \in TurnSet, NEW s \in Subscription, Restarted(s, t), Coherent(s)
  PROVE  Coherent(t.s)
BY DEF Restarted, Coherent, NoSub, TurnSet, Subscription

LEMMA OwesCoherent ==
  ASSUME NEW t \in TurnSet, NEW r \in TurnSet, Owes(t, r), Coherent(t.s), t.s.phase # "none"
  PROVE  Coherent(r.s)
BY DEF Owes, Coherent, TurnSet, Subscription

\* What every turn of a subscription is: well formed, no later than the cluster,
\* and without a say in whether the scope is wanted.
Fit(s, t) ==
  /\ t \in TurnSet /\ told <= t.told /\ t.told <= ver /\ Follows(t)
  /\ t.s.at <= ver /\ Coherent(t.s)
  /\ t.s.leased = s.leased /\ t.s.unsubscribing = s.unsubscribing

\* A resync leaves the subscription as it was only if nobody wants it resynced.
LEMMA ResyncFit ==
  ASSUME NEW s \in Subscription, NEW t, Fit(s, t), t.out = <<>>, t.s.phase # "none",
         NEW force \in BOOLEAN, NEW why \in {"lifecycle", "recovery"}, TypeOK
  PROVE  LET r == Resync(t, force, why)
         IN /\ Fit(s, r) /\ r.s.phase # "none"
            /\ \/ Restarted(s, r)
               \/ Owes(t, r) /\ ~t.s.unsubscribing
               \/ r = t /\ (Blocked(t.s) \/ t.s.unsubscribing)
<1> DEFINE r == Resync(t, force, why)
           Goal == /\ Fit(s, r) /\ r.s.phase # "none"
                   /\ \/ Restarted(s, r)
                      \/ Owes(t, r) /\ ~t.s.unsubscribing
                      \/ r = t /\ (Blocked(t.s) \/ t.s.unsubscribing)
<1> SUFFICES Goal
  OBVIOUS
<1>1. t \in TurnSet /\ ver \in Nat /\ told \in Nat /\ told <= ver /\ t.told \in Nat /\ t.s \in Subscription
  BY BoundsAssumption DEF Fit, TypeOK, TurnSet
<1>2. /\ r \in TurnSet /\ Informs(t, r)
      /\ \/ r = t /\ (Blocked(t.s) \/ t.s.unsubscribing)
         \/ ~t.s.unsubscribing /\ ~Blocked(t.s) /\ (Restarted(t.s, r) \/ Owes(t, r))
  BY <1>1, ResyncFacts
<1> HIDE DEF r
<1>3. told <= r.told /\ r.told <= ver /\ Follows(r)
  <2>1. Follows(r)
    BY <1>2, InformsFollows DEF Fit
  <2> QED BY <1>1, <1>2, <2>1 DEF Fit, Informs
<1>4. CASE r = t /\ (Blocked(t.s) \/ t.s.unsubscribing)
  BY <1>4
<1>5. CASE ~t.s.unsubscribing /\ Restarted(t.s, r)
  <2>1. Restarted(s, r)
    BY <1>5 DEF Restarted, Fit
  <2>2. Coherent(r.s)
    BY <1>1, <1>2, <1>5, RestartedCoherent DEF Fit
  <2>3. r.s.at <= ver /\ r.s.phase # "none"
    BY <1>1, <2>1 DEF Restarted
  <2> QED BY <1>2, <1>3, <2>1, <2>2, <2>3 DEF Fit, Restarted
<1>6. CASE ~t.s.unsubscribing /\ Owes(t, r)
  <2>1. Coherent(r.s)
    BY <1>1, <1>2, <1>6, OwesCoherent DEF Fit
  <2>2. /\ r.s.at = t.s.at /\ r.s.phase = t.s.phase /\ r.s.leased = t.s.leased
        /\ r.s.unsubscribing = t.s.unsubscribing
    BY <1>1, <1>6 DEF Owes, Subscription
  <2> QED BY <1>2, <1>3, <1>6, <2>1, <2>2 DEF Fit
<1> QED BY <1>2, <1>4, <1>5, <1>6

-----------------------------------------------------------------------------
(* What a frame from the backend makes of the subscription.                *)

\* Everything a resume rests on, and what is left to signal, is as it was.
SamePlace(t) ==
  /\ t.s.seq = sub.seq /\ t.s.at = sub.at /\ t.s.pending = sub.pending
  /\ t.s.trailing = sub.trailing

Ignored(m, t) ==
  /\ t = Turn(sub)
  /\ \/ sub.phase = "none" \/ Blocked(sub) \/ ~Normalizes(m)
     \/ (m.type = "CHANGED" /\ sub.seq # 0 /\ m.seq <= sub.seq)
Accepted(m, t) ==
  /\ m.type = "CHANGED" /\ t.out = <<>> /\ t.s.seq = m.seq /\ t.s.at = m.tok[2]
  /\ t.s.pending > 0 /\ t.s.trailing = sub.trailing /\ ~Blocked(sub)
  /\ t.s.expectsReset => sub.expectsReset
Settled(m, t) ==
  /\ m.type = "RESET" /\ sub.expectsReset /\ ~t.s.expectsReset /\ t.out = <<>> /\ SamePlace(t)
  /\ ~Blocked(sub) /\ (t.told = ver \/ ~Followed(t.read))
Acknowledged(m, t) ==
  /\ m.type = "ACK" /\ t.out = <<>> /\ SamePlace(t) /\ t.told = told /\ t.read = read
  /\ ~Blocked(sub)
  /\ t.s.expectsReset => sub.expectsReset
Denied(t) == t.out = <<>> /\ Blocked(t.s)
\* A resync was due: it was started, is owed, or nobody wants it.
Resynced(t) ==
  \/ Restarted(sub, t)
  \/ t.out = <<>> /\ (t.s.trailing # "idle" \/ t.s.unsubscribing \/ Blocked(t.s))

\* A change carries its version and a reset its token.
Sealed(m) ==
  /\ m.type = "CHANGED" => m.tok # NoToken /\ m.tok[2] <= ver
  /\ m.type \in {"RESET", "COMPLETE"} => m.tok # NoToken

LEMMA ResyncedFit ==
  ASSUME TypeOK, NEW t, Fit(sub, t), t.out = <<>>, t.s.phase # "none",
         NEW force \in BOOLEAN
  PROVE  LET r == Resync(t, force, "recovery")
         IN Fit(sub, r) /\ r.s.phase # "none" /\ Resynced(r)
<1> DEFINE r == Resync(t, force, "recovery")
<1>1. sub \in Subscription
  BY DEF TypeOK
<1>2. /\ Fit(sub, r) /\ r.s.phase # "none"
      /\ \/ Restarted(sub, r)
         \/ Owes(t, r) /\ ~t.s.unsubscribing
         \/ r = t /\ (Blocked(t.s) \/ t.s.unsubscribing)
  BY <1>1, ResyncFit
<1> QED BY <1>2 DEF Resynced, Owes

LEMMA AnyTurnFit ==
  ASSUME TypeOK, NEW s \in Subscription, s.at <= ver, Coherent(s)
  PROVE  /\ Fit(s, Turn(s)) /\ Turn(s).s = s /\ Turn(s).out = <<>>
         /\ Turn(s).told = told /\ Turn(s).read = read
<1>1. ver \in Nat /\ told \in Nat /\ told <= ver /\ read \in ReadStates
  BY BoundsAssumption DEF TypeOK
<1>2. Follows(Turn(s))
  BY <1>1, TurnFacts DEF Follows
<1> QED BY <1>1, <1>2, TurnFacts DEF Fit

LEMMA TurnFit ==
  ASSUME TypeOK, Coherent(sub)
  PROVE  /\ Fit(sub, Turn(sub)) /\ Turn(sub).s = sub /\ Turn(sub).out = <<>>
         /\ Turn(sub).told = told /\ Turn(sub).read = read
BY AnyTurnFit DEF TypeOK

LEMMA ReceiveAckFit ==
  ASSUME TypeOK, Coherent(sub), NEW m \in Frame, m.type = "ACK", sub.phase # "none", ~Blocked(sub)
  PROVE  LET r == ReceiveAck(Turn(sub)) IN Fit(sub, r) /\ r.s.phase # "none" /\ Acknowledged(m, r)
<1> DEFINE t == Turn(sub)
           p == (sub.phase \in {"awaiting-ack", "synchronized"}) /\ sub.expectsReset
           s == [sub EXCEPT !.phase = "synchronized", !.preserved = FALSE, !.expectsReset = p]
<1>1. Fit(sub, t) /\ t.s = sub /\ t.out = <<>> /\ t.told = told /\ t.read = read /\ t \in TurnSet
  BY TurnFit DEF Fit
<1>2. sub \in Subscription /\ p \in BOOLEAN
  BY DEF TypeOK, Subscription
<1>3. ReceiveAck(t) = [t EXCEPT !.s = s]
  BY <1>1 DEF ReceiveAck
<1>4. p => sub.expectsReset
  OBVIOUS
<1> HIDE DEF p, t
<1>5. s \in Subscription
  BY <1>2 DEF Subscription
<1>6. Coherent(s)
  BY <1>2, <1>4 DEF Coherent, Subscription
<1>7. /\ s.seq = sub.seq /\ s.at = sub.at /\ s.pending = sub.pending /\ s.trailing = sub.trailing
      /\ s.leased = sub.leased /\ s.unsubscribing = sub.unsubscribing /\ s.phase = "synchronized"
      /\ s.expectsReset = p
  BY <1>2 DEF Subscription
<1> DEFINE r == [t EXCEPT !.s = s]
<1> HIDE DEF s
<1>8. r \in TurnSet /\ r.s = s /\ r.out = t.out /\ r.told = t.told /\ r.read = t.read
  BY <1>1, <1>5 DEF TurnSet
<1> HIDE DEF r
<1>9. Fit(sub, r)
  BY <1>1, <1>6, <1>7, <1>8 DEF Fit, Follows
<1> QED BY <1>1, <1>3, <1>4, <1>7, <1>8, <1>9 DEF Acknowledged, SamePlace, r, t

LEMMA Amended ==
  ASSUME NEW t \in TurnSet, NEW s \in Subscription
  PROVE  LET r == [t EXCEPT !.s = s]
         IN /\ r \in TurnSet /\ r.s = s /\ r.out = t.out /\ r.sig = t.sig
            /\ r.told = t.told /\ r.read = t.read
BY DEF TurnSet

\* The subscription as a loss or a refusal leaves it.
Disconnected(s) == [s EXCEPT !.phase = "connecting", !.expectsReset = FALSE, !.preserved = FALSE]

LEMMA DisconnectedFit ==
  ASSUME TypeOK, Coherent(sub), sub.phase # "none"
  PROVE  LET r == [Turn(sub) EXCEPT !.s = Disconnected(sub)]
         IN Fit(sub, r) /\ r.s.phase = "connecting" /\ r.out = <<>> /\ SamePlace(r)
<1> DEFINE s == Disconnected(sub)
<1>1. Fit(sub, Turn(sub)) /\ Turn(sub).out = <<>> /\ Turn(sub) \in TurnSet
  BY TurnFit DEF Fit
<1>2. sub \in Subscription
  BY DEF TypeOK
<1>3. /\ s \in Subscription /\ s.seq = sub.seq /\ s.at = sub.at /\ s.pending = sub.pending
      /\ s.trailing = sub.trailing /\ s.leased = sub.leased /\ s.unsubscribing = sub.unsubscribing
      /\ s.phase = "connecting" /\ ~s.expectsReset /\ s.latest = sub.latest
  BY <1>2 DEF Subscription, Disconnected
<1>4. Coherent(s)
  BY <1>3 DEF Coherent
<1>5. sub.at <= ver
  BY DEF TypeOK
<1> HIDE DEF s
<1> DEFINE r == [Turn(sub) EXCEPT !.s = s]
<1>6. /\ r \in TurnSet /\ r.s = s /\ r.out = <<>>
      /\ r.told = Turn(sub).told /\ r.read = Turn(sub).read
  BY <1>1, <1>3, Amended
<1> HIDE DEF r
<1>7. Fit(sub, r) /\ SamePlace(r)
  BY <1>1, <1>3, <1>4, <1>5, <1>6 DEF Fit, SamePlace, Follows
<1> QED BY <1>3, <1>6, <1>7 DEF r, s

LEMMA ReceiveErrorFit ==
  ASSUME TypeOK, Coherent(sub), sub.phase # "none"
  PROVE  LET r == ReceiveError(Turn(sub)) IN Fit(sub, r) /\ r.s.phase # "none" /\ Resynced(r)
<1> DEFINE t == Turn(sub)
           lost == [t EXCEPT !.s = Disconnected(sub)]
<1>1. t \in TurnSet /\ t.s = sub
  BY TurnFit DEF Fit
<1>2. ReceiveError(t) = Resync(lost, FALSE, "recovery")
  BY <1>1 DEF ReceiveError, Disconnected
<1>3. Fit(sub, lost) /\ lost.s.phase # "none" /\ lost.out = <<>>
  BY DisconnectedFit
<1> HIDE DEF lost
<1>4. Fit(sub, Resync(lost, FALSE, "recovery")) /\ Resync(lost, FALSE, "recovery").s.phase # "none"
      /\ Resynced(Resync(lost, FALSE, "recovery"))
  BY <1>3, ResyncedFit
<1> QED BY <1>2, <1>4 DEF t

LEMMA ForbiddenFit ==
  ASSUME TypeOK, Coherent(sub), sub.phase # "none"
  PROVE  LET r == [Turn(sub) EXCEPT !.s.phase = "permission-blocked", !.s.expectsReset = FALSE,
                                    !.s.preserved = FALSE]
         IN Fit(sub, r) /\ r.s.phase # "none" /\ Denied(r)
<1> DEFINE t == Turn(sub)
           s == [sub EXCEPT !.phase = "permission-blocked", !.expectsReset = FALSE,
                            !.preserved = FALSE]
           r == [t EXCEPT !.s = s]
<1>1. Fit(sub, t) /\ t.out = <<>> /\ t \in TurnSet /\ t.s = sub
  BY TurnFit DEF Fit
<1>2. sub \in Subscription /\ sub.at <= ver
  BY DEF TypeOK
<1>3. /\ s \in Subscription /\ s.at = sub.at /\ s.pending = sub.pending /\ s.leased = sub.leased
      /\ s.unsubscribing = sub.unsubscribing /\ s.phase = "permission-blocked"
      /\ ~s.expectsReset /\ s.latest = sub.latest
  BY <1>2 DEF Subscription
<1>4. Coherent(s)
  BY <1>3 DEF Coherent
<1>5. [t EXCEPT !.s.phase = "permission-blocked", !.s.expectsReset = FALSE,
                !.s.preserved = FALSE] = r
  BY <1>1
<1> HIDE DEF s, t
<1>6. r \in TurnSet /\ r.s = s /\ r.out = <<>> /\ r.told = t.told /\ r.read = t.read
  BY <1>1, <1>3, Amended
<1> HIDE DEF r
<1>7. Fit(sub, r) /\ r.s.phase # "none" /\ Denied(r)
  BY <1>1, <1>2, <1>3, <1>4, <1>6 DEF Fit, Follows, Denied, Blocked
<1> QED BY <1>5, <1>7 DEF t

LEMMA AdvanceFit ==
  ASSUME TypeOK, Coherent(sub), NEW t, Fit(sub, t), NEW token \in Token
  PROVE  LET r == Advance(t, token)
         IN /\ Fit(sub, r) /\ r.s = t.s /\ r.out = t.out
            /\ r.told = IF token = NoToken THEN t.told ELSE ver
<1>1. t \in TurnSet /\ ver \in Nat /\ told <= ver
  BY BoundsAssumption DEF Fit, TypeOK
<1> DEFINE r == Advance(t, token)
<1>2. /\ r \in TurnSet /\ r.s = t.s /\ r.out = t.out /\ r.told \in {t.told, ver}
      /\ Follows(r)
  BY <1>1, AdvanceFacts, InformsFollows DEF Fit
<1>3. r.told = IF token = NoToken THEN t.told ELSE ver
  BY <1>1 DEF Advance, TurnSet
<1>4. Fit(sub, r)
  BY <1>1, <1>2 DEF Fit
<1> QED BY <1>2, <1>3, <1>4

LEMMA ReceiveResetFit ==
  ASSUME TypeOK, Coherent(sub), sub.phase # "none", ~Blocked(sub), NEW m \in Frame,
         m.type \in {"RESET", "COMPLETE"}, Sealed(m)
  PROVE  LET r == ReceiveReset(Turn(sub), m)
         IN Fit(sub, r) /\ r.s.phase # "none" /\ (Settled(m, r) \/ Resynced(r))
<1> DEFINE t == Turn(sub)
           r == ReceiveReset(t, m)
<1>1. Fit(sub, t) /\ t.s = sub /\ t.out = <<>> /\ t.told = told /\ t.read = read /\ t \in TurnSet
  BY TurnFit DEF Fit
<1>2. m.tok \in Token /\ m.tok # NoToken
  BY DEF Frame, Sealed
<1>3. CASE IsInitialReset(sub, m)
  <2> DEFINE s == [sub EXCEPT !.phase = "synchronized", !.expectsReset = FALSE, !.preserved = FALSE]
             u == [t EXCEPT !.s = s]
  <2>1. sub \in Subscription /\ sub.at <= ver
    BY DEF TypeOK
  <2>2. /\ s \in Subscription /\ s.seq = sub.seq /\ s.at = sub.at /\ s.pending = sub.pending
        /\ s.trailing = sub.trailing /\ s.leased = sub.leased
        /\ s.unsubscribing = sub.unsubscribing /\ s.phase = "synchronized"
        /\ ~s.expectsReset /\ s.latest = sub.latest
    BY <2>1 DEF Subscription
  <2>3. Coherent(s)
    BY <2>2 DEF Coherent
  <2> DEFINE w == [u EXCEPT !.read = IF u.read = "out" THEN "missed" ELSE u.read]
  <2>4. r = IF hasData THEN Advance(u, m.tok) ELSE w
    <3> DEFINE settled == [t EXCEPT !.s.phase = "synchronized", !.s.expectsReset = FALSE,
                                    !.s.preserved = FALSE]
               missed == [settled EXCEPT !.read = IF @ = "out" THEN "missed" ELSE @]
    <3>1. settled = u
      BY <1>1
    <3>2. r = IF hasData THEN Advance(settled, m.tok) ELSE missed
      BY <1>1, <1>3 DEF ReceiveReset
    <3> HIDE DEF settled, u, r
    <3> QED BY <3>1, <3>2
  <2> HIDE DEF s, t
  <2>5. u \in TurnSet /\ u.s = s /\ u.out = <<>> /\ u.told = told /\ u.read = read
    BY <1>1, <2>2, Amended
  <2> HIDE DEF u
  <2>6. Fit(sub, u)
    BY <1>1, <2>1, <2>2, <2>3, <2>5 DEF Fit, Follows
  <2>7. /\ Fit(sub, Advance(u, m.tok)) /\ Advance(u, m.tok).s = s
        /\ Advance(u, m.tok).out = <<>> /\ Advance(u, m.tok).told = ver
    BY <1>2, <2>5, <2>6, AdvanceFit
  <2>10. ASSUME ~hasData
         PROVE  Fit(sub, w) /\ w.s = s /\ w.out = <<>> /\ ~Followed(w.read)
    <3>1. w \in TurnSet /\ w.s = s /\ w.out = <<>> /\ w.told = told
          /\ w.read = IF read = "out" THEN "missed" ELSE read
      BY <2>5 DEF TurnSet
    <3> HIDE DEF w
    <3>2. read \in {"none", "out", "missed"}
      BY <2>10 DEF TypeOK, ReadStates
    <3>3. ~Followed(w.read) /\ w.read \in ReadStates
      BY <2>10, <3>1, <3>2 DEF Followed, ReadStates
    <3>4. Follows(w)
      BY <3>3 DEF Follows
    <3>5. Fit(sub, w)
      BY <2>5, <2>6, <3>1, <3>4 DEF Fit
    <3> QED BY <3>1, <3>3, <3>5
  <2> HIDE DEF r, w
  <2>8. Fit(sub, r) /\ r.s = s /\ r.out = <<>> /\ (r.told = ver \/ ~Followed(r.read))
    BY <2>4, <2>7, <2>10
  <2>9. Settled(m, r) /\ r.s.phase # "none"
    BY <1>3, <2>2, <2>8 DEF Settled, SamePlace, IsInitialReset
  <2> QED BY <2>8, <2>9 DEF r, t
<1>4. CASE ~IsInitialReset(sub, m)
  <2> DEFINE a == Advance(t, m.tok)
  <2>1. r = Resync(a, FALSE, "recovery")
    BY <1>1, <1>4 DEF ReceiveReset
  <2> HIDE DEF t
  <2>2. Fit(sub, a) /\ a.s = sub /\ a.out = <<>>
    BY <1>1, <1>2, AdvanceFit
  <2> HIDE DEF a, r
  <2>3. Fit(sub, r) /\ r.s.phase # "none" /\ Resynced(r)
    BY <2>1, <2>2, ResyncedFit
  <2> QED BY <2>3 DEF r, t
<1> QED BY <1>3, <1>4

\* The subscription with so many changes waiting for the flush.
Counted(s, n, token) == [s EXCEPT !.pending = n, !.latest = token]

LEMMA CountedFields ==
  ASSUME NEW s \in Subscription, NEW n \in 0 .. MaxPending, NEW token \in Token
  PROVE  LET r == Counted(s, n, token)
         IN /\ r \in Subscription /\ r.pending = n /\ r.latest = token /\ r.seq = s.seq
            /\ r.at = s.at /\ r.leased = s.leased /\ r.unsubscribing = s.unsubscribing
            /\ r.phase = s.phase /\ r.expectsReset = s.expectsReset /\ r.trailing = s.trailing
BY DEF Subscription, Counted

LEMMA ReceiveChangedFit ==
  ASSUME TypeOK, Coherent(sub), sub.phase # "none", ~Blocked(sub), NEW m \in Frame,
         m.type = "CHANGED", Sealed(m)
  PROVE  LET r == ReceiveChanged(Turn(sub), m)
         IN /\ Fit(sub, r) /\ r.s.phase # "none"
            /\ Ignored(m, r) \/ Accepted(m, r) \/ Resynced(r)
<1> DEFINE t == Turn(sub)
           r == ReceiveChanged(t, m)
           p == (sub.phase \in {"awaiting-ack", "synchronized"}) /\ sub.expectsReset
           base == [sub EXCEPT !.phase = "synchronized", !.seq = m.seq, !.at = m.tok[2],
                               !.preserved = FALSE, !.expectsReset = p]
           emptied == Counted(base, 0, NoToken)
           counted == Counted(base, base.pending + 1, m.tok)
<1>1. Fit(sub, t) /\ t.s = sub /\ t.out = <<>> /\ t.told = told /\ t.read = read /\ t \in TurnSet
  BY TurnFit DEF Fit
<1>2. sub \in Subscription /\ p \in BOOLEAN /\ (p => sub.expectsReset) /\ ver \in Nat
  BY BoundsAssumption DEF TypeOK, Subscription
<1>3. /\ m.tok \in Token /\ m.tok # NoToken /\ m.tok[2] \in Nat /\ m.tok[2] <= ver
      /\ m.seq \in Nat
  BY DEF Frame, Token, Sealed
<1>4. r = IF sub.seq # 0 /\ m.seq <= sub.seq THEN t
          ELSE IF domain.complete THEN Resync([t EXCEPT !.s = base], FALSE, "recovery")
          ELSE IF Overflows(sub) THEN Resync([t EXCEPT !.s = emptied], TRUE, "recovery")
          ELSE [t EXCEPT !.s = counted]
  BY <1>1 DEF ReceiveChanged, Counted
<1> HIDE DEF p, t
<1>5. /\ base \in Subscription /\ base.at = m.tok[2] /\ base.leased = sub.leased
      /\ base.unsubscribing = sub.unsubscribing /\ base.phase = "synchronized"
      /\ base.expectsReset = p /\ base.seq = m.seq /\ base.pending = sub.pending
      /\ base.latest = sub.latest /\ base.trailing = sub.trailing
  BY <1>2, <1>3 DEF Subscription
<1>6. Coherent(base)
  BY <1>5 DEF Coherent
<1> HIDE DEF base
<1>7. /\ emptied \in Subscription /\ emptied.at = m.tok[2] /\ emptied.leased = sub.leased
      /\ emptied.unsubscribing = sub.unsubscribing /\ emptied.phase = "synchronized"
      /\ emptied.pending = 0 /\ emptied.expectsReset = base.expectsReset
  <2>1. 0 \in 0 .. MaxPending /\ NoToken \in Token
    BY NoTokenType, BoundsAssumption
  <2> QED BY <1>5, <2>1, CountedFields
<1>8. Coherent(emptied)
  BY <1>6, <1>7, <1>5 DEF Coherent
<1>9. CASE sub.seq # 0 /\ m.seq <= sub.seq
  <2>1. r = t
    BY <1>4, <1>9
  <2>2. Ignored(m, t)
    BY <1>9 DEF Ignored, t
  <2> QED BY <1>1, <2>1, <2>2 DEF t
<1> HIDE DEF emptied
<1>10. CASE ~(sub.seq # 0 /\ m.seq <= sub.seq) /\ domain.complete
  <2> DEFINE u == [t EXCEPT !.s = base]
  <2>1. r = Resync(u, FALSE, "recovery")
    BY <1>4, <1>10
  <2>2. u \in TurnSet /\ u.s = base /\ u.out = <<>> /\ u.told = told /\ u.read = read
    BY <1>1, <1>5, Amended
  <2> HIDE DEF u, r
  <2>3. Fit(sub, u)
    BY <1>1, <1>3, <1>5, <1>6, <2>2 DEF Fit, Follows
  <2>4. Fit(sub, r) /\ r.s.phase # "none" /\ Resynced(r)
    BY <1>5, <2>1, <2>2, <2>3, ResyncedFit
  <2> QED BY <2>4 DEF r, t
<1>11. CASE ~(sub.seq # 0 /\ m.seq <= sub.seq) /\ ~domain.complete /\ Overflows(sub)
  <2> DEFINE u == [t EXCEPT !.s = emptied]
  <2>1. r = Resync(u, TRUE, "recovery")
    BY <1>4, <1>11
  <2>2. u \in TurnSet /\ u.s = emptied /\ u.out = <<>> /\ u.told = told /\ u.read = read
    BY <1>1, <1>7, Amended
  <2> HIDE DEF u, r
  <2>3. Fit(sub, u)
    BY <1>1, <1>3, <1>7, <1>8, <2>2 DEF Fit, Follows
  <2>4. Fit(sub, r) /\ r.s.phase # "none" /\ Resynced(r)
    BY <1>7, <2>1, <2>2, <2>3, ResyncedFit
  <2> QED BY <2>4 DEF r, t
<1>12. CASE ~(sub.seq # 0 /\ m.seq <= sub.seq) /\ ~domain.complete /\ ~Overflows(sub)
  <2>1. sub.pending + 1 \in 0 .. MaxPending /\ sub.pending \in Nat
    BY <1>2, <1>12, BoundsAssumption DEF Overflows, Subscription
  <2>2. /\ counted \in Subscription /\ counted.at = m.tok[2] /\ counted.leased = sub.leased
        /\ counted.unsubscribing = sub.unsubscribing /\ counted.phase = "synchronized"
        /\ counted.pending > 0 /\ counted.expectsReset = p /\ counted.seq = m.seq
        /\ counted.latest # NoToken /\ counted.trailing = sub.trailing
    <3> DEFINE n == sub.pending + 1
    <3>1. n \in 0 .. MaxPending /\ n > 0
      BY <2>1
    <3>2. counted = Counted(base, n, m.tok)
      BY <1>5
    <3> HIDE DEF n, counted, r
    <3> QED BY <1>3, <1>5, <3>1, <3>2, CountedFields
  <2>3. Coherent(counted)
    BY <1>6, <1>5, <2>2 DEF Coherent
  <2>4. r = [t EXCEPT !.s = counted]
    BY <1>4, <1>12
  <2> HIDE DEF counted, r
  <2>5. r \in TurnSet /\ r.s = counted /\ r.out = <<>> /\ r.told = told /\ r.read = read
    BY <1>1, <2>2, <2>4, Amended
  <2>6. Fit(sub, r)
    BY <1>1, <1>3, <2>2, <2>3, <2>5 DEF Fit, Follows
  <2>7. Accepted(m, r) /\ r.s.phase # "none"
    BY <1>2, <2>2, <2>5 DEF Accepted
  <2> QED BY <2>6, <2>7 DEF r, t
<1> QED BY <1>9, <1>10, <1>11, <1>12

\* The outcomes of a frame.
LEMMA HandleMessageFit ==
  ASSUME TypeOK, Coherent(sub), NEW m \in Frame, Sealed(m)
  PROVE  LET r == HandleMessage(Turn(sub), m)
         IN /\ Fit(sub, r) /\ (r.s.phase = "none" <=> sub.phase = "none")
            /\ \/ Ignored(m, r) \/ Accepted(m, r) \/ Settled(m, r) \/ Acknowledged(m, r)
               \/ Denied(r) \/ Resynced(r)
<1> DEFINE t == Turn(sub)
<1>1. Fit(sub, t) /\ t.s = sub
  BY TurnFit
<1>2. CASE sub.phase = "none" \/ Blocked(sub) \/ ~Normalizes(m)
  BY <1>1, <1>2 DEF HandleMessage, Ignored
<1>3. CASE sub.phase # "none" /\ ~Blocked(sub) /\ Normalizes(m)
  <2>1. CASE m.type = "CHANGED"
    BY <1>1, <1>3, <2>1, ReceiveChangedFit DEF HandleMessage
  <2>2. CASE m.type \in {"RESET", "COMPLETE"}
    BY <1>1, <1>3, <2>2, ReceiveResetFit DEF HandleMessage
  <2>3. CASE m.type = "ACK"
    BY <1>1, <1>3, <2>3, ReceiveAckFit DEF HandleMessage
  <2>4. CASE m.type = "FORBIDDEN"
    BY <1>1, <1>3, <2>4, ForbiddenFit DEF HandleMessage
  <2>5. CASE m.type \notin {"CHANGED", "RESET", "COMPLETE", "ACK", "FORBIDDEN"}
    BY <1>1, <1>3, <2>5, ReceiveErrorFit DEF HandleMessage
  <2> QED BY <2>1, <2>2, <2>3, <2>4, <2>5
<1> QED BY <1>2, <1>3

-----------------------------------------------------------------------------
(* The part of the invariant that every step keeps by itself: steps of the *)
(* client.                                                                 *)

ConnStates == {"none", "opening", "open", "waiting", "paused"}

\* What a step leaves in the subscription, the store and the outbox.
GoodClient ==
  /\ sub' \in Subscription /\ sub'.at <= ver /\ Coherent(sub')
  /\ told' \in 0 .. ver /\ sig' \in Token /\ hidden' \in BOOLEAN /\ hasData' \in BOOLEAN
  /\ read' \in ReadStates'
  /\ conn' \in ConnStates
  /\ outbox' \in Seq(Frame) /\ Tokenless(outbox')
  /\ sub'.phase # "none" => EndsAsking(outbox')
  /\ UNCHANGED <<domain, hub, otherSub, ver>>

LEMMA SocketDropKeepsBase ==
  ASSUME BaseInv, GoodClient, DropSocket, conn' # "open"
  PROVE  BaseInv'
<1>1. /\ ver' = ver /\ hub' = hub /\ otherSub' = otherSub /\ domain' = domain
      /\ up' = <<>> /\ down' = <<>> /\ srv' = NoSession
      /\ oldSub' = (oldSub \/ Subscribed(srv.sub))
  BY DEF GoodClient, DropSocket, Subscribed
<1>2. TypeOK /\ Ringed /\ OutCap \in Nat /\ ChanCap \in Nat /\ BufferSize \in Nat
  BY BoundsAssumption DEF BaseInv
<1>3. NoSession \in Session /\ NoSession.chan = <<>> /\ Len(NoSession.chan) = 0
      /\ ~Subscribed(NoSession.sub)
  BY NothingQueued DEF NoSession, Session, Subscribed
<1>4. oldSub' \in BOOLEAN
  BY <1>1, <1>2 DEF TypeOK, Subscribed
<1>5. TypeOK'
  BY <1>1, <1>2, <1>3, <1>4, NothingQueued DEF TypeOK, GoodClient, ConnStates
<1>6. Ringed'
  BY <1>1, <1>2, <1>3 DEF Ringed
<1>7. Wired'
  BY <1>1, <1>3, NothingQueued DEF GoodClient, Wired, Resuming
<1> QED BY <1>5, <1>6, <1>7 DEF BaseInv, GoodClient

LEMMA SocketKeptKeepsBase ==
  ASSUME BaseInv, GoodClient, UNCHANGED <<srv, oldSub>>,
         conn' = "open" => outbox' = <<>>,
         conn' # "open" => conn # "open" /\ UNCHANGED <<up, down>>,
         up' \in Seq(Frame), sub'.phase # "none" => EndsAsking(up'),
         \/ down' = down
         \/ down # <<>> /\ down' = Tail(down),
         Resuming'
  PROVE  BaseInv'
<1>1. /\ ver' = ver /\ hub' = hub /\ otherSub' = otherSub /\ domain' = domain
      /\ srv' = srv /\ oldSub' = oldSub
  BY DEF GoodClient
<1>2. TypeOK /\ Ringed /\ Wired /\ OutCap \in Nat
  BY BoundsAssumption DEF BaseInv
<1>3. down' \in Seq(Frame) /\ Len(down') <= OutCap /\ Dated(down', ver)
  <2>1. CASE down' = down
    BY <1>2, <2>1 DEF TypeOK, Wired
  <2>2. CASE down # <<>> /\ down' = Tail(down)
    <3>1. down \in Seq(Frame) /\ Len(down) <= OutCap /\ Dated(down, ver) /\ Len(down) \in Nat
      BY <1>2, LenProperties DEF TypeOK, Wired
    <3>2. /\ Tail(down) \in Seq(Frame) /\ Len(Tail(down)) = Len(down) - 1
          /\ Dated(Tail(down), ver)
      BY <2>2, <3>1, Taken
    <3>3. Len(Tail(down)) <= OutCap
      BY <1>2, <3>1, <3>2
    <3> QED BY <2>2, <3>2, <3>3
  <2> QED BY <2>1, <2>2
<1>4. TypeOK'
  BY <1>1, <1>2, <1>3 DEF TypeOK, GoodClient, ConnStates
<1>5. Ringed'
  BY <1>1, <1>2 DEF Ringed
<1>6. Wired'
  BY <1>1, <1>2, <1>3 DEF GoodClient, Wired
<1> QED BY <1>4, <1>5, <1>6 DEF BaseInv, GoodClient

\* A turn that sends nothing, or a plain request ...
Plain(t) == t.out = <<>> \/ t.out = <<Request(0)>>

LEMMA PlainSends ==
  ASSUME NEW t \in TurnSet, Plain(t)
  PROVE  /\ t.out \in Seq(Frame) /\ Tokenless(t.out) /\ EndsAsking(t.out)
         /\ t.out # <<>> => t.out[Len(t.out)].seq = 0
<1>1. CASE t.out = <<>>
  BY <1>1, NothingQueued
<1>2. CASE t.out = <<Request(0)>>
  <2>1. Request(0) \in Frame /\ Request(0).seq = 0 /\ Request(0).type = "REQUEST"
    BY FrameTypes DEF Request
  <2> QED BY <1>2, <2>1, Single, OneFrame
<1> QED BY <1>1, <1>2 DEF Plain

\* ... put on the socket, or in the outbox.
LEMMA TurnKeepsBase ==
  ASSUME BaseInv, NEW t, t \in TurnSet, Plain(t),
         t.told <= ver, t.read \in ReadStates, t.s.at <= ver, Coherent(t.s), Apply(t),
         t.out = <<>> => t.s.phase = "none" \/ sub.phase # "none",
         t.out = <<>> => \/ down # <<>> \/ t.s.phase = "none"
                         \/ (t.s.seq = sub.seq /\ (t.s.expectsReset => sub.expectsReset)),
         conn' = conn \/ (conn # "open" /\ conn' = "opening"),
         IF conn = "open" THEN up' = up \o t.out /\ UNCHANGED outbox
                          ELSE outbox' = outbox \o t.out /\ UNCHANGED up,
         hidden' \in BOOLEAN, hasData' = hasData,
         UNCHANGED <<domain, serverVars>>,
         \/ down' = down
         \/ conn = "open" /\ down # <<>> /\ down' = Tail(down)
  PROVE  BaseInv'
<1>1. /\ TypeOK /\ Wired /\ Resuming /\ sub' = t.s /\ sig' = t.sig /\ told' = t.told
      /\ t.s \in Subscription /\ t.told \in Nat /\ t.sig \in Token
      /\ read' \in ReadStates' /\ hasData' \in BOOLEAN
      /\ ver \in Nat /\ up \in Seq(Frame) /\ outbox \in Seq(Frame) /\ conn \in ConnStates
  BY BoundsAssumption DEF BaseInv, TypeOK, Wired, Apply, TurnSet, ConnStates, ReadStates
<1>2. /\ t.out \in Seq(Frame) /\ Tokenless(t.out) /\ EndsAsking(t.out)
      /\ t.out # <<>> => t.out[Len(t.out)].seq = 0
  BY PlainSends
<1>3. sub.phase # "none" => EndsAsking(up) /\ EndsAsking(outbox)
  BY <1>1 DEF Wired
<1>4. CASE conn = "open"
  <2>1. outbox' = outbox /\ up' = up \o t.out /\ conn' = "open" /\ outbox = <<>>
    BY <1>1, <1>4 DEF Wired
  <2>2. up' \in Seq(Frame) /\ (t.s.phase # "none" => EndsAsking(up'))
    BY <1>1, <1>2, <1>3, <2>1, Joined
  <2>3. Resuming'
    <3>1. CASE t.out = <<>>
      <4>1. up' = up
        BY <1>1, <2>1, <3>1, Joined, NothingQueued
      <4>2. srv' = srv
        BY DEF serverVars
      <4>3. ASSUME t.s.phase # "none", up # <<>>, up[Len(up)].seq # 0
            PROVE  /\ Len(up) = 1 /\ down = <<>> /\ srv.sub = "none" /\ srv.chan = <<>>
                   /\ t.s.seq = up[Len(up)].seq /\ ~t.s.expectsReset /\ down' = <<>>
        <5>1. sub.phase # "none"
          BY <3>1, <4>3
        <5>2. /\ Len(up) = 1 /\ down = <<>> /\ srv.sub = "none" /\ srv.chan = <<>>
              /\ sub.seq = up[Len(up)].seq /\ ~sub.expectsReset
          BY <1>1, <4>3, <5>1 DEF Resuming
        <5> QED BY <3>1, <4>3, <5>2
      <4> QED BY <1>1, <4>1, <4>2, <4>3 DEF Resuming
    <3>2. CASE t.out # <<>>
      <4>1. up' # <<>> /\ up'[Len(up')].seq = 0
        BY <1>1, <1>2, <2>1, <3>2, Joined
      <4> QED BY <4>1 DEF Resuming
    <3> QED BY <3>1, <3>2
  <2>4. GoodClient
    BY <1>1, <1>4, <2>1, NothingQueued DEF GoodClient, serverVars, Wired
  <2> QED BY <1>4, <2>1, <2>2, <2>3, <2>4, <1>1, SocketKeptKeepsBase DEF serverVars
<1>5. CASE conn # "open"
  <2>1. /\ outbox' = outbox \o t.out /\ up' = up /\ conn' # "open" /\ down' = down
        /\ up = <<>> /\ conn' \in ConnStates
    BY <1>1, <1>5 DEF Wired, ConnStates
  <2>2. /\ outbox' \in Seq(Frame) /\ (t.s.phase # "none" => EndsAsking(outbox'))
        /\ Tokenless(outbox')
    BY <1>1, <1>2, <1>3, <2>1, Joined DEF Wired
  <2>3. Resuming' /\ EndsAsking(up')
    BY <2>1, NothingQueued DEF Resuming
  <2>4. GoodClient
    BY <1>1, <2>1, <2>2 DEF GoodClient, serverVars
  <2> QED BY <1>1, <1>5, <2>1, <2>3, <2>4, SocketKeptKeepsBase DEF serverVars
<1> QED BY <1>4, <1>5

\* A turn of the subscription that keeps to itself.
LEMMA SilentTurnKeepsBase ==
  ASSUME BaseInv, NEW s, NEW t, Fit(s, t), t.out = <<>>, Apply(t),
         t.s.phase = "none" \/ sub.phase # "none",
         t.s.seq = sub.seq, t.s.expectsReset => sub.expectsReset,
         conn' = conn \/ (conn # "open" /\ conn' = "opening"),
         hidden' \in BOOLEAN, hasData' = hasData,
         UNCHANGED <<domain, outbox, up, down, serverVars>>
  PROVE  BaseInv'
<1>1. up \in Seq(Frame) /\ outbox \in Seq(Frame)
  BY DEF BaseInv, TypeOK
<1>2. up' = up \o t.out /\ outbox' = outbox \o t.out
  BY <1>1, Joined, NothingQueued
<1>3. t \in TurnSet /\ t.told <= ver /\ t.read \in ReadStates /\ t.s.at <= ver /\ Coherent(t.s)
  BY DEF Fit, Follows
<1> QED BY <1>2, <1>3, TurnKeepsBase DEF Plain

LEMMA NoSubFields ==
  /\ NoSub \in Subscription /\ NoSub.at = 0 /\ NoSub.seq = 0 /\ NoSub.pending = 0 /\ ~NoSub.leased
  /\ ~NoSub.expectsReset /\ ~NoSub.unsubscribing /\ ~NoSub.cooling /\ NoSub.phase = "none"
  /\ Coherent(NoSub)
<1>1. 0 \in 0 .. MaxPending
  BY BoundsAssumption
<1>2. NoSub \in Subscription
  BY <1>1, NoTokenType DEF NoSub, Subscription
<1> QED BY <1>2 DEF NoSub, Coherent

\* The subscription that start and refreshOnce ensure: a fresh one, or the same
\* with its stop revoked.
LEMMA EnsuredFit ==
  ASSUME TypeOK, Coherent(sub)
  PROVE  /\ EnsuredSub \in Subscription /\ EnsuredSub.at <= ver /\ Coherent(EnsuredSub)
         /\ EnsuredSub.leased /\ ~EnsuredSub.unsubscribing /\ EnsuredSub.phase # "none"
         /\ \/ EnsuredSub = NewSub
            \/ /\ sub.phase # "none" /\ EnsuredSub.phase = sub.phase
               /\ EnsuredSub.seq = sub.seq /\ EnsuredSub.at = sub.at
               /\ EnsuredSub.pending = sub.pending /\ EnsuredSub.trailing = sub.trailing
               /\ EnsuredSub.expectsReset = sub.expectsReset
               /\ (sub.unsubscribing => ~Blocked(sub))
         /\ ~NewSub.cooling /\ ~Blocked(NewSub) /\ ~NewSub.unsubscribing
<1>1. sub \in Subscription /\ sub.at <= ver /\ 0 <= ver /\ 0 \in 0 .. MaxPending
  BY BoundsAssumption DEF TypeOK
<1>2. /\ NewSub \in Subscription /\ NewSub.at = 0 /\ Coherent(NewSub) /\ NewSub.leased
      /\ ~NewSub.unsubscribing /\ NewSub.phase = "connecting" /\ ~NewSub.cooling
  BY NoSubFields DEF NewSub, Subscription, Coherent
<1>3. CASE sub.phase = "none" \/ (sub.unsubscribing /\ Blocked(sub))
  <2>1. EnsuredSub = NewSub
    BY <1>3 DEF EnsuredSub
  <2> QED BY <1>1, <1>2, <2>1 DEF Blocked
<1>4. CASE ~(sub.phase = "none" \/ (sub.unsubscribing /\ Blocked(sub)))
  <2> DEFINE e == [sub EXCEPT !.leased = TRUE, !.unsubscribing = FALSE]
  <2>1. EnsuredSub = e
    BY <1>4 DEF EnsuredSub
  <2>2. /\ e \in Subscription /\ e.leased /\ ~e.unsubscribing /\ e.phase = sub.phase
        /\ e.seq = sub.seq /\ e.at = sub.at /\ e.pending = sub.pending /\ e.latest = sub.latest
        /\ e.trailing = sub.trailing /\ e.expectsReset = sub.expectsReset
    BY <1>1 DEF Subscription
  <2> HIDE DEF e
  <2>3. Coherent(e)
    BY <1>4, <2>2 DEF Coherent
  <2> QED BY <1>1, <1>2, <1>4, <2>1, <2>2, <2>3 DEF Blocked
<1> QED BY <1>3, <1>4

LEMMA EnsureKeepsBase ==
  ASSUME BaseInv, NEW force \in BOOLEAN, Run(Resync(Turn(EnsuredSub), force, "lifecycle")),
         UNCHANGED <<domain, hidden, hasData, down, serverVars>>
  PROVE  BaseInv'
<1> DEFINE e == EnsuredSub
           t == Turn(e)
           r == Resync(t, force, "lifecycle")
<1>1. TypeOK /\ Coherent(sub) /\ hidden \in BOOLEAN /\ hasData \in BOOLEAN
  BY DEF BaseInv, TypeOK
<1>2. /\ e \in Subscription /\ e.at <= ver /\ Coherent(e)
      /\ e.leased /\ ~e.unsubscribing /\ e.phase # "none"
      /\ \/ e = NewSub
         \/ /\ sub.phase # "none" /\ e.phase = sub.phase
            /\ e.seq = sub.seq /\ e.expectsReset = sub.expectsReset
      /\ ~NewSub.cooling /\ ~Blocked(NewSub)
  BY <1>1, EnsuredFit
<1> HIDE DEF e
<1>3. Fit(e, t) /\ t.s = e /\ t.out = <<>>
  BY <1>1, <1>2, AnyTurnFit
<1> HIDE DEF t
<1>4. /\ Fit(e, r) /\ r.s.phase # "none"
      /\ \/ Restarted(e, r)
         \/ Owes(t, r) /\ ~t.s.unsubscribing
         \/ r = t /\ (Blocked(t.s) \/ t.s.unsubscribing)
  BY <1>1, <1>2, <1>3, ResyncFit
<1>5. Run(r)
  BY DEF r, t, e
<1> HIDE DEF r
<1>6. r \in TurnSet /\ r.told <= ver /\ r.read \in ReadStates /\ r.s.at <= ver /\ Coherent(r.s)
  BY <1>4 DEF Fit, Follows
<1>7. Plain(r) /\ (r.out = <<>> => /\ sub.phase # "none" /\ r.s.seq = sub.seq
                                   /\ r.s.expectsReset = sub.expectsReset)
  <2>1. CASE Restarted(e, r)
    BY <2>1 DEF Restarted, Plain
  <2>2. CASE Owes(t, r)
    <3>1. r.out = <<>> /\ e.cooling /\ r.s.seq = e.seq /\ r.s.expectsReset = e.expectsReset
      BY <1>2, <1>3, <2>2 DEF Owes, Subscription
    <3> QED BY <1>2, <3>1 DEF Plain
  <2>3. CASE r = t /\ (Blocked(t.s) \/ t.s.unsubscribing)
    BY <1>2, <1>3, <2>3 DEF Plain
  <2> QED BY <1>4, <2>1, <2>2, <2>3
<1>8. /\ Apply(r) /\ (conn' = conn \/ (conn # "open" /\ conn' = "opening"))
      /\ IF conn = "open" THEN up' = up \o r.out /\ UNCHANGED outbox
                          ELSE outbox' = outbox \o r.out /\ UNCHANGED up
  BY <1>5 DEF Run
<1> QED BY <1>1, <1>6, <1>7, <1>8, TurnKeepsBase

LEMMA StopKeepsBase ==
  ASSUME BaseInv, Stop
  PROVE  BaseInv'
<1> DEFINE s == [sub EXCEPT !.leased = FALSE, !.unsubscribing = TRUE]
<1>1. TypeOK /\ Coherent(sub) /\ sub \in Subscription /\ sub.at <= ver
      /\ hidden \in BOOLEAN /\ hasData \in BOOLEAN
  BY DEF BaseInv, TypeOK
<1>2. /\ s \in Subscription /\ s.at = sub.at /\ s.seq = sub.seq /\ s.expectsReset = sub.expectsReset
      /\ s.phase = sub.phase /\ s.pending = sub.pending /\ s.latest = sub.latest /\ ~s.leased
  BY <1>1 DEF Subscription
<1>3. sub.phase # "none" /\ sub' = s
  BY <1>1 DEF Stop, Coherent
<1> HIDE DEF s
<1>4. Coherent(s)
  BY <1>1, <1>2, <1>3 DEF Coherent
<1>5. Fit(s, Turn(s)) /\ Turn(s).s = s /\ Turn(s).out = <<>>
  BY <1>1, <1>2, <1>4, AnyTurnFit
<1>6. Apply(Turn(s))
  BY <1>3 DEF Apply, Turn, Stop
<1>7. UNCHANGED <<conn, hidden, hasData, domain, outbox, up, down, serverVars>>
  BY DEF Stop
<1> QED BY <1>1, <1>2, <1>3, <1>5, <1>6, <1>7, SilentTurnKeepsBase

LEMMA ReadKeepsBase ==
  ASSUME BaseInv, StartRead \/ FinishRead \/ FailRead
  PROVE  BaseInv'
<1>1. /\ TypeOK /\ Wired /\ Coherent(sub) /\ hidden \in BOOLEAN /\ ver \in Nat /\ told \in 0 .. ver
      /\ hasData \in BOOLEAN /\ read \in ReadStates
  BY BoundsAssumption DEF BaseInv, TypeOK
<1>2. UNCHANGED <<domain, sub, conn, outbox, hidden, sig, up, down, serverVars>>
  BY DEF StartRead, FinishRead, FailRead
<1>3. told' \in 0 .. ver /\ hasData' \in BOOLEAN /\ read' \in ReadStates'
  <2>1. CASE StartRead
    BY <1>1, <2>1 DEF StartRead, ReadStates
  <2>2. CASE FinishRead
    <3>1. told' \in told .. ver /\ hasData' = TRUE /\ read' \in {"none", "kept"}
      BY <2>2 DEF FinishRead
    <3>2. told' \in 0 .. ver
      BY <1>1, <3>1
    <3> QED BY <3>1, <3>2 DEF ReadStates
  <2>3. CASE FailRead
    BY <1>1, <2>3 DEF FailRead, ReadStates
  <2> QED BY <2>1, <2>2, <2>3
<1>4. GoodClient
  BY <1>1, <1>2, <1>3 DEF GoodClient, ConnStates, TypeOK, Wired, serverVars
<1>5. Resuming' /\ up' \in Seq(Frame) /\ (sub'.phase # "none" => EndsAsking(up'))
  BY <1>1, <1>2 DEF Resuming, Wired, TypeOK, serverVars
<1>6. conn' = "open" => outbox' = <<>>
  BY <1>1, <1>2 DEF Wired
<1> QED BY <1>2, <1>4, <1>5, <1>6, SocketKeptKeepsBase DEF serverVars

LEMMA FlushTimerKeepsBase ==
  ASSUME BaseInv, FlushTimer
  PROVE  BaseInv'
<1> DEFINE s == Counted(sub, 0, NoToken)
           t == Advance(Turn(s), sub.latest)
<1>1. /\ TypeOK /\ Coherent(sub) /\ hidden \in BOOLEAN /\ hasData \in BOOLEAN
      /\ sub \in Subscription /\ sub.at <= ver /\ 0 \in 0 .. MaxPending /\ sub.latest \in Token
  BY BoundsAssumption DEF BaseInv, TypeOK, Subscription
<1>2. sub.phase # "none"
  BY DEF FlushTimer, BaseInv, Coherent, NoSub
<1>3. /\ s \in Subscription /\ s.pending = 0 /\ s.latest = NoToken /\ s.seq = sub.seq
      /\ s.at = sub.at /\ s.leased = sub.leased /\ s.unsubscribing = sub.unsubscribing
      /\ s.phase = sub.phase /\ s.expectsReset = sub.expectsReset
  BY <1>1, NoTokenType, CountedFields
<1>4. Coherent(s)
  BY <1>1, <1>2, <1>3 DEF Coherent
<1>5. Apply(t)
  BY DEF FlushTimer, Counted
<1> HIDE DEF s
<1>6. Fit(s, Turn(s)) /\ Turn(s).s = s /\ Turn(s).out = <<>> /\ Turn(s) \in TurnSet
  BY <1>1, <1>3, <1>4, AnyTurnFit DEF Fit
<1>7. t \in TurnSet /\ t.s = s /\ t.out = <<>> /\ t.told \in {Turn(s).told, ver} /\ Follows(t)
  BY <1>1, <1>6, AdvanceFacts, InformsFollows DEF Fit
<1> HIDE DEF t
<1>8. ver \in Nat /\ told <= ver
  BY <1>1, BoundsAssumption DEF TypeOK
<1>9. Fit(s, t)
  BY <1>6, <1>7, <1>8 DEF Fit
<1>10. UNCHANGED <<conn, hidden, hasData, domain, outbox, up, down, serverVars>>
  BY DEF FlushTimer
<1> QED BY <1>1, <1>2, <1>3, <1>5, <1>7, <1>9, <1>10, SilentTurnKeepsBase

LEMMA CooldownEndsKeepsBase ==
  ASSUME BaseInv, CooldownEnds
  PROVE  BaseInv'
<1> DEFINE s == [sub EXCEPT !.cooling = FALSE]
<1>1. TypeOK /\ Coherent(sub) /\ sub \in Subscription /\ sub.at <= ver
      /\ hidden \in BOOLEAN /\ hasData \in BOOLEAN
  BY DEF BaseInv, TypeOK
<1>2. /\ s \in Subscription /\ s.at = sub.at /\ s.seq = sub.seq /\ s.expectsReset = sub.expectsReset
      /\ s.phase = sub.phase /\ s.pending = sub.pending /\ s.latest = sub.latest
      /\ s.leased = sub.leased /\ s.unsubscribing = sub.unsubscribing
  BY <1>1 DEF Subscription
<1>3. sub.phase # "none" /\ sub' = s
  BY <1>1 DEF CooldownEnds, Coherent, NoSub
<1> HIDE DEF s
<1>4. Coherent(s)
  BY <1>1, <1>2, <1>3 DEF Coherent
<1>5. Fit(s, Turn(s)) /\ Turn(s).s = s /\ Turn(s).out = <<>>
  BY <1>1, <1>2, <1>4, AnyTurnFit
<1>6. Apply(Turn(s))
  BY <1>3 DEF Apply, Turn, CooldownEnds
<1>7. UNCHANGED <<conn, hidden, hasData, domain, outbox, up, down, serverVars>>
  BY DEF CooldownEnds
<1> QED BY <1>1, <1>2, <1>3, <1>5, <1>6, <1>7, SilentTurnKeepsBase

LEMMA ReconnectKeepsBase ==
  ASSUME BaseInv, Reconnect
  PROVE  BaseInv'
<1>1. TypeOK /\ Coherent(sub) /\ hidden \in BOOLEAN /\ hasData \in BOOLEAN
  BY DEF BaseInv, TypeOK
<1>2. Fit(sub, Turn(sub)) /\ Turn(sub).s = sub /\ Turn(sub).out = <<>>
  BY <1>1, TurnFit
<1>3. Apply(Turn(sub))
  BY DEF Apply, Turn, Reconnect
<1>4. /\ conn # "open" /\ conn' = "opening"
      /\ UNCHANGED <<hidden, hasData, domain, outbox, up, down, serverVars>>
  BY DEF Reconnect
<1>5. sub.phase = "none" \/ sub.phase # "none"
  OBVIOUS
<1> QED BY <1>1, <1>2, <1>3, <1>4, <1>5, SilentTurnKeepsBase

\* A resync by a timer, or when the view is shown again.
LEMMA ResyncKeepsBase ==
  ASSUME BaseInv, NEW s \in Subscription, s.at <= ver, Coherent(s),
         s.seq = sub.seq, s.expectsReset = sub.expectsReset, s.phase # "none", sub.phase # "none",
         NEW why \in {"lifecycle", "recovery"}, NEW r, r = Resync(Turn(s), FALSE, why), Apply(r),
         conn' = conn \/ (conn # "open" /\ conn' = "opening"),
         IF conn = "open" THEN up' = up \o r.out /\ UNCHANGED outbox
                          ELSE outbox' = outbox \o r.out /\ UNCHANGED up,
         hidden' \in BOOLEAN, UNCHANGED <<domain, hasData, down, serverVars>>
  PROVE  BaseInv'
<1> DEFINE t == Turn(s)
<1>1. TypeOK /\ hasData \in BOOLEAN
  BY DEF BaseInv, TypeOK
<1>2. Fit(s, t) /\ t.s = s /\ t.out = <<>>
  BY <1>1, AnyTurnFit
<1> HIDE DEF t
<1>3. /\ Fit(s, r) /\ r.s.phase # "none"
      /\ \/ Restarted(s, r)
         \/ Owes(t, r) /\ ~t.s.unsubscribing
         \/ r = t /\ (Blocked(t.s) \/ t.s.unsubscribing)
  BY <1>1, <1>2, ResyncFit DEF t
<1>4. r \in TurnSet /\ r.told <= ver /\ r.read \in ReadStates /\ r.s.at <= ver /\ Coherent(r.s)
  BY <1>3 DEF Fit, Follows
<1>5. Plain(r) /\ (r.out = <<>> => r.s.seq = sub.seq /\ r.s.expectsReset = sub.expectsReset)
  <2>1. CASE Restarted(s, r)
    <3>1. r.out = <<Request(0)>> /\ <<Request(0)>> # <<>>
      BY <2>1, Single, FrameTypes DEF Restarted
    <3> QED BY <3>1 DEF Plain
  <2>2. CASE Owes(t, r)
    <3>1. r.out = <<>> /\ r.s.seq = s.seq /\ r.s.expectsReset = s.expectsReset
      BY <1>2, <2>2 DEF Owes, Subscription
    <3> QED BY <3>1 DEF Plain
  <2>3. CASE r = t /\ (Blocked(t.s) \/ t.s.unsubscribing)
    BY <1>2, <2>3 DEF Plain
  <2> QED BY <1>3, <2>1, <2>2, <2>3
<1> QED BY <1>1, <1>4, <1>5, TurnKeepsBase

LEMMA TrailingFiresKeepsBase ==
  ASSUME BaseInv, TrailingFires
  PROVE  BaseInv'
<1> DEFINE s == [sub EXCEPT !.trailing = "idle"]
           r == Resync(Turn(s), FALSE, sub.trailing)
<1>1. /\ Coherent(sub) /\ sub \in Subscription /\ sub.at <= ver /\ hidden \in BOOLEAN
      /\ sub.trailing \in {"lifecycle", "recovery"}
  BY DEF BaseInv, TypeOK, Subscription, TrailingFires
<1>2. /\ s \in Subscription /\ s.at = sub.at /\ s.seq = sub.seq /\ s.expectsReset = sub.expectsReset
      /\ s.phase = sub.phase /\ s.pending = sub.pending /\ s.latest = sub.latest
      /\ s.leased = sub.leased /\ s.unsubscribing = sub.unsubscribing
  BY <1>1 DEF Subscription
<1>3. sub.phase # "none" /\ Run(r)
  <2>1. sub.phase # "none"
    BY <1>1 DEF Coherent, NoSub
  <2>2. Run(r)
    BY DEF TrailingFires
  <2> QED BY <2>1, <2>2
<1> HIDE DEF s
<1>4. Coherent(s)
  BY <1>1, <1>2, <1>3 DEF Coherent
<1> HIDE DEF r
<1>5. /\ Apply(r) /\ (conn' = conn \/ (conn # "open" /\ conn' = "opening"))
      /\ IF conn = "open" THEN up' = up \o r.out /\ UNCHANGED outbox
                          ELSE outbox' = outbox \o r.out /\ UNCHANGED up
  BY <1>3 DEF Run
<1>6. hidden' \in BOOLEAN /\ UNCHANGED <<domain, hasData, down, serverVars>>
  BY <1>1 DEF TrailingFires
<1> QED BY <1>1, <1>2, <1>3, <1>4, <1>5, <1>6, ResyncKeepsBase DEF r

LEMMA UnsubscribeKeepsBase ==
  ASSUME BaseInv, Unsubscribe, hidden' \in BOOLEAN, hasData' \in BOOLEAN, read' \in ReadStates',
         sig' \in Token,
         UNCHANGED <<domain, told, hub, otherSub, ver>>
  PROVE  BaseInv'
<1>1. /\ TypeOK /\ Wired /\ sub' = NoSub /\ told \in 0 .. ver /\ 0 <= ver
      /\ up \in Seq(Frame) /\ outbox \in Seq(Frame) /\ Tokenless(outbox) /\ conn \in ConnStates
  BY BoundsAssumption DEF BaseInv, TypeOK, Wired, Unsubscribe, ConnStates
<1>2. /\ sub' \in Subscription /\ sub'.at <= ver /\ Coherent(sub') /\ sub'.phase = "none"
  BY <1>1, NoSubFields
<1>3. Cancel \in Frame /\ Cancel.seq = 0
  BY FrameTypes DEF Cancel
<1>4. ASSUME NEW q \in Seq(Frame)
      PROVE  Append(q, Cancel) \in Seq(Frame) /\ (Tokenless(q) => Tokenless(Append(q, Cancel)))
  <2>1. Append(q, Cancel) = q \o <<Cancel>>
    BY <1>3, AppendIsConcat
  <2>2. <<Cancel>> \in Seq(Frame) /\ Tokenless(<<Cancel>>)
    BY <1>3, Single
  <2> DEFINE c == <<Cancel>>
  <2> HIDE DEF c
  <2>3. q \o c \in Seq(Frame) /\ (Tokenless(q) => Tokenless(q \o c))
    BY <2>2, Joined DEF c
  <2> QED BY <2>1, <2>3 DEF c
<1>5. CASE KeepsSocket \/ conn = "none"
  <2>1. /\ UNCHANGED <<conn, down, srv, oldSub>>
        /\ IF conn = "open" THEN up' = Append(up, Cancel) /\ UNCHANGED outbox
           ELSE /\ outbox' = IF conn = "none" THEN outbox ELSE Append(outbox, Cancel)
                /\ UNCHANGED up
    BY <1>5 DEF Unsubscribe
  <2>2. up' \in Seq(Frame) /\ outbox' \in Seq(Frame) /\ Tokenless(outbox')
    BY <1>1, <1>4, <2>1
  <2>3. conn' = "open" => outbox' = <<>>
    BY <1>1, <2>1 DEF Wired
  <2>4. Resuming'
    BY <1>2 DEF Resuming
  <2>5. GoodClient
    BY <1>1, <1>2, <2>1, <2>2 DEF GoodClient
  <2> QED BY <1>2, <2>1, <2>2, <2>3, <2>4, <2>5, SocketKeptKeepsBase
<1>6. CASE ~(KeepsSocket \/ conn = "none")
  <2>1. conn' = "none" /\ outbox' = <<>> /\ DropSocket
    BY <1>6 DEF Unsubscribe
  <2>2. GoodClient
    BY <1>1, <1>2, <2>1, NothingQueued DEF GoodClient, ConnStates
  <2> QED BY <2>1, <2>2, SocketDropKeepsBase
<1> QED BY <1>5, <1>6

LEMMA ReleaseKeepsBase ==
  ASSUME BaseInv, UnsubscribeTimer \/ StopNow \/ StopAll
  PROVE  BaseInv'
<1>1. /\ TypeOK /\ hidden \in BOOLEAN /\ hasData \in BOOLEAN /\ sig \in Token /\ 0 <= ver
      /\ told \in 0 .. ver /\ read \in ReadStates
  BY BoundsAssumption DEF BaseInv, TypeOK
<1>2. CASE UnsubscribeTimer
  BY <1>1, <1>2, UnsubscribeKeepsBase DEF UnsubscribeTimer, ReadStates
<1>3. CASE StopNow
  BY <1>1, <1>3, NoTokenType, UnsubscribeKeepsBase DEF StopNow, ReadStates
<1>4. CASE StopAll
  <2>1. GoodClient
    BY <1>1, <1>4, NoSubFields, NothingQueued DEF StopAll, GoodClient, ConnStates, ReadStates
  <2> QED BY <1>4, <2>1, SocketDropKeepsBase DEF StopAll
<1> QED BY <1>2, <1>3, <1>4

\* handleOpen sends the subscription again: from its number if it has one.
Resumed(t) ==
  /\ sub.seq # 0 /\ t.told = told /\ SamePlace(t) /\ ~t.s.expectsReset /\ ~Blocked(sub)
  /\ t.out = IF sub.unsubscribing THEN <<>> ELSE <<Request(sub.seq)>>

LEMMA OpenedFit ==
  ASSUME TypeOK, Coherent(sub), sub.phase # "none"
  PROVE  LET r == ConnectionOpened(Turn(sub))
         IN Fit(sub, r) /\ r.s.phase # "none" /\ (Resumed(r) \/ Resynced(r))
<1> DEFINE t == Turn(sub)
           r == ConnectionOpened(t)
           s == [sub EXCEPT !.phase = "awaiting-ack", !.expectsReset = FALSE, !.preserved = FALSE]
           out == IF sub.unsubscribing THEN <<>> ELSE Append(<<>>, Request(sub.seq))
<1>1. Fit(sub, t) /\ t.s = sub /\ t.out = <<>> /\ t.told = told /\ t.read = read /\ t \in TurnSet
  BY TurnFit DEF Fit
<1>2. sub \in Subscription /\ sub.at <= ver /\ sub.seq \in Nat
  BY DEF TypeOK, Subscription
<1>3. r = IF Blocked(sub) THEN t
          ELSE IF sub.seq # 0 THEN [t EXCEPT !.s = s, !.out = out]
          ELSE Resync(t, TRUE, "recovery")
  BY <1>1 DEF ConnectionOpened
<1> HIDE DEF t, r
<1>4. CASE Blocked(sub)
  BY <1>1, <1>3, <1>4 DEF Resynced, r, t
<1>5. CASE ~Blocked(sub) /\ sub.seq # 0
  <2>1. /\ s \in Subscription /\ s.at = sub.at /\ s.seq = sub.seq /\ s.pending = sub.pending
        /\ s.trailing = sub.trailing /\ s.leased = sub.leased /\ s.latest = sub.latest
        /\ s.unsubscribing = sub.unsubscribing /\ s.phase = "awaiting-ack" /\ ~s.expectsReset
    BY <1>2 DEF Subscription
  <2>2. Coherent(s)
    BY <2>1 DEF Coherent
  <2>3. Request(sub.seq) \in Frame
    BY <1>2, FrameTypes
  <2>4. out \in Seq(Frame) /\ out = IF sub.unsubscribing THEN <<>> ELSE <<Request(sub.seq)>>
    BY <2>3, NothingQueued, Single
  <2> HIDE DEF s, out
  <2>5. r \in TurnSet /\ r.s = s /\ r.out = out /\ r.told = told /\ r.read = read
    BY <1>1, <1>3, <1>5, <2>1, <2>4 DEF TurnSet
  <2>6. Fit(sub, r)
    BY <1>1, <1>2, <2>1, <2>2, <2>5 DEF Fit, Follows
  <2>7. Resumed(r) /\ r.s.phase # "none"
    BY <1>5, <2>1, <2>4, <2>5 DEF Resumed, SamePlace
  <2> QED BY <2>6, <2>7 DEF r, t
<1>6. CASE ~Blocked(sub) /\ sub.seq = 0
  <2>1. r = Resync(t, TRUE, "recovery")
    BY <1>3, <1>6
  <2>2. Fit(sub, r) /\ r.s.phase # "none" /\ Resynced(r)
    BY <1>1, <2>1, ResyncedFit
  <2> QED BY <2>2 DEF r, t
<1> QED BY <1>4, <1>5, <1>6

LEMMA OpenKeepsBase ==
  ASSUME BaseInv, Open
  PROVE  BaseInv'
<1> DEFINE t == IF sub.phase = "none" THEN Turn(sub) ELSE ConnectionOpened(Turn(sub))
<1>1. /\ TypeOK /\ Wired /\ Coherent(sub) /\ hidden \in BOOLEAN /\ hasData \in BOOLEAN
      /\ outbox \in Seq(Frame) /\ Tokenless(outbox) /\ sub.seq \in Nat /\ 0 <= ver
      /\ ver \in Nat /\ told \in Nat
  BY BoundsAssumption DEF BaseInv, TypeOK, Wired, Subscription
<1>2. /\ Apply(t) /\ up' = t.out \o outbox /\ conn = "opening" /\ conn' = "open"
      /\ outbox' = <<>> /\ down' = <<>>
      /\ UNCHANGED <<domain, hidden, hasData, serverVars>>
  BY DEF Open
<1>3. Fit(sub, t) /\ (t.s.phase = "none" <=> sub.phase = "none")
      /\ (t.s.phase = "none" \/ Resumed(t) \/ Resynced(t))
  BY <1>1, TurnFit, OpenedFit
<1> HIDE DEF t
<1>4. /\ t.out = <<>> \/ t.out = <<Request(0)>> \/ t.out = <<Request(sub.seq)>>
         \/ t.s.phase = "none"
      /\ \/ t.out = <<>> \/ t.out = <<Request(0)>> \/ t.s.phase = "none"
         \/ (t.s.seq = sub.seq /\ ~t.s.expectsReset)
  BY <1>3 DEF Resumed, Resynced, Restarted, SamePlace
<1>5. t.out \in Seq(Frame) /\ up' \in Seq(Frame)
  BY <1>1, <1>2, <1>3, Joined DEF Fit, TurnSet
<1>6. conn # "open" /\ down = <<>> /\ srv = NoSession /\ down' = down
  BY <1>1, <1>2 DEF Wired
<1>7. Request(0) \in Frame /\ Request(sub.seq) \in Frame /\ Request(0).type = "REQUEST"
      /\ Request(sub.seq).type = "REQUEST" /\ Request(0).seq = 0 /\ Request(sub.seq).seq = sub.seq
  BY <1>1, FrameTypes DEF Request
<1>8. t.s.phase # "none" => EndsAsking(t.out) /\ EndsAsking(outbox)
  BY <1>1, <1>3, <1>4, <1>7, Single, NothingQueued DEF Wired
<1>9. t.s.phase # "none" => EndsAsking(up')
  BY <1>1, <1>2, <1>5, <1>8, Joined
<1>10. sub' = t.s
  BY <1>2 DEF Apply
<1>11. Resuming'
  <2> SUFFICES ASSUME t.s.phase # "none", up' # <<>>, up'[Len(up')].seq # 0
               PROVE  /\ Len(up') = 1 /\ down' = <<>> /\ srv'.sub = "none" /\ srv'.chan = <<>>
                      /\ t.s.seq = up'[Len(up')].seq /\ ~t.s.expectsReset
    BY <1>10 DEF Resuming
  <2>1. outbox = <<>>
    <3>1. outbox # <<>> => outbox[Len(outbox)].seq = 0
      BY <1>1, EmptySeq DEF Tokenless
    <3> QED BY <1>1, <1>2, <1>5, <3>1, Joined
  <2>2. up' = t.out
    BY <1>1, <1>2, <1>5, <2>1, Joined
  <2>3. t.out = <<Request(sub.seq)>> /\ sub.seq # 0
    BY <1>4, <1>7, <2>2, Single, OneFrame
  <2>4. t.s.seq = sub.seq /\ ~t.s.expectsReset
    BY <1>4, <1>7, <2>2, <2>3, OneFrame
  <2>5. Len(up') = 1 /\ up'[Len(up')] = Request(sub.seq)
    BY <1>7, <2>2, <2>3, OneFrame
  <2>6. srv'.sub = "none" /\ srv'.chan = <<>>
    BY <1>2, <1>6 DEF serverVars, NoSession
  <2> QED BY <1>2, <1>7, <2>4, <2>5, <2>6
<1>12. GoodClient
  <2>1. t.told \in 0 .. ver /\ t.s \in Subscription /\ t.sig \in Token /\ t.s.at <= ver
        /\ Coherent(t.s) /\ t.read \in ReadStates
    BY <1>1, <1>3 DEF Fit, TurnSet, Follows
  <2>2. sig' = t.sig /\ told' = t.told /\ read' = t.read
    BY <1>2 DEF Apply
  <2> QED BY <1>1, <1>2, <1>10, <2>1, <2>2, NothingQueued
     DEF GoodClient, ConnStates, ReadStates, serverVars
<1> QED BY <1>2, <1>5, <1>6, <1>9, <1>10, <1>11, <1>12, SocketKeptKeepsBase DEF serverVars

LEMMA LostFit ==
  ASSUME TypeOK, Coherent(sub), sub.phase # "none"
  PROVE  LET r == ConnectionLost(Turn(sub))
         IN /\ Fit(sub, r) /\ r.s.phase # "none" /\ Plain(r)
            /\ Resynced(r) \/ (r.out = <<>> /\ SamePlace(r) /\ ~Blocked(sub))
<1> DEFINE t == Turn(sub)
           lost == [t EXCEPT !.s = Disconnected(sub)]
           r == ConnectionLost(t)
<1>1. Fit(sub, t) /\ t.s = sub /\ t.out = <<>>
  BY TurnFit
<1>2. Fit(sub, lost) /\ lost.s.phase = "connecting" /\ lost.out = <<>> /\ SamePlace(lost)
  BY DisconnectedFit
<1>3. r = IF Blocked(sub) THEN t
          ELSE IF sub.seq = 0 THEN Resync(lost, FALSE, "recovery") ELSE lost
  <2> DEFINE u == [t EXCEPT !.s.phase = "connecting", !.s.expectsReset = FALSE,
                            !.s.preserved = FALSE]
  <2>1. u = lost
    BY <1>1 DEF Disconnected
  <2>2. r = IF Blocked(t.s) THEN t
            ELSE IF t.s.seq = 0 THEN Resync(u, FALSE, "recovery") ELSE u
    BY DEF ConnectionLost
  <2> HIDE DEF u, lost, r, t
  <2> QED BY <1>1, <2>1, <2>2
<1> HIDE DEF t, r, lost
<1>4. CASE Blocked(sub)
  <2>1. r = t /\ r.s = sub /\ r.out = <<>> /\ Fit(sub, r)
    BY <1>1, <1>3, <1>4
  <2>2. Plain(r) /\ Resynced(r) /\ r.s.phase # "none"
    BY <1>4, <2>1 DEF Plain, Resynced
  <2> QED BY <2>1, <2>2 DEF r, t
<1>5. CASE ~Blocked(sub) /\ sub.seq = 0
  <2>1. r = Resync(lost, FALSE, "recovery")
    BY <1>3, <1>5
  <2>2. Fit(sub, r) /\ r.s.phase # "none" /\ Resynced(r)
    BY <1>2, <2>1, ResyncedFit
  <2> QED BY <2>2 DEF r, t, Resynced, Restarted, Plain
<1>6. CASE ~Blocked(sub) /\ sub.seq # 0
  <2>1. r = lost
    BY <1>3, <1>6
  <2>2. Fit(sub, r) /\ r.s.phase # "none" /\ r.out = <<>> /\ SamePlace(r)
    BY <1>2, <2>1
  <2> QED BY <1>6, <2>2 DEF Plain, r, t
<1> QED BY <1>4, <1>5, <1>6

LEMMA LostKeepsBase ==
  ASSUME BaseInv, Lost
  PROVE  BaseInv'
<1> DEFINE t == IF sub.phase = "none" THEN Turn(sub) ELSE ConnectionLost(Turn(sub))
<1>1. /\ TypeOK /\ Wired /\ Coherent(sub) /\ hidden \in BOOLEAN /\ hasData \in BOOLEAN
      /\ outbox \in Seq(Frame) /\ Tokenless(outbox) /\ ver \in Nat /\ told \in Nat
  BY BoundsAssumption DEF BaseInv, TypeOK, Wired
<1>2. /\ Apply(t) /\ outbox' = outbox \o t.out /\ conn' = "waiting" /\ DropSocket
      /\ UNCHANGED <<domain, hidden, hasData, hub, otherSub, ver>>
  BY DEF Lost
<1>3. Fit(sub, t) /\ Plain(t) /\ (t.s.phase = "none" <=> sub.phase = "none")
  BY <1>1, TurnFit, LostFit DEF Plain
<1> HIDE DEF t
<1>4. t \in TurnSet /\ t.out \in Seq(Frame) /\ Tokenless(t.out) /\ EndsAsking(t.out)
  BY <1>3, PlainSends DEF Fit
<1>5. outbox' \in Seq(Frame) /\ Tokenless(outbox')
      /\ (t.s.phase # "none" => EndsAsking(outbox'))
  BY <1>1, <1>2, <1>3, <1>4, Joined DEF Wired
<1>6. GoodClient
  <2>1. t.told \in 0 .. ver /\ t.s \in Subscription /\ t.sig \in Token /\ t.s.at <= ver
        /\ Coherent(t.s) /\ t.read \in ReadStates
    BY <1>1, <1>3 DEF Fit, TurnSet, Follows
  <2>2. sub' = t.s /\ sig' = t.sig /\ told' = t.told /\ read' = t.read
    BY <1>2 DEF Apply
  <2> QED BY <1>1, <1>2, <1>5, <2>1, <2>2 DEF GoodClient, ConnStates, ReadStates
<1> QED BY <1>2, <1>6, SocketDropKeepsBase

LEMMA HideKeepsBase ==
  ASSUME BaseInv, Hide
  PROVE  BaseInv'
<1>1. /\ TypeOK /\ Wired /\ Coherent(sub) /\ hasData \in BOOLEAN /\ sub \in Subscription
      /\ sub.at <= ver /\ told \in 0 .. ver /\ sig \in Token /\ outbox \in Seq(Frame)
      /\ read \in ReadStates
  BY DEF BaseInv, TypeOK, Wired
<1>2. /\ hidden' = TRUE
      /\ UNCHANGED <<domain, sub, outbox, sig, hasData, read, told, hub, otherSub, ver>>
  BY DEF Hide
<1>3. CASE conn' = "paused" /\ DropSocket
  <2>1. GoodClient
    BY <1>1, <1>2, <1>3 DEF GoodClient, ConnStates, Wired, ReadStates
  <2> QED BY <1>3, <2>1, SocketDropKeepsBase
<1>4. CASE UNCHANGED <<conn, up, down, srv, oldSub>>
  <2>1. Fit(sub, Turn(sub)) /\ Turn(sub).s = sub /\ Turn(sub).out = <<>>
    BY <1>1, TurnFit
  <2>2. Apply(Turn(sub))
    BY <1>2 DEF Apply, Turn
  <2>3. sub.phase = "none" \/ sub.phase # "none"
    OBVIOUS
  <2>4. UNCHANGED <<domain, outbox, up, down, serverVars>> /\ conn' = conn
        /\ hidden' \in BOOLEAN /\ hasData' = hasData
    BY <1>1, <1>2, <1>4 DEF serverVars
  <2> QED BY <2>1, <2>2, <2>3, <2>4, SilentTurnKeepsBase
<1> QED BY <1>3, <1>4 DEF Hide

LEMMA ShowKeepsBase ==
  ASSUME BaseInv, Show
  PROVE  BaseInv'
<1> DEFINE t == IF sub.phase = "none" THEN Turn(sub) ELSE Resync(Turn(sub), FALSE, "recovery")
<1>1. TypeOK /\ Coherent(sub) /\ hasData \in BOOLEAN /\ sub \in Subscription /\ sub.at <= ver
      /\ up \in Seq(Frame) /\ outbox \in Seq(Frame)
  BY DEF BaseInv, TypeOK
<1>2. /\ Apply(t)
      /\ conn' = conn \/ (conn # "open" /\ conn' = "opening")
      /\ IF conn = "open" THEN up' = up \o t.out /\ UNCHANGED outbox
                          ELSE outbox' = outbox \o t.out /\ UNCHANGED up
      /\ hidden' \in BOOLEAN /\ UNCHANGED <<domain, hasData, down, serverVars>>
  BY DEF Show
<1>3. CASE sub.phase = "none"
  <2>1. Fit(sub, Turn(sub)) /\ Turn(sub).s = sub /\ Turn(sub).out = <<>> /\ t = Turn(sub)
    BY <1>1, <1>3, TurnFit
  <2> HIDE DEF t
  <2>2. up \o t.out = up /\ outbox \o t.out = outbox
    BY <1>1, <2>1, ConcatEmptySeq
  <2>3. UNCHANGED <<outbox, up>>
    BY <1>2, <2>2
  <2> QED BY <1>1, <1>2, <1>3, <2>1, <2>3, SilentTurnKeepsBase
<1>4. CASE sub.phase # "none"
  <2>1. t = Resync(Turn(sub), FALSE, "recovery")
    BY <1>4
  <2> HIDE DEF t
  <2> QED BY <1>1, <1>2, <1>4, <2>1, ResyncKeepsBase
<1> QED BY <1>3, <1>4

LEMMA Received ==
  ASSUME BaseInv, Receive
  PROVE  /\ down # <<>> /\ down \in Seq(Frame) /\ Head(down) \in Frame /\ Sealed(Head(down))
         /\ Tail(down) \in Seq(Frame) /\ down' = Tail(down)
<1>1. down # <<>> /\ down \in Seq(Frame) /\ Dated(down, ver) /\ down' = Tail(down)
  BY DEF BaseInv, TypeOK, Wired, Receive
<1>2. Head(down) \in Frame /\ Tail(down) \in Seq(Frame) /\ Dated(<<Head(down)>>, ver)
  BY <1>1, Taken
<1>3. Sealed(Head(down))
  BY <1>2, Single DEF Sealed
<1> QED BY <1>1, <1>2, <1>3

LEMMA ReceiveKeepsBase ==
  ASSUME BaseInv, Receive
  PROVE  BaseInv'
<1> DEFINE m == Head(down)
           r == HandleMessage(Turn(sub), m)
<1>1. /\ TypeOK /\ Coherent(sub) /\ hidden \in BOOLEAN /\ hasData \in BOOLEAN
      /\ down # <<>> /\ m \in Frame /\ Sealed(m)
  BY Received DEF BaseInv, TypeOK
<1>2. /\ Run(r) /\ conn = "open" /\ down' = Tail(down)
      /\ UNCHANGED <<domain, hidden, hasData, serverVars>>
  BY DEF Receive
<1> HIDE DEF m
<1>3. /\ Fit(sub, r) /\ (r.s.phase = "none" <=> sub.phase = "none")
      /\ \/ Ignored(m, r) \/ Accepted(m, r) \/ Settled(m, r) \/ Acknowledged(m, r)
         \/ Denied(r) \/ Resynced(r)
  BY <1>1, HandleMessageFit
<1> HIDE DEF r
<1>4. Ignored(m, r) => r.out = <<>>
  BY DEF Ignored, Turn
<1>5. Plain(r)
  BY <1>3, <1>4 DEF Accepted, Settled, Acknowledged, Denied, Resynced, Restarted, Plain
<1>6. r \in TurnSet /\ r.told <= ver /\ r.read \in ReadStates /\ r.s.at <= ver /\ Coherent(r.s)
  BY <1>3 DEF Fit, Follows
<1>7. /\ Apply(r) /\ (conn' = conn \/ (conn # "open" /\ conn' = "opening"))
      /\ IF conn = "open" THEN up' = up \o r.out /\ UNCHANGED outbox
                          ELSE outbox' = outbox \o r.out /\ UNCHANGED up
  BY <1>2 DEF Run
<1> QED BY <1>1, <1>2, <1>3, <1>5, <1>6, <1>7, TurnKeepsBase

-----------------------------------------------------------------------------
(* Steps of the backend.                                                   *)

LEMMA Later ==
  ASSUME NEW q \in Seq(Frame), NEW v \in Nat, NEW w \in Nat, v <= w, Dated(q, v)
  PROVE  Dated(q, w)
<1>1. \A i \in 1 .. Len(q) : q[i] \in Frame
  BY ElementOfSeq
<1>2. \A f \in Frame : f.tok[2] \in Nat
  BY DEF Frame, Token
<1> QED BY <1>1, <1>2 DEF Dated

\* A client that asks to resume is still alone when its request is not served.
LEMMA StillAlone ==
  ASSUME BaseInv, UNCHANGED sub,
         \/ up # <<>> /\ up' = Tail(up)
         \/ /\ UNCHANGED up
            /\ srv.sub = "none" /\ srv.chan = <<>> /\ down = <<>> =>
                 srv'.sub = "none" /\ srv'.chan = <<>> /\ down' = <<>>
  PROVE  Resuming' /\ (sub'.phase # "none" => EndsAsking(up')) /\ up' \in Seq(Frame)
<1>1. up \in Seq(Frame) /\ Resuming /\ (sub.phase # "none" => EndsAsking(up))
  BY DEF BaseInv, TypeOK, Wired
<1>2. CASE up # <<>> /\ up' = Tail(up)
  <2>1. /\ Tail(up) \in Seq(Frame) /\ Len(Tail(up)) = Len(up) - 1
        /\ Tail(up) # <<>> => Tail(up)[Len(Tail(up))] = up[Len(up)]
        /\ EndsAsking(up) => EndsAsking(Tail(up))
    BY <1>1, <1>2, Taken
  <2>2. ~(sub.phase # "none" /\ up' # <<>> /\ up'[Len(up')].seq # 0)
    <3> SUFFICES ASSUME sub.phase # "none", Tail(up) # <<>>, Tail(up)[Len(Tail(up))].seq # 0
                 PROVE  FALSE
      BY <1>2
    <3>1. Len(up) = 1
      BY <1>1, <1>2, <2>1 DEF Resuming
    <3>2. Len(Tail(up)) # 0
      BY <2>1, EmptySeq
    <3> QED BY <2>1, <3>1, <3>2
  <2> QED BY <1>1, <1>2, <2>1, <2>2 DEF Resuming
<1>3. CASE UNCHANGED up /\ (srv.sub = "none" /\ srv.chan = <<>> /\ down = <<>> =>
                              srv'.sub = "none" /\ srv'.chan = <<>> /\ down' = <<>>)
  BY <1>1, <1>3 DEF Resuming
<1> QED BY <1>2, <1>3

\* A step of the backend, put together.
LEMMA BackendKeepsBase ==
  ASSUME BaseInv, UNCHANGED <<domain, clientVars>>,
         \/ up # <<>> /\ up' = Tail(up)
         \/ /\ UNCHANGED up
            /\ srv.sub = "none" /\ srv.chan = <<>> /\ down = <<>> =>
                 srv'.sub = "none" /\ srv'.chan = <<>> /\ down' = <<>>,
         conn = "open" \/ (UNCHANGED up /\ UNCHANGED down /\ UNCHANGED srv),
         down' \in Seq(Frame), Len(down') <= OutCap, Dated(down', ver'),
         srv' \in Session, Len(srv'.chan) <= ChanCap, Dated(srv'.chan, ver'),
         hub' \in Hub, Len(hub'.buf) <= BufferSize,
         oldSub' \in BOOLEAN, otherSub' \in BOOLEAN, ver' \in 0 .. MaxVer, ver <= ver',
         Ringed'
  PROVE  BaseInv'
<1>1. /\ TypeOK /\ Wired /\ Coherent(sub) /\ sub' = sub /\ conn' = conn /\ outbox' = outbox
      /\ ver \in Nat /\ ver' \in Nat
  BY BoundsAssumption DEF BaseInv, clientVars, TypeOK
<1>2. Resuming' /\ (sub'.phase # "none" => EndsAsking(up')) /\ up' \in Seq(Frame)
  BY <1>1, StillAlone
<1>3. sub.at \in Nat /\ sub.at <= ver' /\ told \in 0 .. ver'
  <2>1. sub \in Subscription /\ sub.at <= ver /\ told \in 0 .. ver
    BY <1>1 DEF TypeOK
  <2>2. sub.at \in Nat
    BY <2>1 DEF Subscription
  <2> QED BY <1>1, <2>1, <2>2
<1>4. TypeOK'
  BY <1>1, <1>2, <1>3 DEF TypeOK, clientVars, ReadStates
<1>5. conn # "open" => up' = <<>> /\ down' = <<>> /\ srv' = NoSession
  BY <1>1 DEF Wired
<1>6. Wired'
  BY <1>1, <1>2, <1>5 DEF Wired
<1> QED BY <1>1, <1>4, <1>6 DEF BaseInv

\* What an enqueue does: the frames go out, or the session ends.
LEMMA EnqueueFacts ==
  ASSUME TypeOK, Dated(down, ver), NEW s \in Session, NEW frames \in Seq(Frame),
         Dated(frames, ver), Enqueue(s, frames)
  PROVE  /\ down' \in Seq(Frame) /\ Len(down') <= OutCap /\ Dated(down', ver)
         /\ oldSub' = oldSub
         /\ \/ down' = down \o frames /\ srv' = s /\ hub' = hub
            \/ srv' = [NoSession EXCEPT !.dead = TRUE] /\ hub' = HubAfter(oldSub \/ otherSub)
<1>1. down \in Seq(Frame) /\ OutCap \in Nat
  BY BoundsAssumption DEF TypeOK
<1>2. /\ down \o frames \in Seq(Frame) /\ Dated(down \o frames, ver)
      /\ Len(down \o frames) = Len(down) + Len(frames)
      /\ Len(down) \in Nat /\ Len(frames) \in Nat
  BY <1>1, Joined, LenProperties
<1>3. CASE Len(down) + Len(frames) <= OutCap
  BY <1>2, <1>3 DEF Enqueue
<1>4. CASE ~(Len(down) + Len(frames) <= OutCap)
  <2>1. /\ down' = SubSeq(down \o frames, 1, OutCap)
        /\ srv' = [NoSession EXCEPT !.dead = TRUE]
        /\ hub' = HubAfter(oldSub \/ otherSub) /\ oldSub' = oldSub
    BY <1>4 DEF Enqueue
  <2>2. OutCap <= Len(down \o frames)
    BY <1>1, <1>2, <1>4
  <2>3. /\ down' \in Seq(Frame) /\ Len(down') = OutCap /\ Dated(down', ver)
    BY <1>1, <1>2, <2>1, <2>2, Cut
  <2>4. Len(down') <= OutCap
    BY <1>1, <2>3
  <2>5. \/ down' = down \o frames /\ srv' = s /\ hub' = hub
        \/ srv' = [NoSession EXCEPT !.dead = TRUE] /\ hub' = HubAfter(oldSub \/ otherSub)
    BY <2>1
  <2>6. oldSub' = oldSub
    BY <2>1
  <2> QED BY <2>3, <2>4, <2>5, <2>6
<1> QED BY <1>3, <1>4

LEMMA HubFacts ==
  ASSUME TypeOK, NEW remaining \in BOOLEAN
  PROVE  /\ HubAfter(remaining) \in Hub /\ Len(HubAfter(remaining).buf) <= BufferSize
         /\ EmptyHub \in Hub /\ EmptyHub.seq = 0 /\ EmptyHub.buf = <<>> /\ Len(EmptyHub.buf) = 0
         /\ HubAfter(remaining) = IF remaining THEN hub ELSE EmptyHub
<1>1. EmptyHub \in Hub /\ EmptyHub.seq = 0 /\ EmptyHub.buf = <<>> /\ Len(EmptyHub.buf) = 0
  BY NothingQueued DEF EmptyHub, Hub
<1>2. hub \in Hub /\ Len(hub.buf) <= BufferSize /\ 0 <= BufferSize
  BY BoundsAssumption DEF TypeOK
<1> QED BY <1>1, <1>2 DEF HubAfter

LEMMA DeadSession ==
  LET s == [NoSession EXCEPT !.dead = TRUE]
  IN /\ s \in Session /\ s.sub = "none" /\ s.chan = <<>> /\ Len(s.chan) = 0 /\ s.dead
     /\ ~Subscribed(s.sub) /\ \A v : Dated(s.chan, v)
<1> DEFINE s == [NoSession EXCEPT !.dead = TRUE]
<1>1. s \in Session /\ s.sub = "none" /\ s.chan = <<>> /\ s.dead
  BY NothingQueued DEF NoSession, Session
<1> HIDE DEF s
<1>2. Len(s.chan) = 0 /\ (\A v : Dated(s.chan, v)) /\ ~Subscribed(s.sub)
  BY <1>1, NothingQueued DEF Subscribed
<1>3. s = [NoSession EXCEPT !.dead = TRUE]
  BY DEF s
<1> QED BY <1>1, <1>2, <1>3

\* A hub that stays, or goes with the last that listened to it, while nothing
\* changes in the cluster.
LEMMA RingStays ==
  ASSUME BaseInv, ver' = ver, NEW remaining \in BOOLEAN, hub' = HubAfter(remaining),
         remaining /\ hub.seq > 0 => Subscribed(srv'.sub) \/ oldSub' \/ otherSub',
         Subscribed(srv'.sub) => remaining /\ srv'.high <= hub.seq
  PROVE  Ringed' /\ hub' \in Hub /\ Len(hub'.buf) <= BufferSize
<1>1. TypeOK /\ Ringed /\ ver \in Nat
  BY BoundsAssumption DEF BaseInv, TypeOK
<1>2. /\ hub' \in Hub /\ Len(hub'.buf) <= BufferSize
      /\ EmptyHub.seq = 0 /\ EmptyHub.buf = <<>> /\ Len(EmptyHub.buf) = 0
      /\ hub' = IF remaining THEN hub ELSE EmptyHub
  BY <1>1, HubFacts
<1>3. CASE remaining
  BY <1>1, <1>2, <1>3 DEF Ringed
<1>4. CASE ~remaining
  <2>1. hub'.seq = 0 /\ Len(hub'.buf) = 0
    BY <1>2, <1>4
  <2>2. ~Subscribed(srv'.sub) /\ \A i \in 1 .. Len(hub'.buf) : FALSE
    BY <1>4, <2>1
  <2>3. Len(hub'.buf) <= hub'.seq /\ hub'.seq <= ver' /\ ~(hub'.seq > 0)
    BY <1>1, <2>1
  <2>4. Ringed'
    BY <2>2, <2>3 DEF Ringed
  <2> QED BY <1>2, <2>4
<1> QED BY <1>3, <1>4

\* Buffer.Since returns exactly the newer changes, each with its number and its
\* version, when the ring still reaches back to the token.
LEMMA SinceFacts ==
  ASSUME TypeOK, Ringed, NEW token \in Nat, CanResume(token)
  PROVE  /\ Since(token) \in Seq(Frame) /\ Dated(Since(token), ver)
         /\ Len(Since(token)) = IF token < hub.seq THEN hub.seq - token ELSE 0
         /\ \A i \in 1 .. Len(Since(token)) :
              Since(token)[i] = Changed(token + i, ((ver - hub.seq) + token) + i)
<1> DEFINE buf == hub.buf
           n == Len(buf)
           last == hub.seq
           first == Head(buf).seq
           k == (token - first) + 2
           tail == SubSeq(buf, k, n)
<1>1. /\ buf \in Seq(Frame) /\ buf # <<>> /\ n \in Nat \ {0} /\ last \in Nat /\ ver \in Nat
      /\ n <= last /\ last <= ver /\ token >= first
  BY EmptySeq, BoundsAssumption DEF TypeOK, Hub, CanResume, Ringed
<1>2. \A i \in 1 .. n : buf[i] = Changed((last - n) + i, (ver - n) + i) /\ buf[i] \in Frame
  BY <1>1, ElementOfSeq DEF Ringed
<1>3. Since(token) = tail
  BY DEF Since
<1> HIDE DEF buf, last
<1>4. first = (last - n) + 1
  <2>1. Head(buf) = buf[1] /\ 1 \in 1 .. n
    BY <1>1
  <2>2. buf[1] = Changed((last - n) + 1, (ver - n) + 1)
    BY <1>2, <2>1
  <2> QED BY <2>1, <2>2 DEF Changed
<1> HIDE DEF n, first
<1>5. k \in Int /\ k = (token - last) + n + 1 /\ k >= 2
  BY <1>1, <1>4
<1> HIDE DEF k
<1>6. /\ tail \in Seq(Frame) /\ Len(tail) = IF k <= n THEN (n - k) + 1 ELSE 0
      /\ \A i \in 1 .. (n - k) + 1 : tail[i] = buf[(k + i) - 1]
  <2>1. \A i \in k .. n : buf[i] \in Frame
    BY <1>1, <1>2, <1>5
  <2>2. k \in Int /\ n \in Int
    BY <1>1, <1>5
  <2>3. n - k + 1 = (n - k) + 1 /\ \A i \in 1 .. (n - k) + 1 : k + i - 1 = (k + i) - 1
    BY <2>2
  <2> QED BY <2>1, <2>2, <2>3, SubSeqProperties
<1> HIDE DEF tail
<1>7. Len(tail) = IF token < last THEN last - token ELSE 0
  BY <1>1, <1>5, <1>6
<1>8. ASSUME NEW i \in 1 .. Len(tail)
      PROVE  tail[i] = Changed(token + i, ((ver - last) + token) + i)
             /\ ((ver - last) + token) + i <= ver
  <2>1. token < last /\ i \in 1 .. last - token /\ i \in 1 .. (n - k) + 1
    BY <1>1, <1>5, <1>7
  <2> DEFINE j == (k + i) - 1
  <2>2. j \in 1 .. n /\ (last - n) + j = token + i
        /\ (ver - n) + j = ((ver - last) + token) + i
    BY <1>1, <1>5, <2>1
  <2>3. tail[i] = buf[j]
    BY <1>6, <2>1
  <2> HIDE DEF j
  <2>4. tail[i] = Changed((last - n) + j, (ver - n) + j)
    BY <1>2, <2>2, <2>3
  <2> QED BY <1>1, <2>1, <2>2, <2>4
<1>9. Dated(tail, ver)
  <2>1. ASSUME NEW i \in 1 .. Len(tail) PROVE tail[i].tok # NoToken /\ tail[i].tok[2] <= ver
                                              /\ tail[i].type = "CHANGED"
    BY <1>8, ChangedFields
  <2> QED BY <2>1 DEF Dated
<1>10. \A i \in 1 .. Len(tail) : tail[i] = Changed(token + i, ((ver - hub.seq) + token) + i)
  BY <1>8 DEF last
<1> QED BY <1>3, <1>6, <1>7, <1>9, <1>10 DEF last

\* What a served request puts into the session and on the wire.
LEMMA ServeFacts ==
  ASSUME BaseInv, ServeRequest
  PROVE  \E s \in Session, frames \in Seq(Frame), resumed \in BOOLEAN :
           /\ Enqueue(s, frames) /\ Dated(frames, ver)
           /\ s.sub = "live" /\ s.chan = <<>> /\ s.high <= hub.seq /\ ~s.dead
           /\ resumed => /\ CanResume(Head(up).seq)
                         /\ frames = <<Ack>> \o Since(Head(up).seq)
                         /\ s.high = IF Head(up).seq < hub.seq THEN hub.seq ELSE 0
           /\ ~resumed => /\ frames = <<Ack>> \o <<Reset("RESET", srv.counter + 1)>>
                          /\ s.high = 0
<1> DEFINE token == Head(up).seq
           tail == Since(token)
           fits == Len(tail) <= OutCap - (Len(down) + 1)
           resumed == CanResume(token) /\ fits
           h == IF resumed /\ tail # <<>> THEN tail[Len(tail)].seq ELSE 0
           c == IF resumed THEN srv.counter ELSE srv.counter + 1
           entry == [srv EXCEPT !.sub = "live", !.chan = <<>>, !.high = h, !.counter = c]
           frames == <<Ack>> \o IF resumed THEN tail ELSE <<Reset("RESET", srv.counter + 1)>>
<1>1. /\ TypeOK /\ Ringed /\ up \in Seq(Frame) /\ up # <<>> /\ srv \in Session /\ ~srv.dead
      /\ srv.counter \in Nat /\ hub.seq \in Nat
  BY DEF BaseInv, TypeOK, ServeRequest, Serving, Session, Hub
<1>2. Head(up) \in Frame /\ token \in Nat
  BY <1>1, Taken DEF Frame
<1>3. Enqueue(entry, frames)
  BY DEF ServeRequest
<1> HIDE DEF token
<1>4. resumed => /\ tail \in Seq(Frame) /\ Dated(tail, ver)
                 /\ Len(tail) = IF token < hub.seq THEN hub.seq - token ELSE 0
                 /\ \A i \in 1 .. Len(tail) : tail[i].seq = token + i
  <2> SUFFICES ASSUME CanResume(token)
               PROVE  /\ tail \in Seq(Frame) /\ Dated(tail, ver)
                      /\ Len(tail) = IF token < hub.seq THEN hub.seq - token ELSE 0
                      /\ \A i \in 1 .. Len(tail) : tail[i].seq = token + i
    OBVIOUS
  <2>1. /\ tail \in Seq(Frame) /\ Dated(tail, ver)
        /\ Len(tail) = IF token < hub.seq THEN hub.seq - token ELSE 0
        /\ \A i \in 1 .. Len(tail) : tail[i] = Changed(token + i, ((ver - hub.seq) + token) + i)
    BY <1>1, <1>2, SinceFacts
  <2> HIDE DEF tail
  <2> QED BY <2>1, ChangedFields
<1>5. /\ Ack \in Frame /\ <<Ack>> \in Seq(Frame) /\ Dated(<<Ack>>, ver)
  BY FrameTypes, Single DEF Ack
<1> DEFINE reset == Reset("RESET", srv.counter + 1)
<1>6. reset \in Frame /\ <<reset>> \in Seq(Frame) /\ Dated(<<reset>>, ver)
  <2>1. reset \in Frame /\ reset.type = "RESET" /\ reset.tok # NoToken
    BY <1>1, ResetFields
  <2> QED BY <2>1, Single
<1> HIDE DEF tail, reset
<1>7. h \in Nat /\ h <= hub.seq /\ (resumed => h = IF token < hub.seq THEN hub.seq ELSE 0)
      /\ (~resumed => h = 0)
  <2>1. CASE resumed
    <3>1. tail # <<>> <=> token < hub.seq
      BY <1>1, <1>2, <1>4, <2>1, EmptySeq
    <3>2. token < hub.seq => tail[Len(tail)].seq = hub.seq
      BY <1>1, <1>2, <1>4, <2>1
    <3> QED BY <1>1, <2>1, <3>1, <3>2
  <2>2. CASE ~resumed
    BY <1>1, <2>2
  <2> QED BY <2>1, <2>2
<1> HIDE DEF fits
<1>8. c \in Nat /\ resumed \in BOOLEAN
  BY <1>1
<1> HIDE DEF h, c, resumed
<1>9. entry \in Session /\ entry.sub = "live" /\ entry.chan = <<>> /\ entry.high = h /\ ~entry.dead
  BY <1>1, <1>7, <1>8, NothingQueued DEF Session
<1>10. frames = IF resumed THEN <<Ack>> \o tail ELSE <<Ack>> \o <<reset>>
  BY DEF reset
<1> HIDE DEF frames
<1>11. frames \in Seq(Frame) /\ Dated(frames, ver)
  <2>1. CASE resumed
    BY <1>4, <1>5, <1>10, <2>1, Joined
  <2>2. CASE ~resumed
    BY <1>5, <1>6, <1>10, <2>2, Joined
  <2> QED BY <1>8, <2>1, <2>2
<1>12. resumed => CanResume(token)
  BY DEF resumed
<1> HIDE DEF entry
<1> QED BY <1>3, <1>7, <1>8, <1>9, <1>10, <1>11, <1>12 DEF tail, token, reset

LEMMA EnqueueKeepsBase ==
  ASSUME BaseInv, conn = "open", NEW s \in Session, NEW frames \in Seq(Frame),
         Dated(frames, ver), Enqueue(s, frames), Len(s.chan) <= ChanCap, Dated(s.chan, ver),
         Subscribed(srv.sub) => Subscribed(s.sub), Subscribed(s.sub) => s.high <= hub.seq,
         UNCHANGED <<domain, clientVars, otherSub, ver>>,
         \/ up # <<>> /\ up' = Tail(up)
         \/ UNCHANGED up /\ ~(srv.sub = "none" /\ srv.chan = <<>>)
  PROVE  BaseInv'
<1>1. /\ TypeOK /\ Ringed /\ Dated(down, ver) /\ ver \in Nat /\ ver \in 0 .. MaxVer
      /\ oldSub \in BOOLEAN /\ otherSub \in BOOLEAN /\ 0 <= ChanCap
  BY BoundsAssumption DEF BaseInv, TypeOK, Wired
<1>2. /\ down' \in Seq(Frame) /\ Len(down') <= OutCap /\ Dated(down', ver)
      /\ oldSub' = oldSub /\ otherSub' = otherSub /\ ver' = ver
      /\ \/ srv' = s /\ hub' = hub
         \/ srv' = [NoSession EXCEPT !.dead = TRUE] /\ hub' = HubAfter(oldSub \/ otherSub)
  BY <1>1, EnqueueFacts
<1>3. /\ srv' \in Session /\ Len(srv'.chan) <= ChanCap /\ Dated(srv'.chan, ver)
      /\ Ringed' /\ hub' \in Hub /\ Len(hub'.buf) <= BufferSize
  <2>1. CASE srv' = s /\ hub' = hub
    <3>1. hub' = HubAfter(TRUE)
      BY <2>1 DEF HubAfter
    <3>2. hub.seq > 0 => Subscribed(srv'.sub) \/ oldSub' \/ otherSub'
      BY <1>1, <1>2, <2>1 DEF Ringed
    <3> QED BY <1>2, <2>1, <3>1, <3>2, RingStays
  <2>2. CASE srv' = [NoSession EXCEPT !.dead = TRUE] /\ hub' = HubAfter(oldSub \/ otherSub)
    <3>1. /\ srv' \in Session /\ Len(srv'.chan) = 0 /\ Dated(srv'.chan, ver)
          /\ ~Subscribed(srv'.sub)
      BY <2>2, DeadSession
    <3>2. Len(srv'.chan) <= ChanCap
      BY <1>1, <3>1
    <3>3. Ringed' /\ hub' \in Hub /\ Len(hub'.buf) <= BufferSize
      BY <1>1, <1>2, <2>2, <3>1, RingStays
    <3> QED BY <3>1, <3>2, <3>3
  <2> QED BY <1>2, <2>1, <2>2
<1>4. UNCHANGED <<domain, clientVars>> /\ ver <= ver'
  BY <1>1, <1>2
<1>5. \/ up # <<>> /\ up' = Tail(up)
      \/ /\ UNCHANGED up
         /\ srv.sub = "none" /\ srv.chan = <<>> /\ down = <<>> =>
              srv'.sub = "none" /\ srv'.chan = <<>> /\ down' = <<>>
  OBVIOUS
<1> QED BY <1>1, <1>2, <1>3, <1>4, <1>5, BackendKeepsBase

LEMMA ServeRequestKeepsBase ==
  ASSUME BaseInv, ServeRequest
  PROVE  BaseInv'
<1>1. PICK s \in Session, frames \in Seq(Frame) :
        /\ Enqueue(s, frames) /\ Dated(frames, ver)
        /\ s.sub = "live" /\ s.chan = <<>> /\ s.high <= hub.seq
  BY ServeFacts
<1>2. /\ conn = "open" /\ up # <<>> /\ up' = Tail(up)
      /\ UNCHANGED <<domain, clientVars, otherSub, ver>>
  BY DEF ServeRequest, Serving
<1>3. Len(s.chan) <= ChanCap /\ Dated(s.chan, ver)
  BY <1>1, NothingQueued, BoundsAssumption
<1>4. Subscribed(s.sub)
  BY <1>1 DEF Subscribed
<1> QED BY <1>1, <1>2, <1>3, <1>4, EnqueueKeepsBase

LEMMA SessionFacts ==
  ASSUME BaseInv
  PROVE  /\ srv \in Session /\ Len(srv.chan) <= ChanCap /\ Dated(srv.chan, ver)
         /\ srv.chan \in Seq(Frame) /\ srv.counter \in Nat /\ srv.high \in Nat
         /\ Subscribed(srv.sub) => srv.high <= hub.seq
         /\ conn # "open" => srv.chan = <<>> /\ srv.sub = "none"
         /\ ver \in Nat /\ hub.seq \in Nat /\ ver \in 0 .. MaxVer
BY BoundsAssumption DEF BaseInv, TypeOK, Wired, Ringed, Session, NoSession, Hub

LEMMA RefuseRequestKeepsBase ==
  ASSUME BaseInv, RefuseRequest
  PROVE  BaseInv'
<1>1. PICK denied \in BOOLEAN : Enqueue(srv, <<Error(denied)>>)
  BY DEF RefuseRequest
<1>2. /\ conn = "open" /\ up # <<>> /\ up' = Tail(up)
      /\ UNCHANGED <<domain, clientVars, otherSub, ver>>
  BY DEF RefuseRequest, Serving
<1> DEFINE f == Error(denied)
<1>3. f \in Frame /\ f.type \in {"ERROR", "FORBIDDEN"}
  BY ErrorFields
<1> HIDE DEF f
<1>4. <<f>> \in Seq(Frame) /\ Dated(<<f>>, ver)
  BY <1>3, Single
<1>5. Enqueue(srv, <<f>>)
  BY <1>1 DEF f
<1> QED BY <1>2, <1>4, <1>5, SessionFacts, EnqueueKeepsBase

LEMMA ServeCancelKeepsBase ==
  ASSUME BaseInv, ServeCancel
  PROVE  BaseInv'
<1> DEFINE s == [srv EXCEPT !.sub = "none", !.chan = <<>>, !.high = 0]
<1>1. /\ TypeOK /\ Ringed /\ Dated(down, ver) /\ down \in Seq(Frame) /\ Len(down) <= OutCap
      /\ oldSub \in BOOLEAN /\ otherSub \in BOOLEAN /\ 0 <= ChanCap
  BY BoundsAssumption DEF BaseInv, TypeOK, Wired
<1>2. /\ srv' = s /\ conn = "open" /\ up # <<>> /\ up' = Tail(up)
      /\ UNCHANGED <<domain, clientVars, down, oldSub, otherSub, ver>>
      /\ hub' = IF Subscribed(srv.sub) THEN HubAfter(oldSub \/ otherSub) ELSE hub
  BY DEF ServeCancel, Serving
<1>3. /\ srv' \in Session /\ srv'.sub = "none" /\ srv'.chan = <<>>
  BY <1>2, SessionFacts, NothingQueued DEF Session
<1>4. ~Subscribed(srv'.sub) /\ Len(srv'.chan) <= ChanCap /\ Dated(srv'.chan, ver)
  BY <1>1, <1>3, NothingQueued DEF Subscribed
<1>5. Ringed' /\ hub' \in Hub /\ Len(hub'.buf) <= BufferSize
  <2>1. CASE Subscribed(srv.sub)
    BY <1>1, <1>2, <1>4, <2>1, RingStays
  <2>2. CASE ~Subscribed(srv.sub)
    <3>1. hub' = HubAfter(TRUE)
      BY <1>2, <2>2 DEF HubAfter
    <3>2. hub.seq > 0 => oldSub' \/ otherSub'
      BY <1>1, <1>2, <2>2 DEF Ringed
    <3> QED BY <1>2, <1>4, <3>1, <3>2, RingStays
  <2> QED BY <2>1, <2>2
<1>6. ver <= ver'
  BY <1>2, SessionFacts
<1> HIDE DEF s
<1> QED BY <1>1, <1>2, <1>3, <1>4, <1>5, <1>6, SessionFacts, BackendKeepsBase

\* What a change of the cluster does to the session's channel.
LEMMA RingSession ==
  ASSUME BaseInv, Ring
  PROVE  /\ srv' \in Session /\ Len(srv'.chan) <= ChanCap /\ Dated(srv'.chan, ver')
         /\ srv'.high = srv.high /\ srv'.dead = srv.dead
         /\ Subscribed(srv'.sub) <=> Subscribed(srv.sub)
         /\ \/ srv.sub # "live" /\ srv' = srv
            \/ /\ srv.sub = "live" /\ srv'.sub = "live"
               /\ srv'.chan = srv.chan \o <<Changed(hub.seq + 1, ver + 1)>>
            \/ srv.sub = "live" /\ srv'.sub = "resyncing" /\ Sent(srv'.chan, {"RESET"})
<1> DEFINE update == Changed(hub.seq + 1, ver + 1)
           reset == Reset("RESET", 0)
<1>1. /\ srv \in Session /\ Len(srv.chan) <= ChanCap /\ Dated(srv.chan, ver)
      /\ srv.chan \in Seq(Frame) /\ ver \in Nat /\ hub.seq \in Nat /\ ver' = ver + 1
      /\ ChanCap \in Nat \ {0}
  BY SessionFacts, BoundsAssumption DEF Ring
<1>2. /\ update \in Frame /\ update.type = "CHANGED" /\ update.tok # NoToken
      /\ update.tok[2] = ver + 1 /\ reset \in Frame /\ reset.type = "RESET" /\ reset.tok # NoToken
  BY <1>1, ChangedFields, ResetFields
<1>3. srv' = IF srv.sub # "live" THEN srv
             ELSE IF Len(srv.chan) < ChanCap THEN [srv EXCEPT !.chan = Append(@, update)]
             ELSE [srv EXCEPT !.chan = Append(Tail(@), reset), !.sub = "resyncing"]
  BY DEF Ring
<1> HIDE DEF update, reset
<1>4. Dated(srv.chan, ver')
  BY <1>1, Later
<1>5. Dated(<<update>>, ver') /\ Dated(<<reset>>, ver') /\ <<update>> \in Seq(Frame)
      /\ <<reset>> \in Seq(Frame) /\ Sent(<<reset>>, {"RESET"})
      /\ Len(<<update>>) = 1 /\ Len(<<reset>>) = 1
  BY <1>1, <1>2, Single
<1>6. CASE srv.sub # "live"
  BY <1>1, <1>3, <1>4, <1>6
<1>7. CASE srv.sub = "live" /\ Len(srv.chan) < ChanCap
  <2> DEFINE c == srv.chan \o <<update>>
  <2>1. Append(srv.chan, update) = c
    BY <1>1, <1>2, AppendIsConcat
  <2>2. c \in Seq(Frame) /\ Dated(c, ver') /\ Len(c) = Len(srv.chan) + 1
    BY <1>1, <1>4, <1>5, Joined
  <2> HIDE DEF c
  <2>3. srv' = [srv EXCEPT !.chan = c]
    BY <1>3, <1>7, <2>1
  <2>4. /\ srv' \in Session /\ srv'.chan = c /\ srv'.sub = "live" /\ srv'.high = srv.high
        /\ srv'.dead = srv.dead
    BY <1>1, <1>7, <2>2, <2>3 DEF Session
  <2>5. Len(c) <= ChanCap
    BY <1>1, <1>7, <2>2, LenProperties
  <2> QED BY <1>7, <2>2, <2>4, <2>5 DEF c, update, Subscribed
<1>8. CASE srv.sub = "live" /\ ~(Len(srv.chan) < ChanCap)
  <2> DEFINE q == Tail(srv.chan)
             c == q \o <<reset>>
  <2>1. Len(srv.chan) \in Nat /\ Len(srv.chan) = ChanCap /\ srv.chan # <<>>
    BY <1>1, <1>8, LenProperties, EmptySeq
  <2>2. q \in Seq(Frame) /\ Len(q) = Len(srv.chan) - 1 /\ Dated(q, ver')
    BY <1>1, <1>4, <2>1, Taken
  <2> HIDE DEF q
  <2>3. Append(q, reset) = c
    BY <1>2, <2>2, AppendIsConcat
  <2>4. c \in Seq(Frame) /\ Dated(c, ver') /\ Len(c) = Len(q) + 1 /\ Sent(c, {"RESET"})
    BY <1>5, <2>2, Joined
  <2> HIDE DEF c
  <2>5. srv' = [srv EXCEPT !.chan = c, !.sub = "resyncing"]
    BY <1>3, <1>8, <2>3 DEF q
  <2>6. /\ srv' \in Session /\ srv'.chan = c /\ srv'.sub = "resyncing" /\ srv'.high = srv.high
        /\ srv'.dead = srv.dead
    BY <1>1, <1>8, <2>4, <2>5 DEF Session
  <2>7. Len(c) <= ChanCap
    BY <1>1, <2>1, <2>2, <2>4
  <2> QED BY <1>8, <2>4, <2>6, <2>7 DEF Subscribed
<1> QED BY <1>6, <1>7, <1>8

LEMMA RingKeepsBase ==
  ASSUME BaseInv, Ring
  PROVE  BaseInv' /\ hub'.seq = IF Subscribed(srv.sub) \/ oldSub \/ otherSub
                                THEN hub.seq + 1 ELSE 0
<1> DEFINE seq == hub.seq
           n == Len(hub.buf)
           update == Changed(seq + 1, ver + 1)
           ring == Append(hub.buf, update)
           heard == Subscribed(srv.sub) \/ oldSub \/ otherSub
<1>1. /\ TypeOK /\ Ringed /\ Dated(down, ver) /\ down \in Seq(Frame) /\ Len(down) <= OutCap
      /\ oldSub \in BOOLEAN /\ otherSub \in BOOLEAN /\ ver \in Nat /\ BufferSize \in Nat \ {0}
      /\ hub.buf \in Seq(Frame) /\ n \in Nat /\ seq \in Nat /\ n <= BufferSize
      /\ hub \in Hub /\ MaxVer \in Nat
  BY BoundsAssumption, LenProperties DEF BaseInv, TypeOK, Wired, Hub
<1>2. /\ ver' = ver + 1 /\ ver < MaxVer
      /\ UNCHANGED <<domain, clientVars, up, down, oldSub, otherSub>>
      /\ hub' = IF ~heard THEN hub
                ELSE [seq |-> seq + 1,
                      buf |-> IF Len(ring) > BufferSize THEN Tail(ring) ELSE ring]
  BY DEF Ring
<1>3. /\ srv' \in Session /\ Len(srv'.chan) <= ChanCap /\ Dated(srv'.chan, ver')
      /\ srv'.high = srv.high /\ (Subscribed(srv'.sub) <=> Subscribed(srv.sub))
      /\ srv.sub # "live" => srv' = srv
  BY RingSession
<1>4. /\ n <= seq /\ seq <= ver /\ (seq > 0 => n > 0) /\ (seq > 0 => heard)
      /\ \A i \in 1 .. n : hub.buf[i] = Changed((seq - n) + i, (ver - n) + i)
      /\ Subscribed(srv.sub) => srv.high <= seq
  BY <1>1 DEF Ringed
<1>5. srv.high \in Nat
  BY SessionFacts
<1>6. Ringed' /\ hub' \in Hub /\ Len(hub'.buf) <= BufferSize
      /\ hub'.seq = IF heard THEN seq + 1 ELSE 0
  <2>1. CASE ~heard
    <3>1. seq = 0 /\ n = 0 /\ hub' = hub
      BY <1>1, <1>2, <1>4, <2>1
    <3>2. /\ hub'.seq = 0 /\ Len(hub'.buf) = 0 /\ ~Subscribed(srv'.sub)
          /\ \A i \in 1 .. Len(hub'.buf) : FALSE
      BY <1>3, <2>1, <3>1
    <3>3. Ringed'
      <4>1. Len(hub'.buf) <= hub'.seq /\ hub'.seq <= ver' /\ ~(hub'.seq > 0)
        BY <1>1, <1>2, <3>2
      <4> QED BY <3>2, <4>1 DEF Ringed
    <3> QED BY <1>1, <2>1, <3>1, <3>2, <3>3
  <2>2. CASE heard
    <3> DEFINE b == IF Len(ring) > BufferSize THEN Tail(ring) ELSE ring
               k == Len(b)
    <3>1. hub' = [seq |-> seq + 1, buf |-> b]
      BY <1>2, <2>2
    <3>2. update \in Frame
      BY <1>1, ChangedFields
    <3>3. /\ ring \in Seq(Frame) /\ Len(ring) = n + 1 /\ ring # <<>>
          /\ \A i \in 1 .. n + 1 : ring[i] = Changed((seq - n) + i, (ver - n) + i)
      <4>1. /\ ring \in Seq(Frame) /\ Len(ring) = n + 1 /\ ring # <<>>
            /\ (\A i \in 1 .. n : ring[i] = hub.buf[i]) /\ ring[n + 1] = update
        <5> DEFINE b0 == hub.buf
        <5> HIDE DEF update, b0
        <5>1. b0 \in Seq(Frame) /\ update \in Frame
          BY <1>1, <3>2 DEF b0
        <5>2. /\ Append(b0, update) \in Seq(Frame) /\ Append(b0, update) # <<>>
              /\ Len(Append(b0, update)) = Len(b0) + 1
              /\ \A i \in 1 .. Len(b0) : Append(b0, update)[i] = b0[i]
              /\ Append(b0, update)[Len(b0) + 1] = update
          BY <5>1, AppendProperties
        <5> QED BY <5>2 DEF b0
      <4> HIDE DEF ring, n, seq
      <4>2. (seq - n) + (n + 1) = seq + 1 /\ (ver - n) + (n + 1) = ver + 1
        BY <1>1
      <4>3. ASSUME NEW i \in 1 .. n + 1
            PROVE  ring[i] = Changed((seq - n) + i, (ver - n) + i)
        <5>1. CASE i \in 1 .. n
          BY <1>4, <4>1, <5>1
        <5>2. CASE i = n + 1
          BY <4>1, <4>2, <5>2
        <5> QED BY <1>1, <5>1, <5>2
      <4> QED BY <4>1, <4>3
    <3> HIDE DEF ring, n, seq
    <3>4. /\ b \in Seq(Frame) /\ k \in Nat /\ k > 0 /\ k <= BufferSize /\ k <= seq + 1
          /\ \A i \in 1 .. k : b[i] = Changed(((seq + 1) - k) + i, ((ver + 1) - k) + i)
      <4>1. CASE Len(ring) > BufferSize
        <5>1. b = Tail(ring)
          BY <4>1
        <5>2. /\ Tail(ring) \in Seq(Frame) /\ Len(Tail(ring)) = (n + 1) - 1
              /\ \A i \in 1 .. Len(Tail(ring)) : Tail(ring)[i] = ring[i + 1]
          BY <3>3, HeadTailProperties
        <5>3. b \in Seq(Frame) /\ k = n /\ \A i \in 1 .. n : b[i] = ring[i + 1]
          BY <1>1, <5>1, <5>2
        <5> HIDE DEF b
        <5>4. n > 0
          BY <1>1, <3>3, <4>1
        <5>5. ASSUME NEW i \in 1 .. n
              PROVE  b[i] = Changed(((seq + 1) - n) + i, ((ver + 1) - n) + i)
          <6>1. i + 1 \in 1 .. n + 1 /\ (seq - n) + (i + 1) = ((seq + 1) - n) + i
                /\ (ver - n) + (i + 1) = ((ver + 1) - n) + i
            BY <1>1
          <6>2. b[i] = Changed((seq - n) + (i + 1), (ver - n) + (i + 1))
            BY <3>3, <5>3, <6>1
          <6> QED BY <6>1, <6>2
        <5> HIDE DEF k
        <5>6. k <= BufferSize /\ k <= seq + 1 /\ k \in Nat /\ k > 0
          BY <1>1, <1>4, <5>3, <5>4
        <5> QED BY <5>3, <5>5, <5>6
      <4>2. CASE ~(Len(ring) > BufferSize)
        <5>1. b = ring /\ k = n + 1
          BY <3>3, <4>2
        <5> HIDE DEF b, k
        <5>2. k \in Nat /\ k > 0 /\ k <= BufferSize /\ k <= seq + 1
          BY <1>1, <1>4, <3>3, <4>2, <5>1
        <5>3. (seq + 1) - k = seq - n /\ (ver + 1) - k = ver - n
          BY <1>1, <5>1
        <5> QED BY <3>3, <5>1, <5>2, <5>3
      <4> QED BY <4>1, <4>2
    <3> HIDE DEF b
    <3>5. hub'.seq = seq + 1 /\ hub'.buf = b /\ hub' \in Hub /\ Len(hub'.buf) = k
      BY <1>1, <3>1, <3>4 DEF Hub
    <3> HIDE DEF k
    <3>6. heard'
      BY <1>2, <1>3, <2>2
    <3>7. Subscribed(srv'.sub) => srv'.high <= hub'.seq
      BY <1>1, <1>3, <1>4, <1>5, <3>5
    <3>8. Ringed'
      <4>1. Len(hub'.buf) <= hub'.seq /\ hub'.seq <= ver' /\ Len(hub'.buf) > 0
        BY <1>1, <1>2, <1>4, <3>4, <3>5
      <4>2. \A i \in 1 .. Len(hub'.buf) :
              hub'.buf[i] = Changed((hub'.seq - Len(hub'.buf)) + i, (ver' - Len(hub'.buf)) + i)
        BY <1>2, <3>4, <3>5
      <4> QED BY <3>6, <3>7, <4>1, <4>2 DEF Ringed
    <3> QED BY <2>2, <3>4, <3>5, <3>8
  <2> QED BY <2>1, <2>2
<1>7. Dated(down, ver') /\ ver' \in 0 .. MaxVer /\ ver <= ver'
  BY <1>1, <1>2, Later
<1>8. conn = "open" \/ srv' = srv
  BY <1>3, SessionFacts
<1>9. srv.sub = "none" /\ srv.chan = <<>> /\ down = <<>> =>
        srv'.sub = "none" /\ srv'.chan = <<>> /\ down' = <<>>
  BY <1>2, <1>3
<1>10. BaseInv'
  <2> HIDE DEF ring, update, heard
  <2> QED BY <1>1, <1>2, <1>3, <1>6, <1>7, <1>8, <1>9, BackendKeepsBase
<1> QED BY <1>6, <1>10

\* What forwarding takes from the channel.
LEMMA ForwardFacts ==
  ASSUME BaseInv, Forward
  PROVE  LET m == Head(srv.chan)
         IN /\ srv.chan # <<>> /\ conn = "open" /\ m \in Frame /\ Dated(<<m>>, ver)
            /\ \E s \in Session :
                 /\ s.sub = srv.sub /\ s.chan = Tail(srv.chan) /\ s.high = srv.high
                 /\ s.dead = srv.dead /\ Len(s.chan) <= ChanCap /\ Dated(s.chan, ver)
                 /\ \/ /\ m.type = "RESET"
                       /\ Enqueue(s, <<Reset("RESET", srv.counter + 1)>>)
                    \/ /\ m.type # "RESET" /\ m.seq <= srv.high /\ srv' = s
                       /\ UNCHANGED <<down, hub, oldSub>>
                    \/ m.type # "RESET" /\ ~(m.seq <= srv.high) /\ Enqueue(s, <<m>>)
            /\ UNCHANGED <<domain, clientVars, up, otherSub, ver>>
<1> DEFINE m == Head(srv.chan)
           q == Tail(srv.chan)
           rest == [srv EXCEPT !.chan = q]
           restarted == [rest EXCEPT !.counter = @ + 1]
<1>1. /\ srv.chan # <<>> /\ UNCHANGED <<domain, clientVars, up, otherSub, ver>>
      /\ IF m.type = "RESET" THEN Enqueue(restarted, <<Reset("RESET", srv.counter + 1)>>)
         ELSE IF m.seq <= srv.high THEN srv' = rest /\ UNCHANGED <<down, hub, oldSub>>
         ELSE Enqueue(rest, <<m>>)
  BY DEF Forward
<1>2. /\ srv \in Session /\ srv.chan \in Seq(Frame) /\ Len(srv.chan) <= ChanCap
      /\ Dated(srv.chan, ver) /\ conn = "open" /\ srv.counter \in Nat /\ ChanCap \in Nat
  BY <1>1, SessionFacts, BoundsAssumption
<1>3. /\ m \in Frame /\ Dated(<<m>>, ver) /\ q \in Seq(Frame) /\ Dated(q, ver)
      /\ Len(q) = Len(srv.chan) - 1
  BY <1>1, <1>2, Taken
<1>4. Len(q) <= ChanCap
  BY <1>2, <1>3, LenProperties
<1> HIDE DEF q
<1>5. /\ rest \in Session /\ rest.sub = srv.sub /\ rest.chan = q /\ rest.high = srv.high
      /\ rest.dead = srv.dead /\ rest.counter = srv.counter
  BY <1>2, <1>3 DEF Session
<1> HIDE DEF rest
<1>6. /\ restarted \in Session /\ restarted.sub = srv.sub /\ restarted.chan = q
      /\ restarted.high = srv.high /\ restarted.dead = srv.dead
  <2> DEFINE c == srv.counter + 1
  <2>1. c \in Nat
    BY <1>2
  <2>2. restarted = [rest EXCEPT !.counter = c]
    BY <1>5
  <2> HIDE DEF c, restarted
  <2> QED BY <1>5, <2>1, <2>2 DEF Session
<1> HIDE DEF restarted, m
<1>7. CASE m.type = "RESET"
  BY <1>1, <1>2, <1>3, <1>4, <1>6, <1>7 DEF m, q
<1>8. CASE m.type # "RESET"
  BY <1>1, <1>2, <1>3, <1>4, <1>5, <1>8 DEF m, q
<1> QED BY <1>7, <1>8

LEMMA ForwardKeepsBase ==
  ASSUME BaseInv, Forward
  PROVE  BaseInv'
<1> DEFINE m == Head(srv.chan)
           reset == Reset("RESET", srv.counter + 1)
<1>1. /\ srv.chan # <<>> /\ conn = "open" /\ m \in Frame /\ Dated(<<m>>, ver)
      /\ UNCHANGED <<domain, clientVars, up, otherSub, ver>>
  BY ForwardFacts
<1>2. PICK s \in Session :
        /\ s.sub = srv.sub /\ s.chan = Tail(srv.chan) /\ s.high = srv.high
        /\ Len(s.chan) <= ChanCap /\ Dated(s.chan, ver)
        /\ \/ Enqueue(s, <<reset>>)
           \/ srv' = s /\ UNCHANGED <<down, hub, oldSub>>
           \/ Enqueue(s, <<m>>)
  BY ForwardFacts
<1>3. Subscribed(s.sub) => s.high <= hub.seq
  BY <1>2, SessionFacts
<1>4. reset \in Frame /\ reset.type = "RESET" /\ reset.tok # NoToken
  BY SessionFacts, ResetFields
<1> HIDE DEF m, reset
<1>5. <<reset>> \in Seq(Frame) /\ Dated(<<reset>>, ver) /\ <<m>> \in Seq(Frame)
  BY <1>1, <1>4, Single
<1>6. CASE Enqueue(s, <<reset>>)
  BY <1>1, <1>2, <1>3, <1>5, <1>6, EnqueueKeepsBase
<1>7. CASE Enqueue(s, <<m>>)
  BY <1>1, <1>2, <1>3, <1>5, <1>7, EnqueueKeepsBase
<1>8. CASE srv' = s /\ UNCHANGED <<down, hub, oldSub>>
  <2>1. /\ TypeOK /\ Ringed /\ Dated(down, ver) /\ down \in Seq(Frame) /\ Len(down) <= OutCap
        /\ oldSub \in BOOLEAN /\ otherSub \in BOOLEAN
    BY DEF BaseInv, TypeOK, Wired
  <2>2. hub' = HubAfter(TRUE)
    BY <1>8 DEF HubAfter
  <2>3. hub.seq > 0 => Subscribed(srv'.sub) \/ oldSub' \/ otherSub'
    BY <1>1, <1>2, <1>8, <2>1 DEF Ringed
  <2>4. Ringed' /\ hub' \in Hub /\ Len(hub'.buf) <= BufferSize
    BY <1>1, <1>2, <1>3, <1>8, <2>2, <2>3, RingStays
  <2>5. ver <= ver' /\ ver' \in 0 .. MaxVer
    BY <1>1, SessionFacts
  <2> QED BY <1>1, <1>2, <1>8, <2>1, <2>4, <2>5, BackendKeepsBase
<1> QED BY <1>2, <1>6, <1>7, <1>8

LEMMA ForwardCompleteKeepsBase ==
  ASSUME BaseInv, ForwardComplete
  PROVE  BaseInv'
<1> DEFINE s == [srv EXCEPT !.sub = "none", !.chan = <<>>, !.high = 0, !.counter = @ + 1]
           done == Reset("COMPLETE", srv.counter + 1)
<1>1. /\ srv.sub = "ending" /\ Enqueue(s, <<done>>)
      /\ UNCHANGED <<domain, clientVars, up, otherSub, ver>>
  BY DEF ForwardComplete
<1>2. srv \in Session /\ srv.counter \in Nat /\ conn = "open" /\ 0 <= ChanCap
  BY <1>1, SessionFacts, BoundsAssumption
<1>3. s \in Session /\ s.sub = "none" /\ s.chan = <<>>
  <2> DEFINE c == srv.counter + 1
  <2>1. c \in Nat
    BY <1>2
  <2>2. s = [srv EXCEPT !.sub = "none", !.chan = <<>>, !.high = 0, !.counter = c]
    OBVIOUS
  <2> HIDE DEF c, s
  <2> QED BY <1>2, <2>1, <2>2, NothingQueued DEF Session
<1>4. done \in Frame /\ done.type = "COMPLETE" /\ done.tok # NoToken
  BY <1>2, ResetFields
<1> HIDE DEF s, done
<1>5. <<done>> \in Seq(Frame) /\ Dated(<<done>>, ver)
  BY <1>4, Single
<1>6. Len(s.chan) <= ChanCap /\ Dated(s.chan, ver) /\ ~Subscribed(s.sub) /\ ~Subscribed(srv.sub)
  BY <1>1, <1>2, <1>3, NothingQueued DEF Subscribed
<1> QED BY <1>1, <1>2, <1>3, <1>5, <1>6, EnqueueKeepsBase

LEMMA ReplaceManagerKeepsBase ==
  ASSUME BaseInv, ReplaceManager
  PROVE  BaseInv'
<1>1. /\ TypeOK /\ Ringed /\ Dated(down, ver) /\ down \in Seq(Frame) /\ Len(down) <= OutCap
  BY DEF BaseInv, TypeOK, Wired
<1>2. /\ hub' = EmptyHub /\ oldSub' = FALSE /\ otherSub' = FALSE
      /\ srv' = IF Subscribed(srv.sub) THEN [srv EXCEPT !.sub = "ending"] ELSE srv
      /\ UNCHANGED <<domain, clientVars, up, down, ver>>
  BY DEF ReplaceManager
<1>3. /\ srv' \in Session /\ srv'.chan = srv.chan /\ ~Subscribed(srv'.sub)
      /\ srv.sub = "none" => srv' = srv
  BY <1>2, SessionFacts DEF Session, Subscribed
<1>4. hub' = HubAfter(FALSE)
  BY <1>2 DEF HubAfter
<1>5. Ringed' /\ hub' \in Hub /\ Len(hub'.buf) <= BufferSize
  BY <1>2, <1>3, <1>4, RingStays
<1>6. ver <= ver' /\ ver' \in 0 .. MaxVer /\ (conn = "open" \/ srv' = srv)
  BY <1>2, <1>3, SessionFacts
<1> QED BY <1>1, <1>2, <1>3, <1>5, <1>6, SessionFacts, BackendKeepsBase

LEMMA SessionShutdownKeepsBase ==
  ASSUME BaseInv, SessionShutdown
  PROVE  BaseInv'
<1>1. /\ TypeOK /\ Ringed /\ Dated(down, ver) /\ down \in Seq(Frame) /\ Len(down) <= OutCap
      /\ oldSub \in BOOLEAN /\ otherSub \in BOOLEAN /\ 0 <= ChanCap
  BY BoundsAssumption DEF BaseInv, TypeOK, Wired
<1>2. /\ conn = "open" /\ srv' = [NoSession EXCEPT !.dead = TRUE]
      /\ hub' = IF Subscribed(srv.sub) THEN HubAfter(oldSub \/ otherSub) ELSE hub
      /\ UNCHANGED <<domain, clientVars, up, down, oldSub, otherSub, ver>>
  BY DEF SessionShutdown
<1>3. /\ srv' \in Session /\ Len(srv'.chan) = 0 /\ Dated(srv'.chan, ver) /\ srv'.sub = "none"
      /\ ~Subscribed(srv'.sub) /\ srv'.chan = <<>>
  BY <1>2, DeadSession
<1>4. Ringed' /\ hub' \in Hub /\ Len(hub'.buf) <= BufferSize
  <2>1. CASE Subscribed(srv.sub)
    BY <1>1, <1>2, <1>3, <2>1, RingStays
  <2>2. CASE ~Subscribed(srv.sub)
    <3>1. hub' = HubAfter(TRUE)
      BY <1>2, <2>2 DEF HubAfter
    <3>2. hub.seq > 0 => oldSub' \/ otherSub'
      BY <1>1, <1>2, <2>2 DEF Ringed
    <3> QED BY <1>2, <1>3, <3>1, <3>2, RingStays
  <2> QED BY <2>1, <2>2
<1>5. ver <= ver' /\ ver' \in 0 .. MaxVer /\ Len(srv'.chan) <= ChanCap
  BY <1>1, <1>2, <1>3, SessionFacts
<1> QED BY <1>1, <1>2, <1>3, <1>4, <1>5, BackendKeepsBase

\* Someone else leaves the scope, or joins it.
LEMMA OthersKeepBase ==
  ASSUME BaseInv, OldSessionCloses \/ OtherWindowToggles
  PROVE  BaseInv'
<1>1. /\ TypeOK /\ Ringed /\ Dated(down, ver) /\ down \in Seq(Frame) /\ Len(down) <= OutCap
      /\ oldSub \in BOOLEAN /\ otherSub \in BOOLEAN
  BY DEF BaseInv, TypeOK, Wired
<1>2. /\ UNCHANGED <<domain, clientVars, up, down, srv, ver>>
      /\ hub' = HubAfter(Subscribed(srv.sub) \/ oldSub' \/ otherSub')
      /\ oldSub' \in BOOLEAN /\ otherSub' \in BOOLEAN
  <2>1. CASE OldSessionCloses
    BY <1>1, <2>1 DEF OldSessionCloses
  <2>2. CASE OtherWindowToggles
    <3>1. (otherSub' \/ Subscribed(srv.sub) \/ oldSub) = (Subscribed(srv.sub) \/ oldSub \/ otherSub')
      BY Zenon
    <3> QED BY <1>1, <2>2, <3>1 DEF OtherWindowToggles
  <2> QED BY <2>1, <2>2
<1> DEFINE rest == Subscribed(srv.sub) \/ oldSub' \/ otherSub'
<1>3. rest \in BOOLEAN
  BY DEF Subscribed
<1>4. /\ rest /\ hub.seq > 0 => Subscribed(srv'.sub) \/ oldSub' \/ otherSub'
      /\ Subscribed(srv'.sub) => rest /\ srv'.high <= hub.seq
  BY <1>2, SessionFacts
<1>5. hub' = HubAfter(rest) /\ ver' = ver
  BY <1>2
<1> HIDE DEF rest
<1>6. Ringed' /\ hub' \in Hub /\ Len(hub'.buf) <= BufferSize
  BY <1>3, <1>4, <1>5, RingStays
<1>7. ver <= ver' /\ ver' \in 0 .. MaxVer
  BY <1>2, SessionFacts
<1> QED BY <1>1, <1>2, <1>6, <1>7, SessionFacts, BackendKeepsBase

LEMMA InitBase ==
  ASSUME Init
  PROVE  BaseInv
<1>1. /\ domain \in Domains /\ sub = NoSub /\ conn = "none" /\ outbox = <<>> /\ hidden = FALSE
      /\ sig = NoToken /\ hasData = FALSE /\ read = "none" /\ told = 0 /\ up = <<>> /\ down = <<>>
      /\ srv = NoSession /\ hub = EmptyHub /\ oldSub = FALSE /\ otherSub = FALSE /\ ver = 0
  BY DEF Init
<1>2. NoSession \in Session /\ NoSession.chan = <<>> /\ NoSession.sub = "none"
  BY NothingQueued DEF NoSession, Session
<1>3. EmptyHub \in Hub /\ EmptyHub.seq = 0 /\ EmptyHub.buf = <<>>
  BY NothingQueued DEF EmptyHub, Hub
<1>4. 0 <= BufferSize /\ 0 <= OutCap /\ 0 <= ChanCap /\ 0 \in 0 .. MaxVer /\ 0 \in 0 .. 0
  BY BoundsAssumption
<1>5. TypeOK
  <2>1. sub \in Subscription /\ sub.at <= ver
    BY <1>1, NoSubFields
  <2>2. srv \in Session /\ Len(srv.chan) <= ChanCap /\ hub \in Hub /\ Len(hub.buf) <= BufferSize
    BY <1>1, <1>2, <1>3, <1>4, NothingQueued
  <2> QED BY <1>1, <1>4, <2>1, <2>2, NothingQueued, NoTokenType DEF TypeOK, ReadStates
<1>6. Wired
  BY <1>1, <1>2, NothingQueued, NoSubFields DEF Wired, Resuming
<1>7. Ringed
  <2>1. hub.seq = 0 /\ Len(hub.buf) = 0 /\ ver = 0 /\ ~Subscribed(srv.sub)
    BY <1>1, <1>2, <1>3, NothingQueued DEF Subscribed
  <2>2. \A i \in 1 .. Len(hub.buf) : FALSE
    BY <2>1
  <2>3. Len(hub.buf) <= hub.seq /\ hub.seq <= ver /\ ~(hub.seq > 0)
    BY <2>1
  <2> QED BY <2>1, <2>2, <2>3 DEF Ringed
<1> QED BY <1>1, <1>5, <1>6, <1>7, NoSubFields DEF BaseInv

LEMMA ClientKeepsBase ==
  ASSUME BaseInv, Client
  PROVE  BaseInv'
<1>1. CASE Start
  BY <1>1, EnsureKeepsBase DEF Start
<1>2. CASE RefreshOnce
  BY <1>2, EnsureKeepsBase DEF RefreshOnce
<1>3. CASE Stop
  BY <1>3, StopKeepsBase
<1>4. CASE UnsubscribeTimer \/ StopNow \/ StopAll
  BY <1>4, ReleaseKeepsBase
<1>5. CASE StartRead \/ FinishRead \/ FailRead
  BY <1>5, ReadKeepsBase
<1>6. CASE FlushTimer
  BY <1>6, FlushTimerKeepsBase
<1>7. CASE CooldownEnds
  BY <1>7, CooldownEndsKeepsBase
<1>8. CASE TrailingFires
  BY <1>8, TrailingFiresKeepsBase
<1>9. CASE Open
  BY <1>9, OpenKeepsBase
<1>10. CASE Lost
  BY <1>10, LostKeepsBase
<1>11. CASE Reconnect
  BY <1>11, ReconnectKeepsBase
<1>12. CASE Hide
  BY <1>12, HideKeepsBase
<1>13. CASE Show
  BY <1>13, ShowKeepsBase
<1>14. CASE Receive
  BY <1>14, ReceiveKeepsBase
<1> QED BY <1>1, <1>2, <1>3, <1>4, <1>5, <1>6, <1>7, <1>8, <1>9, <1>10, <1>11, <1>12, <1>13,
           <1>14 DEF Client

LEMMA ServerKeepsBase ==
  ASSUME BaseInv, Server
  PROVE  BaseInv'
<1>1. CASE ServeRequest
  BY <1>1, ServeRequestKeepsBase
<1>2. CASE RefuseRequest
  BY <1>2, RefuseRequestKeepsBase
<1>3. CASE ServeCancel
  BY <1>3, ServeCancelKeepsBase
<1>4. CASE Ring
  BY <1>4, RingKeepsBase
<1>5. CASE Forward
  BY <1>5, ForwardKeepsBase
<1>6. CASE ForwardComplete
  BY <1>6, ForwardCompleteKeepsBase
<1>7. CASE ReplaceManager
  BY <1>7, ReplaceManagerKeepsBase
<1>8. CASE SessionShutdown
  BY <1>8, SessionShutdownKeepsBase
<1>9. CASE OldSessionCloses \/ OtherWindowToggles
  BY <1>9, OthersKeepBase
<1> QED BY <1>1, <1>2, <1>3, <1>4, <1>5, <1>6, <1>7, <1>8, <1>9 DEF Server

LEMMA StutterKeepsBase ==
  ASSUME BaseInv, UNCHANGED vars
  PROVE  BaseInv'
<1>1. /\ UNCHANGED <<domain, sub, conn, outbox, hidden, sig, hasData, read, told, up, down, srv,
                     hub, oldSub, otherSub, ver>>
  BY DEF vars, clientVars, serverVars
<1>2. TypeOK'
  BY <1>1 DEF BaseInv, TypeOK, ReadStates
<1>3. Wired'
  BY <1>1 DEF BaseInv, Wired, Resuming
<1>4. Ringed'
  BY <1>1 DEF BaseInv, Ringed
<1> QED BY <1>1, <1>2, <1>3, <1>4 DEF BaseInv

\* The base of the invariant, whatever clocks the domain declares.
THEOREM BaseInvariant == Spec => []BaseInv
<1>1. Init => BaseInv
  BY InitBase
<1>2. BaseInv /\ [Next]_vars => BaseInv'
  BY ClientKeepsBase, ServerKeepsBase, StutterKeepsBase DEF Next
<1> QED BY <1>1, <1>2, PTL DEF Spec

\* Types of the whole system, and the capacities of its queues: no frame is put in
\* a queue that is full, whatever is lost, refused, replaced or overrun.
THEOREM TypeCorrect == Spec => []TypeOK
<1>1. BaseInv => TypeOK
  BY DEF BaseInv
<1> QED BY <1>1, BaseInvariant, PTL

-----------------------------------------------------------------------------
(* What is under way, for domains whose resets the client hears.           *)

LEMMA DetachedFlows ==
  ASSUME ~Attached', Signalled'
  PROVE  Flow'
BY DEF Flow, Answered, Served, Announced

\* A resync that was due leaves the client asking, owing, blocked or released.
LEMMA ResyncedFlows ==
  ASSUME BaseInv, NEW s, NEW t, Fit(s, t), sub' = t.s,
         \/ Restarted(s, t) /\ (conn' # "open" \/ up' # <<>>)
         \/ t.s.trailing # "idle" \/ t.s.unsubscribing \/ Blocked(t.s) \/ ~t.s.leased
  PROVE  Flow'
<1>1. t.s.unsubscribing => ~t.s.leased
  BY DEF Fit, Coherent
<1>2. CASE Restarted(s, t) /\ (conn' # "open" \/ up' # <<>>)
  BY <1>2, DetachedFlows DEF Restarted, Attached, Signalled
<1>3. CASE t.s.trailing # "idle" \/ Blocked(t.s) \/ ~t.s.leased
  BY <1>3, DetachedFlows DEF Attached, Signalled
<1> QED BY <1>1, <1>2, <1>3

\* A turn that starts a resync leaves something in up, or has no socket.
LEMMA RestartSends ==
  ASSUME BaseInv, NEW s, NEW t, Restarted(s, t),
         conn' = conn \/ (conn # "open" /\ conn' = "opening"),
         conn = "open" => up' = up \o t.out
  PROVE  conn' # "open" \/ up' # <<>>
<1>1. up \in Seq(Frame) /\ Request(0) \in Frame
  BY FrameTypes DEF BaseInv, TypeOK
<1>2. t.out = <<Request(0)>>
  BY DEF Restarted
<1>3. <<Request(0)>> \in Seq(Frame) /\ <<Request(0)>> # <<>>
  BY <1>1, Single
<1>4. up \o <<Request(0)>> # <<>>
  BY <1>1, <1>3, Joined
<1> QED BY <1>2, <1>4

LEMMA EnsureFlows ==
  ASSUME BaseInv, Start \/ RefreshOnce
  PROVE  Flow'
<1> DEFINE e == EnsuredSub
           t == Turn(e)
<1>1. PICK force \in BOOLEAN : Run(Resync(t, force, "lifecycle"))
  BY DEF Start, RefreshOnce
<1> DEFINE r == Resync(t, force, "lifecycle")
<1>2. TypeOK /\ Coherent(sub)
  BY DEF BaseInv
<1>3. /\ e \in Subscription /\ e.at <= ver /\ Coherent(e) /\ e.phase # "none"
  BY <1>2, EnsuredFit
<1> HIDE DEF e
<1>4. Fit(e, t) /\ t.s = e /\ t.out = <<>>
  BY <1>2, <1>3, AnyTurnFit
<1>5. Run(r)
  BY <1>1
<1> HIDE DEF t
<1>6. /\ Fit(e, r)
      /\ \/ Restarted(e, r)
         \/ Owes(t, r) /\ ~t.s.unsubscribing
         \/ r = t /\ (Blocked(t.s) \/ t.s.unsubscribing)
  BY <1>2, <1>3, <1>4, ResyncFit
<1> HIDE DEF r
<1>7. /\ sub' = r.s /\ (conn' = conn \/ (conn # "open" /\ conn' = "opening"))
      /\ conn = "open" => up' = up \o r.out
  BY <1>5 DEF Run, Apply
<1>8. \/ Restarted(e, r) /\ (conn' # "open" \/ up' # <<>>)
      \/ r.s.trailing # "idle" \/ r.s.unsubscribing \/ Blocked(r.s)
  BY <1>6, <1>7, RestartSends DEF Owes
<1> QED BY <1>6, <1>7, <1>8, ResyncedFlows

LEMMA ReleaseFlows ==
  ASSUME Stop \/ UnsubscribeTimer \/ StopNow \/ StopAll, BaseInv
  PROVE  Flow'
<1>1. ~sub'.leased
  <2>1. CASE Stop
    BY <2>1 DEF Stop, BaseInv, TypeOK, Subscription
  <2>2. CASE UnsubscribeTimer \/ StopNow \/ StopAll
    BY <2>2, NoSubFields DEF UnsubscribeTimer, StopNow, StopAll, Unsubscribe
  <2> QED BY <2>1, <2>2
<1> QED BY <1>1, DetachedFlows DEF Attached, Signalled

\* What a timer of the client leaves alone.
LEMMA SamePlaceFlows ==
  ASSUME BaseInv, Flow, UNCHANGED <<conn, up, down, srv, hub, ver>>,
         sub'.leased = sub.leased, sub'.phase = sub.phase, sub'.trailing = sub.trailing,
         sub'.expectsReset = sub.expectsReset, sub'.seq = sub.seq, sub'.at = sub.at,
         \/ told' = ver
         \/ told' \in Nat /\ told <= told' /\ (Following' => Following) /\ sub'.pending = sub.pending
  PROVE  Flow'
<1>1. Attached' <=> Attached
  BY DEF Attached, Blocked
<1>2. Answered' /\ Served'
  BY <1>1 DEF Flow, Answered, Served
<1>3. Continuous' <=> Continuous
  BY DEF Continuous
<1>4. ver \in Nat /\ sub.at <= ver /\ told \in Nat /\ sub.at \in Nat
  BY BoundsAssumption DEF BaseInv, TypeOK, Subscription
<1>5. CASE told' = ver
  <2>1. ~(told' < ver')
    BY <1>4, <1>5
  <2>2. Signalled'
    BY <1>4, <1>5 DEF Signalled
  <2>3. Announced'
    BY <2>1 DEF Announced
  <2> QED BY <1>2, <2>2, <2>3 DEF Flow
<1>6. CASE /\ told' \in Nat /\ told <= told' /\ (Following' => Following)
           /\ sub'.pending = sub.pending
  <2>1. Signalled'
    <3>1. sub.at <= told => sub'.at <= told'
      BY <1>4, <1>6
    <3> QED BY <1>6, <3>1 DEF Flow, Signalled, Blocked
  <2>2. Reached' = Reached
    BY DEF Reached
  <2>3. Announced'
    <3>1. told' < ver' => told < ver
      BY <1>4, <1>6
    <3> QED BY <1>1, <1>3, <1>6, <2>2, <3>1 DEF Flow, Announced
  <2> QED BY <1>2, <2>1, <2>3 DEF Flow
<1> QED BY <1>5, <1>6

LEMMA TimerFlows ==
  ASSUME BaseInv, Flow, StartRead \/ FinishRead \/ FailRead \/ FlushTimer \/ CooldownEnds
  PROVE  Flow'
<1>1. sub \in Subscription /\ Coherent(sub)
  BY DEF BaseInv, TypeOK
<1>2. UNCHANGED <<conn, up, down, srv, hub, ver>>
  BY DEF StartRead, FinishRead, FailRead, FlushTimer, CooldownEnds, serverVars
<1>3. CASE StartRead \/ FinishRead \/ FailRead
  <2>1. sub' = sub /\ told \in Nat /\ ver \in Nat /\ read \in ReadStates /\ hasData \in BOOLEAN
    BY <1>3, BoundsAssumption DEF BaseInv, TypeOK, StartRead, FinishRead, FailRead
  <2>2. told' = ver \/ (told' \in Nat /\ told <= told' /\ (Following' => Following))
    <3>1. CASE StartRead
      BY <3>1 DEF StartRead
    <3>2. CASE FinishRead
      BY <2>1, <3>2 DEF FinishRead, Following, ReadStates
    <3>3. CASE FailRead
      BY <2>1, <3>3 DEF FailRead, Following, ReadStates
    <3> QED BY <1>3, <3>1, <3>2, <3>3
  <2> QED BY <1>2, <2>1, <2>2, SamePlaceFlows
<1>4. CASE FlushTimer
  <2> DEFINE s == Counted(sub, 0, NoToken)
  <2>1. 0 \in 0 .. MaxPending /\ sub.latest \in Token /\ sub.latest # NoToken
    BY <1>1, <1>4, BoundsAssumption DEF FlushTimer, Coherent, Subscription
  <2>2. /\ s \in Subscription /\ s.leased = sub.leased /\ s.phase = sub.phase
        /\ s.trailing = sub.trailing /\ s.expectsReset = sub.expectsReset
        /\ s.seq = sub.seq /\ s.at = sub.at
    BY <1>1, <2>1, NoTokenType, CountedFields
  <2> DEFINE t == Turn(s)
  <2>3. Apply(Advance(t, sub.latest))
    BY <1>4 DEF FlushTimer, Counted
  <2> HIDE DEF s
  <2>4. t \in TurnSet /\ t.s = s
    BY <2>2, TurnFacts DEF BaseInv
  <2> HIDE DEF t
  <2>5. Advance(t, sub.latest).s = s /\ Advance(t, sub.latest).told = ver
    BY <2>1, <2>4, AdvanceFacts DEF BaseInv
  <2>6. sub' = s /\ told' = ver
    BY <2>3, <2>5 DEF Apply
  <2> QED BY <1>2, <2>2, <2>6, SamePlaceFlows
<1>5. CASE CooldownEnds
  <2>1. /\ sub' = [sub EXCEPT !.cooling = FALSE] /\ told' = told /\ (Following' => Following)
        /\ told \in Nat
    BY <1>5, BoundsAssumption DEF CooldownEnds, Following, BaseInv, TypeOK
  <2>2. /\ sub'.leased = sub.leased /\ sub'.phase = sub.phase /\ sub'.trailing = sub.trailing
        /\ sub'.expectsReset = sub.expectsReset /\ sub'.seq = sub.seq /\ sub'.at = sub.at
        /\ sub'.pending = sub.pending
    BY <1>1, <2>1 DEF Subscription
  <2>3. told' \in Nat /\ told <= told'
    BY <2>1
  <2> QED BY <1>2, <2>1, <2>2, <2>3, SamePlaceFlows
<1> QED BY <1>3, <1>4, <1>5

\* A resync by a timer, or when the view is shown again.
LEMMA ResyncFlows ==
  ASSUME BaseInv, NEW s \in Subscription, s.at <= ver, Coherent(s), s.phase # "none",
         NEW why \in {"lifecycle", "recovery"}, NEW r, r = Resync(Turn(s), FALSE, why), sub' = r.s,
         conn' = conn \/ (conn # "open" /\ conn' = "opening"),
         conn = "open" => up' = up \o r.out
  PROVE  Flow'
<1> DEFINE t == Turn(s)
<1>1. TypeOK
  BY DEF BaseInv
<1>2. Fit(s, t) /\ t.s = s /\ t.out = <<>>
  BY <1>1, AnyTurnFit
<1> HIDE DEF t
<1>3. /\ Fit(s, r)
      /\ \/ Restarted(s, r)
         \/ Owes(t, r) /\ ~t.s.unsubscribing
         \/ r = t /\ (Blocked(t.s) \/ t.s.unsubscribing)
  BY <1>1, <1>2, ResyncFit DEF t
<1>4. \/ Restarted(s, r) /\ (conn' # "open" \/ up' # <<>>)
      \/ r.s.trailing # "idle" \/ r.s.unsubscribing \/ Blocked(r.s)
  BY <1>3, RestartSends DEF Owes
<1> QED BY <1>3, <1>4, ResyncedFlows

LEMMA TrailingFiresFlows ==
  ASSUME BaseInv, TrailingFires
  PROVE  Flow'
<1> DEFINE s == [sub EXCEPT !.trailing = "idle"]
           r == Resync(Turn(s), FALSE, sub.trailing)
<1>1. /\ Coherent(sub) /\ sub \in Subscription /\ sub.at <= ver
      /\ sub.trailing \in {"lifecycle", "recovery"}
  BY DEF BaseInv, TypeOK, Subscription, TrailingFires
<1>2. /\ s \in Subscription /\ s.at = sub.at /\ s.expectsReset = sub.expectsReset
      /\ s.phase = sub.phase /\ s.pending = sub.pending /\ s.latest = sub.latest
      /\ s.leased = sub.leased /\ s.unsubscribing = sub.unsubscribing
  BY <1>1 DEF Subscription
<1>3. sub.phase # "none" /\ Run(r)
  <2>1. sub.phase # "none"
    BY <1>1 DEF Coherent, NoSub
  <2>2. Run(r)
    BY DEF TrailingFires
  <2> QED BY <2>1, <2>2
<1> HIDE DEF s
<1>4. Coherent(s)
  BY <1>1, <1>2, <1>3 DEF Coherent
<1> HIDE DEF r
<1>5. /\ sub' = r.s /\ (conn' = conn \/ (conn # "open" /\ conn' = "opening"))
      /\ conn = "open" => up' = up \o r.out
  BY <1>3 DEF Run, Apply
<1> QED BY <1>1, <1>2, <1>3, <1>4, <1>5, ResyncFlows DEF r

LEMMA ShowFlows ==
  ASSUME BaseInv, Show
  PROVE  Flow'
<1> DEFINE t == IF sub.phase = "none" THEN Turn(sub) ELSE Resync(Turn(sub), FALSE, "recovery")
<1>1. TypeOK /\ Coherent(sub) /\ sub \in Subscription /\ sub.at <= ver
  BY DEF BaseInv, TypeOK
<1>2. /\ sub' = t.s /\ (conn' = conn \/ (conn # "open" /\ conn' = "opening"))
      /\ conn = "open" => up' = up \o t.out
  BY DEF Show, Apply
<1>3. CASE sub.phase = "none"
  <2>1. t.s = sub
    BY <1>1, <1>3, TurnFit
  <2>2. ~sub'.leased
    BY <1>1, <1>2, <1>3, <2>1 DEF Coherent
  <2> QED BY <2>2, DetachedFlows DEF Attached, Signalled
<1>4. CASE sub.phase # "none"
  <2>1. t = Resync(Turn(sub), FALSE, "recovery")
    BY <1>4
  <2> HIDE DEF t
  <2> QED BY <1>1, <1>2, <1>4, <2>1, ResyncFlows
<1> QED BY <1>3, <1>4

\* What is signalled stays signalled when the subscription keeps its place.
LEMMA SignalledStays ==
  ASSUME BaseInv, Signalled, ~Blocked(sub), NEW t, Fit(sub, t), SamePlace(t), sub' = t.s,
         told' = t.told, read' = t.read, hasData' = hasData
  PROVE  Signalled'
<1>1. /\ told \in Nat /\ t.told \in Nat /\ told <= t.told /\ sub.at \in Nat /\ sub.at <= ver
  BY BoundsAssumption DEF BaseInv, TypeOK, Fit, TurnSet, Subscription
<1>2. /\ sub'.leased = sub.leased /\ sub'.seq = sub.seq /\ sub'.at = sub.at
      /\ sub'.pending = sub.pending /\ sub'.trailing = sub.trailing
  BY DEF Fit, SamePlace
<1>3. told' = ver \/ (Following' => Following)
  BY DEF Fit, Follows, Followed, Following
<1>4. CASE told' = ver
  BY <1>1, <1>2, <1>4 DEF Signalled
<1>5. CASE Following' => Following
  <2>1. sub.at <= told => sub'.at <= told'
    BY <1>1, <1>2
  <2> QED BY <1>2, <1>5, <2>1 DEF Signalled
<1> QED BY <1>3, <1>4, <1>5

LEMMA OpenFlows ==
  ASSUME BaseInv, Flow, Open
  PROVE  Flow'
<1> DEFINE t == IF sub.phase = "none" THEN Turn(sub) ELSE ConnectionOpened(Turn(sub))
<1>1. TypeOK /\ Coherent(sub) /\ outbox \in Seq(Frame) /\ sub.seq \in Nat
  BY DEF BaseInv, TypeOK, Subscription
<1>2. /\ sub' = t.s /\ told' = t.told /\ read' = t.read /\ up' = t.out \o outbox
      /\ hasData' = hasData
  BY DEF Open, Apply
<1>3. Fit(sub, t) /\ (sub.phase # "none" => Resumed(t) \/ Resynced(t))
  BY <1>1, TurnFit, OpenedFit
<1> HIDE DEF t
<1>4. Request(0) \in Frame /\ Request(sub.seq) \in Frame
  BY <1>1, FrameTypes
<1>5. t.out \in Seq(Frame)
  BY <1>3 DEF Fit, TurnSet
<1>6. t.out # <<>> => up' # <<>>
  <2>1. Len(up') = Len(t.out) + Len(outbox) /\ up' \in Seq(Frame)
    BY <1>1, <1>2, <1>5, Joined
  <2>2. Len(t.out) \in Nat /\ Len(outbox) \in Nat /\ (t.out # <<>> => Len(t.out) > 0)
    BY <1>1, <1>5, LenProperties, EmptySeq
  <2>3. up' = <<>> => Len(up') = 0
    BY EmptySeq
  <2> QED BY <2>1, <2>2, <2>3
<1>7. CASE sub.phase = "none"
  <2>1. ~sub'.leased
    BY <1>1, <1>2, <1>3, <1>7 DEF Fit, Coherent
  <2> QED BY <2>1, DetachedFlows DEF Attached, Signalled
<1>8. CASE Resumed(t)
  <2>1. Signalled'
    BY <1>2, <1>3, <1>8, SignalledStays DEF Resumed, Flow
  <2>2. sub'.leased => up' # <<>>
    <3> SUFFICES ASSUME sub'.leased PROVE up' # <<>>
      OBVIOUS
    <3>1. ~sub.unsubscribing
      BY <1>1, <1>2, <1>3 DEF Fit, Coherent
    <3>2. t.out = <<Request(sub.seq)>>
      BY <1>8, <3>1 DEF Resumed
    <3> QED BY <1>4, <1>6, <3>2, Single
  <2> QED BY <2>1, <2>2, DetachedFlows DEF Attached
<1>9. CASE Resynced(t)
  <2>1. CASE Restarted(sub, t)
    <3>1. up' # <<>>
      BY <1>4, <1>6, <2>1, Single DEF Restarted
    <3> QED BY <1>2, <1>3, <2>1, <3>1, ResyncedFlows
  <2>2. CASE t.s.trailing # "idle" \/ t.s.unsubscribing \/ Blocked(t.s)
    BY <1>2, <1>3, <2>2, ResyncedFlows
  <2> QED BY <1>9, <2>1, <2>2 DEF Resynced
<1> QED BY <1>3, <1>7, <1>8, <1>9

\* The socket goes, or is being made.
LEMMA OfflineFlows ==
  ASSUME BaseInv, Flow, Lost \/ Reconnect \/ Hide
  PROVE  Flow'
<1>1. TypeOK /\ Coherent(sub)
  BY DEF BaseInv
<1>2. CASE Lost
  <2> DEFINE t == IF sub.phase = "none" THEN Turn(sub) ELSE ConnectionLost(Turn(sub))
  <2>1. sub' = t.s /\ told' = t.told /\ read' = t.read /\ conn' # "open" /\ hasData' = hasData
    BY <1>2 DEF Lost, Apply
  <2>2. /\ Fit(sub, t)
        /\ sub.phase # "none" => Resynced(t) \/ (SamePlace(t) /\ ~Blocked(sub))
    BY <1>1, TurnFit, LostFit
  <2> HIDE DEF t
  <2>3. CASE sub.phase = "none"
    <3>1. ~sub'.leased
      BY <1>1, <2>1, <2>2, <2>3 DEF Fit, Coherent
    <3> QED BY <3>1, DetachedFlows DEF Attached, Signalled
  <2>4. CASE Resynced(t)
    BY <2>1, <2>2, <2>4, ResyncedFlows DEF Resynced
  <2>5. CASE SamePlace(t) /\ ~Blocked(sub)
    <3>1. Signalled'
      BY <2>1, <2>2, <2>5, SignalledStays DEF Flow
    <3> QED BY <2>1, <3>1, DetachedFlows DEF Attached
  <2> QED BY <2>2, <2>3, <2>4, <2>5
<1>3. CASE Reconnect
  <2>1. Signalled'
    BY <1>3 DEF Reconnect, Flow, Signalled, Following
  <2> QED BY <1>3, <2>1, DetachedFlows DEF Reconnect, Attached
<1>4. CASE Hide
  <2>1. UNCHANGED <<sub, told, hasData, hub, ver>> /\ (Following' <=> Following) /\ told \in Nat
        /\ told <= told
    BY <1>1, <1>4, BoundsAssumption DEF Hide, Following, TypeOK
  <2>2. CASE conn' = "paused"
    <3>1. Signalled'
      BY <2>1 DEF Flow, Signalled
    <3> QED BY <2>2, <3>1, DetachedFlows DEF Attached
  <2>3. CASE UNCHANGED <<conn, up, down, srv, oldSub>>
    BY <2>1, <2>3, SamePlaceFlows
  <2> QED BY <1>4, <2>2, <2>3 DEF Hide
<1> QED BY <1>2, <1>3, <1>4

\* A frame that ends nothing is taken in.
LEMMA TakenFlows ==
  ASSUME BaseInv, Answered, Served, down # <<>>, down' = Tail(down),
         Head(down).type \notin Terminal, srv' = srv, Attached' => Attached,
         sub'.expectsReset => sub.expectsReset
  PROVE  Answered' /\ Served'
<1>1. down \in Seq(Frame)
  BY DEF BaseInv, TypeOK
<1>2. /\ Sent(down, Terminal) => Sent(down', Terminal)
      /\ Sent(down, Ended) => Sent(down', Ended)
      /\ SentTwice(down) => SentTwice(down') /\ Sent(down', Terminal)
  BY <1>1, Taken DEF Ended
<1> HIDE DEF Terminal, Ended
<1>3. Answered'
  BY <1>2 DEF Answered
<1>4. Served'
  BY <1>2 DEF Served
<1> QED BY <1>3, <1>4

\* A frame that brings nothing new is taken in, or is dropped.
LEMMA NothingNewFlows ==
  ASSUME BaseInv, Flow, down # <<>>, down' = Tail(down), Head(down).type \notin Terminal,
         Head(down).type = "CHANGED" => Head(down).seq <= sub.seq,
         UNCHANGED <<srv, hub, ver, told, hasData, read>>, Attached' => Attached,
         sub'.expectsReset => sub.expectsReset, sub'.pending = sub.pending,
         sub'.seq = sub.seq, sub'.at = sub.at
  PROVE  Answered' /\ Served' /\ Announced'
<1>1. down \in Seq(Frame) /\ sub.seq \in Nat /\ Head(down).seq \in Nat
  <2>1. down \in Seq(Frame) /\ sub.seq \in Nat
    BY DEF BaseInv, TypeOK, Subscription
  <2> QED BY <2>1, Taken DEF Frame
<1>2. /\ Sent(down, Terminal) => Sent(down', Terminal)
      /\ Coming(down, sub.seq) => Coming(down', sub.seq)
  <2>1. ~(Head(down).type = "CHANGED" /\ Head(down).seq > sub.seq)
    BY <1>1
  <2> QED BY <1>1, <2>1, Taken
<1>3. Answered' /\ Served'
  BY TakenFlows DEF Flow
<1>4. Continuous' <=> Continuous
  BY DEF Continuous
<1>5. Reached' = Reached
  BY DEF Reached
<1>6. Announced'
  BY <1>2, <1>4, <1>5 DEF Flow, Announced, Following
<1> QED BY <1>3, <1>6

LEMMA ReceiveFlows ==
  ASSUME BaseInv, Flow, domain.object, Receive
  PROVE  Flow'
<1> DEFINE m == Head(down)
           r == HandleMessage(Turn(sub), m)
<1>1. /\ TypeOK /\ Coherent(sub) /\ down # <<>> /\ down \in Seq(Frame) /\ m \in Frame
      /\ Sealed(m) /\ up \in Seq(Frame) /\ ver \in Nat
  BY Received, BoundsAssumption DEF BaseInv, TypeOK
<1>2. /\ Run(r) /\ conn = "open" /\ down' = Tail(down) /\ UNCHANGED <<hasData, srv, hub, ver>>
  BY DEF Receive, serverVars
<1>3. /\ Fit(sub, r)
      /\ \/ Ignored(m, r) \/ Accepted(m, r) \/ Settled(m, r) \/ Acknowledged(m, r)
         \/ Denied(r) \/ Resynced(r)
  BY <1>1, HandleMessageFit
<1> HIDE DEF r
<1>4. sub' = r.s /\ told' = r.told /\ read' = r.read /\ conn' = conn /\ up' = up \o r.out
  BY <1>2 DEF Run, Apply
<1>5. sub'.leased = sub.leased
  BY <1>3, <1>4 DEF Fit
<1>6. r.out = <<>> => up' = up
  BY <1>1, <1>4, Joined, NothingQueued
<1>7. CASE Resynced(r) \/ Denied(r)
  <2>1. \/ Restarted(sub, r) /\ (conn' # "open" \/ up' # <<>>)
        \/ r.s.trailing # "idle" \/ r.s.unsubscribing \/ Blocked(r.s)
    BY <1>4, <1>7, RestartSends DEF Resynced, Denied
  <2> QED BY <1>3, <1>4, <2>1, ResyncedFlows
<1>8. CASE Ignored(m, r)
  <2>1. r.s = sub /\ r.out = <<>> /\ r.told = told /\ r.read = read
    BY <1>1, <1>8, TurnFit DEF Ignored
  <2>2. CASE sub.phase = "none" \/ Blocked(sub)
    BY <1>1, <1>4, <2>1, <2>2, DetachedFlows DEF Coherent, Attached, Signalled
  <2>3. CASE m.type = "CHANGED" /\ m.seq <= sub.seq
    <3>1. Attached' <=> Attached
      BY <1>2, <1>4, <1>6, <2>1 DEF Attached
    <3>2. Answered' /\ Served' /\ Announced'
      BY <1>1, <1>2, <1>4, <2>1, <2>3, <3>1, NothingNewFlows DEF Terminal
    <3>3. Signalled'
      BY <1>2, <1>4, <2>1 DEF Flow, Signalled, Following
    <3> QED BY <3>2, <3>3 DEF Flow
  <2>4. Normalizes(m)
    BY DEF Normalizes
  <2> QED BY <1>8, <2>2, <2>3, <2>4 DEF Ignored
<1>9. CASE Accepted(m, r)
  <2>1. /\ m.type = "CHANGED" /\ r.out = <<>> /\ sub'.pending > 0 /\ sub'.trailing = sub.trailing
        /\ ~Blocked(sub) /\ (sub'.expectsReset => sub.expectsReset)
    BY <1>4, <1>9 DEF Accepted
  <2>2. Attached' => Attached
    BY <1>2, <1>4, <1>5, <1>6, <2>1 DEF Attached
  <2>3. Answered' /\ Served'
    BY <1>1, <1>2, <2>1, <2>2, TakenFlows DEF Flow, Terminal
  <2>4. sub'.pending # 0
    BY <2>1
  <2>5. Signalled' /\ Announced'
    BY <2>4 DEF Signalled, Announced
  <2> QED BY <2>3, <2>5 DEF Flow
<1>10. CASE Settled(m, r)
  <2>1. /\ m.type = "RESET" /\ sub.expectsReset /\ ~sub'.expectsReset /\ r.out = <<>>
        /\ sub'.trailing = sub.trailing /\ ~Blocked(sub) /\ sub'.at = sub.at
        /\ told' = ver \/ ~Following'
    BY <1>2, <1>4, <1>10 DEF Settled, SamePlace, Followed, Following
  <2>2. Attached' => Attached
    BY <1>2, <1>4, <1>5, <1>6, <2>1 DEF Attached
  <2>3. /\ SentTwice(down) => Sent(down', Terminal)
        /\ Sent(down, Ended) => Sent(down', Ended)
    BY <1>1, <1>2, <2>1, Taken DEF Ended
  <2>4. Answered'
    BY <2>1 DEF Answered
  <2>5. Served'
    BY <1>2, <2>1, <2>2, <2>3 DEF Flow, Served
  <2>6. Signalled' /\ Announced'
    <3>1. sub.at <= ver /\ ~(ver < ver)
      BY <1>1 DEF TypeOK
    <3> QED BY <1>2, <2>1, <3>1 DEF Signalled, Announced
  <2> QED BY <2>4, <2>5, <2>6 DEF Flow
<1>11. CASE Acknowledged(m, r)
  <2>1. /\ m.type = "ACK" /\ r.out = <<>> /\ SamePlace(r) /\ told' = told /\ read' = read
        /\ ~Blocked(sub)
        /\ sub'.expectsReset => sub.expectsReset
    BY <1>4, <1>11 DEF Acknowledged
  <2>2. /\ sub'.seq = sub.seq /\ sub'.at = sub.at /\ sub'.pending = sub.pending
        /\ sub'.trailing = sub.trailing
    BY <1>4, <2>1 DEF SamePlace
  <2>3. Attached' => Attached
    BY <1>2, <1>4, <1>5, <1>6, <2>1, <2>2 DEF Attached
  <2>4. Answered' /\ Served' /\ Announced'
    BY <1>1, <1>2, <2>1, <2>2, <2>3, NothingNewFlows DEF Terminal
  <2>5. Signalled'
    BY <1>2, <1>3, <1>4, <2>1, SignalledStays DEF Flow
  <2> QED BY <2>4, <2>5 DEF Flow
<1> QED BY <1>3, <1>7, <1>8, <1>9, <1>10, <1>11

\* Steps of the backend leave what the client has signalled alone.
LEMMA BackendSignals ==
  ASSUME Flow, UNCHANGED clientVars
  PROVE  /\ Signalled'
         /\ UNCHANGED <<sub, conn, outbox, hidden, sig, hasData, read, told>>
         /\ Following' <=> Following
BY DEF Flow, Signalled, Following, clientVars

\* An enqueue ends the session, or puts its frames on the wire.
LEMMA EnqueueFlows ==
  ASSUME BaseInv, Flow, UNCHANGED clientVars, UNCHANGED ver,
         NEW s \in Session, NEW frames \in Seq(Frame), Dated(frames, ver), Enqueue(s, frames),
         Attached' /\ srv' = s /\ down' = down \o frames /\ hub' = hub
           => Answered' /\ Served' /\ Announced'
  PROVE  Flow'
<1>1. \/ down' = down \o frames /\ srv' = s /\ hub' = hub
      \/ srv' = [NoSession EXCEPT !.dead = TRUE]
  BY EnqueueFacts DEF BaseInv, Wired
<1>2. CASE srv' = [NoSession EXCEPT !.dead = TRUE]
  BY <1>2, DeadSession, DetachedFlows, BackendSignals DEF Attached
<1>3. CASE down' = down \o frames /\ srv' = s /\ hub' = hub
  <2>1. CASE Attached'
    BY <1>3, <2>1, BackendSignals DEF Flow
  <2>2. CASE ~Attached'
    BY <2>2, BackendSignals, DetachedFlows
  <2> QED BY <2>1, <2>2
<1> QED BY <1>1, <1>2, <1>3

\* The request that leaves the wire empty is the last one the client sent.
LEMMA LastRequest ==
  ASSUME BaseInv, up # <<>>, up' = Tail(up), UNCHANGED clientVars, Attached'
  PROVE  /\ Len(up) = 1 /\ Head(up) = up[Len(up)] /\ Head(up).type = "REQUEST"
         /\ sub.phase # "none" /\ conn = "open" /\ sub.leased /\ ~Blocked(sub)
         /\ sub.trailing = "idle"
<1>1. up \in Seq(Frame) /\ Coherent(sub) /\ (sub.phase # "none" => EndsAsking(up))
  BY DEF BaseInv, TypeOK, Wired
<1>2. up' = <<>> /\ conn = "open" /\ sub.leased /\ ~Blocked(sub) /\ sub.trailing = "idle"
  BY DEF Attached, clientVars
<1>3. Len(up) = 1 /\ Head(up) = up[Len(up)]
  BY <1>1, <1>2, Taken
<1>4. sub.phase # "none"
  BY <1>1, <1>2 DEF Coherent
<1> QED BY <1>1, <1>2, <1>3, <1>4 DEF EndsAsking

LEMMA ServeRequestFlows ==
  ASSUME BaseInv, Flow, ServeRequest
  PROVE  Flow'
<1> DEFINE token == Head(up).seq
           tail == Since(token)
           reset == Reset("RESET", srv.counter + 1)
<1>1. PICK s \in Session, frames \in Seq(Frame), resumed \in BOOLEAN :
        /\ Enqueue(s, frames) /\ Dated(frames, ver)
        /\ s.sub = "live"
        /\ resumed => CanResume(token) /\ frames = <<Ack>> \o tail
        /\ ~resumed => frames = <<Ack>> \o <<reset>>
  BY ServeFacts
<1>2. /\ up # <<>> /\ up' = Tail(up) /\ UNCHANGED clientVars /\ UNCHANGED ver
  BY DEF ServeRequest, Serving
<1>3. /\ TypeOK /\ Ringed /\ Resuming /\ up \in Seq(Frame) /\ down \in Seq(Frame) /\ ver \in Nat
      /\ told \in Nat /\ hub.seq \in Nat /\ sub.seq \in Nat /\ sub.at \in Nat
  BY BoundsAssumption DEF BaseInv, TypeOK, Wired, Hub, Subscription
<1>4. token \in Nat
  BY <1>2, <1>3, Taken DEF Frame
<1>5. reset \in Frame /\ reset.type = "RESET" /\ Ack \in Frame
  BY SessionFacts, ResetFields, FrameTypes
<1> HIDE DEF reset, token
<1>6. <<Ack>> \in Seq(Frame) /\ <<reset>> \in Seq(Frame) /\ Sent(<<reset>>, Terminal)
  BY <1>5, Single DEF Terminal
<1> SUFFICES ASSUME Attached', srv' = s, down' = down \o frames, hub' = hub
             PROVE  Answered' /\ Served' /\ Announced'
  BY <1>1, <1>2, EnqueueFlows
<1>7. /\ UNCHANGED <<sub, conn, hasData, told>> /\ Len(up) = 1 /\ Head(up) = up[Len(up)]
      /\ sub.phase # "none" /\ sub.leased /\ ~Blocked(sub) /\ sub.trailing = "idle"
  BY <1>2, LastRequest DEF clientVars
<1>8. Served'
  BY <1>1 DEF Served
<1>9. CASE ~resumed
  <2>1. Sent(frames, Terminal)
    BY <1>1, <1>6, <1>9, Joined
  <2>2. Sent(down', Terminal)
    BY <1>3, <2>1, Joined
  <2> QED BY <1>8, <2>2 DEF Answered, Announced
<1>10. CASE resumed
  <2>1. CanResume(token) /\ token # 0
    BY <1>1, <1>10 DEF CanResume
  <2>2. sub.seq = token /\ ~sub.expectsReset
    BY <1>2, <1>3, <1>7, <2>1 DEF Resuming, token
  <2>3. Answered'
    BY <1>7, <2>2 DEF Answered
  <2>4. ASSUME Following', told' < ver', sub'.pending = 0, Continuous'
        PROVE  Coming(down', sub'.seq)
    <3>1. Following /\ told < ver /\ sub.pending = 0 /\ ver + sub.seq = hub.seq + sub.at
      BY <1>2, <1>7, <2>1, <2>2, <2>4, BackendSignals DEF Continuous
    <3>2. sub.at <= told
      BY <1>7, <2>1, <2>2, <3>1 DEF Flow, Signalled
    <3>3. token < hub.seq
      BY <1>3, <1>4, <2>2, <3>1, <3>2
    <3>4. /\ tail \in Seq(Frame) /\ Len(tail) = hub.seq - token
          /\ \A i \in 1 .. Len(tail) : tail[i] = Changed(token + i, ((ver - hub.seq) + token) + i)
      BY <1>3, <1>4, <2>1, <3>3, SinceFacts
    <3> HIDE DEF tail
    <3>5. 1 \in 1 .. Len(tail)
      BY <1>3, <1>4, <3>3, <3>4
    <3>6. tail[1].type = "CHANGED" /\ tail[1].seq = token + 1
      BY <3>4, <3>5, ChangedFields
    <3>7. Coming(tail, token)
      <4>1. tail[1].seq > token
        BY <1>4, <3>6
      <4> QED BY <3>5, <3>6, <4>1 DEF Coming
    <3>8. Coming(frames, token)
      <4> DEFINE a == <<Ack>>
      <4>1. a \in Seq(Frame) /\ frames = a \o tail
        BY <1>1, <1>6, <1>10
      <4> HIDE DEF a
      <4> QED BY <3>4, <3>7, <4>1, Joined
    <3>9. Coming(down \o frames, token)
      BY <1>3, <3>8, Joined
    <3> QED BY <1>7, <2>2, <3>9
  <2>5. Announced'
    BY <2>4 DEF Announced
  <2> QED BY <1>8, <2>3, <2>5
<1> QED BY <1>9, <1>10

\* A frame that ends what the client knows, put on the wire beside what is there.
LEMMA EndedFlows ==
  ASSUME BaseInv, Flow, UNCHANGED clientVars, UNCHANGED ver,
         NEW s \in Session, NEW f \in Frame, f.type \in Ended, Dated(<<f>>, ver),
         Enqueue(s, <<f>>)
  PROVE  Flow'
<1>1. down \in Seq(Frame) /\ <<f>> \in Seq(Frame) /\ Sent(<<f>>, Ended) /\ Sent(<<f>>, Terminal)
  BY Single DEF BaseInv, TypeOK, Ended
<1>2. Sent(down \o <<f>>, Ended) /\ Sent(down \o <<f>>, Terminal)
  BY <1>1, Joined
<1>3. ASSUME down' = down \o <<f>> PROVE Answered' /\ Served' /\ Announced'
  BY <1>2, <1>3 DEF Answered, Served, Announced
<1> QED BY <1>1, <1>3, EnqueueFlows

LEMMA RefuseRequestFlows ==
  ASSUME BaseInv, Flow, RefuseRequest
  PROVE  Flow'
<1>1. PICK denied \in BOOLEAN : Enqueue(srv, <<Error(denied)>>)
  BY DEF RefuseRequest
<1> DEFINE f == Error(denied)
<1>2. f \in Frame /\ f.type \in {"ERROR", "FORBIDDEN"} /\ Enqueue(srv, <<f>>)
  BY <1>1, ErrorFields
<1> HIDE DEF f
<1>3. f.type \in Ended /\ Dated(<<f>>, ver)
  BY <1>2, Single DEF Ended, Terminal
<1>4. UNCHANGED clientVars /\ UNCHANGED ver
  BY DEF RefuseRequest
<1> QED BY <1>2, <1>3, <1>4, SessionFacts, EndedFlows

LEMMA ServeCancelFlows ==
  ASSUME BaseInv, Flow, ServeCancel
  PROVE  Flow'
<1>1. up # <<>> /\ up' = Tail(up) /\ UNCHANGED clientVars /\ Head(up).type = "CANCEL"
  BY DEF ServeCancel, Serving
<1>2. ~Attached'
  BY <1>1, LastRequest
<1> QED BY <1>1, <1>2, BackendSignals, DetachedFlows

LEMMA SessionShutdownFlows ==
  ASSUME Flow, SessionShutdown
  PROVE  Flow'
<1>1. UNCHANGED clientVars /\ srv' = [NoSession EXCEPT !.dead = TRUE]
  BY DEF SessionShutdown
<1> QED BY <1>1, BackendSignals, DeadSession, DetachedFlows DEF Attached

LEMMA RingFlows ==
  ASSUME BaseInv, Flow, Ring
  PROVE  Flow'
<1> DEFINE update == Changed(hub.seq + 1, ver + 1)
<1>1. /\ UNCHANGED <<up, down>> /\ UNCHANGED clientVars /\ ver' = ver + 1
      /\ UNCHANGED <<sub, conn, hasData, told>>
  BY DEF Ring, clientVars
<1>2. /\ srv'.high = srv.high /\ srv'.dead = srv.dead
      /\ \/ srv.sub # "live" /\ srv' = srv
         \/ srv.sub = "live" /\ srv'.sub = "live" /\ srv'.chan = srv.chan \o <<update>>
         \/ srv.sub = "live" /\ Sent(srv'.chan, {"RESET"})
  BY RingSession
<1>3. Attached' <=> Attached
  BY <1>1, <1>2 DEF Attached
<1>4. Answered'
  BY <1>1, <1>3 DEF Flow, Answered
<1>5. Served'
  <2>1. CASE srv' = srv
    BY <1>1, <1>3, <2>1 DEF Flow, Served
  <2>2. CASE srv'.sub = "live"
    BY <2>2 DEF Served
  <2>3. CASE Sent(srv'.chan, {"RESET"})
    BY <2>3 DEF Served
  <2> QED BY <1>2, <2>1, <2>2, <2>3
<1>6. Announced'
  <2>1. CASE srv.sub # "live" /\ srv' = srv
    <3> SUFFICES ASSUME Attached'
                 PROVE  Sent(down', Terminal) \/ Sent(srv'.chan, {"RESET"}) \/ srv'.sub = "ending"
      BY DEF Announced
    <3>1. Sent(down, Ended) \/ SentTwice(down) => Sent(down, Terminal)
      BY DEF Ended, SentTwice, Sent
    <3>2. srv.sub # "ending" =>
            Sent(srv.chan, {"RESET"}) \/ Sent(down, Ended) \/ SentTwice(down) \/ Sent(down, Terminal)
      BY <1>3, <2>1 DEF Flow, Served
    <3> QED BY <1>1, <2>1, <3>1, <3>2
  <2>2. CASE srv.sub = "live" /\ srv'.chan = srv.chan \o <<update>>
    <3>1. /\ sub.seq \in Nat /\ sub.at \in Nat /\ sub.at <= ver /\ ver \in Nat /\ hub.seq \in Nat
          /\ srv.high \in Nat /\ srv.high <= hub.seq /\ srv.chan \in Seq(Frame)
          /\ Subscribed(srv.sub)
      BY <2>2, SessionFacts DEF BaseInv, TypeOK, Subscription, Subscribed
    <3>2. hub'.seq = hub.seq + 1
      BY <3>1, RingKeepsBase
    <3>3. update \in Frame /\ update.type = "CHANGED" /\ update.seq = hub.seq + 1
      BY <3>1, ChangedFields
    <3> HIDE DEF update
    <3>4. Continuous' => Coming(srv'.chan, Reached')
      <4> SUFFICES ASSUME Continuous' PROVE Coming(srv'.chan, Reached')
        OBVIOUS
      <4>1. sub.seq <= hub.seq
        <5>1. CASE sub.seq = 0
          BY <3>1, <5>1
        <5>2. CASE sub.seq # 0
          <6>1. (ver + 1) + sub.seq = (hub.seq + 1) + sub.at
            BY <1>1, <3>2, <5>2 DEF Continuous
          <6> QED BY <3>1, <6>1
        <5> QED BY <5>1, <5>2
      <4>2. Reached' \in {sub.seq, srv.high}
        BY <1>1, <1>2 DEF Reached
      <4>3. update.seq > Reached'
        BY <3>1, <3>3, <4>1, <4>2
      <4>4. <<update>> \in Seq(Frame) /\ Coming(<<update>>, Reached')
        BY <3>3, <4>3, Single
      <4> DEFINE c == <<update>>
      <4>5. c \in Seq(Frame) /\ Coming(c, Reached') /\ srv'.chan = srv.chan \o c
        BY <2>2, <4>4
      <4> HIDE DEF c
      <4> QED BY <3>1, <4>5, Joined
    <3> QED BY <3>4 DEF Announced
  <2>3. CASE Sent(srv'.chan, {"RESET"})
    BY <2>3 DEF Announced
  <2> QED BY <1>2, <2>1, <2>2, <2>3
<1> QED BY <1>1, <1>4, <1>5, <1>6, BackendSignals DEF Flow

LEMMA ForwardFlows ==
  ASSUME BaseInv, Flow, Forward
  PROVE  Flow'
<1> DEFINE m == Head(srv.chan)
           reset == Reset("RESET", srv.counter + 1)
<1>1. /\ srv.chan # <<>> /\ m \in Frame /\ Dated(<<m>>, ver) /\ UNCHANGED up
      /\ UNCHANGED clientVars /\ UNCHANGED ver
  BY ForwardFacts
<1>2. PICK s \in Session :
        /\ s.sub = srv.sub /\ s.chan = Tail(srv.chan) /\ s.high = srv.high /\ s.dead = srv.dead
        /\ \/ m.type = "RESET" /\ Enqueue(s, <<reset>>)
           \/ m.type # "RESET" /\ m.seq <= srv.high /\ srv' = s /\ UNCHANGED <<down, hub, oldSub>>
           \/ m.type # "RESET" /\ ~(m.seq <= srv.high) /\ Enqueue(s, <<m>>)
  BY ForwardFacts
<1>3. UNCHANGED <<sub, conn, hasData, told>>
  BY <1>1 DEF clientVars
<1>4. /\ down \in Seq(Frame) /\ srv.chan \in Seq(Frame) /\ sub.seq \in Nat /\ srv.high \in Nat
      /\ Coherent(sub) /\ m.seq \in Nat
  BY <1>1, SessionFacts DEF BaseInv, TypeOK, Subscription, Frame
<1>5. /\ reset \in Frame /\ reset.type = "RESET" /\ reset.tok # NoToken
  BY SessionFacts, ResetFields
<1> HIDE DEF reset
<1>6. /\ m.type # "RESET" /\ Sent(srv.chan, {"RESET"}) => Sent(s.chan, {"RESET"})
      /\ Coming(srv.chan, Reached) =>
           Coming(s.chan, Reached) \/ (m.type = "CHANGED" /\ m.seq > Reached)
  BY <1>1, <1>2, <1>4, Taken
<1> HIDE DEF m
<1>7. CASE m.type = "RESET" /\ Enqueue(s, <<reset>>)
  <2>1. <<reset>> \in Seq(Frame) /\ Dated(<<reset>>, ver) /\ Sent(<<reset>>, Terminal)
    BY <1>5, Single DEF Terminal
  <2>2. Sent(down \o <<reset>>, Terminal)
        /\ (Sent(down, Terminal) => SentTwice(down \o <<reset>>))
    BY <1>4, <2>1, Joined
  <2>3. ASSUME Attached', srv' = s, down' = down \o <<reset>>
        PROVE  Answered' /\ Served' /\ Announced'
    <3>1. Attached
      BY <1>1, <1>2, <1>3, <2>3 DEF Attached
    <3>2. sub.expectsReset => Sent(down, Terminal)
      BY <3>1 DEF Flow, Answered
    <3> QED BY <1>3, <2>2, <2>3, <3>2 DEF Answered, Served, Announced
  <2> QED BY <1>1, <1>7, <2>1, <2>3, EnqueueFlows
<1>8. CASE m.type # "RESET" /\ m.seq <= srv.high /\ srv' = s /\ UNCHANGED <<down, hub, oldSub>>
  <2>1. Attached' <=> Attached
    BY <1>1, <1>2, <1>3, <1>8 DEF Attached
  <2>2. Answered'
    BY <1>3, <1>8, <2>1 DEF Flow, Answered
  <2>3. Served'
    BY <1>2, <1>3, <1>6, <1>8, <2>1 DEF Flow, Served
  <2>4. Continuous' <=> Continuous
    BY <1>1, <1>3, <1>8 DEF Continuous
  <2>5. Reached' = Reached
    BY <1>2, <1>3, <1>8 DEF Reached
  <2>6. ~(m.seq > Reached)
    BY <1>4, <1>8 DEF Reached
  <2>7. Announced'
    BY <1>1, <1>2, <1>3, <1>6, <1>8, <2>1, <2>4, <2>5, <2>6, BackendSignals DEF Flow, Announced
  <2> QED BY <1>1, <2>2, <2>3, <2>7, BackendSignals DEF Flow
<1>9. CASE m.type # "RESET" /\ Enqueue(s, <<m>>)
  <2>1. <<m>> \in Seq(Frame) /\ (Coming(<<m>>, sub.seq) <=> m.type = "CHANGED" /\ m.seq > sub.seq)
    BY <1>1, Single
  <2>2. /\ Sent(down, Terminal) => Sent(down \o <<m>>, Terminal)
        /\ Sent(down, Ended) => Sent(down \o <<m>>, Ended)
        /\ SentTwice(down) => SentTwice(down \o <<m>>)
        /\ Coming(down, sub.seq) \/ Coming(<<m>>, sub.seq) => Coming(down \o <<m>>, sub.seq)
    BY <1>4, <2>1, Joined
  <2>3. ASSUME Attached', srv' = s, down' = down \o <<m>>, hub' = hub
        PROVE  Answered' /\ Served' /\ Announced'
    <3>1. Attached
      BY <1>1, <1>2, <1>3, <2>3 DEF Attached
    <3>2. Answered'
      BY <1>3, <2>2, <2>3, <3>1 DEF Flow, Answered
    <3>3. Served'
      BY <1>2, <1>3, <1>6, <1>9, <2>2, <2>3, <3>1 DEF Flow, Served
    <3>4. Continuous' <=> Continuous
      BY <1>1, <1>3, <2>3 DEF Continuous
    <3>5. Reached' = Reached
      BY <1>2, <1>3, <2>3 DEF Reached
    <3>6. m.seq > Reached => m.seq > sub.seq
      BY <1>4 DEF Reached
    <3>7. Announced'
      BY <1>1, <1>2, <1>3, <1>6, <1>9, <2>1, <2>2, <2>3, <3>1, <3>4, <3>5, <3>6,
         BackendSignals DEF Flow, Announced
    <3> QED BY <3>2, <3>3, <3>7
  <2>4. Dated(<<m>>, ver)
    BY <1>1 DEF m
  <2> QED BY <1>1, <1>9, <2>1, <2>3, <2>4, EnqueueFlows
<1> QED BY <1>2, <1>7, <1>8, <1>9

LEMMA ForwardCompleteFlows ==
  ASSUME BaseInv, Flow, ForwardComplete
  PROVE  Flow'
<1> DEFINE s == [srv EXCEPT !.sub = "none", !.chan = <<>>, !.high = 0, !.counter = @ + 1]
           done == Reset("COMPLETE", srv.counter + 1)
<1>1. Enqueue(s, <<done>>) /\ UNCHANGED clientVars /\ UNCHANGED ver
  BY DEF ForwardComplete
<1>2. s \in Session
  <2> DEFINE c == srv.counter + 1
  <2>1. c \in Nat /\ srv \in Session
    BY SessionFacts
  <2>2. s = [srv EXCEPT !.sub = "none", !.chan = <<>>, !.high = 0, !.counter = c]
    OBVIOUS
  <2> HIDE DEF c, s
  <2> QED BY <2>1, <2>2, NothingQueued DEF Session
<1>3. done \in Frame /\ done.type = "COMPLETE" /\ done.tok # NoToken
  BY SessionFacts, ResetFields
<1> HIDE DEF s, done
<1>4. done.type \in Ended /\ Dated(<<done>>, ver)
  BY <1>3, Single DEF Ended, Terminal
<1> QED BY <1>1, <1>2, <1>3, <1>4, EndedFlows

\* A hub that goes takes the numbers of its changes with it: a client that still
\* has one of them is not at a number of the next hub.
LEMMA HubGoneFlows ==
  ASSUME BaseInv, Flow, UNCHANGED clientVars, UNCHANGED <<up, down, srv, ver>>,
         hub' = hub \/ hub'.seq = 0
  PROVE  Flow'
<1>1. UNCHANGED <<sub, conn, hasData, told>>
  BY DEF clientVars
<1>2. Attached' <=> Attached
  BY <1>1 DEF Attached
<1>3. Answered' /\ Served'
  BY <1>1, <1>2 DEF Flow, Answered, Served
<1>4. Continuous' => Continuous
  <2>1. sub.seq \in Nat /\ sub.at \in Nat /\ sub.at <= ver /\ ver \in Nat
    BY BoundsAssumption DEF BaseInv, TypeOK, Subscription
  <2>2. hub'.seq = 0 /\ sub.seq # 0 => ver' + sub'.seq # hub'.seq + sub'.at
    BY <1>1, <2>1
  <2> QED BY <1>1, <2>2 DEF Continuous
<1>5. Reached' = Reached
  BY <1>1 DEF Reached
<1>6. Announced'
  BY <1>1, <1>2, <1>4, <1>5, BackendSignals DEF Flow, Announced
<1> QED BY <1>3, <1>6, BackendSignals DEF Flow

LEMMA ReplaceManagerFlows ==
  ASSUME BaseInv, Flow, ReplaceManager
  PROVE  Flow'
<1>1. /\ UNCHANGED clientVars /\ UNCHANGED <<up, down, ver>> /\ hub' = EmptyHub
      /\ srv' = IF Subscribed(srv.sub) THEN [srv EXCEPT !.sub = "ending"] ELSE srv
  BY DEF ReplaceManager
<1>2. hub'.seq = 0
  BY <1>1 DEF EmptyHub
<1>3. CASE ~Subscribed(srv.sub)
  BY <1>1, <1>2, <1>3, HubGoneFlows
<1>4. CASE Subscribed(srv.sub)
  <2>1. srv'.sub = "ending" /\ srv'.dead = srv.dead
    BY <1>1, <1>4, SessionFacts DEF Session
  <2>2. UNCHANGED <<sub, conn, hasData, told>>
    BY <1>1 DEF clientVars
  <2>3. Attached' <=> Attached
    BY <1>1, <2>1, <2>2 DEF Attached
  <2>4. Answered'
    BY <1>1, <2>2, <2>3 DEF Flow, Answered
  <2>5. Served' /\ Announced'
    BY <2>1 DEF Served, Announced
  <2> QED BY <1>1, <2>4, <2>5, BackendSignals DEF Flow
<1> QED BY <1>3, <1>4

LEMMA OthersFlow ==
  ASSUME BaseInv, Flow, OldSessionCloses \/ OtherWindowToggles
  PROVE  Flow'
<1>1. UNCHANGED clientVars /\ UNCHANGED <<up, down, srv, ver>>
  BY DEF OldSessionCloses, OtherWindowToggles
<1>2. hub' = hub \/ hub' = EmptyHub
  BY DEF OldSessionCloses, OtherWindowToggles, HubAfter
<1> QED BY <1>1, <1>2, HubGoneFlows DEF EmptyHub

LEMMA ClientFlows ==
  ASSUME BaseInv, Flow, domain.object, Client
  PROVE  Flow'
<1>1. CASE Start \/ RefreshOnce
  BY <1>1, EnsureFlows
<1>2. CASE Stop \/ UnsubscribeTimer \/ StopNow \/ StopAll
  BY <1>2, ReleaseFlows
<1>3. CASE StartRead \/ FinishRead \/ FailRead \/ FlushTimer \/ CooldownEnds
  BY <1>3, TimerFlows
<1>4. CASE TrailingFires
  BY <1>4, TrailingFiresFlows
<1>5. CASE Open
  BY <1>5, OpenFlows
<1>6. CASE Lost \/ Reconnect \/ Hide
  BY <1>6, OfflineFlows
<1>7. CASE Show
  BY <1>7, ShowFlows
<1>8. CASE Receive
  BY <1>8, ReceiveFlows
<1> QED BY <1>1, <1>2, <1>3, <1>4, <1>5, <1>6, <1>7, <1>8 DEF Client

LEMMA ServerFlows ==
  ASSUME BaseInv, Flow, Server
  PROVE  Flow'
<1>1. CASE ServeRequest
  BY <1>1, ServeRequestFlows
<1>2. CASE RefuseRequest
  BY <1>2, RefuseRequestFlows
<1>3. CASE ServeCancel
  BY <1>3, ServeCancelFlows
<1>4. CASE Ring
  BY <1>4, RingFlows
<1>5. CASE Forward
  BY <1>5, ForwardFlows
<1>6. CASE ForwardComplete
  BY <1>6, ForwardCompleteFlows
<1>7. CASE ReplaceManager
  BY <1>7, ReplaceManagerFlows
<1>8. CASE SessionShutdown
  BY <1>8, SessionShutdownFlows
<1>9. CASE OldSessionCloses \/ OtherWindowToggles
  BY <1>9, OthersFlow
<1> QED BY <1>1, <1>2, <1>3, <1>4, <1>5, <1>6, <1>7, <1>8, <1>9 DEF Server

LEMMA InitFlows ==
  ASSUME Init
  PROVE  Flow
<1>1. ~sub.leased
  BY NoSubFields DEF Init
<1> QED BY <1>1 DEF Flow, Attached, Answered, Served, Signalled, Announced

LEMMA StutterFlows ==
  ASSUME BaseInv, Flow, UNCHANGED vars
  PROVE  Flow'
<1>1. UNCHANGED clientVars /\ UNCHANGED <<up, down, srv, ver>> /\ hub' = hub
  BY DEF vars, serverVars
<1> QED BY <1>1, HubGoneFlows

LEMMA DomainStays ==
  ASSUME [Next]_vars
  PROVE  domain' = domain
BY DEF Next, Client, Server, Start, RefreshOnce, Stop, UnsubscribeTimer, StopNow, StopAll,
       StartRead, FinishRead, FailRead, FlushTimer, CooldownEnds, TrailingFires, Open, Lost, Reconnect, Hide, Show, Receive,
       ServeRequest, RefuseRequest, ServeCancel, Ring, Forward, ForwardComplete, ReplaceManager,
       SessionShutdown, OldSessionCloses, OtherWindowToggles, vars

\* Nothing is lost on the way: an attached client either has a session that
\* delivers, or is about to be told that it has not; and a payload that has
\* missed no RESET, held or still being read, has been signalled to be older
\* than the cluster or is about to be.
THEOREM StreamInvariant == Spec => []StreamInv
<1>1. Init => StreamInv
  BY InitBase, InitFlows DEF StreamInv
<1>2. BaseInv /\ [Next]_vars => BaseInv'
  BY ClientKeepsBase, ServerKeepsBase, StutterKeepsBase DEF Next
<1>3. BaseInv /\ Flow /\ domain.object /\ [Next]_vars => Flow'
  BY ClientFlows, ServerFlows, StutterFlows DEF Next
<1>4. StreamInv /\ [Next]_vars => StreamInv'
  BY <1>2, <1>3, DomainStays DEF StreamInv
<1> QED BY <1>1, <1>4, PTL DEF Spec

\* A scope reported healthy has a subscription in the backend, or one is on its
\* way, for every domain that declares the object clock: the health the protocol
\* derives (resourceStreamProtocol.ts) never turns the polling off for a stream
\* that has silently stopped.
THEOREM ConfirmedIsSubscribed == Spec => [](domain.object => ConfirmedMeansSubscribed)
<1>1. StreamInv => (domain.object => ConfirmedMeansSubscribed)
  <2> SUFFICES ASSUME BaseInv, Served, Healthy, ~Rearming
               PROVE  srv.sub = "live"
    BY DEF StreamInv, Flow, ConfirmedMeansSubscribed
  <2>1. /\ up \in Seq(Frame) /\ outbox \in Seq(Frame) /\ Coherent(sub)
        /\ sub.phase # "none" => EndsAsking(up)
    BY DEF BaseInv, TypeOK, Wired
  <2>2. /\ conn = "open" /\ sub.leased /\ ~Blocked(sub) /\ sub.phase # "none"
    BY DEF Healthy, ProtocolHealthy, Confirmed, Blocked
  <2>3. /\ sub.trailing = "idle" /\ ~srv.dead /\ srv.sub # "ending" /\ ~Sent(down, Terminal)
        /\ ~Sent(srv.chan, {"RESET"}) /\ ~Sent(up, {"REQUEST"})
    BY <2>1, Joined DEF Rearming, Terminal
  <2>4. up = <<>>
    BY <2>1, <2>2, <2>3, EmptySeq DEF EndsAsking, Sent
  <2>5. Attached
    BY <2>2, <2>3, <2>4 DEF Attached
  <2>6. ~Sent(down, Ended) /\ ~SentTwice(down)
    BY <2>3 DEF Sent, Ended, SentTwice
  <2> QED BY <2>3, <2>5, <2>6 DEF Served
<1> QED BY <1>1, StreamInvariant, PTL

\* Behind a quiet and healthy stream the store has signalled the newest change,
\* for every domain that declares the object clock and every client that is not
\* at a number of a hub that is gone (ringbuffer.go, Buffer.Since) and did not
\* take in the initial RESET while its first read was out, to be answered older
\* (resourceStreamProtocol.ts, receiveReset).
THEOREM QuietIsCurrent == Spec => [](domain.object => QuietMeansCurrent)
<1>1. StreamInv => (domain.object => QuietMeansCurrent)
  <2> SUFFICES ASSUME BaseInv, Announced, Quiet, Following, Continuous
               PROVE  told = ver
    BY DEF StreamInv, Flow, QuietMeansCurrent, Following
  <2>1. told \in Nat /\ ver \in Nat /\ told <= ver
    BY BoundsAssumption DEF BaseInv, TypeOK
  <2>2. Attached /\ sub.pending = 0 /\ down = <<>> /\ srv.chan = <<>> /\ srv.sub = "live"
    BY DEF Quiet, Healthy, ProtocolHealthy, Blocked, Attached
  <2>3. ~Sent(down, Terminal) /\ ~Sent(srv.chan, {"RESET"})
        /\ ~Coming(down, sub.seq) /\ ~Coming(srv.chan, Reached)
    BY <2>2, NothingQueued
  <2>4. ~(told < ver)
    BY <2>2, <2>3 DEF Announced
  <2> QED BY <2>1, <2>4
<1> QED BY <1>1, StreamInvariant, PTL
=============================================================================
