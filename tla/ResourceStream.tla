--------------------------- MODULE ResourceStream ---------------------------
(* One scope of the multiplexed resource stream, end to end: the client's  *)
(* protocol machine and its manager, subscription store, connection and    *)
(* visibility controller (frontend/src/core/refresh/streaming), the wire,  *)
(* and the backend session and scope hub behind it (backend/refresh/       *)
(* streammux, backend/refresh/resourcestream).  A doorbell only says that  *)
(* something changed, so a frame carries a sequence and a clock token.     *)
(*                                                                         *)
(* The 'resyncing' and 'stopping' phases of the protocol begin and end     *)
(* inside one JavaScript turn and are not states here.                     *)
EXTENDS Naturals, Sequences

CONSTANTS
  Domains,      \* the [object, complete] classes of domain to consider
  KeepsSocket,  \* whether another scope keeps the shared socket in use
  OtherWindow,  \* whether another window may subscribe to the same scope
  Replaceable,  \* whether the cluster's manager may be replaced
  BufferSize,   \* ResourceStreamResumeBufferSize
  ChanCap,      \* ResourceStreamSubscriberBufferSize
  OutCap,       \* StreamMuxOutgoingBufferSize
  MaxPending,   \* MAX_UPDATE_QUEUE
  MaxVer,       \* bound on changes of the cluster
  MaxFaults,    \* bound on losses, rejections, shutdowns and replacements
  MaxOps        \* bound on lifecycle calls of the client

ASSUME DomainsAssumption == Domains \subseteq [object : BOOLEAN, complete : BOOLEAN]
ASSUME FlagsAssumption == KeepsSocket \in BOOLEAN /\ OtherWindow \in BOOLEAN /\ Replaceable \in BOOLEAN
ASSUME BoundsAssumption ==
  /\ {BufferSize, ChanCap, OutCap, MaxPending} \subseteq Nat \ {0}
  /\ {MaxVer, MaxFaults, MaxOps} \subseteq Nat

VARIABLES
  domain,    \* which clocks the domain declares, and how it takes a change
  sub,       \* the client's subscription and its protocol state
  conn,      \* the client's connection object and its socket
  outbox,    \* ResourceStreamConnection.pendingMessages
  hidden,    \* StreamVisibilityController.suspended
  sig,       \* signalVersions of the scope in the refresh store
  hasData,   \* whether the scope retains a payload
  read,      \* the first read of the payload, and what it missed
  told,      \* (history) version that the last signal or read accounts for
  up, down,  \* frames on the wire, from and to the client
  srv,       \* the backend session serving the socket
  hub,       \* sequence and resume buffer of the scope in the manager
  oldSub,    \* whether an earlier session still holds a subscription
  otherSub,  \* whether another window holds a subscription
  ver,       \* version of the cluster
  faults,    \* faults so far
  ops        \* lifecycle calls so far

clientVars == <<sub, conn, outbox, hidden, sig, hasData, read, told>>
serverVars == <<srv, hub, oldSub, otherSub, ver>>
vars == <<domain, clientVars, up, down, serverVars, faults, ops>>
-----------------------------------------------------------------------------
(* Frames.  A token is the version string of one clock: the doorbell's own *)
(* version for a change, the session's counter for a reset.                *)
NoToken == <<"none", 0>>
Token == {"none", "change", "control"} \X Nat
Request(token) == [type |-> "REQUEST", seq |-> token, tok |-> NoToken]
Cancel == [type |-> "CANCEL", seq |-> 0, tok |-> NoToken]
Ack == [type |-> "ACK", seq |-> 0, tok |-> NoToken]
Changed(n, v) == [type |-> "CHANGED", seq |-> n, tok |-> <<"change", v>>]
Reset(kind, n) == [type |-> kind, seq |-> 0, tok |-> <<"control", n>>]
Error(denied) == [type |-> IF denied THEN "FORBIDDEN" ELSE "ERROR", seq |-> 0, tok |-> NoToken]
Frame == [type : {"REQUEST", "CANCEL", "ACK", "CHANGED", "RESET", "COMPLETE", "FORBIDDEN", "ERROR"},
          seq : Nat, tok : Token]

\* at is history: the version of the change that seq is the number of.
NoSub == [phase |-> "none", expectsReset |-> FALSE, preserved |-> FALSE, seq |-> 0, at |-> 0,
          pending |-> 0, latest |-> NoToken, cooling |-> FALSE, trailing |-> "idle",
          leased |-> FALSE, unsubscribing |-> FALSE]
NewSub == [NoSub EXCEPT !.phase = "connecting", !.leased = TRUE]
NoSession == [sub |-> "none", chan |-> <<>>, high |-> 0, counter |-> 0, dead |-> FALSE]
EmptyHub == [seq |-> 0, buf |-> <<>>]

Init ==
  /\ domain \in Domains
  /\ sub = NoSub /\ conn = "none" /\ outbox = <<>> /\ hidden = FALSE
  /\ sig = NoToken /\ hasData = FALSE /\ read = "none" /\ told = 0
  /\ up = <<>> /\ down = <<>>
  /\ srv = NoSession /\ hub = EmptyHub /\ oldSub = FALSE /\ otherSub = FALSE
  /\ ver = 0 /\ faults = 0 /\ ops = 0
-----------------------------------------------------------------------------
(* The client.  A turn of the protocol is a record of what it changes: the *)
(* subscription, the messages it sends, the store's signal and what the    *)
(* first read has missed.                                                  *)
Turn(s) == [s |-> s, out |-> <<>>, sig |-> sig, told |-> told, read |-> read]

\* A refetch is signalled: at once, or when the read that is out has ended.
Refetched(r) == IF r = "missed" THEN "out" ELSE IF r = "kept" THEN "none" ELSE r

\* advance-source: the store takes the tokens, a refetch is signalled.
Advance(t, token) ==
  IF token = NoToken THEN t
  ELSE [t EXCEPT !.sig = token, !.told = ver, !.read = Refetched(@)]

Blocked(s) == s.phase = "permission-blocked"
Confirmed(s) == s.phase = "synchronized" \/ (s.phase = "awaiting-ack" /\ s.preserved)

\* Mutation: a resync inside the cooldown is dropped.
LatchNothing(s, why) == s

\* A resync inside the cooldown is owed: the first one latches.
LatchTrailing(s, why) == [s EXCEPT !.trailing = IF @ = "idle" THEN why ELSE @]

\* requestResync and completeResync: flush what is pending, forget the resume
\* token and ask for a fresh subscription.
RequestResync(t, force, why) ==
  LET s == t.s
      started == [s EXCEPT !.phase = "awaiting-ack", !.expectsReset = TRUE,
                    !.preserved = why = "lifecycle" /\ Confirmed(s), !.seq = 0, !.at = 0,
                    !.pending = 0, !.latest = NoToken, !.cooling = TRUE, !.trailing = "idle"]
  IN IF Blocked(s) THEN t
     ELSE IF s.cooling /\ ~force THEN [t EXCEPT !.s = LatchTrailing(s, why)]
     ELSE [Advance(t, s.latest) EXCEPT !.s = started, !.out = Append(@, Request(0))]

\* A subscription that is about to be dropped is not resynced.
Resync(t, force, why) == IF t.s.unsubscribing THEN t ELSE RequestResync(t, force, why)

ConnectionOpened(t) ==
  LET s == t.s
      resumed == [s EXCEPT !.phase = "awaiting-ack", !.expectsReset = FALSE, !.preserved = FALSE]
  IN IF Blocked(s) THEN t
     ELSE IF s.seq # 0 THEN [t EXCEPT !.s = resumed,
                          !.out = IF s.unsubscribing THEN @ ELSE Append(@, Request(s.seq))]
     ELSE Resync(t, TRUE, "recovery")

ConnectionLost(t) ==
  LET lost == [t EXCEPT !.s.phase = "connecting", !.s.expectsReset = FALSE, !.s.preserved = FALSE]
  IN IF Blocked(t.s) THEN t
     ELSE IF t.s.seq = 0 THEN Resync(lost, FALSE, "recovery")
     ELSE lost

\* Mutation: the limit is checked before the change is counted.
OverflowsLate(s) == s.pending > MaxPending

\* More changes wait for the flush than the queue takes.
Overflows(s) == s.pending + 1 > MaxPending

ReceiveChanged(t, m) ==
  LET s == t.s
      base == [s EXCEPT !.phase = "synchronized", !.seq = m.seq, !.at = m.tok[2], !.preserved = FALSE,
                 !.expectsReset = (s.phase \in {"awaiting-ack", "synchronized"}) /\ @]
  IN IF s.seq # 0 /\ m.seq <= s.seq THEN t
     ELSE IF domain.complete THEN Resync([t EXCEPT !.s = base], FALSE, "recovery")
     ELSE IF Overflows(s) THEN
            Resync([t EXCEPT !.s = [base EXCEPT !.pending = 0, !.latest = NoToken]], TRUE, "recovery")
     ELSE [t EXCEPT !.s = [base EXCEPT !.pending = @ + 1, !.latest = m.tok]]

\* The RESET that answers a subscribe without a token: already expected.
IsInitialReset(s, m) ==
  m.type = "RESET" /\ s.phase \in {"awaiting-ack", "synchronized"} /\ s.expectsReset

\* It signals nothing while no data are retained: a first read that is out
\* may have been answered before the subscribe was served.
ReceiveReset(t, m) ==
  IF IsInitialReset(t.s, m)
  THEN LET settled == [t EXCEPT !.s.phase = "synchronized", !.s.expectsReset = FALSE,
                          !.s.preserved = FALSE]
       IN IF hasData THEN Advance(settled, m.tok)
          ELSE [settled EXCEPT !.read = IF @ = "out" THEN "missed" ELSE @]
  ELSE Resync(Advance(t, m.tok), FALSE, "recovery")

ReceiveAck(t) ==
  [t EXCEPT !.s.phase = "synchronized", !.s.preserved = FALSE,
            !.s.expectsReset = (t.s.phase \in {"awaiting-ack", "synchronized"}) /\ @]

\* Mutation: a refused subscribe is not retried.
ErrorWithoutRetry(t) ==
  [t EXCEPT !.s.phase = "connecting", !.s.expectsReset = FALSE, !.s.preserved = FALSE]

\* The backend refused the subscribe: the retry honors the cooldown.
ReceiveError(t) ==
  Resync([t EXCEPT !.s.phase = "connecting", !.s.expectsReset = FALSE, !.s.preserved = FALSE],
         FALSE, "recovery")

\* A frame whose clock the domain does not declare is not normalized.
Normalizes(m) == m.type \notin {"RESET", "COMPLETE"} \/ domain.object

HandleMessage(t, m) ==
  IF t.s.phase = "none" \/ Blocked(t.s) \/ ~Normalizes(m) THEN t
  ELSE IF m.type = "CHANGED" THEN ReceiveChanged(t, m)
  ELSE IF m.type \in {"RESET", "COMPLETE"} THEN ReceiveReset(t, m)
  ELSE IF m.type = "ACK" THEN ReceiveAck(t)
  ELSE IF m.type = "FORBIDDEN" THEN
         [t EXCEPT !.s.phase = "permission-blocked", !.s.expectsReset = FALSE, !.s.preserved = FALSE]
  ELSE ReceiveError(t)
-----------------------------------------------------------------------------
(* The connection: a message leaves at once on an open socket, and waits   *)
(* in the outbox on any other.                                             *)
Apply(t) == sub' = t.s /\ sig' = t.sig /\ told' = t.told /\ read' = t.read

\* Runs a turn, creating the connection when the turn sends and none exists.
Run(t) ==
  /\ Apply(t)
  /\ conn' = IF conn = "none" /\ t.out # <<>> THEN "opening" ELSE conn
  /\ IF conn = "open"
     THEN up' = up \o t.out /\ UNCHANGED outbox
     ELSE outbox' = outbox \o t.out /\ UNCHANGED up

\* The socket goes: what was on the wire is lost, and the backend session
\* learns of it later.
DropSocket ==
  /\ up' = <<>> /\ down' = <<>> /\ srv' = NoSession
  /\ oldSub' = (oldSub \/ srv.sub \in {"live", "resyncing"})

CountOp == ops < MaxOps /\ ops' = ops + 1
CountFault == faults < MaxFaults /\ faults' = faults + 1

\* start: a stop still waiting is revoked, and a blocked owner replaced.
EnsuredSub ==
  IF sub.phase = "none" \/ (sub.unsubscribing /\ Blocked(sub)) THEN NewSub
  ELSE [sub EXCEPT !.leased = TRUE, !.unsubscribing = FALSE]

Start ==
  /\ CountOp
  /\ Run(Resync(Turn(EnsuredSub), FALSE, "lifecycle"))
  /\ UNCHANGED <<domain, hidden, hasData, down, serverVars, faults>>

RefreshOnce ==
  /\ CountOp /\ sub.leased
  /\ Run(Resync(Turn(EnsuredSub), TRUE, "lifecycle"))
  /\ UNCHANGED <<domain, hidden, hasData, down, serverVars, faults>>

\* stop without reset: the unsubscribe is debounced.
Stop ==
  /\ CountOp /\ sub.leased
  /\ sub' = [sub EXCEPT !.leased = FALSE, !.unsubscribing = TRUE]
  /\ UNCHANGED <<domain, conn, outbox, hidden, sig, hasData, read, told, up, down, serverVars, faults>>

\* unsubscribe: the subscription is gone at once, and with the last one the
\* connection.
Unsubscribe ==
  /\ sub' = NoSub
  /\ IF KeepsSocket \/ conn = "none"
     THEN /\ IF conn = "open" THEN up' = Append(up, Cancel) /\ UNCHANGED outbox
             ELSE /\ outbox' = IF conn = "none" THEN outbox ELSE Append(outbox, Cancel)
                  /\ UNCHANGED up
          /\ UNCHANGED <<conn, down, srv, oldSub>>
     ELSE conn' = "none" /\ outbox' = <<>> /\ DropSocket

\* The debounce of a stop ends.
UnsubscribeTimer ==
  /\ sub.unsubscribing
  /\ Unsubscribe
  /\ UNCHANGED <<domain, hidden, sig, hasData, read, told, hub, otherSub, ver, faults, ops>>

\* stop with reset, or the cluster of the scope is pruned.
StopNow ==
  /\ CountOp /\ sub.phase # "none"
  /\ Unsubscribe
  /\ hasData' = FALSE /\ read' = "none" /\ sig' = NoToken
  /\ UNCHANGED <<domain, hidden, told, hub, otherSub, ver, faults>>

\* stopAll: every subscription and the connection, kubeconfig change or view reset.
StopAll ==
  /\ CountOp /\ conn # "none"
  /\ sub' = NoSub /\ conn' = "none" /\ outbox' = <<>>
  /\ DropSocket
  /\ UNCHANGED <<domain, hidden, sig, hasData, read, told, hub, otherSub, ver, faults>>

\* reconcileInitialStreamingSnapshot, or whoever else reads a scope without
\* data: the answer will be of the cluster as it is now, or of a later one.
StartRead ==
  /\ sub.leased /\ ~hasData /\ read = "none"
  /\ read' = "out" /\ told' = ver
  /\ UNCHANGED <<domain, sub, conn, outbox, hidden, sig, hasData, up, down, serverVars, faults, ops>>

\* The answer is stored while the scope is leased, as old as it may be.  When it
\* is older than the cluster, it is kept in place of what the RESET announced.
FinishRead ==
  /\ read \in {"out", "missed"} /\ sub.leased
  /\ hasData' = TRUE /\ told' \in told .. ver
  /\ read' = IF read = "missed" /\ told' < ver THEN "kept" ELSE "none"
  /\ UNCHANGED <<domain, sub, conn, outbox, hidden, sig, up, down, serverVars, faults, ops>>

\* The read fails, or is aborted with its lease.
FailRead ==
  /\ read \in {"out", "missed"}
  /\ read' = "none"
  /\ UNCHANGED <<domain, sub, conn, outbox, hidden, sig, hasData, told, up, down, serverVars, faults, ops>>

FlushTimer ==
  /\ sub.pending > 0
  /\ Apply(Advance(Turn([sub EXCEPT !.pending = 0, !.latest = NoToken]), sub.latest))
  /\ UNCHANGED <<domain, conn, outbox, hidden, hasData, up, down, serverVars, faults, ops>>

CooldownEnds ==
  /\ sub.cooling
  /\ sub' = [sub EXCEPT !.cooling = FALSE]
  /\ UNCHANGED <<domain, conn, outbox, hidden, sig, hasData, read, told, up, down, serverVars, faults, ops>>

\* The trailing resync is timed to the end of the cooldown.
TrailingFires ==
  /\ sub.trailing # "idle" /\ ~sub.cooling
  /\ Run(Resync(Turn([sub EXCEPT !.trailing = "idle"]), FALSE, sub.trailing))
  /\ UNCHANGED <<domain, hidden, hasData, down, serverVars, faults, ops>>

\* handleOpen: every subscription is sent again, then the outbox is flushed.
Open ==
  /\ conn = "opening"
  /\ LET t == IF sub.phase = "none" THEN Turn(sub) ELSE ConnectionOpened(Turn(sub))
     IN Apply(t) /\ up' = t.out \o outbox
  /\ conn' = "open" /\ outbox' = <<>> /\ down' = <<>>
  /\ UNCHANGED <<domain, hidden, hasData, serverVars, faults, ops>>

\* handleError: the connection is lost, or was never made, and is retried.
Lost ==
  /\ conn \in {"opening", "open"}
  /\ IF srv.dead THEN UNCHANGED faults ELSE CountFault
  /\ LET t == IF sub.phase = "none" THEN Turn(sub) ELSE ConnectionLost(Turn(sub))
     IN Apply(t) /\ outbox' = outbox \o t.out
  /\ conn' = "waiting"
  /\ DropSocket
  /\ UNCHANGED <<domain, hidden, hasData, hub, otherSub, ver, ops>>

Reconnect ==
  /\ conn = "waiting"
  /\ conn' = "opening"
  /\ UNCHANGED <<domain, sub, outbox, hidden, sig, hasData, read, told, up, down, serverVars, faults, ops>>

\* suspendForVisibility: the socket is closed without a connection-lost event.
Hide ==
  /\ CountOp /\ ~hidden
  /\ hidden' = TRUE
  /\ IF conn # "none" /\ (KeepsSocket \/ sub.phase # "none")
     THEN conn' = "paused" /\ DropSocket
     ELSE UNCHANGED <<conn, up, down, srv, oldSub>>
  /\ UNCHANGED <<domain, sub, outbox, sig, hasData, read, told, hub, otherSub, ver, faults>>

\* resumeFromVisibility: connect again, and resync every subscription.
Show ==
  /\ hidden
  /\ hidden' = FALSE
  /\ LET t == IF sub.phase = "none" THEN Turn(sub) ELSE Resync(Turn(sub), FALSE, "recovery")
     IN /\ Apply(t)
        /\ conn' = IF conn = "paused" \/ (conn = "none" /\ t.out # <<>>) THEN "opening" ELSE conn
        /\ IF conn = "open" THEN up' = up \o t.out /\ UNCHANGED outbox
           ELSE outbox' = outbox \o t.out /\ UNCHANGED up
  /\ UNCHANGED <<domain, hasData, down, serverVars, faults, ops>>

Receive ==
  /\ conn = "open" /\ down # <<>>
  /\ down' = Tail(down)
  /\ Run(HandleMessage(Turn(sub), Head(down)))
  /\ UNCHANGED <<domain, hidden, hasData, serverVars, faults, ops>>
-----------------------------------------------------------------------------
(* The backend.                                                            *)
Subscribed(s) == s \in {"live", "resyncing"}

\* dropSubscriber: the last subscriber takes the scope's sequence with it.
HubAfter(remaining) == IF remaining THEN hub ELSE EmptyHub

\* Mutation: the replay skips the first change after the token.
SinceNext(token) == SubSeq(hub.buf, token - Head(hub.buf).seq + 3, Len(hub.buf))

\* Buffer.Since: what the ring still holds after a token, if it holds enough.
\* The ring holds consecutive numbers.
Since(token) == SubSeq(hub.buf, token - Head(hub.buf).seq + 2, Len(hub.buf))
CanResume(token) == token # 0 /\ hub.buf # <<>> /\ token >= Head(hub.buf).seq

\* enqueue: a full outgoing queue disconnects the session.
Enqueue(s, frames) ==
  IF Len(down) + Len(frames) <= OutCap
  THEN down' = down \o frames /\ srv' = s /\ UNCHANGED <<hub, oldSub>>
  ELSE /\ down' = SubSeq(down \o frames, 1, OutCap)
       /\ srv' = [NoSession EXCEPT !.dead = TRUE]
       /\ hub' = HubAfter(oldSub \/ otherSub)
       /\ UNCHANGED oldSub

Serving(type) == conn = "open" /\ ~srv.dead /\ up # <<>> /\ Head(up).type = type

\* handleSubscribe accepted: ACK, then the replay or a RESET.
ServeRequest ==
  /\ Serving("REQUEST")
  /\ LET token == Head(up).seq
         tail == Since(token)
         fits == Len(tail) <= OutCap - (Len(down) + 1)
         resumed == CanResume(token) /\ fits
         entry == [srv EXCEPT !.sub = "live", !.chan = <<>>,
                     !.high = IF resumed /\ tail # <<>> THEN tail[Len(tail)].seq ELSE 0,
                     !.counter = IF resumed THEN @ ELSE @ + 1]
     IN Enqueue(entry, <<Ack>> \o IF resumed THEN tail ELSE <<Reset("RESET", srv.counter + 1)>>)
  /\ up' = Tail(up)
  /\ UNCHANGED <<domain, clientVars, otherSub, ver, faults, ops>>

\* The subscribe is refused, for now or for want of permission: what the
\* session already holds stays.
RefuseRequest ==
  /\ Serving("REQUEST") /\ CountFault
  /\ \E denied \in BOOLEAN : Enqueue(srv, <<Error(denied)>>)
  /\ up' = Tail(up)
  /\ UNCHANGED <<domain, clientVars, otherSub, ver, ops>>

ServeCancel ==
  /\ Serving("CANCEL")
  /\ up' = Tail(up)
  /\ srv' = [srv EXCEPT !.sub = "none", !.chan = <<>>, !.high = 0]
  /\ hub' = IF Subscribed(srv.sub) THEN HubAfter(oldSub \/ otherSub) ELSE hub
  /\ UNCHANGED <<domain, clientVars, down, oldSub, otherSub, ver, faults, ops>>

\* Ring: the change is numbered and buffered while anyone listens, and a
\* subscriber that has fallen behind gets a RESET in place of its oldest one.
Ring ==
  /\ ver < MaxVer /\ ver' = ver + 1
  /\ LET update == Changed(hub.seq + 1, ver + 1)
         ring == Append(hub.buf, update)
         heard == Subscribed(srv.sub) \/ oldSub \/ otherSub
     IN /\ hub' = IF ~heard THEN hub
                  ELSE [seq |-> hub.seq + 1,
                        buf |-> IF Len(ring) > BufferSize THEN Tail(ring) ELSE ring]
        /\ srv' = IF srv.sub # "live" THEN srv
                  ELSE IF Len(srv.chan) < ChanCap THEN [srv EXCEPT !.chan = Append(@, update)]
                  ELSE [srv EXCEPT !.chan = Append(Tail(@), Reset("RESET", 0)),
                                            !.sub = "resyncing"]
  /\ UNCHANGED <<domain, clientVars, up, down, oldSub, otherSub, faults, ops>>

\* forwardLiveSubscriptionUpdate: what the replay already covered is skipped.
Forward ==
  /\ srv.chan # <<>>
  /\ LET m == Head(srv.chan)
         rest == [srv EXCEPT !.chan = Tail(@)]
     IN IF m.type = "RESET" THEN
               Enqueue([rest EXCEPT !.counter = @ + 1], <<Reset("RESET", srv.counter + 1)>>)
        ELSE IF m.seq <= srv.high THEN srv' = rest /\ UNCHANGED <<down, hub, oldSub>>
        ELSE Enqueue(rest, <<m>>)
  /\ UNCHANGED <<domain, clientVars, up, otherSub, ver, faults, ops>>

\* forwardSubscription ends: COMPLETE, with or without what is still queued.
ForwardComplete ==
  /\ srv.sub = "ending"
  /\ Enqueue([srv EXCEPT !.sub = "none", !.chan = <<>>, !.high = 0, !.counter = @ + 1],
             <<Reset("COMPLETE", srv.counter + 1)>>)
  /\ UNCHANGED <<domain, clientVars, up, otherSub, ver, faults, ops>>

\* The cluster's manager is replaced: its hub starts again, and every
\* subscription of the old one is ended.
ReplaceManager ==
  /\ Replaceable /\ CountFault
  /\ hub' = EmptyHub /\ oldSub' = FALSE /\ otherSub' = FALSE
  /\ srv' = IF Subscribed(srv.sub) THEN [srv EXCEPT !.sub = "ending"] ELSE srv
  /\ UNCHANGED <<domain, clientVars, up, down, ver, ops>>

\* The backend ends the session: its handler stops or its write fails.
SessionShutdown ==
  /\ conn = "open" /\ ~srv.dead /\ CountFault
  /\ srv' = [NoSession EXCEPT !.dead = TRUE]
  /\ hub' = IF Subscribed(srv.sub) THEN HubAfter(oldSub \/ otherSub) ELSE hub
  /\ UNCHANGED <<domain, clientVars, up, down, oldSub, otherSub, ver, ops>>

\* The read loop of an earlier session notices that its peer is gone.
OldSessionCloses ==
  /\ oldSub /\ oldSub' = FALSE
  /\ hub' = HubAfter(Subscribed(srv.sub) \/ otherSub)
  /\ UNCHANGED <<domain, clientVars, up, down, srv, otherSub, ver, faults, ops>>

\* Another window subscribes to the scope, or leaves it.
OtherWindowToggles ==
  /\ OtherWindow /\ CountOp
  /\ otherSub' = ~otherSub
  /\ hub' = HubAfter(otherSub' \/ Subscribed(srv.sub) \/ oldSub)
  /\ UNCHANGED <<domain, clientVars, up, down, srv, oldSub, ver, faults>>
-----------------------------------------------------------------------------
Client ==
  \/ Start \/ RefreshOnce \/ Stop \/ UnsubscribeTimer \/ StopNow \/ StopAll
  \/ StartRead \/ FinishRead \/ FailRead \/ FlushTimer \/ CooldownEnds \/ TrailingFires
  \/ Open \/ Lost \/ Reconnect \/ Hide \/ Show \/ Receive

Server ==
  \/ ServeRequest \/ RefuseRequest \/ ServeCancel \/ Ring \/ Forward \/ ForwardComplete
  \/ ReplaceManager \/ SessionShutdown \/ OldSessionCloses \/ OtherWindowToggles

Next == Client \/ Server
Spec == Init /\ [][Next]_vars

\* The steps that only need time: a timer, the event loop, the session's
\* goroutines.  No call of the user, change of the cluster or fault has to
\* happen.
ClientTurn ==
  \/ FlushTimer \/ CooldownEnds \/ TrailingFires \/ UnsubscribeTimer
  \/ Open \/ Reconnect \/ Receive \/ (srv.dead /\ Lost)
ServerTurn == ServeRequest \/ ServeCancel \/ Forward \/ ForwardComplete
FairSpec == Spec /\ WF_vars(ClientTurn) /\ WF_vars(ServerTurn)
-----------------------------------------------------------------------------
Subscription ==
  [phase : {"none", "connecting", "awaiting-ack", "synchronized", "permission-blocked"},
   expectsReset : BOOLEAN, preserved : BOOLEAN, seq : Nat, at : Nat, pending : 0 .. MaxPending,
   latest : Token, cooling : BOOLEAN, trailing : {"idle", "lifecycle", "recovery"},
   leased : BOOLEAN, unsubscribing : BOOLEAN]
Session == [sub : {"none", "live", "resyncing", "ending"}, chan : Seq(Frame), high : Nat,
            counter : Nat, dead : BOOLEAN]
Hub == [seq : Nat, buf : Seq(Frame)]
ReadStates == IF hasData THEN {"none", "kept"} ELSE {"none", "out", "missed"}

\* Types of the whole system, and the capacities the code gives its queues.
TypeOK ==
  /\ domain \in Domains
  /\ sub \in Subscription /\ sub.at <= ver
  /\ conn \in {"none", "opening", "open", "waiting", "paused"}
  /\ outbox \in Seq(Frame) /\ up \in Seq(Frame) /\ down \in Seq(Frame) /\ Len(down) <= OutCap
  /\ hidden \in BOOLEAN /\ hasData \in BOOLEAN /\ sig \in Token /\ told \in 0 .. ver
  /\ read \in ReadStates
  /\ srv \in Session /\ Len(srv.chan) <= ChanCap
  /\ hub \in Hub /\ Len(hub.buf) <= BufferSize
  /\ oldSub \in BOOLEAN /\ otherSub \in BOOLEAN /\ ver \in 0 .. MaxVer

\* The health the protocol computes, and the one published for the scope.
ProtocolHealthy == conn = "open" /\ Confirmed(sub)
Healthy == sub.leased /\ ProtocolHealthy

Sent(q, types) == \E i \in 1 .. Len(q) : q[i].type \in types

\* Something already under way will subscribe the scope again.
Rearming ==
  \/ sub.trailing # "idle"
  \/ Sent(up \o outbox, {"REQUEST"})
  \/ Sent(down, {"RESET", "COMPLETE", "ERROR", "FORBIDDEN"})
  \/ Sent(srv.chan, {"RESET"}) \/ srv.sub = "ending"
  \/ srv.dead

\* A scope reported healthy, whose polling fallback is therefore off, has a
\* subscription in the backend that will deliver the next change, or one is
\* on its way: losses, refusals, replaced managers and full queues included.
ConfirmedMeansSubscribed == Healthy => srv.sub = "live" \/ Rearming

\* Nothing is under way: the client is synchronized with a live subscription
\* whose frames have all been taken in and flushed.
Quiet ==
  /\ Healthy /\ sub.phase = "synchronized" /\ sub.pending = 0 /\ sub.trailing = "idle"
  /\ srv.sub = "live" /\ srv.chan = <<>> /\ ~srv.dead
  /\ up = <<>> /\ down = <<>> /\ outbox = <<>>

\* The client's sequence counts the changes of the hub as it is, and not of one
\* that was dropped with its last subscriber or its manager since.
Continuous == sub.seq # 0 => ver + sub.seq = hub.seq + sub.at

\* A quiet subscription has signalled, or read, the newest change of the
\* cluster: no loss of the connection, refusal or overflow leaves retained
\* data stale behind a healthy stream.  Two ways are left: the client holds on to
\* the sequence of a hub that was dropped; or its first read was out when the
\* initial RESET came, which says nothing to a client without data, and brought
\* an older payload that no signal has replaced.
QuietMeansCurrent == Quiet /\ hasData /\ Continuous /\ read # "kept" => told = ver

\* The live subscription, or a frame under way, covers every change: whoever
\* keeps a scope leased and visible catches up with the cluster, through lost
\* connections, refusals and overflows, unless the backend took a number of a
\* dropped hub for its own and resumed the client without a replay, or the RESET
\* that spoke of the change came while the first read was out.
EveryChangeIsSignalled ==
  (hasData /\ sub.leased /\ told < ver)
    ~> (told = ver \/ ~sub.leased \/ hidden \/ Blocked(sub)
        \/ (Quiet /\ (~Continuous \/ read = "kept")))
=============================================================================
