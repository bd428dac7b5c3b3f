------------------------------ MODULE FetchSlot ------------------------------
(* What the refresh runtime promises of the reads of one scope             *)
(* (frontend/src/core/refresh/refreshRuntime.ts, transitionScopedFetchState)*)
(* with everything that decides when to read left out: one request owns the*)
(* slot, only its answer is shown, only its end frees the slot, and a       *)
(* signal latched behind it ends in a fresh read or is remembered           *)
(* elsewhere.  RefreshRuntime implements this specification.                *)
EXTENDS Naturals

CONSTANT Ids  \* identities of requests

VARIABLES
  slot,    \* the owner of the slot, as a set: {} or one identity
  late,    \* a signal is latched behind the owner
  wire,    \* requests on the wire: identity, version they left at, may commit
  shown,   \* version shown, 0 for none
  ver,     \* version of the cluster's data
  resting  \* nothing but the stream makes the scope read again

vars == <<slot, late, wire, shown, ver, resting>>

Init ==
  /\ slot = {} /\ late = FALSE /\ wire = {} /\ shown = 0
  /\ ver = 1 /\ resting = FALSE

Owned(r) == r.id \in slot
Killed(dead) == {[r EXCEPT !.live = r.live /\ r \notin dead] : r \in wire}
Fresh(id) == [id |-> id, from |-> ver, live |-> TRUE]
-----------------------------------------------------------------------------
(* Each action leaves resting to the rest of the system.                   *)
\* A read begins; the request it takes the slot from can no longer commit.
Begin(id) ==
  /\ \A r \in wire : r.id # id
  /\ slot' = {id} /\ late' = FALSE
  /\ wire' = Killed({r \in wire : Owned(r)}) \cup {Fresh(id)}
  /\ UNCHANGED <<shown, ver>>

LatchSignal ==
  /\ slot # {} /\ late' = TRUE
  /\ UNCHANGED <<slot, wire, shown, ver>>

\* Requests die and the payload may be dropped; the slot is given up only by
\* killing its owner.
Lose ==
  /\ \E dead \in SUBSET wire :
       /\ wire' = Killed(dead)
       /\ \/ UNCHANGED <<slot, late>>
          \/ /\ {r \in wire : Owned(r)} \subseteq dead
             /\ slot' = {} /\ late' = FALSE
             /\ late => ~resting'
  /\ shown' \in {shown, 0}
  /\ UNCHANGED ver

\* What a request that may commit shows: the data of a moment since it left.
ShowsAnswer(r) ==
  \/ shown' = shown
  \/ r.live /\ shown' \in r.from..ver

\* A request that lost the slot ends and changes nothing.
EndOther(r) ==
  /\ ~Owned(r) /\ wire' = wire \ {r}
  /\ UNCHANGED <<slot, late, shown, ver>>

\* The owner ends: a latched signal is remembered elsewhere, or read for.
EndOwner(r) ==
  /\ Owned(r) /\ wire' = wire \ {r} /\ slot' = {} /\ late' = FALSE
  /\ late => ~resting'
  /\ ShowsAnswer(r) /\ UNCHANGED ver

ReadAgain(r, id) ==
  /\ Owned(r) /\ late
  /\ \A q \in wire \ {r} : q.id # id
  /\ slot' = {id} /\ late' = FALSE /\ wire' = (wire \ {r}) \cup {Fresh(id)}
  /\ ShowsAnswer(r) /\ UNCHANGED ver

Change == ver' = ver + 1 /\ UNCHANGED <<slot, late, wire, shown>>

Elsewhere == UNCHANGED <<slot, late, wire, shown, ver>>

Next ==
  /\ \/ \E id \in Ids : Begin(id)
     \/ LatchSignal \/ Lose
     \/ \E r \in wire : EndOther(r) \/ EndOwner(r) \/ \E id \in Ids : ReadAgain(r, id)
     \/ Change \/ Elsewhere
  /\ resting' \in BOOLEAN

Spec == Init /\ [][Next]_vars
-----------------------------------------------------------------------------
(* What follows from the promise.                                          *)
\* Only the owner of the slot may still commit, and what it brings is at least
\* as new as what is shown.
OnlyOwnerCommits ==
  \A r \in wire : r.live => Owned(r) /\ r.from >= shown

\* A payload is replaced by a newer one or dropped, whatever requests are on
\* the wire and in whatever order they end.
NeverOlder == [][shown' >= shown \/ shown' = 0]_vars
=============================================================================
