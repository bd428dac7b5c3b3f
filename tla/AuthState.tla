----------------------------- MODULE AuthState -----------------------------
(***************************************************************************)
(* The per-cluster authentication state manager and the HTTP transport     *)
(* that reports to it (backend/internal/authstate).                        *)
(*                                                                         *)
(* Every transition of Manager happens under m.mu, so one action is one    *)
(* critical section.  The recovery goroutine ("loop") runs between those   *)
(* sections: its program counter, its private attempt counter and the      *)
(* state of its context are in `loops'.  A loop whose context has been     *)
(* cancelled keeps running until it next looks at the context, so several  *)
(* loops can be alive at once although only one of them owns the recovery. *)
(***************************************************************************)
EXTENDS Naturals, Sequences, FiniteSets

CONSTANTS
  Loops,            \* identities of recovery goroutines (bounds how many overlap)
  Requests,         \* identities of HTTP requests in flight (bounds concurrency)
  MaxAttempts,      \* Config.MaxAttempts; 0 disables automatic recovery
  BackoffSchedule,  \* Config.BackoffSchedule in whole seconds
  ConnectivityRetryInterval,  \* seconds; 0 means "use the backoff tail"
  SteadyRetryInterval,        \* seconds, after the verdict settled
  MaxRetries,       \* bound: how often the user presses Retry
  MaxWorldChanges,  \* bound: how often the cluster changes how it answers
  NoLoop            \* recoveryCancel = nil

ASSUME AuthConstants ==
  /\ MaxAttempts \in Nat
  /\ BackoffSchedule \in Seq(Nat)
  /\ ConnectivityRetryInterval \in Nat
  /\ SteadyRetryInterval \in Nat \ {0}
  /\ MaxRetries \in Nat
  /\ MaxWorldChanges \in Nat
  /\ NoLoop \notin Loops

VARIABLES
  state,             \* Manager.state
  reason,            \* Manager.failureDiagnostic, by what produced it
  secondsUntilRetry, \* Manager.secondsUntilRetry
  lastProbeClass,    \* Manager.lastProbeClass
  stopped,           \* Manager.stopped
  recoveryCancel,    \* Manager.recoveryCancel: the loop it cancels, or NoLoop
  loops,             \* the recovery goroutines
  shutdown,          \* progress of Manager.Shutdown
  requests,          \* requests inside AuthAwareTransport.RoundTrip
  world,             \* environment: how the cluster answers a fresh probe
  retries,           \* number of TriggerRetry calls so far
  worldChanges       \* number of changes of world so far

managerVars == <<state, reason, secondsUntilRetry, lastProbeClass, stopped,
                 recoveryCancel>>
envVars     == <<world, worldChanges>>
vars == <<state, reason, secondsUntilRetry, lastProbeClass, stopped,
          recoveryCancel, loops, shutdown, requests, world, retries, worldChanges>>

States  == {"valid", "invalid", "recovering"}
Classes == {"unknown", "auth", "connectivity"}
\* The diagnostic of the current failure: none, as reported, or settled.
Reasons == {"none", "reported", "rejected"}
\* What a fresh client meets: success, a credential rejection, no connection.
Worlds  == {"ok", "auth", "connectivity"}

\* Where a recovery goroutine stands:
\*   idle     the identity is unused (no goroutine, or it has returned)
\*   enter    about to look at the context on entry of waitForRecoveryDelay
\*   emit     about to publish the remaining seconds of the countdown
\*   sleep    in the select between ctx.Done and the one-second timer
\*   probe    about to publish zero seconds at the start of a probe
\*   gate     about to look at the context before the recovery test
\*   test     inside the recovery test, without the lock
\*   settle   about to settle the verdict after the last allowed rejection
LoopPCs == {"idle", "enter", "emit", "sleep", "probe", "gate", "test", "settle"}

Loop == [pc : LoopPCs, cancelled : BOOLEAN, authFailures : Nat, remaining : Nat]

IdleLoop == [pc |-> "idle", cancelled |-> FALSE, authFailures |-> 0, remaining |-> 0]

Running(l) == loops[l].pc # "idle"
Live(l)    == Running(l) /\ ~loops[l].cancelled

-----------------------------------------------------------------------------
(* Delays between probes.                                                  *)

\* The last entry of the schedule is used for every attempt beyond its end.
getBackoffDelay(attempt) ==
  IF BackoffSchedule = <<>> THEN 0
  ELSE BackoffSchedule[IF attempt < Len(BackoffSchedule) THEN attempt + 1
                       ELSE Len(BackoffSchedule)]

connectivityRetryDelay ==
  IF ConnectivityRetryInterval > 0 THEN ConnectivityRetryInterval
  ELSE IF BackoffSchedule = <<>> THEN 0
  ELSE BackoffSchedule[Len(BackoffSchedule)]

steadyRetryDelay == SteadyRetryInterval

-----------------------------------------------------------------------------
(* Building blocks: each is part of a critical section.                    *)

setState(newState, newReason) == state' = newState /\ reason' = newReason

\* recoveryCancel() if there is one; the loops of `ls` with it cancelled.
CancelIn(ls) ==
  IF recoveryCancel = NoLoop THEN ls
  ELSE [ls EXCEPT ![recoveryCancel].cancelled = TRUE]

\* A recovery goroutine that has just been started: no attempt used, the delay
\* before its first probe.
FreshLoop == [pc |-> "enter", cancelled |-> FALSE, authFailures |-> 0,
              remaining |-> getBackoffDelay(0)]

\* Mutation: the superseded loop is not cancelled.
StartWithoutCancel ==
  IF stopped
  THEN UNCHANGED <<loops, recoveryCancel>>
  ELSE \E l \in Loops :
         /\ ~Running(l)
         /\ loops' = [loops EXCEPT ![l] = FreshLoop]
         /\ recoveryCancel' = l

\* Mutation: recovery may start after Shutdown.
StartAfterStop ==
  \E l \in Loops :
    /\ ~Running(l)
    /\ loops' = [CancelIn(loops) EXCEPT ![l] = FreshLoop]
    /\ recoveryCancel' = l

\* startRecoveryLocked: cancel the current loop and start a fresh one.
startRecoveryLocked ==
  IF stopped
  THEN UNCHANGED <<loops, recoveryCancel>>
  ELSE \E l \in Loops :
         /\ ~Running(l)
         /\ loops' = [CancelIn(loops) EXCEPT ![l] = FreshLoop]
         /\ recoveryCancel' = l

\* ReportFailureDiagnostic once the state is known to be valid.
FailFromValid ==
  /\ lastProbeClass' = "unknown"
  /\ IF MaxAttempts > 0
     THEN setState("recovering", "reported") /\ startRecoveryLocked
     ELSE setState("invalid", "reported") /\ UNCHANGED <<loops, recoveryCancel>>
  /\ UNCHANGED <<secondsUntilRetry, stopped>>

-----------------------------------------------------------------------------
(* Manager operations.                                                     *)

\* A caller other than the transport (the heartbeat, client construction)
\* reports a failure; ignored unless the state is valid.
ReportFailureDiagnostic ==
  /\ state = "valid"
  /\ FailFromValid
  /\ UNCHANGED <<shutdown, requests, retries, envVars>>

\* Mutation: success leaves the recovery loop running.
SuccessKeepsLoop ==
  /\ setState("valid", "none")
  /\ UNCHANGED <<secondsUntilRetry, lastProbeClass, stopped, loops, recoveryCancel>>

\* ReportSuccess: cancel the recovery, clear the failure.
ReportSuccess ==
  /\ loops' = CancelIn(loops)
  /\ recoveryCancel' = NoLoop
  /\ setState("valid", "none")
  /\ UNCHANGED <<secondsUntilRetry, lastProbeClass, stopped>>

TriggerRetry ==
  /\ retries < MaxRetries
  /\ retries' = retries + 1
  /\ state # "valid" /\ MaxAttempts > 0
  /\ secondsUntilRetry' = 0
  /\ startRecoveryLocked
  /\ UNCHANGED <<state, reason, lastProbeClass, stopped, shutdown, requests, envVars>>

\* Mutation: Shutdown only sets the flag.
ShutdownWithoutCancel ==
  /\ shutdown = "running"
  /\ shutdown' = "waiting"
  /\ stopped' = TRUE
  /\ UNCHANGED <<state, reason, secondsUntilRetry, lastProbeClass, recoveryCancel,
                 loops, requests, retries, envVars>>

\* Shutdown: the critical section, then wg.Wait.
ShutdownBegin ==
  /\ shutdown = "running"
  /\ shutdown' = "waiting"
  /\ stopped' = TRUE
  /\ loops' = CancelIn(loops)
  /\ recoveryCancel' = NoLoop
  /\ UNCHANGED <<state, reason, secondsUntilRetry, lastProbeClass, requests,
                 retries, envVars>>

ShutdownEnd ==
  /\ shutdown = "waiting"
  /\ \A l \in Loops : ~Running(l)
  /\ shutdown' = "done"
  /\ UNCHANGED <<managerVars, loops, requests, retries, envVars>>

-----------------------------------------------------------------------------
(* The recovery goroutine (runRecovery and what it calls).                 *)

LoopStep(l, from) == loops[l].pc = from

Goto(l, pc) == loops' = [loops EXCEPT ![l].pc = pc]
Exit(l)     == loops' = [loops EXCEPT ![l] = IdleLoop]

LoopFrame == UNCHANGED <<shutdown, requests, retries, envVars>>

\* waitForRecoveryDelay on entry: `if ctx.Err() != nil { return false }'.
WaitEnter(l) ==
  /\ LoopStep(l, "enter")
  /\ IF loops[l].cancelled THEN Exit(l)
     ELSE Goto(l, IF loops[l].remaining > 0 THEN "emit" ELSE "probe")
  /\ UNCHANGED managerVars /\ LoopFrame

\* emitProgress(remaining): no look at the context.
EmitCountdown(l) ==
  /\ LoopStep(l, "emit")
  /\ secondsUntilRetry' = loops[l].remaining
  /\ Goto(l, "sleep")
  /\ UNCHANGED <<state, reason, lastProbeClass, stopped, recoveryCancel>> /\ LoopFrame

\* The timer branch of the select.  Go chooses among ready branches at
\* random, so a cancelled loop may still take it.
SleepElapsed(l) ==
  /\ LoopStep(l, "sleep")
  /\ LET left == loops[l].remaining - 1 IN
       loops' = [loops EXCEPT ![l].remaining = left,
                              ![l].pc = IF left > 0 THEN "emit" ELSE "probe"]
  /\ UNCHANGED managerVars /\ LoopFrame

SleepCancelled(l) ==
  /\ LoopStep(l, "sleep")
  /\ loops[l].cancelled
  /\ Exit(l)
  /\ UNCHANGED managerVars /\ LoopFrame

\* runRecoveryProbe: emitProgress(0).
EmitProbeStart(l) ==
  /\ LoopStep(l, "probe")
  /\ secondsUntilRetry' = 0
  /\ Goto(l, "gate")
  /\ UNCHANGED <<state, reason, lastProbeClass, stopped, recoveryCancel>> /\ LoopFrame

\* runRecoveryProbe: the context check before the test.
ProbeGate(l) ==
  /\ LoopStep(l, "gate")
  /\ IF loops[l].cancelled THEN Exit(l) ELSE Goto(l, "test")
  /\ UNCHANGED managerVars /\ LoopFrame

\* Mutation: the context is not looked at after the test.
ProbeSucceedsAnyway(l) ==
  /\ LoopStep(l, "test")
  /\ world = "ok"
  /\ IF state # "valid" THEN setState("valid", "none") ELSE UNCHANGED <<state, reason>>
  /\ Exit(l)
  /\ UNCHANGED <<secondsUntilRetry, lastProbeClass, stopped, recoveryCancel>> /\ LoopFrame

\* The test succeeded: only a loop that is not cancelled may clear the failure.
ProbeSucceeds(l) ==
  /\ LoopStep(l, "test")
  /\ world = "ok"
  /\ IF ~loops[l].cancelled /\ state # "valid"
     THEN setState("valid", "none")
     ELSE UNCHANGED <<state, reason>>
  /\ Exit(l)
  /\ UNCHANGED <<secondsUntilRetry, lastProbeClass, stopped, recoveryCancel>> /\ LoopFrame

\* Mutation: an unreachable cluster ends the recovery.
ProbeFailsGivesUp(l) ==
  /\ LoopStep(l, "test")
  /\ world # "ok"
  /\ lastProbeClass' = world
  /\ IF world = "connectivity" THEN Exit(l)
     ELSE loops' = [loops EXCEPT ![l].pc = "settle", ![l].authFailures = MaxAttempts]
  /\ UNCHANGED <<state, reason, secondsUntilRetry, stopped, recoveryCancel>> /\ LoopFrame

\* Mutation: a connectivity failure consumes an attempt.
ProbeFailsCountsAll(l) ==
  /\ LoopStep(l, "test")
  /\ world # "ok"
  /\ lastProbeClass' = world
  /\ LET n == loops[l].authFailures + 1 IN
     loops' = IF n >= MaxAttempts
              THEN [loops EXCEPT ![l].pc = "settle", ![l].authFailures = MaxAttempts]
              ELSE [loops EXCEPT ![l].pc = "enter", ![l].authFailures = n,
                                 ![l].remaining = getBackoffDelay(n)]
  /\ UNCHANGED <<state, reason, secondsUntilRetry, stopped, recoveryCancel>> /\ LoopFrame

\* The test failed: recordRecoveryProbeClass (no look at the context), then
\* the choice of the next delay.
ProbeFails(l) ==
  /\ LoopStep(l, "test")
  /\ world # "ok"
  /\ lastProbeClass' = world
  /\ LET n == loops[l].authFailures + 1 IN
     loops' = [loops EXCEPT ![l] =
       IF world = "connectivity"
       THEN [@ EXCEPT !.pc = "enter", !.remaining = connectivityRetryDelay]
       ELSE IF n >= MaxAttempts
       THEN [@ EXCEPT !.pc = "settle", !.authFailures = MaxAttempts]
       ELSE [@ EXCEPT !.pc = "enter", !.authFailures = n,
                      !.remaining = getBackoffDelay(n)]]
  /\ UNCHANGED <<state, reason, secondsUntilRetry, stopped, recoveryCancel>> /\ LoopFrame

\* Mutation: settling the verdict ends the loop.
SettleStops(l) ==
  /\ LoopStep(l, "settle")
  /\ IF ~loops[l].cancelled /\ state = "recovering"
     THEN setState("invalid", "rejected")
     ELSE UNCHANGED <<state, reason>>
  /\ Exit(l)
  /\ UNCHANGED <<secondsUntilRetry, lastProbeClass, stopped, recoveryCancel>> /\ LoopFrame

\* settleInvalidCredentials, and the steady delay that follows it.
Settle(l) ==
  /\ LoopStep(l, "settle")
  /\ IF ~loops[l].cancelled /\ state = "recovering"
     THEN setState("invalid", "rejected")
     ELSE UNCHANGED <<state, reason>>
  /\ loops' = [loops EXCEPT ![l].pc = "enter", ![l].remaining = steadyRetryDelay]
  /\ UNCHANGED <<secondsUntilRetry, lastProbeClass, stopped, recoveryCancel>> /\ LoopFrame

RecoveryStep(l) ==
  \/ WaitEnter(l)      \/ EmitCountdown(l)  \/ SleepElapsed(l)
  \/ SleepCancelled(l) \/ EmitProbeStart(l) \/ ProbeGate(l)
  \/ ProbeSucceeds(l)  \/ ProbeFails(l)     \/ Settle(l)

-----------------------------------------------------------------------------
(* AuthAwareTransport.RoundTrip: the check, the request, the report.       *)

RequestPCs == {"idle", "inflight"}

RoundTripAdmit(r) ==
  /\ requests[r] = "idle"
  /\ state = "valid"
  /\ requests' = [requests EXCEPT ![r] = "inflight"]
  /\ UNCHANGED <<managerVars, loops, shutdown, retries, envVars>>

\* 401, or a credential error from the base transport.
RoundTripRejected(r) ==
  /\ requests[r] = "inflight"
  /\ requests' = [requests EXCEPT ![r] = "idle"]
  /\ IF state = "valid" THEN FailFromValid ELSE UNCHANGED <<managerVars, loops>>
  /\ UNCHANGED <<shutdown, retries, envVars>>

\* 2xx or 3xx: ReportSuccess, whatever the state is by now.
RoundTripSucceeds(r) ==
  /\ requests[r] = "inflight"
  /\ requests' = [requests EXCEPT ![r] = "idle"]
  /\ ReportSuccess
  /\ UNCHANGED <<shutdown, retries, envVars>>

\* Any other answer, or a network error: reported to nobody.
RoundTripOther(r) ==
  /\ requests[r] = "inflight"
  /\ requests' = [requests EXCEPT ![r] = "idle"]
  /\ UNCHANGED <<managerVars, loops, shutdown, retries, envVars>>

-----------------------------------------------------------------------------
\* Environment: credentials are fixed or expire, the cluster goes and comes.
WorldChanges ==
  /\ worldChanges < MaxWorldChanges
  /\ worldChanges' = worldChanges + 1
  /\ \E w \in Worlds \ {world} : world' = w
  /\ UNCHANGED <<managerVars, loops, shutdown, requests, retries>>

Init ==
  /\ state = "valid" /\ reason = "none"
  /\ secondsUntilRetry = 0
  /\ lastProbeClass = "unknown"
  /\ stopped = FALSE
  /\ recoveryCancel = NoLoop
  /\ loops = [l \in Loops |-> IdleLoop]
  /\ shutdown = "running"
  /\ requests = [r \in Requests |-> "idle"]
  /\ world \in Worlds
  /\ retries = 0 /\ worldChanges = 0

Next ==
  \/ ReportFailureDiagnostic
  \/ TriggerRetry
  \/ ShutdownBegin \/ ShutdownEnd
  \/ \E l \in Loops : RecoveryStep(l)
  \/ \E r \in Requests :
       RoundTripAdmit(r) \/ RoundTripRejected(r) \/ RoundTripSucceeds(r) \/ RoundTripOther(r)
  \/ WorldChanges

Spec == Init /\ [][Next]_vars

\* Goroutines are scheduled and a probe is bounded by its request timeout, so
\* a loop that can step does; wg.Wait returns once the last loop is gone.
\* Nothing is assumed of requests, users, reporters or the cluster.
Fairness == (\A l \in Loops : WF_vars(RecoveryStep(l))) /\ WF_vars(ShutdownEnd)

FairSpec == Spec /\ Fairness

-----------------------------------------------------------------------------
(* Safety.                                                                 *)

TypeOK ==
  /\ state \in States /\ reason \in Reasons
  /\ secondsUntilRetry \in Nat
  /\ lastProbeClass \in Classes
  /\ stopped \in BOOLEAN
  /\ recoveryCancel \in Loops \cup {NoLoop}
  /\ loops \in [Loops -> Loop]
  /\ shutdown \in {"running", "waiting", "done"}
  /\ requests \in [Requests -> RequestPCs]
  /\ world \in Worlds
  /\ retries \in Nat /\ worldChanges \in Nat

\* A cluster that is not valid is always being recovered: unless recovery is
\* disabled or the manager is shut down, the loop that recoveryCancel cancels
\* runs and is not cancelled ("it never gives up", runRecovery), whatever
\* order failures, late successes, retries and probe results come in.
RecoveryOwned ==
  state # "valid" /\ ~stopped /\ MaxAttempts > 0 =>
    recoveryCancel \in Loops /\ Live(recoveryCancel)

\* At most one loop can still change the verdict, and recoveryCancel cancels
\* it: a superseded loop has been cancelled by startRecoveryLocked.
OneRecovery == \A l \in Loops : Live(l) => l = recoveryCancel

\* No loop can change the verdict of a valid or stopped manager.
NoStrayRecovery == state = "valid" \/ stopped => \A l \in Loops : ~Live(l)

\* After Shutdown has returned no recovery goroutine runs, and none starts.
ShutdownQuiescent == shutdown = "done" => \A l \in Loops : ~Running(l)

\* What makes the invariants above inductive: Shutdown and the flag that keeps
\* recovery from restarting go together, and a loop counts down from a
\* positive number of seconds.
StoppedByShutdown == (shutdown = "running") = (~stopped)
CountdownPositive ==
  \A l \in Loops : loops[l].pc \in {"emit", "sleep"} => loops[l].remaining > 0

\* A loop about to settle the verdict has seen the last allowed rejection.
SettleCounted ==
  \A l \in Loops : loops[l].pc = "settle" => loops[l].authFailures = MaxAttempts

\* The inductive invariant.
RecoveryInv ==
  /\ TypeOK
  /\ RecoveryOwned /\ OneRecovery /\ NoStrayRecovery /\ ShutdownQuiescent
  /\ StoppedByShutdown /\ CountdownPositive

\* A loop that has been superseded, or whose failure is over, never changes
\* the verdict, although its probe may still be running (the context check
\* under m.mu in runRecoveryProbe and settleInvalidCredentials).
StaleLoopsInert ==
  [][\A l \in Loops :
       Running(l) /\ loops[l].cancelled /\ loops'[l] # loops[l]
         => state' = state /\ reason' = reason]_vars

\* Only MaxAttempts credential rejections seen by the loop that owns the
\* recovery settle the verdict: an unreachable cluster never uses an attempt
\* (runRecovery), and a superseded loop's count never settles anything.
SettledByRejections ==
  [][/\ state = "recovering" /\ state' = "invalid" =>
          \E l \in Loops : Live(l) /\ loops[l].authFailures = MaxAttempts
     /\ \A l \in Loops : loops'[l].authFailures > loops[l].authFailures
          => world = "auth"]_vars

-----------------------------------------------------------------------------
(* Liveness, under Fairness.                                               *)

\* Once the cluster stays reachable with good credentials, every failure is
\* recovered from, without a user or a restart.
Recovers == <>[](world = "ok") => (state # "valid" ~> state = "valid" \/ stopped)

\* Shutdown returns: every recovery goroutine notices its cancellation.
ShutdownTerminates == shutdown = "waiting" ~> shutdown = "done"
=============================================================================
