-------------------------- MODULE AuthStateProofs --------------------------
(***************************************************************************)
(* Proofs about AuthState, for every set of loops and requests, every      *)
(* schedule of delays and every MaxAttempts.                               *)
(***************************************************************************)
EXTENDS AuthState, TLAPS

\* Every delay is a number of whole seconds.
LEMMA DelayTypes ==
  /\ \A n \in Nat : getBackoffDelay(n) \in Nat
  /\ connectivityRetryDelay \in Nat
  /\ steadyRetryDelay \in Nat
<1>1. ASSUME BackoffSchedule # <<>>
      PROVE  \A i \in 1..Len(BackoffSchedule) : BackoffSchedule[i] \in Nat
  BY <1>1, AuthConstants DEF AuthConstants
<1>2. BackoffSchedule # <<>> => Len(BackoffSchedule) \in Nat /\ Len(BackoffSchedule) > 0
  BY AuthConstants DEF AuthConstants
<1> QED
  BY <1>1, <1>2, AuthConstants
  DEF AuthConstants, getBackoffDelay, connectivityRetryDelay, steadyRetryDelay

\* FreshLoop and IdleLoop are loops.
LEMMA LoopTypes == FreshLoop \in Loop /\ IdleLoop \in Loop
BY DelayTypes DEF FreshLoop, IdleLoop, Loop, LoopPCs

\* What cancelling the current recovery does to the goroutines.
LEMMA CancelInFacts ==
  ASSUME TypeOK
  PROVE  /\ CancelIn(loops) \in [Loops -> Loop]
         /\ \A l \in Loops : /\ CancelIn(loops)[l].pc = loops[l].pc
                             /\ CancelIn(loops)[l].remaining = loops[l].remaining
                             /\ l = recoveryCancel => CancelIn(loops)[l].cancelled
                             /\ l # recoveryCancel => CancelIn(loops)[l] = loops[l]
BY AuthConstants DEF AuthConstants, TypeOK, CancelIn, Loop, LoopPCs

\* Starting a recovery: unless the manager is stopped, the new loop is the one
\* live loop and recoveryCancel cancels it.
LEMMA StartRecoveryFacts ==
  ASSUME RecoveryInv, startRecoveryLocked
  PROVE  /\ loops' \in [Loops -> Loop]
         /\ recoveryCancel' \in Loops \cup {NoLoop}
         /\ stopped => loops' = loops /\ recoveryCancel' = recoveryCancel
         /\ ~stopped => recoveryCancel' \in Loops /\ Live(recoveryCancel)'
         /\ OneRecovery'
         /\ CountdownPositive'
<1>1. CASE stopped
  BY <1>1 DEF RecoveryInv, TypeOK, OneRecovery, CountdownPositive, startRecoveryLocked, Live, Running
<1>2. CASE ~stopped
  <2>1. PICK l \in Loops : /\ ~Running(l)
                           /\ loops' = [CancelIn(loops) EXCEPT ![l] = FreshLoop]
                           /\ recoveryCancel' = l
    BY <1>2 DEF startRecoveryLocked
  <2>2. CancelIn(loops) \in [Loops -> Loop]
    BY CancelInFacts DEF RecoveryInv
  <2>3. loops' \in [Loops -> Loop] /\ loops'[l] = FreshLoop
    BY <2>1, <2>2, LoopTypes
  <2>4. \A k \in Loops \ {l} : loops'[k] = CancelIn(loops)[k]
    BY <2>1, <2>2
  <2>5. Live(l)'
    BY <2>3 DEF Live, Running, FreshLoop
  <2>6. \A k \in Loops \ {l} : ~Live(k)'
    <3> SUFFICES ASSUME NEW k \in Loops \ {l}, Live(k)'
                 PROVE  FALSE
      OBVIOUS
    <3>1. CancelIn(loops)[k].pc # "idle" /\ ~CancelIn(loops)[k].cancelled
      BY <2>4 DEF Live, Running
    <3>2. k # recoveryCancel /\ Live(k)
      BY <3>1, CancelInFacts DEF RecoveryInv, Live, Running
    <3> QED
      BY <3>2 DEF RecoveryInv, OneRecovery
  <2>7. CountdownPositive'
    BY <2>3, <2>4, CancelInFacts DEF RecoveryInv, CountdownPositive, FreshLoop
  <2> QED
    BY <1>2, <2>1, <2>3, <2>5, <2>6, <2>7 DEF OneRecovery
<1> QED
  BY <1>1, <1>2

\* Cancelling without starting (ReportSuccess, Shutdown) leaves no live loop.
LEMMA CancelFacts ==
  ASSUME RecoveryInv, loops' = CancelIn(loops)
  PROVE  /\ loops' \in [Loops -> Loop]
         /\ \A l \in Loops : ~Live(l)'
         /\ \A l \in Loops : Running(l)' = Running(l)
         /\ CountdownPositive'
<1>1. \A l \in Loops : Live(l) => l = recoveryCancel
  BY DEF RecoveryInv, OneRecovery
<1> QED
  BY <1>1, CancelInFacts DEF RecoveryInv, CountdownPositive, Live, Running

\* The initial state satisfies the inductive invariant.
LEMMA InitRecoveryInv == Init => RecoveryInv
<1> SUFFICES ASSUME Init PROVE RecoveryInv
  OBVIOUS
<1>1. TypeOK
  BY LoopTypes, AuthConstants
  DEF Init, TypeOK, States, Reasons, Classes, RequestPCs, AuthConstants
<1>2. \A l \in Loops : ~Running(l)
  BY DEF Init, Running, IdleLoop
<1> QED
  BY <1>1, <1>2 DEF Init, RecoveryInv, RecoveryOwned, OneRecovery, NoStrayRecovery,
       ShutdownQuiescent, StoppedByShutdown, CountdownPositive, Live, IdleLoop

\* ReportFailureDiagnostic in the valid state, whoever reports.
LEMMA FailFromValidInv ==
  ASSUME RecoveryInv, state = "valid", FailFromValid,
         UNCHANGED <<shutdown, retries, envVars>>, requests' \in [Requests -> RequestPCs]
  PROVE  RecoveryInv'
<1>1. CASE MaxAttempts > 0
  <2>1. startRecoveryLocked /\ state' = "recovering" /\ reason' = "reported"
    BY <1>1 DEF FailFromValid, setState
  <2>2. TypeOK'
    BY <2>1, StartRecoveryFacts
    DEF RecoveryInv, FailFromValid, TypeOK, States, Reasons, Classes, envVars
  <2>3. RecoveryOwned' /\ NoStrayRecovery' /\ ShutdownQuiescent'
    BY <2>1, StartRecoveryFacts
    DEF RecoveryInv, FailFromValid, RecoveryOwned, NoStrayRecovery, ShutdownQuiescent,
        StoppedByShutdown, TypeOK, Live, Running
  <2>4. StoppedByShutdown'
    BY DEF RecoveryInv, FailFromValid, StoppedByShutdown
  <2> QED
    BY <2>1, <2>2, <2>3, <2>4, StartRecoveryFacts DEF RecoveryInv
<1>2. CASE ~(MaxAttempts > 0)
  BY <1>2 DEF FailFromValid, setState, RecoveryInv, TypeOK, States, Reasons, Classes,
       envVars, RecoveryOwned, OneRecovery, NoStrayRecovery, ShutdownQuiescent,
       StoppedByShutdown, CountdownPositive, Live, Running
<1> QED
  BY <1>1, <1>2

\* ReportSuccess, from any state.
LEMMA ReportSuccessInv ==
  ASSUME RecoveryInv, ReportSuccess,
         UNCHANGED <<shutdown, retries, envVars>>, requests' \in [Requests -> RequestPCs]
  PROVE  RecoveryInv'
<1>1. TypeOK'
  BY CancelFacts DEF ReportSuccess, setState, RecoveryInv, TypeOK, States, Reasons, envVars
<1>2. RecoveryOwned' /\ OneRecovery' /\ NoStrayRecovery' /\ ShutdownQuiescent' /\ CountdownPositive'
  BY CancelFacts DEF ReportSuccess, setState, RecoveryInv, RecoveryOwned, OneRecovery,
       NoStrayRecovery, ShutdownQuiescent
<1>3. StoppedByShutdown'
  BY DEF ReportSuccess, RecoveryInv, StoppedByShutdown
<1> QED
  BY <1>1, <1>2, <1>3 DEF RecoveryInv

\* One step of a recovery goroutine: it changes its own record only, keeps its
\* context, returns only when cancelled or when the state is valid, and changes
\* the state only while it is not cancelled.
LEMMA RecoveryStepFacts ==
  ASSUME RecoveryInv, NEW l \in Loops, NEW rec \in Loop, Running(l),
         loops' = [loops EXCEPT ![l] = rec],
         rec.pc # "idle" => rec.cancelled = loops[l].cancelled,
         rec.pc = "idle" => loops[l].cancelled \/ state' = "valid" \/ state = "valid",
         rec.pc \in {"emit", "sleep"} => rec.remaining > 0,
         state' # state => ~loops[l].cancelled /\ state # "valid",
         state' = "valid" /\ state # "valid" => rec.pc = "idle",
         state' \in States, reason' \in Reasons,
         secondsUntilRetry' \in Nat, lastProbeClass' \in Classes,
         UNCHANGED <<recoveryCancel, stopped, shutdown, requests, retries, envVars>>
  PROVE  RecoveryInv'
<1>1. loops \in [Loops -> Loop]
  BY DEF RecoveryInv, TypeOK
<1>2. loops'[l] = rec /\ \A k \in Loops \ {l} : loops'[k] = loops[k]
  BY <1>1
<1>3. \A k \in Loops \ {l} : Live(k)' = Live(k) /\ Running(k)' = Running(k)
  BY <1>2 DEF Live, Running
<1>4. Live(l)' => Live(l)
  BY <1>2 DEF Live, Running
<1>5. RecoveryOwned'
  <2> SUFFICES ASSUME state' # "valid", ~stopped, MaxAttempts > 0
               PROVE  recoveryCancel \in Loops /\ Live(recoveryCancel)'
    BY DEF RecoveryOwned
  <2>1. recoveryCancel \in Loops /\ Live(recoveryCancel)
    BY DEF RecoveryInv, RecoveryOwned
  <2>2. CASE recoveryCancel = l
    BY <2>1, <2>2, <1>2 DEF Live, Running
  <2> QED
    BY <2>1, <2>2, <1>3
<1>6. OneRecovery'
  BY <1>3, <1>4 DEF RecoveryInv, OneRecovery
<1>7. NoStrayRecovery'
  <2> SUFFICES ASSUME state' = "valid" \/ stopped, NEW k \in Loops, Live(k)'
               PROVE  FALSE
    BY DEF NoStrayRecovery
  <2>1. Live(k)
    BY <1>3, <1>4
  <2>2. state # "valid" /\ ~stopped
    BY <2>1 DEF RecoveryInv, NoStrayRecovery
  <2>3. Live(l) /\ rec.pc = "idle"
    BY <2>2 DEF Live
  <2>4. k = l
    BY <2>1, <2>3 DEF RecoveryInv, OneRecovery
  <2> QED
    BY <2>3, <2>4, <1>2 DEF Live, Running
<1>8. ShutdownQuiescent'
  BY DEF RecoveryInv, ShutdownQuiescent
<1>9. StoppedByShutdown' /\ CountdownPositive'
  BY <1>2 DEF RecoveryInv, StoppedByShutdown, CountdownPositive
<1>10. TypeOK'
  BY <1>1 DEF RecoveryInv, TypeOK, envVars
<1> QED
  BY <1>5, <1>6, <1>7, <1>8, <1>9, <1>10 DEF RecoveryInv

\* Every step of a recovery goroutine keeps the inductive invariant.
LEMMA RecoveryStepInv ==
  ASSUME RecoveryInv, NEW l \in Loops, RecoveryStep(l)
  PROVE  RecoveryInv'
<1> DEFINE r == loops[l]
<1>1. /\ loops \in [Loops -> Loop] /\ r \in Loop
      /\ r.pc \in LoopPCs /\ r.cancelled \in BOOLEAN
      /\ r.authFailures \in Nat /\ r.remaining \in Nat
  BY DEF RecoveryInv, TypeOK, Loop
<1>2. r.pc \in {"emit", "sleep"} => r.remaining > 0
  BY DEF RecoveryInv, CountdownPositive
<1>3. IdleLoop \in Loop /\ IdleLoop.pc = "idle"
  BY LoopTypes DEF IdleLoop
<1>4. MaxAttempts \in Nat
  BY AuthConstants DEF AuthConstants
<1> USE DEF LoopStep, LoopFrame, Running
<1>5. /\ state \in States /\ reason \in Reasons /\ secondsUntilRetry \in Nat
      /\ lastProbeClass \in Classes /\ world \in Worlds
  BY DEF RecoveryInv, TypeOK
<1>a. CASE WaitEnter(l)
  <2> DEFINE rec == IF r.cancelled THEN IdleLoop
                    ELSE [r EXCEPT !.pc = IF r.remaining > 0 THEN "emit" ELSE "probe"]
  <2>1. rec \in Loop
    BY <1>1, <1>3, <1>4 DEF Loop, LoopPCs
  <2>2. r.pc = "enter" /\ loops' = [loops EXCEPT ![l] = rec]
    BY <1>a, <1>1 DEF WaitEnter, Exit, Goto, Worlds
  <2>3. /\ rec.pc # "idle" => rec.cancelled = r.cancelled
        /\ rec.pc = "idle" => r.cancelled
        /\ rec.pc \in {"emit", "sleep"} => rec.remaining > 0
    BY <1>1, <1>2, <1>3 DEF Loop
  <2>4. /\ state' \in States /\ reason' \in Reasons
        /\ secondsUntilRetry' \in Nat /\ lastProbeClass' \in Classes
        /\ state' # state => ~r.cancelled /\ state # "valid"
        /\ state' = "valid" /\ state # "valid" => rec.pc = "idle"
        /\ UNCHANGED <<recoveryCancel, stopped, shutdown, requests, retries, envVars>>
    BY <1>a, <1>1, <1>2, <1>3, <1>5 DEF WaitEnter, managerVars, setState, States, Reasons, Classes, Worlds
  <2> HIDE DEF rec
  <2> QED
    BY <2>1, <2>2, <2>3, <2>4, RecoveryStepFacts
<1>b. CASE EmitCountdown(l)
  <2> DEFINE rec == [r EXCEPT !.pc = "sleep"]
  <2>1. rec \in Loop
    BY <1>1, <1>3, <1>4 DEF Loop, LoopPCs
  <2>2. r.pc = "emit" /\ loops' = [loops EXCEPT ![l] = rec]
    BY <1>b, <1>1 DEF EmitCountdown, Exit, Goto, Worlds
  <2>3. /\ rec.pc # "idle" => rec.cancelled = r.cancelled
        /\ rec.pc = "idle" => r.cancelled
        /\ rec.pc \in {"emit", "sleep"} => rec.remaining > 0
    BY <1>b, <1>1, <1>2, <1>3 DEF EmitCountdown, Loop
  <2>4. /\ state' \in States /\ reason' \in Reasons
        /\ secondsUntilRetry' \in Nat /\ lastProbeClass' \in Classes
        /\ state' # state => ~r.cancelled /\ state # "valid"
        /\ state' = "valid" /\ state # "valid" => rec.pc = "idle"
        /\ UNCHANGED <<recoveryCancel, stopped, shutdown, requests, retries, envVars>>
    BY <1>b, <1>1, <1>2, <1>3, <1>5 DEF EmitCountdown, managerVars, setState, States, Reasons, Classes, Worlds
  <2> HIDE DEF rec
  <2> QED
    BY <2>1, <2>2, <2>3, <2>4, RecoveryStepFacts
<1>c. CASE SleepElapsed(l)
  <2> DEFINE rec == [r EXCEPT !.remaining = r.remaining - 1,
                              !.pc = IF r.remaining - 1 > 0 THEN "emit" ELSE "probe"]
  <2>1. rec \in Loop
    BY <1>c, <1>1, <1>2 DEF SleepElapsed, Loop, LoopPCs
  <2>2. r.pc = "sleep" /\ loops' = [loops EXCEPT ![l] = rec]
    BY <1>c, <1>1 DEF SleepElapsed, Exit, Goto, Worlds
  <2>3. /\ rec.pc # "idle" => rec.cancelled = r.cancelled
        /\ rec.pc = "idle" => r.cancelled
        /\ rec.pc \in {"emit", "sleep"} => rec.remaining > 0
    BY <1>c, <1>1, <1>2, <1>3 DEF SleepElapsed, Loop
  <2>4. /\ state' \in States /\ reason' \in Reasons
        /\ secondsUntilRetry' \in Nat /\ lastProbeClass' \in Classes
        /\ state' # state => ~r.cancelled /\ state # "valid"
        /\ state' = "valid" /\ state # "valid" => rec.pc = "idle"
        /\ UNCHANGED <<recoveryCancel, stopped, shutdown, requests, retries, envVars>>
    BY <1>c, <1>1, <1>2, <1>3, <1>5 DEF SleepElapsed, managerVars, setState, States, Reasons, Classes, Worlds
  <2> HIDE DEF rec
  <2> QED
    BY <2>1, <2>2, <2>3, <2>4, RecoveryStepFacts
<1>d. CASE SleepCancelled(l)
  <2> DEFINE rec == IdleLoop
  <2>1. rec \in Loop
    BY <1>1, <1>3, <1>4 DEF Loop, LoopPCs
  <2>2. r.pc = "sleep" /\ loops' = [loops EXCEPT ![l] = rec]
    BY <1>d, <1>1 DEF SleepCancelled, Exit, Goto, Worlds
  <2>3. /\ rec.pc # "idle" => rec.cancelled = r.cancelled
        /\ rec.pc = "idle" => r.cancelled
        /\ rec.pc \in {"emit", "sleep"} => rec.remaining > 0
    BY <1>d, <1>1, <1>2, <1>3 DEF SleepCancelled, Loop
  <2>4. /\ state' \in States /\ reason' \in Reasons
        /\ secondsUntilRetry' \in Nat /\ lastProbeClass' \in Classes
        /\ state' # state => ~r.cancelled /\ state # "valid"
        /\ state' = "valid" /\ state # "valid" => rec.pc = "idle"
        /\ UNCHANGED <<recoveryCancel, stopped, shutdown, requests, retries, envVars>>
    BY <1>d, <1>1, <1>2, <1>3, <1>5 DEF SleepCancelled, managerVars, setState, States, Reasons, Classes, Worlds
  <2> HIDE DEF rec
  <2> QED
    BY <2>1, <2>2, <2>3, <2>4, RecoveryStepFacts
<1>e. CASE EmitProbeStart(l)
  <2> DEFINE rec == [r EXCEPT !.pc = "gate"]
  <2>1. rec \in Loop
    BY <1>1, <1>3, <1>4 DEF Loop, LoopPCs
  <2>2. r.pc = "probe" /\ loops' = [loops EXCEPT ![l] = rec]
    BY <1>e, <1>1 DEF EmitProbeStart, Exit, Goto, Worlds
  <2>3. /\ rec.pc # "idle" => rec.cancelled = r.cancelled
        /\ rec.pc = "idle" => r.cancelled
        /\ rec.pc \in {"emit", "sleep"} => rec.remaining > 0
    BY <1>1, <1>2, <1>3 DEF Loop
  <2>4. /\ state' \in States /\ reason' \in Reasons
        /\ secondsUntilRetry' \in Nat /\ lastProbeClass' \in Classes
        /\ state' # state => ~r.cancelled /\ state # "valid"
        /\ state' = "valid" /\ state # "valid" => rec.pc = "idle"
        /\ UNCHANGED <<recoveryCancel, stopped, shutdown, requests, retries, envVars>>
    BY <1>e, <1>1, <1>2, <1>3, <1>5 DEF EmitProbeStart, managerVars, setState, States, Reasons, Classes, Worlds
  <2> HIDE DEF rec
  <2> QED
    BY <2>1, <2>2, <2>3, <2>4, RecoveryStepFacts
<1>f. CASE ProbeGate(l)
  <2> DEFINE rec == IF r.cancelled THEN IdleLoop ELSE [r EXCEPT !.pc = "test"]
  <2>1. rec \in Loop
    BY <1>1, <1>3, <1>4 DEF Loop, LoopPCs
  <2>2. r.pc = "gate" /\ loops' = [loops EXCEPT ![l] = rec]
    BY <1>f, <1>1 DEF ProbeGate, Exit, Goto, Worlds
  <2>3. /\ rec.pc # "idle" => rec.cancelled = r.cancelled
        /\ rec.pc = "idle" => r.cancelled
        /\ rec.pc \in {"emit", "sleep"} => rec.remaining > 0
    BY <1>1, <1>2, <1>3 DEF Loop
  <2>4. /\ state' \in States /\ reason' \in Reasons
        /\ secondsUntilRetry' \in Nat /\ lastProbeClass' \in Classes
        /\ state' # state => ~r.cancelled /\ state # "valid"
        /\ state' = "valid" /\ state # "valid" => rec.pc = "idle"
        /\ UNCHANGED <<recoveryCancel, stopped, shutdown, requests, retries, envVars>>
    BY <1>f, <1>1, <1>2, <1>3, <1>5 DEF ProbeGate, managerVars, setState, States, Reasons, Classes, Worlds
  <2> HIDE DEF rec
  <2> QED
    BY <2>1, <2>2, <2>3, <2>4, RecoveryStepFacts
<1>g. CASE ProbeSucceeds(l)
  <2> DEFINE rec == IdleLoop
  <2>1. rec \in Loop
    BY <1>1, <1>3, <1>4 DEF Loop, LoopPCs
  <2>2. r.pc = "test" /\ loops' = [loops EXCEPT ![l] = rec]
    BY <1>g, <1>1 DEF ProbeSucceeds, Exit, Goto, Worlds
  <2>3. /\ rec.pc # "idle" => rec.cancelled = r.cancelled
        /\ rec.pc = "idle" => r.cancelled \/ state' = "valid" \/ state = "valid"
        /\ rec.pc \in {"emit", "sleep"} => rec.remaining > 0
    BY <1>g, <1>1, <1>2, <1>3 DEF Loop, ProbeSucceeds, setState
  <2>4. /\ state' \in States /\ reason' \in Reasons
        /\ secondsUntilRetry' \in Nat /\ lastProbeClass' \in Classes
        /\ state' # state => ~r.cancelled /\ state # "valid"
        /\ state' = "valid" /\ state # "valid" => rec.pc = "idle"
        /\ UNCHANGED <<recoveryCancel, stopped, shutdown, requests, retries, envVars>>
    BY <1>g, <1>1, <1>2, <1>3, <1>5 DEF ProbeSucceeds, managerVars, setState, States, Reasons, Classes, Worlds
  <2> HIDE DEF rec
  <2> QED
    BY <2>1, <2>2, <2>3, <2>4, RecoveryStepFacts
<1>h. CASE ProbeFails(l)
  <2> DEFINE rec == IF world = "connectivity"
                    THEN [r EXCEPT !.pc = "enter", !.remaining = connectivityRetryDelay]
                    ELSE IF r.authFailures + 1 >= MaxAttempts
                    THEN [r EXCEPT !.pc = "settle", !.authFailures = MaxAttempts]
                    ELSE [r EXCEPT !.pc = "enter", !.authFailures = r.authFailures + 1,
                                   !.remaining = getBackoffDelay(r.authFailures + 1)]
  <2>0. /\ r.authFailures + 1 \in Nat /\ connectivityRetryDelay \in Nat
        /\ getBackoffDelay(r.authFailures + 1) \in Nat
    BY DelayTypes, <1>1
  <2>1. rec \in Loop
    BY <2>0, <1>1, <1>4 DEF Loop, LoopPCs
  <2>2. r.pc = "test" /\ loops' = [loops EXCEPT ![l] = rec]
    BY <1>h, <1>1 DEF ProbeFails, Exit, Goto, Worlds
  <2>3. /\ rec.pc # "idle" => rec.cancelled = r.cancelled
        /\ rec.pc = "idle" => r.cancelled
        /\ rec.pc \in {"emit", "sleep"} => rec.remaining > 0
    BY <1>1, <1>2, <1>3 DEF Loop
  <2>4. /\ state' \in States /\ reason' \in Reasons
        /\ secondsUntilRetry' \in Nat /\ lastProbeClass' \in Classes
        /\ state' # state => ~r.cancelled /\ state # "valid"
        /\ state' = "valid" /\ state # "valid" => rec.pc = "idle"
        /\ UNCHANGED <<recoveryCancel, stopped, shutdown, requests, retries, envVars>>
    BY <1>h, <1>1, <1>2, <1>3, <1>5 DEF ProbeFails, managerVars, setState, States, Reasons, Classes, Worlds
  <2> HIDE DEF rec
  <2> QED
    BY <2>1, <2>2, <2>3, <2>4, RecoveryStepFacts
<1>i. CASE Settle(l)
  <2> DEFINE rec == [r EXCEPT !.pc = "enter", !.remaining = steadyRetryDelay]
  <2>1. rec \in Loop
    BY DelayTypes, <1>1, <1>3, <1>4 DEF Loop, LoopPCs
  <2>2. r.pc = "settle" /\ loops' = [loops EXCEPT ![l] = rec]
    BY <1>i, <1>1 DEF Settle, Exit, Goto, Worlds
  <2>3. /\ rec.pc # "idle" => rec.cancelled = r.cancelled
        /\ rec.pc = "idle" => r.cancelled
        /\ rec.pc \in {"emit", "sleep"} => rec.remaining > 0
    BY <1>1, <1>2, <1>3 DEF Loop
  <2>4. /\ state' \in States /\ reason' \in Reasons
        /\ secondsUntilRetry' \in Nat /\ lastProbeClass' \in Classes
        /\ state' # state => ~r.cancelled /\ state # "valid"
        /\ state' = "valid" /\ state # "valid" => rec.pc = "idle"
        /\ UNCHANGED <<recoveryCancel, stopped, shutdown, requests, retries, envVars>>
    BY <1>i, <1>1, <1>2, <1>3, <1>5 DEF Settle, managerVars, setState, States, Reasons, Classes, Worlds
  <2> HIDE DEF rec
  <2> QED
    BY <2>1, <2>2, <2>3, <2>4, RecoveryStepFacts
<1> QED
  BY <1>a, <1>b, <1>c, <1>d, <1>e, <1>f, <1>g, <1>h, <1>i DEF RecoveryStep

\* Every step of the specification keeps the inductive invariant.
LEMMA NextRecoveryInv == RecoveryInv /\ [Next]_vars => RecoveryInv'
<1> SUFFICES ASSUME RecoveryInv, [Next]_vars PROVE RecoveryInv'
  OBVIOUS
<1>1. requests \in [Requests -> RequestPCs]
  BY DEF RecoveryInv, TypeOK
<1>2. CASE ReportFailureDiagnostic
  BY <1>1, <1>2, FailFromValidInv DEF ReportFailureDiagnostic
<1>3. CASE TriggerRetry
  <2>1. TypeOK'
    BY <1>3, StartRecoveryFacts, AuthConstants
    DEF TriggerRetry, RecoveryInv, TypeOK, envVars, AuthConstants
  <2>2. RecoveryOwned' /\ NoStrayRecovery' /\ ShutdownQuiescent' /\ StoppedByShutdown'
    BY <1>3, StartRecoveryFacts
    DEF TriggerRetry, RecoveryInv, RecoveryOwned, NoStrayRecovery, ShutdownQuiescent,
        StoppedByShutdown, Live, Running
  <2> QED
    BY <1>3, <2>1, <2>2, StartRecoveryFacts DEF TriggerRetry, RecoveryInv
<1>4. CASE ShutdownBegin
  <2>1. TypeOK'
    BY <1>4, CancelFacts DEF ShutdownBegin, RecoveryInv, TypeOK, envVars
  <2> QED
    BY <1>4, <2>1, CancelFacts
    DEF ShutdownBegin, RecoveryInv, RecoveryOwned, OneRecovery, NoStrayRecovery,
        ShutdownQuiescent, StoppedByShutdown
<1>5. CASE ShutdownEnd
  BY <1>5 DEF ShutdownEnd, managerVars, envVars, RecoveryInv, TypeOK, RecoveryOwned,
       OneRecovery, NoStrayRecovery, ShutdownQuiescent, StoppedByShutdown,
       CountdownPositive, Live, Running
<1>6. CASE \E l \in Loops : RecoveryStep(l)
  BY <1>6, RecoveryStepInv
<1>7. ASSUME NEW r \in Requests, RoundTripRejected(r)
      PROVE  RecoveryInv'
  <2>1. requests' \in [Requests -> RequestPCs]
    BY <1>1, <1>7 DEF RoundTripRejected, RequestPCs
  <2>2. CASE state = "valid"
    BY <1>7, <2>1, <2>2, FailFromValidInv DEF RoundTripRejected
  <2>3. CASE state # "valid"
    BY <1>7, <2>1, <2>3
    DEF RoundTripRejected, managerVars, envVars, RecoveryInv, TypeOK, RecoveryOwned,
        OneRecovery, NoStrayRecovery, ShutdownQuiescent, StoppedByShutdown,
        CountdownPositive, Live, Running
  <2> QED
    BY <2>2, <2>3
<1>8. ASSUME NEW r \in Requests, RoundTripSucceeds(r)
      PROVE  RecoveryInv'
  <2>1. requests' \in [Requests -> RequestPCs]
    BY <1>1, <1>8 DEF RoundTripSucceeds, RequestPCs
  <2> QED
    BY <1>8, <2>1, ReportSuccessInv DEF RoundTripSucceeds
<1>9. ASSUME NEW r \in Requests, RoundTripAdmit(r) \/ RoundTripOther(r)
      PROVE  RecoveryInv'
  <2>1. requests' \in [Requests -> RequestPCs] /\ UNCHANGED <<managerVars, loops, shutdown, retries, envVars>>
    BY <1>1, <1>9 DEF RoundTripAdmit, RoundTripOther, RequestPCs
  <2> QED
    BY <2>1
    DEF managerVars, envVars, RecoveryInv, TypeOK, RecoveryOwned, OneRecovery,
        NoStrayRecovery, ShutdownQuiescent, StoppedByShutdown, CountdownPositive, Live, Running
<1>10. CASE WorldChanges
  BY <1>10, AuthConstants
  DEF WorldChanges, managerVars, RecoveryInv, TypeOK, RecoveryOwned, OneRecovery,
      NoStrayRecovery, ShutdownQuiescent, StoppedByShutdown, CountdownPositive, Live,
      Running, AuthConstants
<1>11. CASE UNCHANGED vars
  BY <1>11 DEF vars, RecoveryInv, TypeOK, RecoveryOwned, OneRecovery, NoStrayRecovery,
       ShutdownQuiescent, StoppedByShutdown, CountdownPositive, Live, Running
<1> QED
  BY <1>2, <1>3, <1>4, <1>5, <1>6, <1>7, <1>8, <1>9, <1>10, <1>11 DEF Next

\* Manager keeps RecoveryInv in every reachable state: types, one live recovery
\* loop exactly while there is something to recover, none after Shutdown.
THEOREM RecoveryInvariant == Spec => []RecoveryInv
BY InitRecoveryInv, NextRecoveryInv, PTL DEF Spec

\* Every variable of the manager keeps its type.
THEOREM TypeCorrect == Spec => []TypeOK
<1>1. RecoveryInv => TypeOK
  BY DEF RecoveryInv
<1> QED
  BY <1>1, RecoveryInvariant, PTL

\* A cluster that is not valid is always being recovered, whatever retries,
\* failures and late successes the manager is told of.
THEOREM RecoveryNeverAbandoned == Spec => []RecoveryOwned
<1>1. RecoveryInv => RecoveryOwned
  BY DEF RecoveryInv
<1> QED
  BY <1>1, RecoveryInvariant, PTL

\* Only the loop that recoveryCancel cancels is live, however many overlap.
THEOREM OneLoopAtATime == Spec => []OneRecovery
<1>1. RecoveryInv => OneRecovery
  BY DEF RecoveryInv
<1> QED
  BY <1>1, RecoveryInvariant, PTL

\* No live loop is left once ReportSuccess or Shutdown has settled the manager.
THEOREM ValidIsUndisturbed == Spec => []NoStrayRecovery
<1>1. RecoveryInv => NoStrayRecovery
  BY DEF RecoveryInv
<1> QED
  BY <1>1, RecoveryInvariant, PTL

\* No goroutine outlives Shutdown, and none starts after it.
THEOREM ShutdownComplete == Spec => []ShutdownQuiescent
<1>1. RecoveryInv => ShutdownQuiescent
  BY DEF RecoveryInv
<1> QED
  BY <1>1, RecoveryInvariant, PTL
-----------------------------------------------------------------------------
(* Action properties: what a single step may do to the verdict.            *)

\* Cancelling leaves a loop that is already cancelled, and every count, alone.
LEMMA CancelKeeps ==
  ASSUME TypeOK, NEW l \in Loops
  PROVE  /\ loops[l].cancelled => CancelIn(loops)[l] = loops[l]
         /\ CancelIn(loops)[l].authFailures = loops[l].authFailures
<1>1. CASE l = recoveryCancel
  <2>1. CancelIn(loops)[l] = [loops[l] EXCEPT !.cancelled = TRUE]
    BY <1>1, AuthConstants DEF CancelIn, TypeOK, AuthConstants
  <2>2. loops[l] \in Loop
    BY DEF TypeOK
  <2> QED
    BY <2>1, <2>2 DEF Loop
<1>2. CASE l # recoveryCancel
  BY <1>2, CancelInFacts
<1> QED
  BY <1>1, <1>2

\* Starting a recovery changes no loop that runs cancelled, and no running
\* loop's count; the one it starts has counted nothing.
LEMMA StartKeeps ==
  ASSUME RecoveryInv, startRecoveryLocked, NEW l \in Loops
  PROVE  /\ Running(l) /\ loops[l].cancelled => loops'[l] = loops[l]
         /\ loops'[l].authFailures \in {0, loops[l].authFailures}
         /\ loops'[l].pc \in {"enter", loops[l].pc}
         /\ loops'[l].pc = "settle" => loops'[l].authFailures = loops[l].authFailures
<1>1. CASE stopped
  BY <1>1 DEF startRecoveryLocked
<1>2. CASE ~stopped
  <2>1. PICK k \in Loops : /\ ~Running(k)
                           /\ loops' = [CancelIn(loops) EXCEPT ![k] = FreshLoop]
    BY <1>2 DEF startRecoveryLocked
  <2>2. CancelIn(loops) \in [Loops -> Loop]
    BY CancelInFacts DEF RecoveryInv
  <2>3. CASE l = k
    BY <2>1, <2>2, <2>3 DEF FreshLoop, Running
  <2>4. CASE l # k
    BY <2>1, <2>2, <2>4, CancelKeeps, CancelInFacts DEF RecoveryInv
  <2> QED
    BY <2>3, <2>4
<1> QED
  BY <1>1, <1>2

\* The manager's critical sections: one of them starts a recovery, cancels
\* one, or leaves the goroutines alone.
LEMMA ManagerStep ==
  ASSUME RecoveryInv, Next
  PROVE  \/ \E l \in Loops : RecoveryStep(l)
         \/ /\ startRecoveryLocked \/ loops' = CancelIn(loops) \/ loops' = loops
            /\ state = "recovering" => state' # "invalid"
<1>1. CASE ReportFailureDiagnostic
  BY <1>1 DEF ReportFailureDiagnostic, FailFromValid, setState
<1>2. CASE TriggerRetry
  BY <1>2 DEF TriggerRetry
<1>3. CASE ShutdownBegin \/ ShutdownEnd
  BY <1>3 DEF ShutdownBegin, ShutdownEnd, managerVars
<1>4. ASSUME NEW r \in Requests, RoundTripRejected(r)
      PROVE  /\ startRecoveryLocked \/ loops' = loops
             /\ state = "recovering" => state' # "invalid"
  BY <1>4 DEF RoundTripRejected, FailFromValid, setState, managerVars
<1>5. ASSUME NEW r \in Requests, RoundTripAdmit(r) \/ RoundTripSucceeds(r) \/ RoundTripOther(r)
      PROVE  /\ loops' = CancelIn(loops) \/ loops' = loops
             /\ state = "recovering" => state' # "invalid"
  BY <1>5 DEF RoundTripAdmit, RoundTripSucceeds, RoundTripOther, ReportSuccess, setState, managerVars
<1>6. CASE WorldChanges
  BY <1>6 DEF WorldChanges, managerVars
<1> QED
  BY <1>1, <1>2, <1>3, <1>4, <1>5, <1>6 DEF Next

\* A step of a goroutine changes no other one.
LEMMA RecoveryStepLocal ==
  ASSUME RecoveryInv, NEW k \in Loops, RecoveryStep(k), NEW l \in Loops, l # k
  PROVE  loops'[l] = loops[l]
BY DEF RecoveryInv, TypeOK, RecoveryStep, WaitEnter, EmitCountdown, SleepElapsed, SleepCancelled,
       EmitProbeStart, ProbeGate, ProbeSucceeds, ProbeFails, Settle, Goto, Exit

\* A cancelled goroutine never touches the verdict.
LEMMA CancelledStepInert ==
  ASSUME NEW k \in Loops, RecoveryStep(k), loops[k].cancelled
  PROVE  state' = state /\ reason' = reason
BY DEF RecoveryStep, WaitEnter, EmitCountdown, SleepElapsed, SleepCancelled, EmitProbeStart,
       ProbeGate, ProbeSucceeds, ProbeFails, Settle, managerVars

\* What one step of a goroutine does to its own count, and when it settles.
LEMMA CountStep ==
  ASSUME RecoveryInv, SettleCounted, NEW k \in Loops, RecoveryStep(k)
  PROVE  /\ loops'[k].pc = "settle" => loops'[k].authFailures = MaxAttempts
         /\ loops'[k].authFailures > loops[k].authFailures => world = "auth"
         /\ state = "recovering" /\ state' = "invalid" =>
              Live(k) /\ loops[k].authFailures = MaxAttempts
<1> DEFINE c == loops[k]
<1>1. loops \in [Loops -> Loop] /\ c \in Loop
  BY DEF RecoveryInv, TypeOK
<1>2. MaxAttempts \in Nat /\ c.authFailures \in Nat
  BY <1>1, AuthConstants DEF AuthConstants, Loop
<1>3. CASE WaitEnter(k) \/ EmitCountdown(k) \/ SleepElapsed(k) \/ SleepCancelled(k)
           \/ EmitProbeStart(k) \/ ProbeGate(k)
  <2>1. state' = state
    BY <1>3 DEF WaitEnter, EmitCountdown, SleepElapsed, SleepCancelled, EmitProbeStart,
                ProbeGate, managerVars
  <2>2. loops'[k].pc # "settle" /\ loops'[k].authFailures \in {0, c.authFailures}
    BY <1>1, <1>3 DEF WaitEnter, EmitCountdown, SleepElapsed, SleepCancelled, EmitProbeStart,
                      ProbeGate, Goto, Exit, IdleLoop, Loop
  <2> QED
    BY <1>2, <2>1, <2>2
<1>4. CASE ProbeSucceeds(k)
  BY <1>1, <1>2, <1>4 DEF ProbeSucceeds, Exit, IdleLoop, setState
<1>5. CASE ProbeFails(k)
  <2>1. state' = state /\ world # "ok" /\ world \in Worlds
    BY <1>5 DEF ProbeFails, RecoveryInv, TypeOK
  <2>2. CASE world = "connectivity"
    <3>1. loops'[k] = [c EXCEPT !.pc = "enter", !.remaining = connectivityRetryDelay]
      BY <1>1, <1>5, <2>2 DEF ProbeFails
    <3> QED
      BY <1>1, <1>2, <2>1, <3>1 DEF Loop
  <2>3. CASE world = "auth"
    <3>1. \/ loops'[k] = [c EXCEPT !.pc = "settle", !.authFailures = MaxAttempts]
          \/ loops'[k] = [c EXCEPT !.pc = "enter", !.authFailures = c.authFailures + 1,
                                   !.remaining = getBackoffDelay(c.authFailures + 1)]
      BY <1>1, <1>5, <2>3 DEF ProbeFails
    <3> QED
      BY <1>1, <2>1, <2>3, <3>1 DEF Loop
  <2> QED
    BY <2>1, <2>2, <2>3 DEF Worlds
<1>6. CASE Settle(k)
  <2>1. c.pc = "settle" /\ c.authFailures = MaxAttempts
    BY <1>6 DEF Settle, LoopStep, SettleCounted
  <2>2. loops'[k] = [c EXCEPT !.pc = "enter", !.remaining = steadyRetryDelay]
    BY <1>1, <1>6 DEF Settle
  <2>3. loops'[k].pc = "enter" /\ loops'[k].authFailures = c.authFailures
    BY <1>1, <2>2 DEF Loop
  <2>4. state' # state => ~c.cancelled
    BY <1>6 DEF Settle
  <2> QED
    BY <1>2, <2>1, <2>3, <2>4 DEF Live, Running
<1> QED
  BY <1>3, <1>4, <1>5, <1>6 DEF RecoveryStep

\* Every step keeps SettleCounted and what SettledByRejections says of a step.
LEMMA CountedStep ==
  ASSUME RecoveryInv, SettleCounted, Next
  PROVE  /\ SettleCounted'
         /\ state = "recovering" /\ state' = "invalid" =>
              \E l \in Loops : Live(l) /\ loops[l].authFailures = MaxAttempts
         /\ \A l \in Loops : loops'[l].authFailures > loops[l].authFailures => world = "auth"
<1>1. \A l \in Loops : loops[l].authFailures \in Nat
  BY DEF RecoveryInv, TypeOK, Loop
<1>2. ASSUME NEW k \in Loops, RecoveryStep(k)
      PROVE  /\ SettleCounted'
             /\ state = "recovering" /\ state' = "invalid" =>
                  \E l \in Loops : Live(l) /\ loops[l].authFailures = MaxAttempts
             /\ \A l \in Loops : loops'[l].authFailures > loops[l].authFailures => world = "auth"
  BY <1>1, <1>2, CountStep, RecoveryStepLocal DEF SettleCounted
<1>3. ASSUME startRecoveryLocked, NEW l \in Loops
      PROVE  /\ loops'[l].pc = "settle" => loops'[l].authFailures = MaxAttempts
             /\ ~(loops'[l].authFailures > loops[l].authFailures)
  BY <1>1, <1>3, StartKeeps DEF SettleCounted
<1>4. ASSUME loops' = CancelIn(loops) \/ loops' = loops, NEW l \in Loops
      PROVE  /\ loops'[l].pc = "settle" => loops'[l].authFailures = MaxAttempts
             /\ ~(loops'[l].authFailures > loops[l].authFailures)
  BY <1>1, <1>4, CancelKeeps, CancelInFacts DEF SettleCounted, RecoveryInv
<1> QED
  BY <1>2, <1>3, <1>4, ManagerStep DEF SettleCounted

\* A loop that was superseded, or whose failure is over, never changes the
\* verdict: runRecoveryProbe and settleInvalidCredentials look at the context
\* under m.mu.
THEOREM StaleLoopsNeverDecide == Spec => StaleLoopsInert
<1>1. ASSUME RecoveryInv, [Next]_vars, NEW l \in Loops,
             Running(l), loops[l].cancelled, loops'[l] # loops[l]
      PROVE  state' = state /\ reason' = reason
  <2>1. CASE UNCHANGED vars
    BY <2>1 DEF vars
  <2>2. ASSUME NEW k \in Loops, RecoveryStep(k)
        PROVE  state' = state /\ reason' = reason
    BY <1>1, <2>2, RecoveryStepLocal, CancelledStepInert
  <2>3. ~startRecoveryLocked /\ loops' # CancelIn(loops) /\ loops' # loops
    BY <1>1, StartKeeps, CancelKeeps DEF RecoveryInv
  <2> QED
    BY <1>1, <2>1, <2>2, <2>3, ManagerStep
<1>2. RecoveryInv /\ [Next]_vars =>
        [\A l \in Loops : Running(l) /\ loops[l].cancelled /\ loops'[l] # loops[l]
           => state' = state /\ reason' = reason]_vars
  BY <1>1
<1> QED
  BY <1>2, RecoveryInvariant, PTL DEF Spec, StaleLoopsInert

\* Only MaxAttempts credential rejections, counted by the live loop itself,
\* settle the verdict; an unreachable cluster never uses an attempt.
THEOREM VerdictNeedsRejections == Spec => SettledByRejections
<1>1. Init => SettleCounted
  BY DEF Init, SettleCounted, IdleLoop
<1>2. RecoveryInv /\ SettleCounted /\ [Next]_vars => SettleCounted'
  BY CountedStep DEF vars, SettleCounted
<1>3. RecoveryInv /\ SettleCounted /\ [Next]_vars =>
        [/\ state = "recovering" /\ state' = "invalid" =>
              \E l \in Loops : Live(l) /\ loops[l].authFailures = MaxAttempts
         /\ \A l \in Loops : loops'[l].authFailures > loops[l].authFailures
              => world = "auth"]_vars
  BY CountedStep
<1> QED
  BY <1>1, <1>2, <1>3, RecoveryInvariant, PTL DEF Spec, SettledByRejections
=============================================================================
