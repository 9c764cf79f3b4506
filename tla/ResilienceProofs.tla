------------------------- MODULE ResilienceProofs ---------------------------
(***************************************************************************)
(* Proofs about Deadline, for any number of registrations, any cutoff, any *)
(* timer skew and an unbounded clock; and about Resilient, for any number of *)
(* retries: attempts are made one by one, and neither they nor the run     *)
(* outlive its loss.                                                       *)
(***************************************************************************)
EXTENDS Deadline, Resilient, TLAPS

-----------------------------------------------------------------------------
(* Deadline *)

\* A timer's delay is a duration, no shorter than what was asked if that fits.
LEMMA NodeDelayRange ==
  ASSUME NEW ms \in Int
  PROVE  /\ NodeDelay(ms) \in Nat
         /\ ms <= MaxDelay => NodeDelay(ms) >= ms
<1>1. MaxDelay \in Nat
  BY DeadlineAssumption
<1> QED
  BY <1>1 DEF NodeDelay

\* A timer armed at t is due at a time, after the cutoff if its delay fits.
LEMMA DueRange ==
  ASSUME NEW t \in Nat
  PROVE  /\ t + NodeDelay(Cutoff - t) \in Nat
         /\ Cutoff <= MaxDelay => t + NodeDelay(Cutoff - t) >= Cutoff
<1>1. Cutoff \in Nat /\ MaxDelay \in Nat
  BY DeadlineAssumption
<1>2. PICK ms \in Int : ms = Cutoff - t
  BY <1>1
<1>3. PICK d \in Nat : d = NodeDelay(ms) /\ (ms <= MaxDelay => d >= ms)
  BY <1>2, NodeDelayRange
<1>4. t + d \in Nat /\ (Cutoff <= MaxDelay => t + d >= Cutoff)
  BY <1>1, <1>2, <1>3
<1> QED
  BY <1>2, <1>3, <1>4

\* The deadline is a well formed object in every reachable state.
THEOREM DeadlineTypeCorrect == Spec => []TypeOK
<1>1. Init => TypeOK
  BY DEF Init, TypeOK, RegStates, Regs
<1>2. TypeOK /\ [Next]_vars => TypeOK'
  <2> SUFFICES ASSUME TypeOK, [Next]_vars PROVE TypeOK'
    OBVIOUS
  <2> USE DEF TypeOK, RegStates
  <2>1. ASSUME NEW r \in Regs, Register(r)
        PROVE /\ clock' \in Nat /\ live' \in BOOLEAN
              /\ reg' \in [Regs -> RegStates]
              /\ due' \in [Regs -> Nat]
              /\ pending' \subseteq Regs
    <3>1. CASE RegisterExpired(r)
      BY <3>1 DEF RegisterExpired
    <3>2. CASE RegisterTimer(r)
      <4>1. PICK lag \in 0 .. MaxLag :
              /\ clock' = clock + lag
              /\ due' = [due EXCEPT ![r] = clock' + NodeDelay(Cutoff - clock')]
        BY <3>2 DEF RegisterTimer
      <4>2. clock' \in Nat
        BY <4>1, DeadlineAssumption
      <4>3. clock' + NodeDelay(Cutoff - clock') \in Nat
        BY <4>2, DueRange
      <4> QED
        BY <3>2, <4>1, <4>2, <4>3 DEF RegisterTimer
    <3> QED
      BY <2>1, <3>1, <3>2 DEF Register
  <2>2. ASSUME NEW c \in Callbacks, OnExceeded(c) PROVE TypeOK'
    BY <2>1, <2>2 DEF OnExceeded, Regs
  <2>3. ASSUME NEW c \in Callbacks, Cleanup(c) PROVE TypeOK'
    BY <2>3 DEF Cleanup, Regs
  <2>4. CASE Exceeded
    BY <2>1, <2>4 DEF Exceeded, Regs
  <2>5. CASE Signal
    BY <2>1, <2>5 DEF Signal, SignalOfPromise, SignalOfNewPromise, Regs
  <2>6. CASE ExceededError
    BY <2>6 DEF ExceededError
  <2>7. CASE IsExceeded
    BY <2>7 DEF IsExceeded, SaysExceeded
  <2>8. CASE Clear
    BY <2>8 DEF Clear
  <2>9. ASSUME NEW r \in Regs, RunTick(r) PROVE TypeOK'
    BY <2>9 DEF RunTick
  <2>10. ASSUME NEW r \in Regs, FireTimer(r) PROVE TypeOK'
    BY <2>10 DEF FireTimer
  <2>11. CASE TimePasses
    BY <2>11 DEF TimePasses
  <2>12. CASE UNCHANGED vars
    BY <2>12 DEF vars
  <2> QED
    BY <2>2, <2>3, <2>4, <2>5, <2>6, <2>7, <2>8, <2>9, <2>10, <2>11, <2>12
    DEF Next
<1> QED
  BY <1>1, <1>2, PTL DEF Spec

-----------------------------------------------------------------------------
(***************************************************************************)
(* The inductive invariant.  None of the safety invariants is inductive by *)
(* itself: that the called back find the deadline exceeded rests on `live` *)
(* being FALSE from the moment a callback is queued, and that no callback  *)
(* runs early on the due time of every armed timer.                        *)
(***************************************************************************)

QueuedMeansDead == \A r \in Regs : reg[r] \in {"ticked", "called"} => ~live

TickedMeansExpired == \A r \in Regs : reg[r] = "ticked" => Expired

\* Only a timer whose delay fits is due after the cutoff.
DueAfterCutoff ==
  Cutoff <= MaxDelay => \A r \in Regs : reg[r] = "armed" => due[r] >= Cutoff

DeadlineInv ==
  /\ TypeOK
  /\ ClearSeesEveryTimer
  /\ SignalFollowsPromise
  /\ QueuedMeansDead
  /\ TickedMeansExpired
  /\ DueAfterCutoff

\* What one registration does to the parts of the invariant it can disturb.
LEMMA RegisterStep ==
  ASSUME DeadlineInv, NEW r \in Regs, Register(r)
  PROVE  /\ ClearSeesEveryTimer' /\ QueuedMeansDead'
         /\ TickedMeansExpired' /\ DueAfterCutoff'
<1> USE DEF DeadlineInv, TypeOK
<1>1. CASE RegisterExpired(r)
  BY <1>1 DEF RegisterExpired, ClearSeesEveryTimer, QueuedMeansDead,
              TickedMeansExpired, DueAfterCutoff, Expired
<1>2. CASE RegisterTimer(r)
  <2>1. PICK lag \in 0 .. MaxLag :
          /\ clock' = clock + lag
          /\ due' = [due EXCEPT ![r] = clock' + NodeDelay(Cutoff - clock')]
    BY <1>2 DEF RegisterTimer
  <2>2. clock' \in Nat /\ clock' >= clock
    BY <2>1, DeadlineAssumption
  <2>3. Cutoff <= MaxDelay => clock' + NodeDelay(Cutoff - clock') >= Cutoff
    BY <2>2, DueRange
  <2>4. DueAfterCutoff'
    BY <1>2, <2>1, <2>3 DEF RegisterTimer, DueAfterCutoff
  <2>5. ClearSeesEveryTimer' /\ QueuedMeansDead'
    BY <1>2 DEF RegisterTimer, ClearSeesEveryTimer, QueuedMeansDead
  <2>6. TickedMeansExpired'
    BY <1>2, <2>2, DeadlineAssumption
    DEF RegisterTimer, TickedMeansExpired, Expired
  <2> QED
    BY <2>4, <2>5, <2>6
<1> QED
  BY <1>1, <1>2 DEF Register

LEMMA DeadlineInvInductive == DeadlineInv /\ TypeOK' /\ [Next]_vars => DeadlineInv'
<1> SUFFICES ASSUME DeadlineInv, TypeOK', [Next]_vars PROVE DeadlineInv'
  OBVIOUS
<1> USE DEF DeadlineInv, TypeOK
<1>1. ASSUME NEW c \in Callbacks, OnExceeded(c) PROVE DeadlineInv'
  <2>1. c \in Regs /\ Register(c)
    BY <1>1 DEF OnExceeded, Regs
  <2> QED
    BY <1>1, <2>1, RegisterStep DEF OnExceeded, SignalFollowsPromise
<1>2. ASSUME NEW c \in Callbacks, Cleanup(c) PROVE DeadlineInv'
  BY <1>2 DEF Cleanup, Regs, ClearSeesEveryTimer, SignalFollowsPromise,
              QueuedMeansDead, TickedMeansExpired, DueAfterCutoff, Expired
<1>3. CASE Exceeded
  <2>1. PICK p \in Promises : Register(p) /\ promise' = p
    BY <1>3 DEF Exceeded
  <2>2. p \in Regs
    BY DEF Regs
  <2>3. SignalFollowsPromise'
    BY <1>3 DEF Exceeded, SignalFollowsPromise
  <2> QED
    BY <2>1, <2>2, <2>3, RegisterStep
<1>4. CASE SignalOfPromise
  BY <1>4 DEF SignalOfPromise, ClearSeesEveryTimer, SignalFollowsPromise,
              QueuedMeansDead, TickedMeansExpired, DueAfterCutoff, Expired
<1>5. CASE SignalOfNewPromise
  <2>1. PICK p \in Promises : Register(p) /\ promise' = p /\ controller' = p
    BY <1>5 DEF SignalOfNewPromise
  <2>2. p \in Regs
    BY DEF Regs
  <2>3. SignalFollowsPromise'
    BY <2>1 DEF SignalFollowsPromise
  <2> QED
    BY <2>1, <2>2, <2>3, RegisterStep
<1>6. CASE ExceededError
  BY <1>6 DEF ExceededError, ClearSeesEveryTimer, SignalFollowsPromise,
              QueuedMeansDead, TickedMeansExpired, DueAfterCutoff, Expired
<1>7. CASE IsExceeded
  BY <1>7 DEF IsExceeded, SaysExceeded, ClearSeesEveryTimer,
              SignalFollowsPromise, QueuedMeansDead, TickedMeansExpired,
              DueAfterCutoff, Expired
<1>8. CASE Clear
  BY <1>8 DEF Clear, ClearSeesEveryTimer, SignalFollowsPromise,
              QueuedMeansDead, TickedMeansExpired, DueAfterCutoff, Expired
<1>9. ASSUME NEW r \in Regs, RunTick(r) PROVE DeadlineInv'
  BY <1>9 DEF RunTick, ClearSeesEveryTimer, SignalFollowsPromise,
              QueuedMeansDead, TickedMeansExpired, DueAfterCutoff, Expired
<1>10. ASSUME NEW r \in Regs, FireTimer(r) PROVE DeadlineInv'
  BY <1>10 DEF FireTimer, ClearSeesEveryTimer, SignalFollowsPromise,
               QueuedMeansDead, TickedMeansExpired, DueAfterCutoff, Expired
<1>11. CASE TimePasses
  BY <1>11, DeadlineAssumption
  DEF TimePasses, ClearSeesEveryTimer, SignalFollowsPromise,
      QueuedMeansDead, TickedMeansExpired, DueAfterCutoff, Expired
<1>12. CASE UNCHANGED vars
  BY <1>12 DEF vars, ClearSeesEveryTimer, SignalFollowsPromise,
               QueuedMeansDead, TickedMeansExpired, DueAfterCutoff, Expired
<1> QED
  BY <1>1, <1>2, <1>3, <1>4, <1>5, <1>6, <1>7, <1>8, <1>9, <1>10, <1>11, <1>12
  DEF Next, Signal

LEMMA DeadlineInvariance == Spec => []DeadlineInv
<1>1. Init => DeadlineInv
  BY DEF Init, DeadlineInv, TypeOK, RegStates, Regs, ClearSeesEveryTimer,
         SignalFollowsPromise, QueuedMeansDead, TickedMeansExpired,
         DueAfterCutoff
<1>2. DeadlineInv /\ TypeOK' /\ [Next]_vars => DeadlineInv'
  BY DeadlineInvInductive
<1> QED
  BY <1>1, <1>2, DeadlineTypeCorrect, PTL DEF Spec

-----------------------------------------------------------------------------
\* `clear` cancels every timer of the deadline: none is unknown to it.
THEOREM ClearIsComplete == Spec => []ClearSeesEveryTimer
<1>1. DeadlineInv => ClearSeesEveryTimer
  BY DEF DeadlineInv
<1> QED
  BY <1>1, DeadlineInvariance, PTL

\* Whoever was called back finds the deadline exceeded.
THEOREM CalledBackFindsExceeded == Spec => []CalledBackKnowsExpired
<1>1. DeadlineInv => CalledBackKnowsExpired
  BY DEF DeadlineInv, QueuedMeansDead, CalledBackKnowsExpired, SaysExceeded
<1> QED
  BY <1>1, DeadlineInvariance, PTL

\* The memoised signal is that of the memoised promise.
THEOREM SignalOfCurrentPromise == Spec => []SignalFollowsPromise
<1>1. DeadlineInv => SignalFollowsPromise
  BY DEF DeadlineInv
<1> QED
  BY <1>1, DeadlineInvariance, PTL

\* isExceeded's answer is final.
THEOREM VerdictNeverReverts == Spec => VerdictIsFinal
<1>1. DeadlineInv /\ [Next]_vars => [SaysExceeded => SaysExceeded']_vars
  <2> SUFFICES ASSUME DeadlineInv, Next, SaysExceeded PROVE SaysExceeded'
    OBVIOUS
  <2> USE DEF DeadlineInv, TypeOK, SaysExceeded, Expired
  <2>1. ASSUME NEW r \in Regs, Register(r) PROVE SaysExceeded'
    BY <2>1 DEF Register, RegisterExpired, RegisterTimer, ClearSeesEveryTimer
  <2> QED
    BY <2>1, DeadlineAssumption
    DEF Next, OnExceeded, Cleanup, Exceeded, Signal, SignalOfPromise,
        SignalOfNewPromise, ExceededError, IsExceeded, Clear, RunTick,
        FireTimer, TimePasses, Regs
<1> QED
  BY <1>1, DeadlineInvariance, PTL DEF Spec, VerdictIsFinal

\* No callback runs before the cutoff, up to the timers' skew, as long as the
\* delay fits in a Node timer.
THEOREM CallbacksAreNeverEarly ==
  ASSUME Cutoff <= MaxDelay
  PROVE  Spec => NeverEarly
<1> DEFINE OnTime == \A r \in Regs : Notified(r) => clock + Skew >= Cutoff
<1>1. DeadlineInv /\ [Next]_vars => [OnTime]_vars
  <2> SUFFICES ASSUME DeadlineInv, Next, NEW r \in Regs, Notified(r)
               PROVE  clock + Skew >= Cutoff
    OBVIOUS
  <2> USE DEF DeadlineInv, TypeOK, Notified
  <2>1. RunTick(r) \/ FireTimer(r)
    BY DEF Next, OnExceeded, Cleanup, Exceeded, Signal, SignalOfPromise,
           SignalOfNewPromise, Register, RegisterExpired, RegisterTimer,
           ExceededError, IsExceeded, Clear, RunTick, FireTimer, TimePasses,
           Regs
  <2>2. CASE RunTick(r)
    BY <2>2, DeadlineAssumption DEF RunTick, TickedMeansExpired, Expired
  <2>3. CASE FireTimer(r)
    BY <2>3, DeadlineAssumption DEF FireTimer, DueAfterCutoff
  <2> QED
    BY <2>1, <2>2, <2>3
<1> QED
  BY <1>1, DeadlineInvariance, PTL DEF Spec, NeverEarly

-----------------------------------------------------------------------------
(* Resilient *)

Errors == {"error", "foreign", "abandoned", "deadline", "aborted"}

TypeInv ==
  /\ retries \in 0 .. MaxRetries
  /\ deadline \in {"distant", "ahead", "passed"}
  /\ aborted \in BOOLEAN /\ abortTick \in BOOLEAN
  /\ outer \in {"absent", "pending", "running", "won", "aborted", "overtaken"}
  /\ attempt \in 0 .. MaxRetries + 1 /\ attemptRace \in BOOLEAN /\ failed \in BOOLEAN
  /\ races \in [Seqnos -> {"none", "running", "won", "aborted", "overtaken"}]
  /\ racers \in [Seqnos -> {"none", "running"} \cup Outcomes]
  /\ loop \in {"idle", "waiting", "resolved", "failed", "rejected", "backoff", "done"}
  /\ cause \in {"none", "coerced", "assertion"} \cup Errors
  /\ result \in {"unset", "pending", "value", "none", "assertion"} \cup Errors
  /\ winner \in 0 .. MaxRetries + 1

\* Where the retry loop is tells what the run has come to.
LoopInv ==
  /\ loop = "idle" <=> result = "unset"
  /\ loop = "idle" => attempt = 0 /\ ~attemptRace /\ outer \in {"absent", "pending"}
  /\ loop # "idle" => attempt # 0
  /\ loop = "backoff" => ~attemptRace /\ attempt <= retries
  /\ result = "pending" => outer = "running" \/ (outer = "absent" /\ loop = "waiting")

\* Every attempt which is over, and only those, was announced; the last as
\* well once it is to be repeated, which it is not after the loss.
RetriedInv ==
  /\ loop \in {"idle", "waiting", "resolved"} => retried = 1 .. attempt - 1
  /\ loop = "failed" => retried = 1 .. attempt - 1 \/ OuterLost
  /\ loop = "backoff" => retried = 1 .. attempt

\* The value which p-retry holds is that of the last attempt.
ValueInv ==
  /\ loop = "resolved" => races[attempt] = "won" /\ racers[attempt] = "value"
  /\ winner # 0 => loop = "done"

ResilientInv ==
  /\ TypeInv /\ LoopInv /\ RetriedInv /\ ValueInv
  /\ OneAttemptAtATime /\ ValueOfLastAttempt /\ AbortEndsRun

LEMMA InitResilientInv == ResilientInit => ResilientInv
<1> SUFFICES ASSUME ResilientInit
             PROVE  ResilientInv
  OBVIOUS
<1> USE ResilientAssumption
    DEF ResilientInit, Configured
<1>1. TypeInv
  <2>1. /\ races \in [Seqnos -> {"none", "running", "won", "aborted", "overtaken"}]
        /\ racers \in [Seqnos -> {"none", "running"} \cup Outcomes]
    OBVIOUS
  <2>2. attempt \in 0 .. MaxRetries + 1 /\ winner \in 0 .. MaxRetries + 1
    OBVIOUS
  <2>3. outer \in {"absent", "pending"}
    OBVIOUS
  <2> QED
    BY <2>1, <2>2, <2>3 DEF TypeInv, Errors
<1>2. LoopInv /\ ValueInv
  BY DEF LoopInv, ValueInv
<1>3. RetriedInv
  BY DEF RetriedInv
<1>4. OneAttemptAtATime /\ ValueOfLastAttempt
  BY DEF OneAttemptAtATime, ValueOfLastAttempt, Running
<1>5. AbortEndsRun
  BY DEF AbortEndsRun
<1> QED
  BY <1>1, <1>2, <1>3, <1>4, <1>5 DEF ResilientInv

-----------------------------------------------------------------------------
\* A race may only start where none is set.
LEMMA StartAttemptInv ==
  ASSUME ResilientInv, StartAttempt, loop \in {"idle", "backoff"},
         ~attemptRace, attempt <= retries, retried = 1 .. attempt,
         UNCHANGED <<optionVars, deadline, aborted, winner>>,
         abortTick' \in BOOLEAN,
         outer' \in {"absent", "pending", "running", "won", "aborted", "overtaken"},
         result' \in {"pending", "value", "none", "assertion"} \cup Errors,
         result' = "pending" => outer' \in {"absent", "running"},
         AbortEndsRun'
  PROVE  ResilientInv'
<1> USE ResilientAssumption DEF ResilientInv, StartAttempt, optionVars
<1>1. /\ attempt' = attempt + 1 /\ attempt' \in Seqnos
      /\ loop' = "waiting" /\ retried' = retried
      /\ races' = [races EXCEPT ![attempt'] = "running"]
      /\ racers' = [racers EXCEPT ![attempt'] = "running"]
  BY DEF TypeInv, Seqnos
<1>2. TypeInv'
  BY <1>1 DEF TypeInv, Seqnos, Outcomes, Errors
<1>3. LoopInv' /\ ValueInv'
  BY <1>1 DEF LoopInv, ValueInv, TypeInv, Errors
<1>4. RetriedInv'
  BY <1>1 DEF RetriedInv, TypeInv
<1>5. OneAttemptAtATime'
  <2>1. \A n \in Seqnos : ~Running(n)
    BY DEF OneAttemptAtATime, LoopInv
  <2> QED
    BY <1>1, <2>1 DEF OneAttemptAtATime, Running, TypeInv
<1>6. ValueOfLastAttempt'
  BY DEF ValueInv, ValueOfLastAttempt
<1> QED
  BY <1>2, <1>3, <1>4, <1>5, <1>6

LEMMA RunIInv ==
  ASSUME ResilientInv, Run
  PROVE  ResilientInv'
<1> USE DEF ResilientInv
<1>1. loop = "idle" /\ attempt = 0 /\ ~attemptRace /\ outer \in {"absent", "pending"}
  BY DEF Run, LoopInv
<1>2. attempt <= retries
  BY <1>1, ResilientAssumption DEF TypeInv
<1>3. retried = 1 .. attempt
  BY <1>1 DEF RetriedInv
<1>4. abortTick' \in BOOLEAN
  BY DEF Run, TypeInv
<1>5. outer' \in {"absent", "running"} /\ result' = "pending"
  BY DEF Run
<1>6. AbortEndsRun'
  BY DEF Run, AbortEndsRun
<1>7. StartAttempt /\ UNCHANGED <<optionVars, deadline, aborted, winner>>
  BY DEF Run
<1> QED
  BY <1>1, <1>2, <1>3, <1>4, <1>5, <1>6, <1>7, StartAttemptInv

LEMMA BackoffEndsIInv ==
  ASSUME ResilientInv, BackoffEnds
  PROVE  ResilientInv'
<1> USE DEF ResilientInv
<1>1. CASE OuterLost
  <2> USE DEF BackoffEnds, attemptVars, raceVars, optionVars, signalVars, resultVars
  <2>1. TypeInv'
    BY <1>1 DEF TypeInv, LossError, Errors
  <2>2. LoopInv' /\ RetriedInv' /\ ValueInv'
    BY <1>1 DEF LoopInv, RetriedInv, ValueInv, OuterLost
  <2>3. OneAttemptAtATime' /\ ValueOfLastAttempt'
    BY <1>1 DEF OneAttemptAtATime, ValueOfLastAttempt, ValueInv, Running
  <2>4. AbortEndsRun'
    BY <1>1 DEF AbortEndsRun, Settled
  <2> QED
    BY <2>1, <2>2, <2>3, <2>4
<1>2. CASE ~OuterLost
  <2>1. StartAttempt /\ UNCHANGED <<optionVars, deadline, signalVars, resultVars>>
    BY <1>2 DEF BackoffEnds
  <2>2. loop = "backoff" /\ ~attemptRace /\ attempt <= retries /\ retried = 1 .. attempt
    BY DEF BackoffEnds, LoopInv, RetriedInv
  <2>3. result # "unset" /\ (result = "pending" => outer = "running")
    BY <2>2 DEF LoopInv
  <2>4. AbortEndsRun'
    BY <2>1 DEF AbortEndsRun, Settled, signalVars, resultVars
  <2> QED
    BY <2>1, <2>2, <2>3, <2>4, StartAttemptInv
       DEF TypeInv, signalVars, resultVars, optionVars
<1> QED
  BY <1>1, <1>2

-----------------------------------------------------------------------------
\* The last attempt's race ends, won by a value or with an error.
LEMMA AttemptEndsIInv ==
  ASSUME ResilientInv, NEW n \in Seqnos, Running(n),
         NEW s \in {"won", "overtaken"}, NEW e \in {"none"} \cup Errors,
         AttemptEnds(s, e),
         racers' \in [Seqnos -> {"none", "running"} \cup Outcomes],
         e = "none" => s = "won" /\ racers'[n] = "value",
         UNCHANGED <<optionVars, deadline, signalVars, attemptVars, outer>>
  PROVE  ResilientInv'
<1> USE DEF ResilientInv, optionVars, signalVars, attemptVars
<1>1. /\ n = attempt /\ loop = "waiting" /\ retried = 1 .. attempt - 1
      /\ winner = 0 /\ result # "unset" /\ races' = [races EXCEPT ![n] = s]
      /\ retried' = retried
  BY DEF OneAttemptAtATime, RetriedInv, ValueInv, LoopInv, AttemptEnds
<1>2. \A m \in Seqnos : ~Running(m)'
  BY <1>1 DEF OneAttemptAtATime, Running, TypeInv
<1>3. CASE outer = "absent"
  <2>1. /\ loop' = "done" /\ cause' = e
        /\ result' = IF e = "none" THEN "value" ELSE e
        /\ winner' = IF e = "none" THEN attempt ELSE 0
    BY <1>3 DEF AttemptEnds
  <2>2. TypeInv'
    BY <1>1, <2>1 DEF TypeInv, Errors
  <2>3. LoopInv' /\ RetriedInv' /\ ValueInv'
    BY <1>1, <2>1 DEF LoopInv, RetriedInv, ValueInv, Errors
  <2>4. OneAttemptAtATime' /\ ValueOfLastAttempt'
    BY <1>1, <1>2, <2>1 DEF OneAttemptAtATime, ValueOfLastAttempt, TypeInv
  <2>5. AbortEndsRun'
    BY <2>1 DEF AbortEndsRun, Settled, Errors
  <2> QED
    BY <2>2, <2>3, <2>4, <2>5
<1>4. CASE outer # "absent"
  <2>1. /\ loop' = IF e = "none" THEN "resolved" ELSE "failed"
        /\ cause' = Coerced(e) /\ UNCHANGED <<result, winner>>
    BY <1>4 DEF AttemptEnds
  <2>2. TypeInv'
    BY <1>1, <2>1 DEF TypeInv, Errors, Coerced
  <2>3. LoopInv'
    BY <1>1, <1>4, <2>1 DEF LoopInv
  <2>4. RetriedInv' /\ ValueInv'
    BY <1>1, <2>1 DEF RetriedInv, ValueInv, TypeInv
  <2>5. OneAttemptAtATime' /\ ValueOfLastAttempt'
    BY <1>1, <1>2, <2>1 DEF OneAttemptAtATime, ValueOfLastAttempt
  <2>6. AbortEndsRun'
    BY <2>1 DEF AbortEndsRun, Settled
  <2> QED
    BY <2>2, <2>3, <2>4, <2>5, <2>6
<1> QED
  BY <1>3, <1>4

LEMMA AttemptSettlesIInv ==
  ASSUME ResilientInv, NEW n \in Seqnos, NEW out \in Outcomes, AttemptSettles(n, out)
  PROVE  ResilientInv'
<1>1. racers' = [racers EXCEPT ![n] = out]
  BY DEF AttemptSettles
<1>2. racers' \in [Seqnos -> {"none", "running"} \cup Outcomes] /\ racers'[n] = out
  BY <1>1 DEF ResilientInv, TypeInv
<1>3. CASE out = "value"
  <2>1. AttemptEnds("won", "none")
    BY <1>3 DEF AttemptSettles
  <2> QED
    BY <1>2, <1>3, <2>1, AttemptEndsIInv DEF AttemptSettles
<1>4. CASE out # "value"
  <2>1. AttemptEnds("won", out) /\ out \in Errors
    BY <1>4 DEF AttemptSettles, Outcomes, Errors
  <2> QED
    BY <1>2, <2>1, AttemptEndsIInv DEF AttemptSettles, Errors
<1> QED
  BY <1>3, <1>4

LEMMA AttemptOvertakenIInv ==
  ASSUME ResilientInv, NEW n \in Seqnos, AttemptOvertaken(n)
  PROVE  ResilientInv'
<1>1. racers' = racers /\ racers \in [Seqnos -> {"none", "running"} \cup Outcomes]
  BY DEF AttemptOvertaken, ResilientInv, TypeInv
<1> QED
  BY <1>1, AttemptEndsIInv DEF AttemptOvertaken, Errors

LEMMA AttemptLateIInv ==
  ASSUME ResilientInv, NEW n \in Seqnos, NEW out \in Outcomes, AttemptLate(n, out)
  PROVE  ResilientInv'
<1> USE DEF ResilientInv, AttemptLate, optionVars, signalVars, attemptVars, loopVars, resultVars
<1>1. TypeInv'
  BY DEF TypeInv
<1>2. LoopInv' /\ RetriedInv'
  BY DEF LoopInv, RetriedInv, OuterLost
<1>3. ValueInv'
  <2>1. \A m \in Seqnos : racers[m] = "value" => racers'[m] = "value"
    BY DEF TypeInv
  <2>2. loop = "resolved" => attempt \in Seqnos
    BY ResilientAssumption DEF LoopInv, TypeInv, Seqnos
  <2> QED
    BY <2>1, <2>2 DEF ValueInv
<1>4. OneAttemptAtATime'
  BY DEF OneAttemptAtATime, Running
<1>5. ValueOfLastAttempt'
  <2>1. winner # 0 => n # winner
    BY DEF ValueOfLastAttempt
  <2> QED
    BY <2>1 DEF ValueOfLastAttempt, TypeInv
<1>6. AbortEndsRun'
  BY DEF AbortEndsRun, Settled
<1> QED
  BY <1>1, <1>2, <1>3, <1>4, <1>5, <1>6

-----------------------------------------------------------------------------
LEMMA RetryIInv ==
  ASSUME ResilientInv, Retry
  PROVE  ResilientInv'
<1> USE DEF ResilientInv, Retry, MayRetry, optionVars, signalVars, raceVars, resultVars
<1>1. TypeInv'
  BY DEF TypeInv
<1>2. LoopInv'
  BY DEF LoopInv
<1>3. retried' = 1 .. attempt'
  <2>1. retried = 1 .. attempt - 1 /\ attempt \in Nat /\ attempt # 0
    BY ResilientAssumption DEF RetriedInv, LoopInv, TypeInv
  <2> QED
    BY <2>1
<1>4. RetriedInv' /\ ValueInv'
  BY <1>3 DEF RetriedInv, ValueInv
<1>5. OneAttemptAtATime' /\ ValueOfLastAttempt'
  BY DEF OneAttemptAtATime, ValueOfLastAttempt, ValueInv, Running
<1>6. AbortEndsRun'
  BY DEF AbortEndsRun, Settled
<1> QED
  BY <1>1, <1>2, <1>4, <1>5, <1>6

LEMMA GiveUpIInv ==
  ASSUME ResilientInv, GiveUp
  PROVE  ResilientInv'
<1> USE DEF ResilientInv, GiveUp, optionVars, signalVars, attemptVars, raceVars, resultVars
<1>1. TypeInv'
  BY DEF TypeInv
<1>2. LoopInv' /\ RetriedInv' /\ ValueInv'
  BY DEF LoopInv, RetriedInv, ValueInv
<1>3. OneAttemptAtATime' /\ ValueOfLastAttempt'
  BY DEF OneAttemptAtATime, ValueOfLastAttempt, Running
<1>4. AbortEndsRun'
  BY DEF AbortEndsRun, Settled
<1> QED
  BY <1>1, <1>2, <1>3, <1>4

LEMMA ConcludeIInv ==
  ASSUME ResilientInv, Conclude
  PROVE  ResilientInv'
<1> USE DEF ResilientInv, Conclude, optionVars, signalVars, attemptVars, raceVars
<1>1. UNCHANGED resultVars \/ result' = "value" \/ result' = Original(cause)
  BY DEF resultVars
<1>2. TypeInv'
  <2>1. Original(cause) \in {"none", "assertion"} \cup Errors
    BY DEF TypeInv, Original, Errors
  <2>2. result' \in {"unset", "pending", "value", "none", "assertion"} \cup Errors
    BY <1>1, <2>1 DEF TypeInv, resultVars
  <2>3. /\ outer' \in {"absent", "pending", "running", "won", "aborted", "overtaken"}
        /\ winner' \in 0 .. MaxRetries + 1
    BY ResilientAssumption DEF TypeInv, resultVars
  <2> QED
    BY <2>2, <2>3 DEF TypeInv
<1>3. LoopInv'
  <2>1. loop # "waiting" /\ loop # "idle" /\ loop' = "done"
    OBVIOUS
  <2>2. CASE OuterLost
    BY <2>1, <2>2 DEF LoopInv, resultVars, OuterLost
  <2>3. CASE ~OuterLost
    <3>1. result' # "pending" /\ result' # "unset"
      BY <2>3 DEF Original, TypeInv, Errors
    <3> QED
      BY <2>1, <3>1 DEF LoopInv
  <2> QED
    BY <2>2, <2>3
<1>4. RetriedInv' /\ ValueInv'
  BY DEF RetriedInv, ValueInv
<1>5. OneAttemptAtATime'
  BY DEF OneAttemptAtATime, Running
<1>6. ValueOfLastAttempt'
  BY DEF ValueOfLastAttempt, ValueInv, RetriedInv, resultVars
<1>7. AbortEndsRun'
  BY DEF AbortEndsRun, Settled, resultVars, Original, TypeInv, Errors
<1> QED
  BY <1>2, <1>3, <1>4, <1>5, <1>6, <1>7

LEMMA OuterOvertakenIInv ==
  ASSUME ResilientInv, OuterOvertaken
  PROVE  ResilientInv'
<1> USE DEF ResilientInv, OuterOvertaken, optionVars, signalVars, attemptVars, raceVars, loopVars
<1>1. TypeInv'
  BY DEF TypeInv, Errors
<1>2. LoopInv'
  BY DEF LoopInv
<1>3. RetriedInv' /\ ValueInv'
  BY DEF RetriedInv, ValueInv, OuterLost
<1>4. OneAttemptAtATime' /\ ValueOfLastAttempt'
  BY DEF OneAttemptAtATime, ValueOfLastAttempt, Running
<1>5. AbortEndsRun'
  BY DEF AbortEndsRun, Settled
<1> QED
  BY <1>1, <1>2, <1>3, <1>4, <1>5

\* The outer race and the last attempt's are aborted together.
LEMMA RacesAbortIInv ==
  ASSUME ResilientInv, RacesAbort, aborted' \in BOOLEAN, abortTick' \in BOOLEAN
  PROVE  ResilientInv'
<1> DEFINE current == attempt > 0 /\ loop = "waiting"
<1> USE DEF ResilientInv, optionVars, attemptVars
<1>1. /\ outer' = IF outer = "running" THEN "aborted" ELSE outer
      /\ races' = IF current THEN [races EXCEPT ![attempt] = "aborted"] ELSE races
      /\ IF outer = "absent" /\ current
         THEN loop' = "done" /\ cause' = "aborted"
         ELSE IF current THEN loop' = "failed" /\ cause' = "aborted"
         ELSE UNCHANGED <<loop, cause>>
      /\ result' = IF outer = "running" \/ (outer = "absent" /\ current)
                   THEN "aborted" ELSE result
      /\ UNCHANGED <<retries, predicate, capped, deadline, attempt, attemptRace,
                     failed, racers, late, retried, winner>>
  BY DEF RacesAbort
<1>2. TypeInv'
  BY <1>1, ZenonT(60) DEF TypeInv, Errors
<1>3. LoopInv'
  BY <1>1, ResilientAssumption DEF LoopInv, TypeInv
<1>4. RetriedInv'
  BY <1>1 DEF RetriedInv, OuterLost
<1>5. ValueInv'
  BY <1>1 DEF ValueInv
<1>6. OneAttemptAtATime'
  BY <1>1, ResilientAssumption DEF OneAttemptAtATime, Running, TypeInv, LoopInv, Seqnos
<1>7. ValueOfLastAttempt'
  BY <1>1 DEF ValueOfLastAttempt, ValueInv
<1>8. AbortEndsRun'
  BY <1>1, ResilientAssumption DEF AbortEndsRun, Settled, LoopInv, TypeInv
<1> QED
  BY <1>2, <1>3, <1>4, <1>5, <1>6, <1>7, <1>8

LEMMA DeadlinePassesIInv ==
  ASSUME ResilientInv, DeadlinePasses
  PROVE  ResilientInv'
<1> USE DEF ResilientInv, DeadlinePasses, optionVars, signalVars, attemptVars, raceVars,
            loopVars, resultVars
<1>1. TypeInv' /\ LoopInv' /\ RetriedInv' /\ ValueInv'
  BY DEF TypeInv, LoopInv, RetriedInv, ValueInv, OuterLost
<1>2. OneAttemptAtATime' /\ ValueOfLastAttempt' /\ AbortEndsRun'
  BY DEF OneAttemptAtATime, ValueOfLastAttempt, Running, AbortEndsRun
<1> QED
  BY <1>1, <1>2

LEMMA NextResilientInv == ResilientInv /\ [ResilientNext]_resilientVars => ResilientInv'
<1> SUFFICES ASSUME ResilientInv, [ResilientNext]_resilientVars
             PROVE  ResilientInv'
  OBVIOUS
<1>1. CASE Run
  BY <1>1, RunIInv
<1>2. ASSUME NEW n \in Seqnos, NEW out \in Outcomes,
             AttemptSettles(n, out) \/ AttemptLate(n, out)
      PROVE  ResilientInv'
  BY <1>2, AttemptSettlesIInv, AttemptLateIInv
<1>3. ASSUME NEW n \in Seqnos, AttemptOvertaken(n)
      PROVE  ResilientInv'
  BY <1>3, AttemptOvertakenIInv
<1>4. CASE Retry \/ GiveUp \/ BackoffEnds
  BY <1>4, RetryIInv, GiveUpIInv, BackoffEndsIInv
<1>5. CASE Conclude \/ OuterOvertaken \/ DeadlinePasses
  BY <1>5, ConcludeIInv, OuterOvertakenIInv, DeadlinePassesIInv
<1>6. CASE Abort \/ AbortTick
  <2>1. RacesAbort /\ aborted' \in BOOLEAN /\ abortTick' \in BOOLEAN
    BY <1>6 DEF Abort, AbortTick, ResilientInv, TypeInv
  <2> QED
    BY <2>1, RacesAbortIInv
<1>7. CASE UNCHANGED resilientVars
  BY <1>7 DEF resilientVars, optionVars, signalVars, attemptVars, raceVars, loopVars,
       resultVars, ResilientInv, TypeInv, LoopInv, RetriedInv, ValueInv, OuterLost,
       OneAttemptAtATime, ValueOfLastAttempt, Running, AbortEndsRun, Settled
<1> QED
  BY <1>1, <1>2, <1>3, <1>4, <1>5, <1>6, <1>7 DEF ResilientNext

\* The inductive invariant holds.
THEOREM ResilientInvariance == ResilientSpec => []ResilientInv
  BY InitResilientInv, NextResilientInv, PTL DEF ResilientSpec

\* Attempts follow one another, and a value is that of the last one, after as
\* many announced retries (resilient.ts:329, 366).
THEOREM AttemptsFollowOneAnother == ResilientSpec => []AttemptsAreSequential
<1>1. ResilientInv => AttemptsAreSequential
  BY DEF ResilientInv, AttemptsAreSequential
<1> QED
  BY <1>1, ResilientInvariance, PTL

LEMMA LostStays ==
  ASSUME ResilientInv, [ResilientNext]_resilientVars, OuterLost
  PROVE  UNCHANGED <<attempt, retried>>
<1> USE DEF attemptVars, loopVars
<1>1. CASE Run
  BY <1>1 DEF Run, ResilientInv, LoopInv, OuterLost
<1>2. ASSUME NEW n \in Seqnos, NEW out \in Outcomes,
             AttemptSettles(n, out) \/ AttemptLate(n, out)
      PROVE  UNCHANGED <<attempt, retried>>
  BY <1>2 DEF AttemptSettles, AttemptLate, AttemptEnds
<1>3. ASSUME NEW n \in Seqnos, AttemptOvertaken(n)
      PROVE  UNCHANGED <<attempt, retried>>
  BY <1>3 DEF AttemptOvertaken, AttemptEnds
<1>4. CASE Retry \/ GiveUp \/ BackoffEnds
  BY <1>4 DEF Retry, MayRetry, GiveUp, BackoffEnds
<1>5. CASE Conclude \/ OuterOvertaken \/ DeadlinePasses
  BY <1>5 DEF Conclude, OuterOvertaken, DeadlinePasses
<1>6. CASE Abort \/ AbortTick
  BY <1>6 DEF Abort, AbortTick, RacesAbort
<1>7. CASE UNCHANGED resilientVars
  BY <1>7 DEF resilientVars
<1> QED
  BY <1>1, <1>2, <1>3, <1>4, <1>5, <1>6, <1>7 DEF ResilientNext

\* A run which was lost is over: neither a backoff nor an attempt's failure
\* starts another attempt, and an abort settles its promise (resilient.ts:366).
THEOREM LossEndsTheRun == ResilientSpec => LossEndsRun
<1>1. ResilientInv => AbortEndsRun
  BY DEF ResilientInv
<1>2. ResilientInv /\ [ResilientNext]_resilientVars
        => [OuterLost => UNCHANGED <<attempt, retried>>]_resilientVars
  BY LostStays
<1> QED
  BY <1>1, <1>2, ResilientInvariance, PTL DEF ResilientSpec, LossEndsRun, NothingNewAfterLoss
=============================================================================
