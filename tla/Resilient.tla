------------------------------ MODULE Resilient ------------------------------
(***************************************************************************)
(* A resilient run (resilient.ts): attempts of a client function, each a   *)
(* race with the attempt's deadline and the run's signals, retried with a  *)
(* backoff by p-retry inside of an outer race with the run's own deadline  *)
(* and the same signals.  Races keep the contract of RaceContract.  When   *)
(* no retry is asked for there is no outer race and the only attempt's     *)
(* race is the run.                                                        *)
(***************************************************************************)
EXTENDS Naturals

CONSTANT MaxRetries  \* bound on retryCount

Seqnos == 1 .. MaxRetries + 1

ASSUME ResilientAssumption == MaxRetries \in Nat

VARIABLES
  retries,     \* retryCount
  predicate,   \* was a retry predicate "given", or "none"?
  capped,      \* is the attempt timeout finite?
  deadline,    \* the run's deadline: "distant", "ahead" or "passed"
  aborted,     \* is a signal of the run aborted?
  abortTick,   \* do the races learn of it on the next tick?
  outer,       \* the outer race's status, "absent" without retries
  attempt,     \* sequence number of the last attempt
  attemptRace, \* is attemptRace set?
  races,       \* the status of each attempt's race
  racers,      \* the outcome of each attempt's function
  loop,        \* what p-retry is doing
  cause,       \* the error it is holding
  result,      \* what the run's promise settled with
  winner,      \* history: the attempt whose value was the result
  retried,     \* the attempts announced by a retry event
  late,        \* the late event of each attempt
  failed       \* did the assertion on attemptRace fail?

optionVars == <<retries, predicate, capped>>
signalVars == <<aborted, abortTick>>
attemptVars == <<attempt, attemptRace, failed>>
raceVars == <<races, racers, late>>
loopVars == <<loop, cause, retried>>
resultVars == <<outer, result, winner>>
resilientVars == <<optionVars, deadline, signalVars, attemptVars, raceVars, loopVars,
          resultVars>>

\* What resilient() makes of its options; the deadline may pass before the run.
Configured ==
  /\ retries \in 0 .. MaxRetries /\ capped \in BOOLEAN
  /\ deadline \in {"distant", "ahead", "passed"}
  /\ outer = IF retries = 0 THEN "absent" ELSE "pending"

\* retrying and retryingCodes.
Predicated == predicate \in {"none", "given"}

ResilientInit ==
  /\ Configured /\ Predicated
  /\ aborted = FALSE /\ abortTick = FALSE
  /\ attempt = 0 /\ attemptRace = FALSE /\ failed = FALSE
  /\ races = [n \in Seqnos |-> "none"] /\ racers = [n \in Seqnos |-> "none"]
  /\ late = [n \in Seqnos |-> "none"]
  /\ loop = "idle" /\ cause = "none" /\ retried = {}
  /\ result = "unset" /\ winner = 0

OuterLost == outer \in {"aborted", "overtaken"}
LossError == IF outer = "aborted" THEN "aborted" ELSE "deadline"

\* p-retry takes nothing but Error instances: others are wrapped on the way in.
Coerced(err) == IF err = "foreign" THEN "coerced" ELSE err
Original(err) == IF err = "coerced" THEN "foreign" ELSE err

-----------------------------------------------------------------------------
(* Attempts *)

StartAttempt ==
  /\ attempt' = attempt + 1
  /\ IF attemptRace
     THEN failed' = TRUE /\ loop' = "failed" /\ cause' = "assertion"
          /\ UNCHANGED <<races, racers, attemptRace>>
     ELSE /\ attemptRace' = TRUE
          /\ races' = [races EXCEPT ![attempt'] = "running"]
          /\ racers' = [racers EXCEPT ![attempt'] = "running"]
          /\ loop' = "waiting" /\ cause' = "none"
          /\ UNCHANGED failed
  /\ UNCHANGED <<late, retried>>

Run ==
  /\ result = "unset"
  /\ result' = "pending"
  /\ outer' = IF retries = 0 THEN "absent" ELSE "running"
  /\ abortTick' = (aborted /\ deadline # "passed")
  /\ StartAttempt
  /\ UNCHANGED <<optionVars, deadline, aborted, winner>>

Running(n) == races[n] = "running"

\* The current attempt's race settles: its promise is the run's own, or
\* p-retry's.
AttemptEnds(status, err) ==
  /\ races' = [races EXCEPT ![attempt] = status]
  /\ IF outer = "absent"
     THEN /\ loop' = "done" /\ cause' = err
          /\ result' = IF err = "none" THEN "value" ELSE err
          /\ winner' = IF err = "none" THEN attempt ELSE 0
     ELSE /\ loop' = IF err = "none" THEN "resolved" ELSE "failed"
          /\ cause' = Coerced(err)
          /\ UNCHANGED <<result, winner>>
  /\ UNCHANGED retried

AttemptSettles(n, outcome) ==
  /\ Running(n)
  /\ racers' = [racers EXCEPT ![n] = outcome]
  /\ AttemptEnds("won", IF outcome = "value" THEN "none" ELSE outcome)
  /\ UNCHANGED <<optionVars, deadline, signalVars, attemptVars, late, outer>>

\* Mutant: the attempt timeout is not used.
OvertakenByRunOnly(n) ==
  /\ Running(n) /\ deadline = "passed"
  /\ AttemptEnds("overtaken", "deadline")
  /\ UNCHANGED <<optionVars, deadline, signalVars, attemptVars, racers, late, outer>>

AttemptOvertaken(n) ==
  /\ Running(n) /\ (capped \/ deadline = "passed")
  /\ AttemptEnds("overtaken", "deadline")
  /\ UNCHANGED <<optionVars, deadline, signalVars, attemptVars, racers, late, outer>>

\* A function which settles after its race was lost: its race says so, unless
\* it says itself that it was abandoned.
AttemptLate(n, outcome) ==
  /\ racers[n] = "running" /\ races[n] \in {"aborted", "overtaken"}
  /\ racers' = [racers EXCEPT ![n] = outcome]
  /\ late' = [late EXCEPT ![n] = IF outcome = "abandoned" THEN "none" ELSE outcome]
  /\ UNCHANGED <<optionVars, deadline, signalVars, attemptVars, races, loopVars,
                 resultVars>>

-----------------------------------------------------------------------------
(* The retry loop *)

\* retriesLeft, and the predicate's answer to the original error.
MayRetry == ~OuterLost /\ attempt <= retries

\* Mutants: the outer race's state or attemptRace is forgotten.
RetryAfterLoss ==
  /\ loop = "failed" /\ attempt <= retries
  /\ loop' = "backoff" /\ cause' = "none"
  /\ attemptRace' = FALSE /\ retried' = retried \cup {attempt}
  /\ UNCHANGED <<optionVars, deadline, signalVars, attempt, failed, raceVars,
                 resultVars>>
RetryKeepsRace ==
  /\ loop = "failed" /\ MayRetry
  /\ loop' = "backoff" /\ cause' = "none"
  /\ retried' = retried \cup {attempt}
  /\ UNCHANGED <<optionVars, deadline, signalVars, attemptVars, raceVars,
                 resultVars>>

Retry ==
  /\ loop = "failed" /\ MayRetry
  /\ loop' = "backoff" /\ cause' = "none"
  /\ attemptRace' = FALSE
  /\ retried' = retried \cup {attempt}
  /\ UNCHANGED <<optionVars, deadline, signalVars, attempt, failed, raceVars,
                 resultVars>>

GiveUp ==
  /\ loop = "failed" /\ (~MayRetry \/ predicate = "given")
  /\ loop' = "rejected"
  /\ UNCHANGED <<optionVars, deadline, signalVars, attemptVars, raceVars, cause,
                 retried, resultVars>>

\* The backoff timer.  Once the outer race is lost its error stands for the
\* attempt.
BackoffEnds ==
  /\ loop = "backoff"
  /\ IF OuterLost
     THEN /\ loop' = "failed" /\ cause' = LossError
          /\ UNCHANGED <<attemptVars, raceVars, retried>>
     ELSE StartAttempt
  /\ UNCHANGED <<optionVars, deadline, signalVars, resultVars>>

-----------------------------------------------------------------------------
(* The outer race *)

Conclude ==
  /\ loop \in {"resolved", "rejected"}
  /\ loop' = "done"
  /\ IF OuterLost
     THEN UNCHANGED resultVars
     ELSE /\ outer' = "won"
          /\ result' = IF loop = "resolved" THEN "value" ELSE Original(cause)
          /\ winner' = IF loop = "resolved" THEN attempt ELSE 0
  /\ UNCHANGED <<optionVars, deadline, signalVars, attemptVars, raceVars, cause,
                 retried>>

\* Timers and ticks wait for the promise jobs between an attempt's end and
\* p-retry's next await.
JobsDone == loop \notin {"resolved", "failed", "rejected"}

OuterOvertaken ==
  /\ outer = "running" /\ deadline = "passed" /\ JobsDone
  /\ outer' = "overtaken" /\ result' = "deadline"
  /\ UNCHANGED <<optionVars, deadline, signalVars, attemptVars, raceVars,
                 loopVars, winner>>

\* Mutant: the outer race is not given the run's signals.
RacesAbortAttemptOnly ==
  /\ IF loop = "waiting"
     THEN AttemptEnds("aborted", "aborted")
     ELSE UNCHANGED <<races, loopVars, result, winner>>
  /\ UNCHANGED <<optionVars, deadline, attemptVars, racers, late, outer>>

\* The signal's listeners run in the order they were added, the outer race's
\* first; so do the ticks of a signal which was aborted before the run.
RacesAbort ==
  LET current == attempt > 0 /\ loop = "waiting" IN
  /\ outer' = IF outer = "running" THEN "aborted" ELSE outer
  /\ races' = IF current THEN [races EXCEPT ![attempt] = "aborted"] ELSE races
  /\ IF outer = "absent" /\ current
     THEN loop' = "done" /\ cause' = "aborted"
     ELSE IF current THEN loop' = "failed" /\ cause' = "aborted"
     ELSE UNCHANGED <<loop, cause>>
  /\ result' = IF outer = "running" \/ (outer = "absent" /\ current)
               THEN "aborted" ELSE result
  /\ UNCHANGED <<optionVars, deadline, attemptVars, racers, late, retried, winner>>

Abort ==
  /\ ~aborted
  /\ aborted' = TRUE
  /\ RacesAbort
  /\ UNCHANGED abortTick

AbortTick ==
  /\ abortTick /\ JobsDone
  /\ abortTick' = FALSE
  /\ RacesAbort
  /\ UNCHANGED aborted

DeadlinePasses ==
  /\ deadline = "ahead"
  /\ deadline' = "passed"
  /\ UNCHANGED <<optionVars, signalVars, attemptVars, raceVars, loopVars,
                 resultVars>>

Outcomes == {"value", "error", "foreign", "abandoned"}

ResilientNext ==
  \/ Run
  \/ \E n \in Seqnos : \/ AttemptOvertaken(n)
                       \/ \E out \in Outcomes : AttemptSettles(n, out)
                                                \/ AttemptLate(n, out)
  \/ Retry \/ GiveUp \/ BackoffEnds
  \/ Conclude \/ OuterOvertaken
  \/ Abort \/ AbortTick
  \/ DeadlinePasses

ResilientSpec == ResilientInit /\ [][ResilientNext]_resilientVars

\* Promise jobs, ticks and timers run and time passes.  No attempt has to
\* settle and nobody has to abort.
ResilientFairness ==
  /\ \A n \in Seqnos : WF_resilientVars(AttemptOvertaken(n))
  /\ WF_resilientVars(Retry \/ GiveUp) /\ WF_resilientVars(BackoffEnds)
  /\ WF_resilientVars(Conclude) /\ WF_resilientVars(OuterOvertaken)
  /\ WF_resilientVars(AbortTick) /\ WF_resilientVars(DeadlinePasses)

FairResilientSpec == ResilientSpec /\ ResilientFairness

-----------------------------------------------------------------------------
Settled == result \notin {"unset", "pending"}

\* Attempts follow one another: a race runs only for the last attempt while
\* p-retry awaits it, so that the assertion on attemptRace never fails.
OneAttemptAtATime ==
  /\ ~failed
  /\ \A n \in Seqnos : Running(n) => n = attempt /\ loop = "waiting"

\* A value is that of the last attempt, and every attempt before it was
\* announced as retried.
ValueOfLastAttempt ==
  winner # 0 => /\ winner = attempt
                /\ races[winner] = "won" /\ racers[winner] = "value"
                /\ retried = 1 .. attempt - 1

\* However races and timers interleave, attempts are made one by one.
AttemptsAreSequential == OneAttemptAtATime /\ ValueOfLastAttempt

\* Once a signal has aborted the run is over, whatever is left to retry.
AbortEndsRun ==
  aborted /\ ~abortTick /\ deadline # "passed" /\ result # "unset" => Settled

\* After the outer race is lost nothing is retried and no attempt starts.
NothingNewAfterLoss ==
  [][OuterLost => UNCHANGED <<attempt, retried>>]_resilientVars

\* A run which was lost is over: its promise at once, its attempts as well.
LossEndsRun == []AbortEndsRun /\ NothingNewAfterLoss

\* A run whose deadline, or whose attempts' timeout, is finite settles even if
\* no attempt ever does.
RunSettles ==
  result = "pending" /\ (deadline # "distant" \/ capped) ~> Settled

-----------------------------------------------------------------------------
(* What the documentation says, refuted by the code. *)

\* "By default only attempt deadline exceeded errors are retried."
DefaultRetriesTimeouts ==
  predicate = "none" => \A n \in retried : races[n] = "overtaken"

\* lateAttemptValue is emitted "when an attempt succeeded after the attempt's
\* deadline (and was therefore discarded)": a value which came too late to be
\* the result was reported.
DiscardedValueIsReported ==
  \A n \in Seqnos :
    loop = "done" /\ result = "deadline" /\ racers[n] = "value" =>
      late[n] = "value"
=============================================================================
