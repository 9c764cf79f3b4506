-------------------------------- MODULE Race --------------------------------
(***************************************************************************)
(* One race of stl-resilience (deadlines/race.ts): a candidate promise     *)
(* against a deadline and abort signals, with its state object, its onLoss *)
(* callbacks, its late events and its span (SimpleRace, InstrumentedRace). *)
(*                                                                         *)
(* What decides a close race is the order in which Node runs callbacks.    *)
(* `turn` is the queue being run: a "macro" task (a timer, some I/O), the  *)
(* "ticks" queued with process.nextTick, or the "micro" jobs of settled    *)
(* promises.  Ticks run once the task is over, jobs once no tick is left;  *)
(* ticks queued by a job wait until no job is left.                        *)
(***************************************************************************)
CONSTANTS
  Signals,      \* abort signals the race may be given
  Callbacks,    \* callbacks for onLoss
  CallerTurns   \* the turns in which `run` is called

Turns == {"macro", "ticks", "micro"}

ASSUME RaceAssumption == CallerTurns \subseteq Turns

VARIABLES
  turn,
  called,     \* `run`: "no", in the candidate's synchronous "body", "returned"
  deadline,   \* "distant" if infinite, else "ahead" or "passed"
  timer,      \* the deadline's callback: "none", "armed", "ticked", "over"
  sigs,       \* the race's signals
  aborted,    \* those aborted
  listening,  \* those with an abort listener of the race
  abortTick,  \* is onAborted queued for the next tick?
  status,     \* RaceStatus
  ended,      \* is endedAt set?
  verdict,    \* the promise returned by run
  racer,      \* the candidate's outcome
  step,       \* the candidate's promise chain
  cbs,        \* the onLoss callbacks
  late,       \* the late event emitted
  span,       \* the status of the span, and the errors noted, when it ended
  reported,   \* has run noted its rejection on the span?
  failed,     \* the assertion which failed
  doomed      \* history: had the deadline passed when run was called?

nodeVars == <<turn, called>>
deadlineVars == <<deadline, timer>>
signalVars == <<sigs, aborted, listening, abortTick>>
stateVars == <<status, ended, verdict, cbs, failed>>
racerVars == <<racer, step, late>>
spanVars == <<span, reported>>
vars == <<nodeVars, deadlineVars, signalVars, stateVars, racerVars, spanVars,
          doomed>>

Init ==
  /\ turn = "macro" /\ called = "no"
  /\ deadline \in {"distant", "ahead", "passed"} /\ timer = "none"
  /\ sigs \in SUBSET Signals /\ aborted = {} /\ listening = {}
  /\ abortTick = FALSE
  /\ status = "pending" /\ ended = FALSE /\ verdict = "unset"
  /\ cbs = [cb \in Callbacks |-> "idle"]
  /\ racer = "none" /\ step = "running" /\ late = "none"
  /\ span = [open |-> TRUE, status |-> "unset", noted |-> {}]
  /\ reported = FALSE /\ failed = "none" /\ doomed = FALSE

Lost == status \in {"aborted", "overtaken"}

TickQueued ==
  timer = "ticked" \/ abortTick \/ \E cb \in Callbacks : cbs[cb] = "queued"

JobQueued ==
  \/ step \in {"finish", "cleanup", "conclude"}
  \/ verdict \in {"failure", "deadline", "aborted"} /\ ~reported

-----------------------------------------------------------------------------
(* Losing.  RealRaceState.lose, then the rejection of the race's promise,   *)
(* which has no effect on a promise already settled.                        *)

\* Mutant: the rejection is forgotten.
LoseSilently(as, err) ==
  /\ ended' = TRUE /\ status' = as /\ listening' = {}
  /\ UNCHANGED <<verdict, cbs, failed>>

Lose(as, err) ==
  /\ ended' = TRUE
  /\ status' = as
  /\ cbs' = [cb \in Callbacks |-> IF cbs[cb] = "waiting" THEN "told" ELSE cbs[cb]]
  /\ verdict' = IF verdict = "pending" THEN err ELSE verdict
  /\ listening' = {}
  /\ UNCHANGED failed

\* The assertions which start both handlers throw before any change.
Refuse(which) ==
  /\ failed' = which
  /\ UNCHANGED <<status, ended, verdict, cbs, listening>>

Overtake ==
  /\ \/ ~ended /\ Lose("overtaken", "deadline")
     \/ ended /\ Refuse("exceeded")
  /\ timer' = "over"
  /\ UNCHANGED <<deadline, sigs, aborted, abortTick, racerVars, spanVars,
                 nodeVars, doomed>>

\* Mutant: the deadline's callback is not cleaned up.
OnAbortedKeepsTimer ==
  /\ \/ ~ended /\ Lose("aborted", "aborted")
     \/ ended /\ Refuse("aborted")
  /\ UNCHANGED timer

OnAborted ==
  \/ /\ ~ended
     /\ Lose("aborted", "aborted")
     /\ timer' = IF timer = "armed" THEN "over" ELSE timer
  \/ /\ ended
     /\ Refuse("aborted")
     /\ UNCHANGED timer

-----------------------------------------------------------------------------
(* Starting.  The deadline is asked twice, when its callback is registered  *)
(* and before the signals are, and may pass in between.  Signals are taken  *)
(* in order up to the first aborted one.                                    *)

Listen ==
  IF deadline' = "passed" THEN UNCHANGED <<listening, abortTick>>
  ELSE IF aborted = {} THEN listening' = sigs /\ UNCHANGED abortTick
  ELSE listening' \in SUBSET (sigs \ aborted) /\ abortTick' = TRUE

Run ==
  /\ called = "no" /\ turn \in CallerTurns
  /\ called' = "body"
  /\ status' = "running" /\ verdict' = "pending"
  /\ doomed' = (deadline = "passed")
  /\ timer' = CASE deadline = "distant" -> "none"
                [] deadline = "ahead"   -> "armed"
                [] deadline = "passed"  -> "ticked"
  /\ \/ deadline' = deadline
     \/ deadline = "ahead" /\ deadline' = "passed"
  /\ Listen
  /\ UNCHANGED <<turn, sigs, aborted, ended, cbs, failed, racerVars, spanVars>>

\* The candidate returned its promise.
BodyReturns ==
  /\ called = "body"
  /\ called' = "returned"
  /\ UNCHANGED <<turn, deadlineVars, signalVars, stateVars, racerVars, spanVars,
                 doomed>>

-----------------------------------------------------------------------------
(* What other code does at any time: abort a signal, add a callback, or     *)
(* settle the candidate.                                                    *)

Abort(s) ==
  /\ s \in sigs \ aborted
  /\ aborted' = aborted \cup {s}
  /\ \/ s \in listening /\ OnAborted
     \/ s \notin listening /\ UNCHANGED <<listening, timer, stateVars>>
  /\ UNCHANGED <<nodeVars, deadline, sigs, abortTick, racerVars, spanVars, doomed>>

OnLoss(cb) ==
  /\ cbs[cb] = "idle"
  /\ cbs' = [cbs EXCEPT ![cb] = IF Lost THEN "queued" ELSE "waiting"]
  /\ UNCHANGED <<nodeVars, deadlineVars, signalVars, status, ended, verdict,
                 failed, racerVars, spanVars, doomed>>

RacerSettles ==
  /\ called = "returned" /\ step = "running"
  /\ racer' \in {"value", "failure", "abandoned"}
  /\ step' = "finish"
  /\ UNCHANGED <<nodeVars, deadlineVars, signalVars, stateVars, late, spanVars,
                 doomed>>

-----------------------------------------------------------------------------
(* Promise jobs: the candidate's own wrapper, which ends the span, then the *)
(* chain on its promise, and the rejection handler of InstrumentedRace.run. *)

\* A span which has ended ignores what it is told.
Note(err) == [span EXCEPT !.noted = IF span.open THEN @ \cup {err} ELSE @]
SetError(s) == [s EXCEPT !.status = IF s.open THEN "error" ELSE @]

Finish ==
  /\ turn = "micro" /\ step = "finish"
  /\ step' = "cleanup"
  /\ span' = [open   |-> FALSE,
              status |-> IF Lost THEN "error"
                         ELSE IF racer = "value" THEN "ok" ELSE span.status,
              noted  |-> IF racer = "value" THEN span.noted ELSE Note(racer).noted]
  /\ UNCHANGED <<nodeVars, deadlineVars, signalVars, stateVars, racer, late,
                 reported, doomed>>

Cleanup ==
  /\ turn = "micro" /\ step = "cleanup"
  /\ step' = "conclude"
  /\ timer' = IF timer = "armed" THEN "over" ELSE timer
  /\ listening' = {}
  /\ UNCHANGED <<nodeVars, deadline, sigs, aborted, abortTick, stateVars, racer,
                 late, spanVars, doomed>>

\* Mutants: an abandoned candidate's error is emitted; endedAt is not checked.
ConcludeLateAnyError ==
  /\ ended
  /\ late' = racer
  /\ UNCHANGED <<status, verdict>>
ConcludeWonUnchecked ==
  /\ status' = "won"
  /\ verdict' = IF verdict # "pending" THEN verdict
                ELSE IF racer = "value" THEN "value" ELSE "failure"
  /\ UNCHANGED late

\* The candidate was too late; an abandoned candidate goes unnoticed.
ConcludeLate ==
  /\ ended
  /\ late' = IF racer = "abandoned" THEN "none" ELSE racer
  /\ UNCHANGED <<status, verdict>>

ConcludeWon ==
  /\ ~ended
  /\ status' = "won"
  /\ verdict' = IF racer = "value" THEN "value" ELSE "failure"
  /\ UNCHANGED late

Conclude ==
  /\ turn = "micro" /\ step = "conclude"
  /\ step' = "done"
  /\ ConcludeLate \/ ConcludeWon
  /\ UNCHANGED <<nodeVars, deadlineVars, signalVars, ended, cbs, failed, racer,
                 spanVars, doomed>>

Report ==
  /\ turn = "micro"
  /\ verdict \in {"failure", "deadline", "aborted"} /\ ~reported
  /\ reported' = TRUE
  /\ span' = IF status = "won" THEN SetError(Note(verdict)) ELSE Note(verdict)
  /\ UNCHANGED <<nodeVars, deadlineVars, signalVars, stateVars, racerVars, doomed>>

-----------------------------------------------------------------------------
(* Node: ticks, timers, and the passage from one queue to the next. *)

TickExceeded == turn = "ticks" /\ timer = "ticked" /\ Overtake

TickAborted ==
  /\ turn = "ticks" /\ abortTick
  /\ abortTick' = FALSE
  /\ OnAborted
  /\ UNCHANGED <<nodeVars, deadline, sigs, aborted, racerVars, spanVars, doomed>>

TickCallback(cb) ==
  /\ turn = "ticks" /\ cbs[cb] = "queued"
  /\ cbs' = [cbs EXCEPT ![cb] = "told"]
  /\ UNCHANGED <<nodeVars, deadlineVars, signalVars, status, ended, verdict,
                 failed, racerVars, spanVars, doomed>>

TimerFires ==
  /\ turn = "macro" /\ called # "body" /\ ~TickQueued /\ ~JobQueued
  /\ timer = "armed" /\ deadline = "passed"
  /\ Overtake

DeadlinePasses ==
  /\ deadline = "ahead"
  /\ deadline' = "passed"
  /\ UNCHANGED <<nodeVars, timer, signalVars, stateVars, racerVars, spanVars, doomed>>

NextTurn ==
  /\ called # "body"
  /\ \/ turn = "macro" /\ turn' = "ticks"
     \/ turn = "ticks" /\ ~TickQueued /\ turn' = "micro"
     \/ /\ turn = "micro" /\ ~JobQueued
        /\ turn' = IF TickQueued THEN "ticks" ELSE "macro"
  /\ UNCHANGED <<called, deadlineVars, signalVars, stateVars, racerVars, spanVars,
                 doomed>>

Next ==
  \/ Run
  \/ BodyReturns
  \/ \E s \in Signals : Abort(s)
  \/ \E cb \in Callbacks : OnLoss(cb) \/ TickCallback(cb)
  \/ RacerSettles
  \/ Finish
  \/ Cleanup
  \/ Conclude
  \/ Report
  \/ TickExceeded
  \/ TickAborted
  \/ TimerFires
  \/ DeadlinePasses
  \/ NextTurn

Spec == Init /\ [][Next]_vars

\* Node runs what is queued, every iteration of its loop visits the timers,
\* time passes, and a candidate gives the thread back.  No candidate has to
\* settle and nobody has to abort a signal.
Fairness ==
  /\ WF_vars(BodyReturns) /\ WF_vars(NextTurn) /\ WF_vars(DeadlinePasses)
  /\ WF_vars(TickExceeded) /\ WF_vars(TickAborted)
  /\ \A cb \in Callbacks : WF_vars(TickCallback(cb))
  /\ WF_vars(Finish) /\ WF_vars(Cleanup) /\ WF_vars(Conclude) /\ WF_vars(Report)
  /\ SF_vars(TimerFires)

FairSpec == Spec /\ Fairness

-----------------------------------------------------------------------------
Outcomes == {"value", "failure", "abandoned"}
Verdicts == {"unset", "pending", "value", "failure", "deadline", "aborted"}
Statuses == {"pending", "running", "won", "aborted", "overtaken"}
CallbackStates == {"idle", "waiting", "queued", "told"}
Spans == [open : BOOLEAN, status : {"unset", "ok", "error"},
          noted : SUBSET (Outcomes \cup Verdicts)]

\* The race, its span and the queues are well formed.
TypeOK ==
  /\ turn \in Turns /\ called \in {"no", "body", "returned"}
  /\ deadline \in {"distant", "ahead", "passed"}
  /\ timer \in {"none", "armed", "ticked", "over"}
  /\ sigs \subseteq Signals /\ aborted \subseteq sigs /\ listening \subseteq sigs
  /\ abortTick \in BOOLEAN /\ ended \in BOOLEAN
  /\ status \in Statuses /\ verdict \in Verdicts
  /\ racer \in Outcomes \cup {"none"} /\ (racer = "none" <=> step = "running")
  /\ step \in {"running", "finish", "cleanup", "conclude", "done"}
  /\ cbs \in [Callbacks -> CallbackStates]
  /\ late \in {"none", "value", "failure"}
  /\ span \in Spans
  /\ reported \in BOOLEAN /\ doomed \in BOOLEAN
  /\ failed \in {"none", "exceeded", "aborted"}

\* A race which was lost, or whose candidate is about to conclude, holds
\* neither a timer nor an abort listener.
NothingLeftBehind ==
  ended \/ step \in {"conclude", "done"} => timer # "armed" /\ listening = {}

\* The assertion of the deadline's callback never fails: whatever ended the
\* race before also cancelled that callback.
DeadlineComesOnce == failed # "exceeded"

\* A late event says what the candidate did, and is emitted exactly when a
\* candidate which was not told to abandon concludes after the loss.
LateIffTooLate ==
  step = "done" =>
    late = IF ended /\ racer # "abandoned" THEN racer ELSE "none"

Settled == verdict \notin {"unset", "pending"}

\* A race with a finite deadline settles whatever its candidate does, and so
\* does a race whose signal aborts while it runs.
RaceSettles ==
  called = "returned" /\ (deadline # "distant" \/ aborted # {}) ~> Settled

\* A callback registered on a race which is lost is eventually called.
LossIsHeard ==
  \A cb \in Callbacks : ended /\ cbs[cb] # "idle" ~> cbs[cb] = "told"

\* Nobody waits for a race in vain.
RaceIsHeard == RaceSettles /\ LossIsHeard

\* The race is an implementation of the contract.
Contract == INSTANCE RaceContract WITH
  waiting <- {cb \in Callbacks : cbs[cb] = "waiting"},
  told <- {cb \in Callbacks : cbs[cb] = "told"}
KeepsContract == Contract!Spec

-----------------------------------------------------------------------------
(* What the comments, the assertions and the tests say, refuted. *)

\* "If the deadline is already exceeded, this method always rejects even if
\* the input promise is already resolved."
DoomedNeverWins == doomed => verdict # "value"

\* isWon is documented as "true if the raced promise's result or rejection
\* was used, false if the deadline was used".
StatusTellsVerdict ==
  /\ verdict \in {"value", "failure"} => status = "won"
  /\ verdict \in {"deadline", "aborted"} => Lost

\* The assertion "Aborted but had already ended" holds.
AbortComesOnce == failed # "aborted"

\* "Each run is wrapped in a span which [...] is annotated with any errors,
\* including any deadline exceeded error."
SpanNotesLoss == reported /\ verdict = "deadline" => "deadline" \in span.noted

\* A test expects the span of a failed candidate to have the ERROR status.
SpanShowsFailure ==
  reported /\ verdict = "failure" /\ ~span.open => span.status = "error"
=============================================================================
