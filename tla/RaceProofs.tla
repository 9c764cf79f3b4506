----------------------------- MODULE RaceProofs -----------------------------
(***************************************************************************)
(* Proofs about Race, for any number of signals and callbacks: the         *)
(* deadline's assertion never fails, wherever `run` is called; a race      *)
(* which is not started from a promise job leaves nothing behind, calls    *)
(* late only what was too late, and keeps its contract. About Impatience,  *)
(* for any races, signals and timeouts: races inside of one another keep   *)
(* their timers, and candidates are told what their contexts came to.      *)
(***************************************************************************)
EXTENDS Race, Impatience, TLAPS

\* Losing leaves well formed what it changes.
LEMMA LoseTyped ==
  ASSUME TypeOK, NEW as \in {"aborted", "overtaken"},
         NEW err \in {"aborted", "deadline"}, Lose(as, err)
  PROVE  /\ ended' \in BOOLEAN /\ status' \in Statuses /\ verdict' \in Verdicts
         /\ cbs' \in [Callbacks -> CallbackStates] /\ listening' = {}
         /\ failed' = failed
<1>1. cbs' \in [Callbacks -> CallbackStates]
  BY DEF Lose, TypeOK, CallbackStates
<1> QED
  BY <1>1 DEF Lose, TypeOK, Statuses, Verdicts

\* So does each of the two handlers, whether it is refused or not.
LEMMA HandlerTyped ==
  ASSUME TypeOK, OnAborted \/ Overtake
  PROVE  /\ ended' \in BOOLEAN /\ status' \in Statuses /\ verdict' \in Verdicts
         /\ cbs' \in [Callbacks -> CallbackStates] /\ listening' \subseteq sigs
         /\ failed' \in {"none", "exceeded", "aborted"}
         /\ timer' \in {"none", "armed", "ticked", "over"}
<1>1. CASE Lose("aborted", "aborted")
  BY <1>1, LoseTyped DEF OnAborted, Overtake, TypeOK, Lose, Refuse
<1>2. CASE Lose("overtaken", "deadline")
  BY <1>2, LoseTyped DEF OnAborted, Overtake, TypeOK, Lose, Refuse
<1>3. CASE Refuse("aborted") \/ Refuse("exceeded")
  BY <1>3 DEF OnAborted, Overtake, TypeOK, Lose, Refuse
<1> QED
  BY <1>1, <1>2, <1>3 DEF OnAborted, Overtake

\* The race, its span and the queues are well formed in every state.
THEOREM TypeCorrect == Spec => []TypeOK
<1>1. Init => TypeOK
  <2> SUFFICES ASSUME Init PROVE TypeOK
    OBVIOUS
  <2>1. span \in Spans
    BY DEF Init, Spans
  <2>2. cbs \in [Callbacks -> CallbackStates]
    BY DEF Init, CallbackStates
  <2> QED
    BY <2>1, <2>2 DEF Init, TypeOK, Turns, Statuses, Verdicts, Outcomes
<1>2. TypeOK /\ [Next]_vars => TypeOK'
  <2> SUFFICES ASSUME TypeOK, [Next]_vars PROVE TypeOK'
    OBVIOUS
  <2> USE DEF TypeOK, Turns, nodeVars, deadlineVars, signalVars, stateVars,
              racerVars, spanVars
  <2>1. CASE Run
    <3>1. listening' \subseteq sigs /\ abortTick' \in BOOLEAN
      BY <2>1 DEF Run, Listen
    <3>2. /\ timer' \in {"none", "armed", "ticked", "over"}
          /\ deadline' \in {"distant", "ahead", "passed"}
      BY <2>1 DEF Run
    <3>3. status' \in Statuses /\ verdict' \in Verdicts /\ doomed' \in BOOLEAN
      BY <2>1 DEF Run, Statuses, Verdicts
    <3> QED
      BY <2>1, <3>1, <3>2, <3>3 DEF Run
  <2>2. CASE BodyReturns
    BY <2>2 DEF BodyReturns
  <2>3. ASSUME NEW s \in Signals, Abort(s) PROVE TypeOK'
    BY <2>3, HandlerTyped DEF Abort
  <2>4. ASSUME NEW cb \in Callbacks, OnLoss(cb) PROVE TypeOK'
    BY <2>4 DEF OnLoss, CallbackStates
  <2>5. CASE RacerSettles
    BY <2>5 DEF RacerSettles, Outcomes
  <2>6. CASE Finish
    <3>1. span' \in Spans
      <4>1. racer \in Outcomes
        BY <2>6 DEF Finish
      <4>2. span'.noted \subseteq Outcomes \cup Verdicts
        BY <2>6, <4>1 DEF Finish, Note, Spans
      <4>3. span'.status \in {"unset", "ok", "error"}
        BY <2>6 DEF Finish, Spans
      <4> QED
        BY <2>6, <4>2, <4>3 DEF Finish, Spans
    <3> QED
      BY <2>6, <3>1 DEF Finish
  <2>7. CASE Cleanup
    BY <2>7 DEF Cleanup
  <2>8. CASE Conclude
    BY <2>8 DEF Conclude, ConcludeLate, ConcludeWon, Statuses,
                Verdicts, Outcomes
  <2>9. CASE Report
    <3>1. span' \in Spans
      BY <2>9 DEF Report, Note, SetError, Spans
    <3> QED
      BY <2>9, <3>1 DEF Report
  <2>10. CASE TickExceeded
    BY <2>10, HandlerTyped DEF TickExceeded, Overtake
  <2>11. CASE TickAborted
    BY <2>11, HandlerTyped, ZenonT(60) DEF TickAborted
  <2>12. ASSUME NEW cb \in Callbacks, TickCallback(cb) PROVE TypeOK'
    BY <2>12 DEF TickCallback, CallbackStates
  <2>13. CASE TimerFires
    BY <2>13, HandlerTyped DEF TimerFires, Overtake
  <2>14. CASE DeadlinePasses
    BY <2>14 DEF DeadlinePasses
  <2>15. CASE NextTurn
    BY <2>15 DEF NextTurn
  <2>16. CASE UNCHANGED vars
    BY <2>16 DEF vars
  <2> QED
    BY <2>1, <2>2, <2>3, <2>4, <2>5, <2>6, <2>7, <2>8, <2>9, <2>10, <2>11,
       <2>12, <2>13, <2>14, <2>15, <2>16 DEF Next
<1> QED
  BY <1>1, <1>2, PTL DEF Spec

-----------------------------------------------------------------------------
(***************************************************************************)
(* The deadline's callback runs at most once and before any loss.  The     *)
(* invariant says why: signals are heard only while its timer can still be *)
(* cancelled, never once it is queued as a tick.                           *)
(***************************************************************************)

TimerInv ==
  /\ called = "no" => timer = "none" /\ listening = {} /\ ~abortTick /\ ~ended
  /\ timer = "ticked" => listening = {} /\ ~abortTick
  /\ ended => timer \notin {"armed", "ticked"}
  /\ DeadlineComesOnce

LEMMA TimerInvInductive == TypeOK /\ TimerInv /\ [Next]_vars => TimerInv'
<1> SUFFICES ASSUME TypeOK, TimerInv, [Next]_vars PROVE TimerInv'
  OBVIOUS
<1> USE DEF TypeOK, TimerInv, DeadlineComesOnce, nodeVars, deadlineVars,
            signalVars, stateVars, racerVars, spanVars
<1>1. CASE Run
  <2>1. called' # "no" /\ ~ended' /\ UNCHANGED failed
    BY <1>1 DEF Run
  <2>2. timer' = "ticked" => deadline' = "passed"
    BY <1>1 DEF Run
  <2>3. deadline' = "passed" => listening' = {} /\ ~abortTick'
    BY <1>1 DEF Run, Listen
  <2> QED
    BY <2>1, <2>2, <2>3
<1>2. ASSUME NEW s \in Signals, Abort(s) PROVE TimerInv'
  <2>1. CASE s \in listening
    BY <1>2, <2>1 DEF Abort, OnAborted, Lose, Refuse
  <2>2. CASE s \notin listening
    BY <1>2, <2>2 DEF Abort
  <2> QED
    BY <2>1, <2>2
<1>3. ASSUME NEW cb \in Callbacks, OnLoss(cb) \/ TickCallback(cb)
      PROVE  TimerInv'
  BY <1>3 DEF OnLoss, TickCallback
<1>4. CASE TickExceeded
  BY <1>4 DEF TickExceeded, Overtake, Lose, Refuse
<1>5. CASE TickAborted
  BY <1>5 DEF TickAborted, OnAborted, Lose, Refuse
<1>6. CASE TimerFires
  BY <1>6 DEF TimerFires, Overtake, Lose, Refuse
<1>7. CASE BodyReturns \/ RacerSettles \/ DeadlinePasses \/ NextTurn
  BY <1>7 DEF BodyReturns, RacerSettles, DeadlinePasses, NextTurn
<1>8. CASE Finish \/ Cleanup \/ Conclude \/ Report
  BY <1>8 DEF Finish, Cleanup, Conclude, ConcludeLate, ConcludeWon, Report
<1>9. CASE UNCHANGED vars
  BY <1>9 DEF vars
<1> QED
  BY <1>1, <1>2, <1>3, <1>4, <1>5, <1>6, <1>7, <1>8, <1>9 DEF Next

LEMMA TimerInvariance == Spec => []TimerInv
<1>1. Init => TimerInv
  BY DEF Init, TimerInv, DeadlineComesOnce
<1>2. TypeOK /\ TimerInv /\ [Next]_vars => TimerInv'
  BY TimerInvInductive
<1> QED
  BY <1>1, <1>2, TypeCorrect, PTL DEF Spec

\* The assertion "Exceeded but had already ended" never fails.
THEOREM DeadlineAssertionHolds == Spec => []DeadlineComesOnce
<1>1. TimerInv => DeadlineComesOnce
  BY DEF TimerInv
<1> QED
  BY <1>1, TimerInvariance, PTL

-----------------------------------------------------------------------------
(***************************************************************************)
(* The contract, for a race which no promise job starts.  Its deadline's   *)
(* tick, or that of an aborted signal, then runs before any job of the     *)
(* candidate's promise: while such a tick is queued the turn is not        *)
(* "micro" and the candidate's chain has not moved.                        *)
(***************************************************************************)

StartedByTask == "micro" \notin CallerTurns

TickFirst ==
  timer = "ticked" \/ abortTick =>
    turn # "micro" /\ step \in {"running", "finish"}

\* The parts of the race's state agree with its status.
StatusInv ==
  /\ status = "pending" <=> called = "no"
  /\ called = "no" => verdict = "unset" /\ step = "running" /\ ~doomed
  /\ ended <=> Lost
  /\ status = "running" <=> verdict = "pending"
  /\ status = "won" <=> step = "done" /\ ~ended

\* A doomed race which has not ended still has its tick.
DoomInv == doomed /\ ~ended => timer = "ticked"

CallbackInv ==
  \A cb \in Callbacks : /\ cbs[cb] = "waiting" => ~ended
                        /\ cbs[cb] \in {"queued", "told"} => ended

SafeInv ==
  /\ TimerInv
  /\ TickFirst
  /\ StatusInv
  /\ DoomInv
  /\ CallbackInv
  /\ NothingLeftBehind

LEMMA SafeInvInductive ==
  ASSUME StartedByTask, TypeOK, SafeInv, TimerInv', [Next]_vars
  PROVE  SafeInv'
<1> USE DEF TypeOK, SafeInv, TimerInv, TickFirst, StatusInv, DoomInv,
            CallbackInv, CallbackStates, NothingLeftBehind, Lost, Statuses,
            Verdicts, nodeVars, deadlineVars, signalVars, stateVars, racerVars,
            spanVars
<1>1. CASE Run
  <2>1. turn # "micro" /\ turn' = turn /\ step' = step /\ called' = "body"
    BY <1>1 DEF Run, StartedByTask
  <2>2. status' = "running" /\ verdict' = "pending" /\ ~ended' /\ cbs' = cbs
    BY <1>1 DEF Run
  <2>3. DoomInv'
    BY <1>1 DEF Run
  <2> QED
    BY <1>1, <2>1, <2>2, <2>3 DEF Run
<1>2. CASE BodyReturns
  BY <1>2 DEF BodyReturns
<1>3. ASSUME NEW s \in Signals, Abort(s) PROVE SafeInv'
  <2>1. CASE s \in listening /\ ~ended
    BY <1>3, <2>1 DEF Abort, OnAborted, Lose, Refuse
  <2>2. CASE s \in listening /\ ended
    BY <1>3, <2>2 DEF Abort, OnAborted, Refuse
  <2>3. CASE s \notin listening
    BY <1>3, <2>3 DEF Abort
  <2> QED
    BY <2>1, <2>2, <2>3
<1>4. ASSUME NEW cb \in Callbacks, OnLoss(cb) PROVE SafeInv'
  BY <1>4 DEF OnLoss
<1>5. CASE RacerSettles
  BY <1>5 DEF RacerSettles
<1>6. CASE Finish
  BY <1>6 DEF Finish
<1>7. CASE Cleanup
  BY <1>7 DEF Cleanup
<1>8. CASE Conclude
  <2>1. CASE ConcludeLate
    BY <1>8, <2>1 DEF Conclude, ConcludeLate
  <2>2. CASE ConcludeWon
    BY <1>8, <2>2 DEF Conclude, ConcludeWon
  <2> QED
    BY <1>8, <2>1, <2>2 DEF Conclude
<1>9. CASE Report
  BY <1>9 DEF Report
<1>10. CASE TickExceeded
  BY <1>10 DEF TickExceeded, Overtake, Lose, Refuse
<1>11. CASE TickAborted
  <2>1. CASE ~ended
    BY <1>11, <2>1 DEF TickAborted, OnAborted, Lose, Refuse
  <2>2. CASE ended
    BY <1>11, <2>2 DEF TickAborted, OnAborted, Lose, Refuse
  <2> QED
    BY <2>1, <2>2
<1>12. ASSUME NEW cb \in Callbacks, TickCallback(cb) PROVE SafeInv'
  BY <1>12 DEF TickCallback
<1>13. CASE TimerFires
  BY <1>13 DEF TimerFires, Overtake, Lose, Refuse
<1>14. CASE DeadlinePasses
  BY <1>14 DEF DeadlinePasses
<1>15. CASE NextTurn
  BY <1>15 DEF NextTurn, TickQueued
<1>16. CASE UNCHANGED vars
  BY <1>16 DEF vars
<1> QED
  BY <1>1, <1>2, <1>3, <1>4, <1>5, <1>6, <1>7, <1>8, <1>9, <1>10, <1>11,
     <1>12, <1>13, <1>14, <1>15, <1>16 DEF Next

LEMMA SafeInvariance ==
  ASSUME StartedByTask
  PROVE  Spec => []SafeInv
<1>1. Init => SafeInv
  BY DEF Init, SafeInv, TimerInv, DeadlineComesOnce, TickFirst, StatusInv,
         DoomInv, CallbackInv, NothingLeftBehind, Lost
<1>2. TypeOK /\ SafeInv /\ TimerInv' /\ [Next]_vars => SafeInv'
  BY SafeInvInductive
<1> QED
  BY <1>1, <1>2, TypeCorrect, TimerInvariance, PTL DEF Spec

\* Once the race was lost, or its candidate concludes, neither a timer nor an
\* abort listener is left (race.ts:229).
THEOREM NothingIsLeftBehind ==
  ASSUME StartedByTask
  PROVE  Spec => []NothingLeftBehind
<1>1. SafeInv => NothingLeftBehind
  BY DEF SafeInv
<1> QED
  BY <1>1, SafeInvariance, PTL

\* No late event comes before the candidate's end, and none of what could lose
\* the race comes after it.
LateInv == (step # "done" => late = "none") /\ LateIffTooLate

LEMMA LateInvInductive ==
  ASSUME TypeOK, SafeInv, LateInv, [Next]_vars
  PROVE  LateInv'
<1> USE DEF LateInv, LateIffTooLate, nodeVars, deadlineVars, signalVars, stateVars,
            racerVars, spanVars
<1>1. CASE Conclude
  BY <1>1 DEF Conclude, ConcludeLate, ConcludeWon
<1>2. CASE RacerSettles \/ Finish \/ Cleanup
  BY <1>2 DEF RacerSettles, Finish, Cleanup
<1>3. CASE Run \/ BodyReturns \/ Report \/ DeadlinePasses \/ NextTurn
  BY <1>3 DEF Run, BodyReturns, Report, DeadlinePasses, NextTurn
<1>4. ASSUME NEW cb \in Callbacks, OnLoss(cb) \/ TickCallback(cb)
      PROVE  LateInv'
  BY <1>4 DEF OnLoss, TickCallback
<1>5. step = "done" => timer \notin {"armed", "ticked"} /\ listening = {} /\ ~abortTick
  BY DEF SafeInv, TickFirst, NothingLeftBehind
<1>6. ASSUME NEW s \in Signals, Abort(s)
      PROVE  LateInv'
  BY <1>5, <1>6 DEF Abort
<1>7. CASE TickExceeded \/ TickAborted \/ TimerFires
  BY <1>5, <1>7 DEF TickExceeded, TickAborted, TimerFires, Overtake
<1>8. CASE UNCHANGED vars
  BY <1>8 DEF vars
<1> QED
  BY <1>1, <1>2, <1>3, <1>4, <1>6, <1>7, <1>8 DEF Next

\* A late event tells exactly of a candidate which came too late (race.ts:268).
THEOREM LateIsTold ==
  ASSUME StartedByTask
  PROVE  Spec => []LateIffTooLate
<1>1. Init => LateInv
  BY DEF Init, LateInv, LateIffTooLate
<1>2. TypeOK /\ SafeInv /\ LateInv /\ [Next]_vars => LateInv'
  BY LateInvInductive
<1>3. LateInv => LateIffTooLate
  BY DEF LateInv
<1> QED
  BY <1>1, <1>2, <1>3, TypeCorrect, SafeInvariance, PTL DEF Spec

-----------------------------------------------------------------------------
(* The callbacks as the contract sees them. *)
Waiting == {cb \in Callbacks : cbs[cb] = "waiting"}
Told == {cb \in Callbacks : cbs[cb] = "told"}

\* A loss, as a step of the contract.
LEMMA LoseKeepsContract ==
  ASSUME TypeOK, SafeInv, status = "running",
         NEW as, NEW err, Lose(as, err), UNCHANGED doomed,
         \/ as = "aborted" /\ err = "aborted"
         \/ as = "overtaken" /\ err = "deadline"
  PROVE  Contract!Lose
<1> USE DEF TypeOK, SafeInv, StatusInv, CallbackStates
<1>1. cbs' = [cb \in Callbacks |-> IF cbs[cb] = "waiting" THEN "told" ELSE cbs[cb]]
  BY DEF Lose
<1>2. Told' = Told \cup Waiting
  BY <1>1 DEF Told, Waiting
<1>3. Waiting' = {}
  BY <1>1 DEF Waiting
<1> QED
  BY <1>2, <1>3 DEF Lose, Contract!Lose, Told, Waiting

LEMMA StepKeepsContract ==
  ASSUME StartedByTask, TypeOK, SafeInv, [Next]_vars
  PROVE  [Contract!Next]_Contract!vars
<1> USE DEF TypeOK, SafeInv, TimerInv, TickFirst, StatusInv, DoomInv,
            CallbackInv, Lost, nodeVars, deadlineVars, signalVars, stateVars,
            racerVars, spanVars
<1>1. CASE Run
  BY <1>1 DEF Run, Contract!Next, Contract!Start
<1>2. CASE OnAborted /\ UNCHANGED doomed /\ called # "no" /\ step # "done"
  <2>1. CASE ~ended
    BY <1>2, <2>1, LoseKeepsContract DEF OnAborted, Contract!Next, Refuse, Statuses
  <2>2. CASE ended
    BY <1>2, <2>2 DEF OnAborted, Refuse, Lose, Contract!vars
  <2> QED
    BY <2>1, <2>2
<1>3. CASE Overtake /\ timer \in {"armed", "ticked"} /\ step # "done"
  BY <1>3, LoseKeepsContract DEF Overtake, Contract!Next, Statuses
<1>4. ASSUME NEW s \in Signals, Abort(s)
      PROVE  [Contract!Next]_Contract!vars
  <2>1. CASE s \in listening
    BY <1>2, <1>4, <2>1 DEF Abort, NothingLeftBehind
  <2>2. CASE s \notin listening
    BY <1>4, <2>2 DEF Abort, Contract!vars
  <2> QED
    BY <2>1, <2>2
<1>5. ASSUME NEW cb \in Callbacks, OnLoss(cb)
      PROVE  [Contract!Next]_Contract!vars
  <2>1. CASE Lost
    <3>1. Waiting' = Waiting /\ Told' = Told
      BY <1>5, <2>1 DEF OnLoss, Waiting, Told, CallbackStates
    <3> QED
      BY <1>5, <3>1 DEF OnLoss, Contract!vars, Waiting, Told
  <2>2. CASE ~Lost
    <3>1. Waiting' = Waiting \cup {cb} /\ Told' = Told /\ cb \notin Told
      BY <1>5, <2>2 DEF OnLoss, Waiting, Told, CallbackStates
    <3>2. Contract!Subscribe(cb)
      BY <1>5, <2>2, <3>1
      DEF OnLoss, Contract!Subscribe, Contract!Lost, Waiting, Told
    <3> QED
      BY <3>2 DEF Contract!Next
  <2> QED
    BY <2>1, <2>2
<1>6. CASE Conclude
  <2>1. CASE ConcludeLate
    BY <1>6, <2>1 DEF Conclude, ConcludeLate, Contract!vars
  <2>2. CASE ConcludeWon
    <3>1. status = "running" /\ ~doomed
      BY <1>6, <2>2 DEF Conclude, ConcludeWon, Statuses
    <3> QED
      BY <1>6, <2>2, <3>1 DEF Conclude, ConcludeWon, Contract!Next, Contract!Win
  <2> QED
    BY <1>6, <2>1, <2>2 DEF Conclude
<1>7. CASE TickExceeded \/ TimerFires
  BY <1>3, <1>7 DEF TickExceeded, TimerFires, NothingLeftBehind
<1>8. CASE TickAborted
  BY <1>2, <1>8 DEF TickAborted
<1>9. ASSUME NEW cb \in Callbacks, TickCallback(cb)
      PROVE  [Contract!Next]_Contract!vars
  <2>1. Waiting' = Waiting /\ Told' = Told \cup {cb} /\ Lost
    BY <1>9 DEF TickCallback, Waiting, Told, CallbackStates
  <2>2. Contract!Tell(cb)
    BY <1>9, <2>1 DEF TickCallback, Contract!Tell, Contract!Lost, Waiting, Told
  <2> QED
    BY <2>2 DEF Contract!Next
<1>10. CASE \/ BodyReturns \/ RacerSettles \/ DeadlinePasses \/ NextTurn
           \/ Finish \/ Cleanup \/ Report
  BY <1>10 DEF BodyReturns, RacerSettles, DeadlinePasses, NextTurn, Finish,
               Cleanup, Report, Contract!vars
<1>11. CASE UNCHANGED vars
  BY <1>11 DEF vars, Contract!vars
<1> QED
  BY <1>1, <1>4, <1>5, <1>6, <1>7, <1>8, <1>9, <1>10, <1>11 DEF Next

\* A race which no promise job starts is won or lost once and for all, tells
\* its client the same story twice, is lost if started too late, and calls its
\* onLoss callbacks only on a loss.
THEOREM RaceKeepsContract ==
  ASSUME StartedByTask
  PROVE  Spec => KeepsContract
<1>1. Init => Contract!Init
  <2>1. Init => Waiting = {} /\ Told = {}
    BY DEF Init, Waiting, Told
  <2> QED
    BY <2>1 DEF Init, Contract!Init, Waiting, Told
<1>2. TypeOK /\ SafeInv /\ [Next]_vars => [Contract!Next]_Contract!vars
  BY StepKeepsContract
<1>3. Spec => []SafeInv
  BY SafeInvariance
<1> QED
  BY <1>1, <1>2, <1>3, TypeCorrect, PTL DEF Spec, KeepsContract, Contract!Spec

-----------------------------------------------------------------------------
(* Races inside of one another *)

Standings == {"pending", "running", "won", "aborted", "overtaken"}
Wakeups == {"none", "armed", "fired", "cancelled"}

ImpatienceType ==
  /\ time \in Nat /\ aborts \subseteq RaceSignals
  /\ enclosing \in [Races -> Races \cup {Outside}] /\ escapes \in [Races -> BOOLEAN]
  /\ cutoff \in [Races -> Nat] /\ holder \in [Races -> Races]
  /\ signals \in [Races -> SUBSET RaceSignals]
  /\ standing \in [Races -> Standings]
  /\ candidate \in [Races -> {"none", "running", "ended"}]
  /\ wakeup \in [Races -> Wakeups]
  /\ lives \in [Races -> BOOLEAN] /\ timeouts \in [Races -> SUBSET Races]

\* A race which has not started has nothing, and nothing has it.
UnstartedInv ==
  \A r \in Races : standing[r] = "pending" =>
    /\ candidate[r] = "none" /\ wakeup[r] = "none" /\ lives[r]
    /\ \A q \in Races : /\ r \notin timeouts[q] /\ enclosing[q] # r
                        /\ holder[q] = r => q = r

\* Races started by a candidate come to what its context has: they listen to its
\* signals, and those which share its deadline have the cutoff of that.
InheritedInv ==
  \A r, p \in Races :
    /\ r \in timeouts[p] => holder[r] = p /\ r # p
    /\ holder[r] = p => cutoff[r] = cutoff[p]
    /\ enclosing[r] = p => signals[p] \subseteq signals[r]

\* Only aborted signals abort, and only deadlines which passed are exceeded.
CauseInv ==
  \A r \in Races :
    /\ standing[r] = "aborted" => signals[r] \cap aborts # {}
    /\ ~lives[r] => cutoff[r] <= time

\* An armed callback on the deadline of another race is among the pending
\* timeouts of the copy it is on, of which an ended candidate leaves none.
BorrowedInv ==
  \A r \in Races :
    /\ holder[r] # r /\ wakeup[r] = "armed" => r \in timeouts[holder[r]]
    /\ candidate[r] = "ended" => timeouts[r] = {}

ImpatienceInv == ImpatienceType /\ UnstartedInv /\ InheritedInv /\ CauseInv /\ KeepsTimer /\ BorrowedInv

LEMMA InitImpatienceInv == ImpatienceInit => ImpatienceInv
<1> SUFFICES ASSUME ImpatienceInit
             PROVE  ImpatienceInv
  OBVIOUS
<1> USE DEF ImpatienceInit, Unstarted
<1>1. Distant \in Nat
  BY ImpatienceAssumption
<1>2. ImpatienceType
  BY <1>1 DEF ImpatienceType, Standings, Wakeups
<1>3. UnstartedInv
  BY ImpatienceAssumption DEF UnstartedInv, Outside
<1>4. InheritedInv
  BY ImpatienceAssumption DEF InheritedInv, Outside
<1>5. CauseInv /\ KeepsTimer /\ BorrowedInv
  BY DEF CauseInv, KeepsTimer, BorrowedInv
<1> QED
  BY <1>2, <1>3, <1>4, <1>5 DEF ImpatienceInv

\* A race starts with the cutoff and the signals of its context, armed unless
\* it has no deadline or is lost at once.
LEMMA StartInImpatienceInv ==
  ASSUME ImpatienceInv, NEW r \in Races, NEW p \in Races \cup {Outside},
         NEW t \in Timeouts, NEW asked \in SUBSET RaceSignals, NEW escape \in BOOLEAN,
         p # Outside => candidate[p] = "running", StartIn(r, p, t, asked, escape)
  PROVE  ImpatienceInv'
<1> DEFINE own == CutoffIn(t)
           inherited == ~escape /\ ActiveComesFirst(p, own)
           end == IF inherited THEN cutoff[p] ELSE own
           all == asked \cup SignalsFrom(p)
           passed == end <= time
           signaled == all \cap aborts # {}
<1>1. /\ standing[r] = "pending"
      /\ enclosing' = [enclosing EXCEPT ![r] = p] /\ escapes' = [escapes EXCEPT ![r] = escape]
      /\ cutoff' = [cutoff EXCEPT ![r] = end]
      /\ holder' = [holder EXCEPT ![r] = IF inherited THEN p ELSE r]
      /\ signals' = [signals EXCEPT ![r] = all]
      /\ standing' = [standing EXCEPT ![r] = IF passed THEN "overtaken"
                                             ELSE IF signaled THEN "aborted" ELSE "running"]
      /\ candidate' = [candidate EXCEPT ![r] = "running"]
      /\ wakeup' = [wakeup EXCEPT ![r] = IF end = Distant \/ passed THEN "none"
                                         ELSE IF signaled THEN "cancelled" ELSE "armed"]
      /\ lives' = IF inherited /\ passed THEN [lives EXCEPT ![p] = FALSE] ELSE lives
      /\ timeouts' = IF inherited /\ ~passed
                     THEN [timeouts EXCEPT ![p] = @ \cup {r}] ELSE timeouts
      /\ UNCHANGED <<time, aborts>>
  BY DEF StartIn
<1>2. ImpatienceType /\ UnstartedInv /\ InheritedInv /\ CauseInv /\ KeepsTimer /\ BorrowedInv
  BY DEF ImpatienceInv
<1>3. own \in Nat
  BY <1>2, ImpatienceAssumption DEF CutoffIn, ImpatienceType
<1>4. inherited => p \in Races
  BY DEF ActiveComesFirst
<1>5. p # r /\ r \in Races /\ Outside \notin Races
  BY <1>1, <1>2, ImpatienceAssumption DEF UnstartedInv, Outside
<1>6. all \subseteq RaceSignals /\ end \in Nat
      /\ (p \in Races => signals[p] \subseteq all)
      /\ (inherited => end = cutoff[p])
  BY <1>2, <1>3, <1>4, <1>5 DEF ImpatienceType, SignalsFrom
<1>7. p \in Races => standing[p] # "pending"
  BY <1>2, <1>5 DEF UnstartedInv
<1> HIDE DEF own, inherited, end, all
<1>8. ImpatienceType'
  BY <1>1, <1>2, <1>4, <1>6 DEF ImpatienceType, Standings, Wakeups
<1>9. /\ \A q \in Races \ {r} : /\ enclosing'[q] = enclosing[q] /\ cutoff'[q] = cutoff[q]
                                /\ holder'[q] = holder[q] /\ signals'[q] = signals[q]
                                /\ standing'[q] = standing[q] /\ wakeup'[q] = wakeup[q]
                                /\ candidate'[q] = candidate[q]
      /\ enclosing'[r] = p /\ cutoff'[r] = end /\ signals'[r] = all
      /\ holder'[r] = (IF inherited THEN p ELSE r) /\ candidate'[r] = "running"
      /\ standing'[r] = (IF passed THEN "overtaken" ELSE IF signaled THEN "aborted" ELSE "running")
      /\ wakeup'[r] = (IF end = Distant \/ passed THEN "none"
                       ELSE IF signaled THEN "cancelled" ELSE "armed")
  BY <1>1, <1>2 DEF ImpatienceType
<1>10. \A q \in Races : /\ lives'[q] = (lives[q] /\ ~ (inherited /\ passed /\ q = p))
                        /\ timeouts'[q] = IF inherited /\ ~passed /\ q = p
                                          THEN timeouts[q] \cup {r} ELSE timeouts[q]
  BY <1>1, <1>2, <1>4 DEF ImpatienceType
<1>11. UnstartedInv'
  <2> SUFFICES ASSUME NEW x \in Races, standing'[x] = "pending"
               PROVE  /\ candidate'[x] = "none" /\ wakeup'[x] = "none" /\ lives'[x]
                      /\ \A q \in Races : /\ x \notin timeouts'[q] /\ enclosing'[q] # x
                                          /\ holder'[q] = x => q = x
    BY DEF UnstartedInv
  <2>1. x # r
    BY <1>9
  <2>2. standing[x] = "pending" /\ x # p
    BY <1>7, <1>9, <2>1
  <2>3. candidate[x] = "none" /\ wakeup[x] = "none" /\ lives[x]
        /\ \A q \in Races : x \notin timeouts[q] /\ enclosing[q] # x /\ (holder[q] = x => q = x)
    BY <1>2, <2>2 DEF UnstartedInv
  <2>4. candidate'[x] = "none" /\ wakeup'[x] = "none"
    BY <1>9, <2>1, <2>3
  <2>5. lives'[x]
    BY <1>10, <2>2, <2>3
  <2>6. \A q \in Races : x \notin timeouts'[q]
    BY <1>10, <2>1, <2>3
  <2>7. \A q \in Races : enclosing'[q] # x /\ (holder'[q] = x => q = x)
    BY <1>9, <2>1, <2>2, <2>3
  <2> QED
    BY <2>4, <2>5, <2>6, <2>7
<1>12. InheritedInv'
  <2> SUFFICES ASSUME NEW x \in Races, NEW y \in Races
               PROVE  /\ x \in timeouts'[y] => holder'[x] = y /\ x # y
                      /\ holder'[x] = y => cutoff'[x] = cutoff'[y]
                      /\ enclosing'[x] = y => signals'[y] \subseteq signals'[x]
    BY DEF InheritedInv
  <2>1. /\ \A q \in Races : r \notin timeouts[q] /\ enclosing[q] # r /\ (holder[q] = r => q = r)
    BY <1>1, <1>2 DEF UnstartedInv
  <2>2. /\ x \in timeouts[y] => holder[x] = y /\ x # y
        /\ holder[x] = y => cutoff[x] = cutoff[y]
        /\ enclosing[x] = y => signals[y] \subseteq signals[x]
    BY <1>2 DEF InheritedInv
  <2>3. CASE x = r
    <3>1. x \in timeouts'[y] => inherited /\ y = p
      BY <1>10, <2>1, <2>3
    <3>2. x \in timeouts'[y] => holder'[x] = y /\ x # y
      BY <1>5, <1>9, <2>3, <3>1
    <3>3. holder'[x] = y => cutoff'[x] = cutoff'[y]
      <4>1. CASE inherited
        BY <1>4, <1>5, <1>6, <1>9, <2>3, <4>1
      <4>2. CASE ~inherited
        BY <1>9, <2>3, <4>2
      <4> QED
        BY <4>1, <4>2
    <3>4. enclosing'[x] = y => signals'[y] \subseteq signals'[x]
      BY <1>5, <1>6, <1>9, <2>3
    <3> QED
      BY <3>2, <3>3, <3>4
  <2>4. CASE x # r /\ y = r
    BY <1>5, <1>9, <1>10, <2>1, <2>2, <2>4
  <2>5. CASE x # r /\ y # r
    <3>1. x \in timeouts'[y] => x \in timeouts[y]
      BY <1>10, <2>5
    <3>2. /\ holder'[x] = holder[x] /\ cutoff'[x] = cutoff[x] /\ cutoff'[y] = cutoff[y]
          /\ enclosing'[x] = enclosing[x] /\ signals'[x] = signals[x] /\ signals'[y] = signals[y]
      BY <1>9, <2>5
    <3> QED
      BY <2>2, <3>1, <3>2
  <2> QED
    BY <2>3, <2>4, <2>5
<1>13. CauseInv'
  <2>1. \A q \in Races \ {r} : standing'[q] = "aborted" => signals'[q] \cap aborts' # {}
    BY <1>1, <1>2, <1>9 DEF CauseInv
  <2>2. standing'[r] = "aborted" => signals'[r] \cap aborts' # {}
    BY <1>1, <1>9
  <2>3. \A q \in Races : ~lives'[q] => cutoff'[q] <= time'
    <3> SUFFICES ASSUME NEW q \in Races, ~lives'[q]
                 PROVE  cutoff'[q] <= time'
      OBVIOUS
    <3>1. CASE ~lives[q]
      <4>1. q # r
        BY <1>1, <1>2, <3>1 DEF UnstartedInv
      <4> QED
        BY <1>1, <1>2, <1>9, <3>1, <4>1 DEF CauseInv
    <3>2. CASE lives[q]
      <4>1. inherited /\ passed /\ q = p
        BY <1>10, <3>2
      <4> QED
        BY <1>1, <1>5, <1>6, <1>9, <4>1
    <3> QED
      BY <3>1, <3>2
  <2> QED
    BY <2>1, <2>2, <2>3 DEF CauseInv
<1>14. KeepsTimer'
  <2> SUFFICES ASSUME NEW x \in Races, standing'[x] = "running", cutoff'[x] # Distant,
                      holder'[x] = x \/ candidate'[holder'[x]] = "running"
               PROVE  wakeup'[x] = "armed"
    BY DEF KeepsTimer
  <2>1. CASE x = r
    BY <1>9, <2>1
  <2>2. CASE x # r
    <3>1. holder[x] # r /\ holder[x] \in Races
      BY <1>1, <1>2, <2>2 DEF UnstartedInv, ImpatienceType
    <3>2. holder[x] = x \/ candidate[holder[x]] = "running"
      BY <1>9, <2>2, <3>1
    <3> QED
      BY <1>2, <1>9, <2>2, <3>2 DEF KeepsTimer
  <2> QED
    BY <2>1, <2>2
<1>15. BorrowedInv'
  <2>1. p \in Races => candidate[p] = "running"
    BY <1>5 DEF Outside
  <2>2. \A x \in Races : /\ holder[x] # x /\ wakeup[x] = "armed" => x \in timeouts[holder[x]]
                         /\ candidate[x] = "ended" => timeouts[x] = {}
    BY <1>2 DEF BorrowedInv
  <2>3. ASSUME NEW x \in Races, holder'[x] # x, wakeup'[x] = "armed"
        PROVE  x \in timeouts'[holder'[x]]
    <3>1. CASE x = r
      <4>1. inherited /\ ~passed /\ holder'[x] = p
        BY <1>9, <2>3, <3>1
      <4>2. p \in Races /\ timeouts'[p] = timeouts[p] \cup {r}
        BY <1>4, <1>10, <4>1
      <4> QED
        BY <3>1, <4>1, <4>2
    <3>2. CASE x # r
      <4>1. holder'[x] = holder[x] /\ wakeup'[x] = wakeup[x]
        BY <1>9, <3>2
      <4>2. x \in timeouts[holder[x]]
        BY <2>2, <2>3, <4>1
      <4>3. holder[x] \in Races
        BY <1>2 DEF ImpatienceType
      <4>4. \A q \in Races : timeouts[q] \subseteq timeouts'[q]
        BY <1>10
      <4> QED
        BY <4>1, <4>2, <4>3, <4>4
    <3> QED
      BY <3>1, <3>2
  <2>4. ASSUME NEW x \in Races, candidate'[x] = "ended"
        PROVE  timeouts'[x] = {}
    <3>1. x # r /\ candidate[x] = "ended"
      BY <1>9, <2>4
    <3>2. x # p
      BY <2>1, <3>1
    <3> QED
      BY <1>10, <2>2, <3>1, <3>2
  <2> QED
    BY <2>3, <2>4 DEF BorrowedInv
<1> QED
  BY <1>8, <1>11, <1>12, <1>13, <1>14, <1>15 DEF ImpatienceInv

\* A deadline which passed is noted on the copy which has the callback.
LEMMA OvertakeImpatienceInv ==
  ASSUME ImpatienceInv, NEW r \in Races, OvertakeNested(r)
  PROVE  ImpatienceInv'
<1> DEFINE h == holder[r]
<1>1. ImpatienceType /\ UnstartedInv /\ InheritedInv /\ CauseInv /\ KeepsTimer /\ BorrowedInv
  BY DEF ImpatienceInv
<1>2. /\ wakeup[r] = "armed" /\ cutoff[r] <= time /\ h \in Races
      /\ wakeup' = [wakeup EXCEPT ![r] = "fired"]
      /\ standing' = [standing EXCEPT ![r] = "overtaken"]
      /\ UNCHANGED <<time, aborts, enclosing, escapes, cutoff, holder, signals, candidate>>
      /\ \/ UNCHANGED <<lives, timeouts>>
         \/ /\ h # r /\ lives' = [lives EXCEPT ![h] = FALSE]
            /\ timeouts' = [timeouts EXCEPT ![h] = @ \ {r}]
  BY <1>1 DEF OvertakeNested, copyVars, contextVars, ImpatienceType
<1>3. \A q \in Races : /\ lives'[q] => lives[q]
                       /\ ~lives'[q] => ~lives[q] \/ (q = h /\ h # r)
                       /\ timeouts'[q] \subseteq timeouts[q]
  BY <1>1, <1>2 DEF ImpatienceType
<1>4. /\ standing'[r] = "overtaken"
      /\ \A q \in Races \ {r} : standing'[q] = standing[q] /\ wakeup'[q] = wakeup[q]
  BY <1>1, <1>2 DEF ImpatienceType
<1>5. standing[r] # "pending" /\ standing[h] # "pending" /\ cutoff[h] <= time
  BY <1>1, <1>2 DEF UnstartedInv, InheritedInv
<1>6. ImpatienceType'
  <2>1. wakeup' \in [Races -> Wakeups] /\ standing' \in [Races -> Standings]
    BY <1>1, <1>2 DEF ImpatienceType, Standings, Wakeups
  <2>2. lives' \in [Races -> BOOLEAN] /\ timeouts' \in [Races -> SUBSET Races]
    <3>1. lives \in [Races -> BOOLEAN] /\ timeouts \in [Races -> SUBSET Races]
      BY <1>1 DEF ImpatienceType
    <3> HIDE DEF h
    <3>2. CASE UNCHANGED <<lives, timeouts>>
      BY <3>1, <3>2
    <3>3. CASE /\ lives' = [lives EXCEPT ![h] = FALSE]
               /\ timeouts' = [timeouts EXCEPT ![h] = @ \ {r}]
      BY <3>1, <3>3
    <3> QED
      BY <1>2, <3>2, <3>3
  <2> QED
    BY <1>1, <1>2, <2>1, <2>2 DEF ImpatienceType
<1> HIDE DEF h
<1>7. UnstartedInv'
  <2> SUFFICES ASSUME NEW x \in Races, standing'[x] = "pending"
               PROVE  /\ candidate'[x] = "none" /\ wakeup'[x] = "none" /\ lives'[x]
                      /\ \A q \in Races : /\ x \notin timeouts'[q] /\ enclosing'[q] # x
                                          /\ holder'[q] = x => q = x
    BY DEF UnstartedInv
  <2>1. x # r /\ standing[x] = "pending" /\ x # h
    BY <1>4, <1>5
  <2>2. candidate[x] = "none" /\ wakeup[x] = "none" /\ lives[x]
        /\ \A q \in Races : x \notin timeouts[q] /\ enclosing[q] # x /\ (holder[q] = x => q = x)
    BY <1>1, <2>1 DEF UnstartedInv
  <2> QED
    BY <1>2, <1>3, <1>4, <1>6, <2>1, <2>2 DEF ImpatienceType
<1>8. InheritedInv'
  BY <1>1, <1>2, <1>3 DEF InheritedInv
<1>9. CauseInv'
  <2>1. \A q \in Races : standing'[q] = "aborted" => signals'[q] \cap aborts' # {}
    BY <1>1, <1>2, <1>4 DEF CauseInv
  <2>2. \A q \in Races : ~lives'[q] => cutoff'[q] <= time'
    BY <1>1, <1>2, <1>3, <1>5 DEF CauseInv
  <2> QED
    BY <2>1, <2>2 DEF CauseInv
<1>10. KeepsTimer'
  BY <1>1, <1>2, <1>4 DEF KeepsTimer
<1>11. BorrowedInv'
  <2>1. ASSUME NEW x \in Races, holder'[x] # x, wakeup'[x] = "armed"
        PROVE  x \in timeouts'[holder'[x]]
    <3>1. x # r /\ wakeup[x] = "armed" /\ holder'[x] = holder[x] /\ holder[x] # x
      BY <1>1, <1>2, <1>4, <2>1 DEF ImpatienceType
    <3>2. x \in timeouts[holder[x]] /\ holder[x] \in Races
      BY <1>1, <3>1 DEF BorrowedInv, ImpatienceType
    <3>3. timeouts \in [Races -> SUBSET Races]
      BY <1>1 DEF ImpatienceType
    <3>4. CASE UNCHANGED <<lives, timeouts>>
      BY <3>1, <3>2, <3>4
    <3>5. CASE timeouts' = [timeouts EXCEPT ![h] = @ \ {r}]
      BY <3>1, <3>2, <3>3, <3>5
    <3> QED
      BY <1>2, <3>4, <3>5
  <2>2. \A q \in Races : candidate'[q] = "ended" => timeouts'[q] = {}
    BY <1>1, <1>2, <1>3 DEF BorrowedInv
  <2> QED
    BY <2>1, <2>2 DEF BorrowedInv
<1> QED
  BY <1>6, <1>7, <1>8, <1>9, <1>10, <1>11 DEF ImpatienceInv

\* Who listens to a signal which aborts is lost, and was not.
LEMMA AbortImpatienceInv ==
  ASSUME ImpatienceInv, NEW s \in RaceSignals, SignalAborts(s)
  PROVE  ImpatienceInv'
<1> DEFINE lost == {r \in Races : standing[r] = "running" /\ s \in signals[r]}
<1>1. ImpatienceType /\ UnstartedInv /\ InheritedInv /\ CauseInv /\ KeepsTimer /\ BorrowedInv
  BY DEF ImpatienceInv
<1>2. /\ aborts' = aborts \cup {s}
      /\ standing' = [r \in Races |-> IF r \in lost THEN "aborted" ELSE standing[r]]
      /\ wakeup' = [r \in Races |-> IF r \in lost /\ wakeup[r] = "armed" THEN "cancelled"
                                    ELSE wakeup[r]]
      /\ UNCHANGED <<time, enclosing, escapes, cutoff, holder, signals, candidate, lives, timeouts>>
  BY DEF SignalAborts, Cancelled, contextVars, copyVars
<1>3. ImpatienceType'
  <2>1. wakeup' \in [Races -> Wakeups] /\ standing' \in [Races -> Standings]
    BY <1>1, <1>2 DEF ImpatienceType, Standings, Wakeups
  <2> QED
    BY <1>1, <1>2, <2>1 DEF ImpatienceType
<1>4. UnstartedInv' /\ InheritedInv'
  BY <1>1, <1>2 DEF UnstartedInv, InheritedInv
<1>5. CauseInv'
  BY <1>1, <1>2 DEF CauseInv
<1>6. KeepsTimer'
  BY <1>1, <1>2 DEF KeepsTimer
<1>7. BorrowedInv'
  BY <1>1, <1>2 DEF BorrowedInv
<1> QED
  BY <1>3, <1>4, <1>5, <1>6, <1>7 DEF ImpatienceInv

\* A candidate which ends takes the timers of its copy along.
LEMMA EndsImpatienceInv ==
  ASSUME ImpatienceInv, NEW r \in Races, CandidateEnds(r)
  PROVE  ImpatienceInv'
<1> DEFINE cleared == {r} \cup timeouts[r]
<1>1. ImpatienceType /\ UnstartedInv /\ InheritedInv /\ CauseInv /\ KeepsTimer /\ BorrowedInv
  BY DEF ImpatienceInv
<1>2. /\ candidate[r] = "running"
      /\ candidate' = [candidate EXCEPT ![r] = "ended"]
      /\ wakeup' = [q \in Races |-> IF q \in cleared /\ wakeup[q] = "armed" THEN "cancelled"
                                    ELSE wakeup[q]]
      /\ timeouts' = [timeouts EXCEPT ![r] = {}]
      /\ standing' = [standing EXCEPT ![r] = IF @ = "running" THEN "won" ELSE @]
      /\ UNCHANGED <<time, aborts, enclosing, escapes, cutoff, holder, signals, lives>>
  BY DEF CandidateEnds, Cancelled, contextVars
<1>3. ImpatienceType'
  <2>1. wakeup' \in [Races -> Wakeups] /\ standing' \in [Races -> Standings]
    BY <1>1, <1>2 DEF ImpatienceType, Standings, Wakeups
  <2>2. /\ candidate' \in [Races -> {"none", "running", "ended"}]
        /\ timeouts' \in [Races -> SUBSET Races]
    BY <1>1, <1>2 DEF ImpatienceType
  <2> QED
    BY <1>1, <1>2, <2>1, <2>2 DEF ImpatienceType
<1>4. /\ standing'[r] # "running" /\ standing'[r] # "pending"
      /\ candidate'[r] = "ended" /\ timeouts'[r] = {}
      /\ \A q \in Races \ {r} : /\ standing'[q] = standing[q] /\ candidate'[q] = candidate[q]
                                /\ timeouts'[q] = timeouts[q]
      /\ \A q \in Races \ cleared : wakeup'[q] = wakeup[q]
  BY <1>1, <1>2 DEF ImpatienceType, UnstartedInv
<1>5. \A q \in Races : wakeup[q] = "none" => wakeup'[q] = "none"
  BY <1>2
<1> HIDE DEF cleared
<1>6. UnstartedInv'
  BY <1>1, <1>2, <1>4, <1>5 DEF UnstartedInv
<1>7. InheritedInv'
  BY <1>1, <1>2, <1>4 DEF InheritedInv
<1>8. CauseInv'
  <2>1. \A q \in Races : standing'[q] = "aborted" => standing[q] = "aborted"
    BY <1>1, <1>2 DEF ImpatienceType
  <2> QED
    BY <1>1, <1>2, <2>1 DEF CauseInv
<1>9. KeepsTimer'
  <2> SUFFICES ASSUME NEW x \in Races, standing'[x] = "running", cutoff'[x] # Distant,
                      holder'[x] = x \/ candidate'[holder'[x]] = "running"
               PROVE  wakeup'[x] = "armed"
    BY DEF KeepsTimer
  <2>1. x # r /\ standing[x] = "running" /\ holder[x] \in Races
    BY <1>1, <1>4 DEF ImpatienceType
  <2>2. holder[x] # r
    BY <1>2, <1>4, <2>1
  <2>3. x \notin cleared
    BY <1>1, <2>1, <2>2 DEF cleared, InheritedInv
  <2>4. holder[x] = x \/ candidate[holder[x]] = "running"
    BY <1>2, <1>4, <2>1, <2>2
  <2> QED
    BY <1>1, <1>2, <1>4, <2>1, <2>3, <2>4 DEF KeepsTimer
<1>10. BorrowedInv'
  <2>1. ASSUME NEW x \in Races, holder'[x] # x, wakeup'[x] = "armed"
        PROVE  x \in timeouts'[holder'[x]]
    <3>1. wakeup[x] = "armed" /\ x \notin cleared /\ holder'[x] = holder[x]
      BY <1>2, <2>1 DEF cleared
    <3>2. x \in timeouts[holder[x]] /\ holder[x] \in Races /\ x \notin timeouts[r]
      BY <1>1, <2>1, <3>1 DEF BorrowedInv, ImpatienceType, cleared
    <3> QED
      BY <1>4, <3>1, <3>2
  <2>2. \A q \in Races : candidate'[q] = "ended" => timeouts'[q] = {}
    BY <1>1, <1>4 DEF BorrowedInv
  <2> QED
    BY <2>1, <2>2 DEF BorrowedInv
<1> QED
  BY <1>3, <1>6, <1>7, <1>8, <1>9, <1>10 DEF ImpatienceInv

\* Whoever asks only remembers what is so.
LEMMA AskImpatienceInv ==
  ASSUME ImpatienceInv, NEW r \in Races, Ask(r)
  PROVE  ImpatienceInv'
<1>1. ImpatienceType /\ UnstartedInv /\ InheritedInv /\ CauseInv /\ KeepsTimer /\ BorrowedInv
  BY DEF ImpatienceInv
<1>2. /\ candidate[r] = "running"
      /\ lives' = [lives EXCEPT ![r] = ~CopyIsExceeded(r)]
      /\ UNCHANGED <<time, aborts, enclosing, escapes, cutoff, holder, signals,
                     standing, candidate, wakeup, timeouts>>
  BY DEF Ask, contextVars
<1>3. CopyIsExceeded(r) \in BOOLEAN /\ (CopyIsExceeded(r) => ~lives[r] \/ cutoff[r] <= time)
  BY DEF CopyIsExceeded
<1>4. ImpatienceType'
  BY <1>1, <1>2, <1>3 DEF ImpatienceType
<1>5. \A q \in Races : q # r => lives'[q] = lives[q]
  BY <1>1, <1>2 DEF ImpatienceType
<1>6. lives'[r] = ~CopyIsExceeded(r)
  BY <1>1, <1>2 DEF ImpatienceType
<1>7. UnstartedInv'
  BY <1>1, <1>2, <1>5 DEF UnstartedInv
<1>8. InheritedInv' /\ KeepsTimer' /\ BorrowedInv'
  BY <1>1, <1>2 DEF InheritedInv, KeepsTimer, BorrowedInv
<1>9. CauseInv'
  BY <1>1, <1>2, <1>3, <1>5, <1>6 DEF CauseInv
<1> QED
  BY <1>4, <1>7, <1>8, <1>9 DEF ImpatienceInv

LEMMA ImpatienceStep ==
  ASSUME ImpatienceInv, [ImpatienceNext]_impatienceVars
  PROVE  ImpatienceInv'
<1>1. ASSUME TimeGoesBy
      PROVE  ImpatienceInv'
  <2>1. time \in Nat /\ time' = time + 1
        /\ UNCHANGED <<aborts, enclosing, escapes, cutoff, holder, signals,
                       standing, candidate, wakeup, lives, timeouts>>
    BY <1>1 DEF TimeGoesBy, contextVars, copyVars, ImpatienceInv, ImpatienceType
  <2>2. ImpatienceType' /\ UnstartedInv' /\ InheritedInv' /\ KeepsTimer' /\ BorrowedInv'
    BY <2>1 DEF ImpatienceInv, ImpatienceType, UnstartedInv, InheritedInv, KeepsTimer, BorrowedInv
  <2>3. \A q \in Races : cutoff[q] \in Nat
    BY DEF ImpatienceInv, ImpatienceType
  <2>4. CauseInv'
    BY <2>1, <2>3 DEF ImpatienceInv, CauseInv
  <2> QED
    BY <2>2, <2>4 DEF ImpatienceInv
<1>2. ASSUME NEW r \in Races, Start(r)
      PROVE  ImpatienceInv'
  <2>1. PICK t \in Timeouts, asked \in SUBSET RaceSignals :
          \/ r = 1 /\ StartIn(r, Outside, t, asked, FALSE)
          \/ \E p \in {q \in Races : candidate[q] = "running"}, escape \in BOOLEAN :
               StartIn(r, p, t, asked, escape)
    BY <1>2 DEF Start
  <2>2. CASE StartIn(r, Outside, t, asked, FALSE)
    <3>1. Outside \in Races \cup {Outside} /\ FALSE \in BOOLEAN
      OBVIOUS
    <3> QED
      BY <2>2, <3>1, StartInImpatienceInv
  <2>3. ASSUME NEW p \in {q \in Races : candidate[q] = "running"}, NEW escape \in BOOLEAN,
               StartIn(r, p, t, asked, escape)
        PROVE  ImpatienceInv'
    <3>1. p \in Races \cup {Outside} /\ candidate[p] = "running"
      OBVIOUS
    <3> QED
      BY <2>3, <3>1, StartInImpatienceInv
  <2> QED
    BY <2>1, <2>2, <2>3
<1>3. CASE UNCHANGED impatienceVars
  <2>1. UNCHANGED <<time, aborts, enclosing, escapes, cutoff, holder, signals,
                    standing, candidate, wakeup, lives, timeouts>>
    BY <1>3 DEF impatienceVars, contextVars, copyVars
  <2> QED
    BY <2>1 DEF ImpatienceInv, ImpatienceType, UnstartedInv, InheritedInv, CauseInv, KeepsTimer,
                  BorrowedInv
<1> QED
  BY <1>1, <1>2, <1>3, OvertakeImpatienceInv, AbortImpatienceInv, EndsImpatienceInv,
     AskImpatienceInv DEF ImpatienceNext

\* However races are nested, and whichever share a deadline, end or are lost,
\* each keeps its timer while it may be lost by it, and none once the candidate
\* which was handed its deadline ended. Each candidate is told once its race or
\* the one around it, unless it escapes that, was aborted, and never without a
\* reason.
THEOREM NestedRacesAreTold ==
  ImpatienceSpec => [](KeepsTimer /\ ClearsItsTimers /\ TellsTheAborted)
<1>1. ImpatienceInv => KeepsTimer /\ ClearsItsTimers /\ TellsTheAborted
  <2> SUFFICES ASSUME ImpatienceInv
               PROVE  ClearsItsTimers /\ TellsTheAborted
    BY DEF ImpatienceInv
  <2>1. ImpatienceType /\ InheritedInv /\ CauseInv /\ BorrowedInv
    BY DEF ImpatienceInv
  <2>2. ClearsItsTimers
    <3> SUFFICES ASSUME NEW r \in Races, holder[r] # r, candidate[holder[r]] = "ended",
                        wakeup[r] = "armed"
                 PROVE  FALSE
      BY DEF ClearsItsTimers
    <3>1. holder[r] \in Races
      BY <2>1 DEF ImpatienceType
    <3>2. r \in timeouts[holder[r]] /\ timeouts[holder[r]] = {}
      BY <2>1, <3>1 DEF BorrowedInv
    <3> QED
      BY <3>2
  <2>3. ASSUME NEW r \in Races, candidate[r] = "running"
        PROVE  /\ standing[r] = "aborted" => IsAbandoned(r)
               /\ enclosing[r] # Outside /\ ~escapes[r] /\ standing[enclosing[r]] = "aborted"
                    => IsAbandoned(r)
               /\ IsAbandoned(r) => cutoff[r] <= time \/ signals[r] \cap aborts # {}
    <3>1. standing[r] = "aborted" => IsAbandoned(r)
      BY <2>1 DEF CauseInv, IsAbandoned
    <3>2. ASSUME enclosing[r] # Outside, standing[enclosing[r]] = "aborted"
          PROVE  IsAbandoned(r)
      <4>1. enclosing[r] \in Races
        BY <2>1, <3>2 DEF ImpatienceType
      <4>2. signals[enclosing[r]] \subseteq signals[r] /\ signals[enclosing[r]] \cap aborts # {}
        BY <2>1, <3>2, <4>1 DEF InheritedInv, CauseInv
      <4> QED
        BY <4>2 DEF IsAbandoned
    <3>3. IsAbandoned(r) => cutoff[r] <= time \/ signals[r] \cap aborts # {}
      BY <2>1 DEF IsAbandoned, CopyIsExceeded, CauseInv
    <3> QED
      BY <3>1, <3>2, <3>3
  <2> QED
    BY <2>2, <2>3 DEF TellsTheAborted
<1>2. ImpatienceInv /\ [ImpatienceNext]_impatienceVars => ImpatienceInv'
  BY ImpatienceStep
<1> QED
  BY <1>1, <1>2, InitImpatienceInv, PTL DEF ImpatienceSpec
=============================================================================
