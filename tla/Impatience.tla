----------------------------- MODULE Impatience -----------------------------
(***************************************************************************)
(* Instrumented races inside of one another (deadlines/race.ts and         *)
(* common.ts).  A race's candidate runs in a context which holds a copy of *)
(* its deadline and its signals, its impatience.  Races started by the     *)
(* candidate inherit them: such a race may have the very deadline of the   *)
(* enclosing context for its own, and registers its callback on it.        *)
(*                                                                         *)
(* Race has the details of one race.  Here a race which is doomed when it  *)
(* starts is lost at once, as when it is started outside of promise jobs.  *)
(***************************************************************************)
EXTENDS Naturals

CONSTANTS
  Races,     \* 1 .. n, started in this order
  RaceSignals,
  Timeouts,  \* of races: delays, or Distant
  Distant,   \* the cutoff of infinite deadlines and those in the distant future
  MaxTime    \* bound on time

ASSUME ImpatienceAssumption ==
  /\ Races \subseteq Nat \ {0}
  /\ MaxTime \in Nat /\ Distant \in Nat /\ Distant > MaxTime
  /\ Timeouts \subseteq Nat

Outside == 0  \* no impatience is active

VARIABLES
  time,
  aborts,     \* the signals which were aborted
  enclosing,  \* the race whose candidate started each race, or Outside
  escapes,    \* escapeContext
  cutoff,     \* of the race's deadline, and of the copy its candidate sees
  holder,     \* the race whose candidate sees the race's deadline; the race
              \* itself if the deadline is one of its own
  signals,    \* those the race listens to, and its candidate sees
  standing,     \* of the race
  candidate,  \* "none", "running" or "ended"
  wakeup,      \* of the race's callback: "none", "armed", "fired", "cancelled"
  lives,      \* `live` of the copy which the race's candidate sees
  timeouts    \* its pendingTimeouts, as the races they belong to

contextVars == <<enclosing, escapes, cutoff, holder, signals>>
copyVars == <<lives, timeouts>>
impatienceVars == <<time, aborts, contextVars, standing, candidate, wakeup, copyVars>>

Unstarted ==
  /\ enclosing = [r \in Races |-> Outside] /\ escapes = [r \in Races |-> FALSE]
  /\ cutoff = [r \in Races |-> Distant] /\ holder = [r \in Races |-> r]
  /\ signals = [r \in Races |-> {}]
  /\ standing = [r \in Races |-> "pending"] /\ candidate = [r \in Races |-> "none"]
  /\ wakeup = [r \in Races |-> "none"]
  /\ lives = [r \in Races |-> TRUE] /\ timeouts = [r \in Races |-> {}]

ImpatienceInit == time = 0 /\ aborts = {} /\ Unstarted

TimeGoesBy ==
  /\ time < MaxTime
  /\ time' = time + 1
  /\ UNCHANGED <<aborts, contextVars, standing, candidate, wakeup, copyVars>>

-----------------------------------------------------------------------------
(* Starting *)

\* deadlines.create, from any kind of timeout.
CutoffIn(t) == IF t = Distant THEN Distant ELSE time + t

\* Mutant: a race inside of another keeps the later deadline.
ActiveComesLast(p, own) == p # Outside /\ cutoff[p] > own

\* deadlines.first: the later argument only when it comes strictly first.
ActiveComesFirst(p, own) == p # Outside /\ cutoff[p] < own

\* activeSignals: they are added to every race, escaping or not.
SignalsFrom(p) == IF p = Outside THEN {} ELSE signals[p]

\* instrumentedRace and run, in the context of p's candidate.
StartIn(r, p, t, sigs, escape) ==
  LET own == CutoffIn(t)
      inherited == ~escape /\ ActiveComesFirst(p, own)
      end == IF inherited THEN cutoff[p] ELSE own
      all == sigs \cup SignalsFrom(p)
      passed == end <= time
      signaled == all \cap aborts # {}
  IN /\ standing[r] = "pending"
     /\ enclosing' = [enclosing EXCEPT ![r] = p] /\ escapes' = [escapes EXCEPT ![r] = escape]
     /\ cutoff' = [cutoff EXCEPT ![r] = end]
     /\ holder' = [holder EXCEPT ![r] = IF inherited THEN p ELSE r]
     /\ signals' = [signals EXCEPT ![r] = all]
     /\ standing' = [standing EXCEPT ![r] = IF passed THEN "overtaken"
                                        ELSE IF signaled THEN "aborted" ELSE "running"]
     /\ candidate' = [candidate EXCEPT ![r] = "running"]
     /\ wakeup' = [wakeup EXCEPT ![r] = IF end = Distant \/ passed THEN "none"
                                      ELSE IF signaled THEN "cancelled" ELSE "armed"]
     /\ lives' = IF inherited /\ passed THEN [lives EXCEPT ![p] = FALSE] ELSE lives
     /\ timeouts' = IF inherited /\ ~passed
                    THEN [timeouts EXCEPT ![p] = @ \cup {r}] ELSE timeouts
     /\ UNCHANGED <<time, aborts>>

\* The first race is outermost, the others start somewhere inside of it: races
\* apart share no context. Deadlines beyond MaxTime, which would never expire,
\* are left out.
Start(r) ==
  /\ \A q \in Races : q < r => standing[q] # "pending"
  /\ \E t \in {t \in Timeouts : t = Distant \/ time + t <= MaxTime}, sigs \in SUBSET RaceSignals :
       \/ r = 1 /\ StartIn(r, Outside, t, sigs, FALSE)
       \/ \E p \in {q \in Races : candidate[q] = "running"}, escape \in BOOLEAN :
            StartIn(r, p, t, sigs, escape)

-----------------------------------------------------------------------------
(* Ending *)

Cancelled(rs) ==
  [r \in Races |-> IF r \in rs /\ wakeup[r] = "armed" THEN "cancelled" ELSE wakeup[r]]

\* The callback of the race's deadline.
OvertakeNested(r) ==
  /\ wakeup[r] = "armed" /\ cutoff[r] <= time
  /\ wakeup' = [wakeup EXCEPT ![r] = "fired"]
  /\ standing' = [standing EXCEPT ![r] = "overtaken"]
  /\ IF holder[r] = r THEN UNCHANGED copyVars
     ELSE /\ lives' = [lives EXCEPT ![holder[r]] = FALSE]
          /\ timeouts' = [timeouts EXCEPT ![holder[r]] = @ \ {r}]
  /\ UNCHANGED <<time, aborts, contextVars, candidate>>

\* Every race which listens is lost. Its timer is cancelled, and stays among
\* the pending ones.
SignalAborts(s) ==
  LET lost == {r \in Races : standing[r] = "running" /\ s \in signals[r]} IN
  /\ s \notin aborts
  /\ aborts' = aborts \cup {s}
  /\ standing' = [r \in Races |-> IF r \in lost THEN "aborted" ELSE standing[r]]
  /\ wakeup' = Cancelled(lost)
  /\ UNCHANGED <<time, contextVars, candidate, copyVars>>

\* withActiveImpatience clears the copy, the race cleans its timer up.
CandidateEnds(r) ==
  /\ candidate[r] = "running"
  /\ candidate' = [candidate EXCEPT ![r] = "ended"]
  /\ wakeup' = Cancelled({r} \cup timeouts[r])
  /\ timeouts' = [timeouts EXCEPT ![r] = {}]
  /\ standing' = [standing EXCEPT ![r] = IF @ = "running" THEN "won" ELSE @]
  /\ UNCHANGED <<time, aborts, contextVars, lives>>

-----------------------------------------------------------------------------
(* Asking *)

\* isExceeded, of the copy.
CopyIsExceeded(r) == ~lives[r] \/ (timeouts[r] = {} /\ cutoff[r] <= time)

\* What isAbandoned, throwIfAbandoned and rejectIfAbandoned tell r's candidate.
IsAbandoned(r) == CopyIsExceeded(r) \/ signals[r] \cap aborts # {}

\* They remember that the deadline was exceeded.
Ask(r) ==
  /\ candidate[r] = "running"
  /\ lives' = [lives EXCEPT ![r] = ~CopyIsExceeded(r)]
  /\ UNCHANGED <<time, aborts, contextVars, standing, candidate, wakeup, timeouts>>

-----------------------------------------------------------------------------
ImpatienceNext ==
  \/ TimeGoesBy
  \/ \E r \in Races : Start(r) \/ OvertakeNested(r) \/ CandidateEnds(r) \/ Ask(r)
  \/ \E s \in RaceSignals : SignalAborts(s)

ImpatienceSpec == ImpatienceInit /\ [][ImpatienceNext]_impatienceVars

\* Time passes and timers fire. Candidates need not end.
ImpatienceFairness ==
  /\ WF_impatienceVars(TimeGoesBy)
  /\ \A r \in Races : WF_impatienceVars(OvertakeNested(r))

FairImpatienceSpec == ImpatienceSpec /\ ImpatienceFairness

-----------------------------------------------------------------------------
IsLost(r) == standing[r] \in {"aborted", "overtaken"}

\* A race with a deadline keeps the timer which loses it for as long as it
\* runs, whichever races share the deadline, end or are lost before it: they
\* clear copies of it. Only the end of the candidate which sees the deadline
\* takes the timer away, and with it all hope to be overtaken (race.ts:301).
KeepsTimer ==
  \A r \in Races :
    /\ standing[r] = "running" /\ cutoff[r] # Distant
    /\ holder[r] = r \/ candidate[holder[r]] = "running"
    => wakeup[r] = "armed"

\* A deadline's listeners are cleared once the candidate which was handed it
\* returns (race.ts:300): no race which borrowed the deadline keeps a timer
\* which would overtake it after that, whenever it started, however many
\* share the deadline and in whichever order they ended before.
ClearsItsTimers ==
  \A r \in Races : holder[r] # r /\ candidate[holder[r]] = "ended" => wakeup[r] # "armed"

\* Candidates are told that they were abandoned once their race was aborted, or
\* the one around it unless they escape it; and only if their race could have
\* been lost.
TellsTheAborted ==
  \A r \in Races : candidate[r] = "running" =>
    /\ standing[r] = "aborted" => IsAbandoned(r)
    /\ enclosing[r] # Outside /\ ~escapes[r] /\ standing[enclosing[r]] = "aborted"
         => IsAbandoned(r)
    /\ IsAbandoned(r) => cutoff[r] <= time \/ signals[r] \cap aborts # {}

\* A race inside of one which was lost is over as well, sooner or later, unless
\* it escapes its context: always when the outer one was aborted, and when it
\* was overtaken unless its candidate leaves the inner race behind.
LosesTogether ==
  \A r \in Races : \A p \in Races \cap 1 .. r - 1 :
    (enclosing[r] = p /\ ~escapes[r] /\ IsLost(p))
      ~> (standing[r] # "running" \/ (standing[p] = "overtaken" /\ candidate[p] = "ended"))

\* Nested races are lost in time, and with the races around them.
NestedRacesEnd == [](KeepsTimer /\ ClearsItsTimers /\ TellsTheAborted) /\ LosesTogether

-----------------------------------------------------------------------------
(* What the documentation says, refuted by the code. *)

\* "Returns whether an enclosing race has been abandoned. This can happen if
\* its deadline was exceeded" (race.ts:503), with no callback left to trigger.
\* A nested race which ended leaves its timer among the pending ones, and with
\* it the deadline unexceeded for ever.
TellsTheOvertaken ==
  \A r \in Races :
    /\ candidate[r] = "running" /\ standing[r] = "overtaken"
    /\ \A q \in Races \ {r} : holder[q] = r => wakeup[q] # "armed"
    => IsAbandoned(r)

\* "Don't add any currently active deadline or signals" (race.ts:382): the
\* deadline is not added, the signals are.
EscapesSignals ==
  \A r \in Races :
    escapes[r] /\ standing[r] = "aborted" /\ enclosing[r] # Outside
      => \E s \in signals[r] \cap aborts : s \notin signals[enclosing[r]]
=============================================================================
