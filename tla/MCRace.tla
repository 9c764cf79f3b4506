------------------------------- MODULE MCRace -------------------------------
(* Races for TLC: one race in detail, and races inside of one another.  They *)
(* share no state: each behaviour is of one part, the other rests.           *)
EXTENDS Race, MCImpatience

CONSTANTS s1, s2, cb1, cb2

VARIABLE part

TwoSignals == {s1, s2}
TwoCallbacks == {cb1, cb2}
\* Outside of promise jobs.
TaskTurns == {"macro", "ticks"}

-----------------------------------------------------------------------------
\* No queue is being run for a race which rests.
RaceRests ==
  /\ turn = "none" /\ called = "no"
  /\ deadline = "distant" /\ timer = "none"
  /\ sigs = {} /\ aborted = {} /\ listening = {} /\ abortTick = FALSE
  /\ status = "pending" /\ ended = FALSE /\ verdict = "unset"
  /\ cbs = [cb \in Callbacks |-> "idle"]
  /\ racer = "none" /\ step = "running" /\ late = "none"
  /\ span = [open |-> TRUE, status |-> "unset", noted |-> {}]
  /\ reported = FALSE /\ failed = "none" /\ doomed = FALSE

NestedRest == time = MaxTime /\ aborts = {} /\ Unstarted

RacesInit ==
  \/ part = "race" /\ Init /\ NestedRest
  \/ part = "nested" /\ RaceRests /\ ImpatienceInit

RacesNext ==
  /\ part' = part
  /\ \/ part = "race" /\ Next /\ UNCHANGED impatienceVars
     \/ part = "nested" /\ ImpatienceNext /\ UNCHANGED vars

racesVars == <<part, vars, impatienceVars>>

RacesSpec == RacesInit /\ [][RacesNext]_racesVars /\ Fairness /\ ImpatienceFairness
=============================================================================
