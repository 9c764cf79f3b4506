---------------------------- MODULE MCResilience ----------------------------
(* For TLC, a deadline with its callbacks and a resilient run.  They share   *)
(* no state: each behaviour is of one part, the other rests.                 *)
EXTENDS MCDeadline, Resilient

VARIABLE part

\* The clock stands at its bound, and no timer is armed.
DeadlineRests ==
  /\ clock = MaxClock /\ live = TRUE /\ removed = {}
  /\ reg = [r \in Regs |-> "idle"] /\ due = [r \in Regs |-> 0] /\ pending = {}
  /\ promise = None /\ controller = None

RunRests ==
  /\ ResilientInit
  /\ retries = 0 /\ predicate = "none" /\ capped = FALSE /\ deadline = "distant"

ResilienceInit ==
  \/ part = "deadline" /\ Init /\ RunRests
  \/ part = "run" /\ DeadlineRests /\ ResilientInit

ResilienceNext ==
  /\ part' = part
  /\ \/ part = "deadline" /\ Next /\ UNCHANGED resilientVars
     \/ part = "run" /\ ResilientNext /\ UNCHANGED vars

resilienceVars == <<part, vars, resilientVars>>

ResilienceSpec ==
  ResilienceInit /\ [][ResilienceNext]_resilienceVars /\ Fairness /\ ResilientFairness
=============================================================================
