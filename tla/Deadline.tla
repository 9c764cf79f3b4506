------------------------------ MODULE Deadline ------------------------------
(***************************************************************************)
(* A FiniteDeadline of stl-resilience (deadlines/common.ts): a cutoff on   *)
(* the clock, the callbacks registered with `onExceeded`, the timers and   *)
(* next-tick jobs which run them, and the memoised promise and signal.     *)
(*                                                                         *)
(* A registration is one call of `onExceeded`: a member of Callbacks for a *)
(* client's own call, of Promises for the one made by `exceeded`.          *)
(* Milliseconds are natural numbers.  The clock is the one shared by       *)
(* DateTime.now and the timers; it never goes back.                        *)
(***************************************************************************)
EXTENDS Integers

CONSTANTS
  Callbacks,  \* client registrations
  Promises,   \* registrations made by `exceeded`, one per promise created
  None,       \* JavaScript's `undefined`
  Cutoff,     \* the deadline's cutoff
  MaxDelay,   \* longest delay a Node timer takes; beyond it fires after 1 ms
  Skew,       \* how early, in ms, a timer may fire relative to the clock
  MaxLag,     \* how long, in ms, one call of `onExceeded` may take
  MaxClock    \* bound on the clock

Regs == Callbacks \cup Promises

ASSUME DeadlineAssumption ==
  /\ Callbacks \cap Promises = {}
  /\ None \notin Regs
  /\ Cutoff \in Nat /\ MaxDelay \in Nat \ {0}
  /\ Skew \in Nat /\ MaxLag \in Nat /\ MaxClock \in Nat

VARIABLES
  clock,
  live,        \* FALSE once the deadline is known to have expired
  reg,         \* what became of each registration
  due,         \* when each registration's timer is due
  pending,     \* pendingTimeouts
  promise,     \* the registration of the memoised promise
  controller,  \* the promise which aborts the memoised signal
  removed      \* history: the registrations whose cleanup was called

vars == <<clock, live, reg, due, pending, promise, controller, removed>>

Init ==
  /\ clock = 0
  /\ live = TRUE
  /\ reg = [r \in Regs |-> "idle"]
  /\ due = [r \in Regs |-> 0]
  /\ pending = {}
  /\ promise = None
  /\ controller = None
  /\ removed = {}

Expired == clock >= Cutoff

\* setTimeout's delay: below 1 ms and above the 32 bit limit it becomes 1 ms.
NodeDelay(ms) == IF ms < 1 \/ ms > MaxDelay THEN 1 ELSE ms

-----------------------------------------------------------------------------
(* Registering.  The clock is read twice, once to tell whether the deadline *)
(* has expired and once for the delay of the timer.                         *)

RegisterExpired(r) ==
  /\ Expired
  /\ live' = FALSE
  /\ reg' = [reg EXCEPT ![r] = "ticked"]
  /\ UNCHANGED <<clock, due, pending>>

\* Mutants: expiry is not checked; the elapsed time is taken for the remaining
\* one.
RegisterTimerUnchecked(r) ==
  /\ due' = [due EXCEPT ![r] = clock + NodeDelay(Cutoff - clock)]
  /\ reg' = [reg EXCEPT ![r] = "armed"]
  /\ pending' = pending \cup {r}
  /\ UNCHANGED <<clock, live>>
RegisterTimerElapsed(r) ==
  /\ ~Expired
  /\ due' = [due EXCEPT ![r] = clock + NodeDelay(clock)]
  /\ reg' = [reg EXCEPT ![r] = "armed"]
  /\ pending' = pending \cup {r}
  /\ UNCHANGED <<clock, live>>
RegisterTimer(r) ==
  /\ ~Expired
  /\ \E lag \in 0 .. MaxLag :
       /\ clock' = clock + lag
       /\ due' = [due EXCEPT ![r] = clock' + NodeDelay(Cutoff - clock')]
  /\ reg' = [reg EXCEPT ![r] = "armed"]
  /\ pending' = pending \cup {r}
  /\ UNCHANGED live

Register(r) ==
  /\ reg[r] = "idle"
  /\ RegisterExpired(r) \/ RegisterTimer(r)

OnExceeded(c) ==
  /\ Register(c)
  /\ UNCHANGED <<promise, controller, removed>>

\* The function onExceeded returned: it clears the timer, or does nothing when
\* the callback was already queued for the next tick.
Cleanup(c) ==
  /\ reg[c] # "idle" /\ c \notin removed
  /\ reg' = [reg EXCEPT ![c] = IF @ = "armed" THEN "cancelled" ELSE @]
  /\ removed' = removed \cup {c}
  /\ UNCHANGED <<clock, live, due, pending, promise, controller>>

Exceeded ==
  /\ promise = None
  /\ \E p \in Promises : Register(p) /\ promise' = p
  /\ UNCHANGED <<controller, removed>>

SignalOfPromise ==
  /\ controller = None /\ promise # None
  /\ controller' = promise
  /\ UNCHANGED <<clock, live, reg, due, pending, promise, removed>>

SignalOfNewPromise ==
  /\ controller = None /\ promise = None
  /\ \E p \in Promises : Register(p) /\ promise' = p /\ controller' = p
  /\ UNCHANGED removed

Signal == SignalOfPromise \/ SignalOfNewPromise

-----------------------------------------------------------------------------
(* Asking, and clearing. *)

\* exceededError, and throwIfExceeded which is the same call.
ExceededError ==
  /\ live' = (live /\ ~Expired)
  /\ UNCHANGED <<clock, reg, due, pending, promise, controller, removed>>

\* What isExceeded returns in the current state.
SaysExceeded == ~live \/ (pending = {} /\ Expired)

IsExceeded ==
  /\ live' = ~SaysExceeded
  /\ UNCHANGED <<clock, reg, due, pending, promise, controller, removed>>

Clear ==
  /\ reg' = [r \in Regs |->
               IF r \in pending /\ reg[r] = "armed" THEN "cancelled" ELSE reg[r]]
  /\ pending' = {}
  /\ promise' = None
  /\ controller' = None
  /\ UNCHANGED <<clock, live, due, removed>>

-----------------------------------------------------------------------------
(* The event loop: next-tick jobs run before any timer. *)

RunTick(r) ==
  /\ reg[r] = "ticked"
  /\ reg' = [reg EXCEPT ![r] = "called"]
  /\ UNCHANGED <<clock, live, due, pending, promise, controller, removed>>

\* Mutants: a timer which fires early does not force the expiry, and its
\* callback runs regardless, or is lost to the exception of the missing error.
FireTimerUnforced(r) ==
  /\ reg[r] = "armed" /\ clock + Skew >= due[r]
  /\ \A q \in Regs : reg[q] # "ticked"
  /\ pending' = pending \ {r}
  /\ live' = (live /\ ~Expired)
  /\ reg' = [reg EXCEPT ![r] = "called"]
  /\ UNCHANGED <<clock, due, promise, controller, removed>>
FireTimerThrows(r) ==
  /\ reg[r] = "armed" /\ clock + Skew >= due[r]
  /\ \A q \in Regs : reg[q] # "ticked"
  /\ pending' = pending \ {r}
  /\ live' = (live /\ ~Expired)
  /\ reg' = [reg EXCEPT ![r] = IF Expired THEN "called" ELSE "lost"]
  /\ UNCHANGED <<clock, due, promise, controller, removed>>

FireTimer(r) ==
  /\ reg[r] = "armed"
  /\ clock + Skew >= due[r]
  /\ \A q \in Regs : reg[q] # "ticked"
  /\ pending' = pending \ {r}
  /\ live' = FALSE
  /\ reg' = [reg EXCEPT ![r] = "called"]
  /\ UNCHANGED <<clock, due, promise, controller, removed>>

TimePasses ==
  /\ clock < MaxClock
  /\ clock' = clock + 1
  /\ UNCHANGED <<live, reg, due, pending, promise, controller, removed>>

Next ==
  \/ \E c \in Callbacks : OnExceeded(c) \/ Cleanup(c)
  \/ Exceeded
  \/ Signal
  \/ ExceededError
  \/ IsExceeded
  \/ Clear
  \/ \E r \in Regs : RunTick(r) \/ FireTimer(r)
  \/ TimePasses

Spec == Init /\ [][Next]_vars

\* Node keeps draining its ticks and firing its timers, and time passes.
\* Nothing is assumed of the deadline's clients.
Fairness ==
  /\ WF_vars(TimePasses)
  /\ \A r \in Regs : WF_vars(RunTick(r)) /\ WF_vars(FireTimer(r))

FairSpec == Spec /\ Fairness

-----------------------------------------------------------------------------
RegStates == {"idle", "ticked", "armed", "cancelled", "called"}

\* The state of a deadline is well formed.
TypeOK ==
  /\ clock \in Nat
  /\ live \in BOOLEAN
  /\ reg \in [Regs -> RegStates]
  /\ due \in [Regs -> Nat]
  /\ pending \subseteq Regs
  /\ promise \in Promises \cup {None}
  /\ controller \in Promises \cup {None}
  /\ removed \subseteq Callbacks

\* Every armed timer is in pendingTimeouts, so that `clear`, which only sees
\* that set, leaves no timer behind.
ClearSeesEveryTimer == \A r \in Regs : reg[r] = "armed" => r \in pending

\* Whoever was called back finds the deadline exceeded, whatever it asks: the
\* timer's early firing is hidden by forcing the error.
CalledBackKnowsExpired ==
  \A r \in Regs : reg[r] \in {"ticked", "called"} => SaysExceeded

\* The memoised signal is always the one of the memoised promise, so that it
\* aborts when that promise rejects; in particular `clear` forgets both.
SignalFollowsPromise == controller # None => controller = promise

\* Once isExceeded would return true it never returns false again, although
\* its answer depends on timers which come and go.
VerdictIsFinal == [][SaysExceeded => SaysExceeded']_vars

Notified(r) == reg[r] # "called" /\ reg'[r] = "called"

\* No callback runs before the cutoff, up to the skew of the timers.
NeverEarly == [][\A r \in Regs : Notified(r) => clock + Skew >= Cutoff]_vars

\* Every registration is eventually called back unless its timer was cleared
\* (by its cleanup or by `clear`), even though cleanups leave entries behind.
EveryoneHears ==
  \A r \in Regs : reg[r] # "idle" ~> reg[r] \in {"called", "cancelled"}

-----------------------------------------------------------------------------
(* What the documentation of the class says, refuted by the code. *)

Outstanding(r) == reg[r] \in {"armed", "ticked"}

\* "Returns true if the deadline has expired and all callbacks registered via
\* onExceeded have been triggered": a true answer means no callback is left.
ExceededMeansAllTriggered ==
  SaysExceeded => \A r \in Regs : ~Outstanding(r)

\* The other direction of the same sentence: expired, and no callback is left
\* to trigger, means a true answer.
AllTriggeredMeansExceeded ==
  Expired /\ (\A r \in Regs : ~Outstanding(r)) => SaysExceeded

\* "The returned function should be used to remove the callback": a callback
\* which was removed before it ran never runs.
RemovedNeverRuns == [][\A r \in Regs : Notified(r) => r \notin removed]_vars
=============================================================================
