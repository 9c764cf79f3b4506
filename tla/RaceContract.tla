---------------------------- MODULE RaceContract ----------------------------
(***************************************************************************)
(* What a race promises its client (deadlines/race.ts): it is decided at   *)
(* most once, the status and the promise tell the same story, a race       *)
(* started after its deadline is lost, and onLoss callbacks hear of a loss *)
(* and of nothing else.  Race implements this when it is started outside   *)
(* of a promise job.                                                       *)
(***************************************************************************)
CONSTANT Callbacks

VARIABLES
  status,   \* the race's status
  verdict,  \* what the client's promise settled with
  doomed,   \* was the deadline exceeded when the race started?
  waiting,  \* callbacks to tell of a loss
  told      \* callbacks which were told

vars == <<status, verdict, doomed, waiting, told>>

Init ==
  /\ status = "pending"
  /\ verdict = "unset"
  /\ doomed = FALSE
  /\ waiting = {}
  /\ told = {}

Lost == status \in {"aborted", "overtaken"}

Start ==
  /\ status = "pending"
  /\ status' = "running"
  /\ verdict' = "pending"
  /\ doomed' \in BOOLEAN
  /\ UNCHANGED <<waiting, told>>

Win ==
  /\ status = "running" /\ ~doomed
  /\ status' = "won"
  /\ verdict' \in {"value", "failure"}
  /\ UNCHANGED <<doomed, waiting, told>>

Lose ==
  /\ status = "running"
  /\ \/ status' = "aborted" /\ verdict' = "aborted"
     \/ status' = "overtaken" /\ verdict' = "deadline"
  /\ told' = told \cup waiting
  /\ waiting' = {}
  /\ UNCHANGED doomed

Subscribe(cb) ==
  /\ ~Lost /\ cb \notin told
  /\ waiting' = waiting \cup {cb}
  /\ UNCHANGED <<status, verdict, doomed, told>>

\* A callback added after the loss is told on its own.
Tell(cb) ==
  /\ Lost
  /\ told' = told \cup {cb}
  /\ UNCHANGED <<status, verdict, doomed, waiting>>

Next ==
  \/ Start
  \/ Win
  \/ Lose
  \/ \E cb \in Callbacks : Subscribe(cb) \/ Tell(cb)

Spec == Init /\ [][Next]_vars
=============================================================================
