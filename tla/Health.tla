------------------------------- MODULE Health -------------------------------
(***************************************************************************)
(* Health checks (stl-resilience/src/health), the event loop's among them, *)
(* and their exposure by stl-koa's health.ts: an endpoint which reports    *)
(* them, and headers on every other response.                              *)
(*                                                                         *)
(* Delays are in whole milliseconds, rounded down.                         *)
(***************************************************************************)
EXTENDS Integers, Sequences, FiniteSets

CONSTANTS
  CheckKeys, \* of each check, in order, the event loop's first; checks may
             \* share keys
  Latenesses, \* how late the loop's timer may be, in ms
  InTest,    \* running.inTest
  MaxPolls   \* bounds the polls of the event loop which are late

ASSUME HealthAssumption ==
  /\ Len(CheckKeys) \in Nat \ {0} /\ DOMAIN CheckKeys = 1 .. Len(CheckKeys)
  /\ InTest \in BOOLEAN

VARIABLES
  delay,     \* the smoothed delay
  stopped, looping,  \* was the check stopped, and does its loop still run?
  latePolls,
  observed,  \* what each check would observe now
  response   \* the last response, until anything changes: what was asked, the
             \* statuses observed for it, and what its code, headers and body tell

healthVars == <<delay, stopped, looping, latePolls, observed, response>>

NoResponse == [asked |-> "none"]

CheckIndices == DOMAIN CheckKeys
HealthStatuses == {"pass", "warn", "fail"}

-----------------------------------------------------------------------------
(* The event loop's delay *)

Smoothed(late) == (95 * delay + 5 * late) \div 100

ObserveDelay(d) ==
  IF d > 500 /\ ~InTest THEN "fail" ELSE IF d > 250 THEN "warn" ELSE "pass"

\* One iteration of run; the loop ends after the poll during which it is
\* stopped.
Poll(late) ==
  /\ looping
  /\ late > 0 => latePolls < MaxPolls
  /\ latePolls' = IF late > 0 THEN latePolls + 1 ELSE latePolls
  /\ delay' = Smoothed(late)
  /\ observed' = [observed EXCEPT ![1] = ObserveDelay(delay')]
  /\ looping' = ~stopped
  /\ response' = NoResponse
  /\ UNCHANGED stopped

Stop ==
  /\ ~stopped /\ stopped' = TRUE
  /\ response' = NoResponse
  /\ UNCHANGED <<delay, looping, latePolls, observed>>

\* The other checks observe anything.
ObservationChanges(c, status) ==
  /\ c # 1 /\ observed[c] # status
  /\ observed' = [observed EXCEPT ![c] = status]
  /\ response' = NoResponse
  /\ UNCHANGED <<delay, stopped, looping, latePolls>>

-----------------------------------------------------------------------------
(* Reports *)

\* Mutant: the last status which is not a pass counts.
MergeKeepingLast(s1, s2) == IF s2 = "pass" THEN s1 ELSE s2
mergeHealthStatuses(s1, s2) ==
  IF "fail" \in {s1, s2} THEN "fail" ELSE IF "warn" \in {s1, s2} THEN "warn" ELSE "pass"

Keys == {CheckKeys[c] : c \in CheckIndices}

\* Mutant: the statuses of a key start anew with each of its checks.
AddedAnew(checks, c) == [checks EXCEPT ![CheckKeys[c]] = <<observed[c]>>]
\* The statuses of each key, none for those which no check had yet.
Added(checks, c) == [checks EXCEPT ![CheckKeys[c]] = Append(@, observed[c])]

\* report, of the first n checks.  All are observed at once.  A check which
\* throws is left out: its error would be the answer of any request.
Reported[n \in 0 .. Len(CheckKeys)] ==
  IF n = 0 THEN [status |-> "pass", checks |-> [key \in Keys |-> <<>>]]
  ELSE [status |-> mergeHealthStatuses(Reported[n - 1].status, observed[n]),
        checks |-> Added(Reported[n - 1].checks, n)]

Report == Reported[Len(CheckKeys)]

\* groupHealthChecks, with the keys which headerValue tells.
KeysWith(report, status) ==
  {key \in Keys : \E i \in DOMAIN report.checks[key] : report.checks[key][i] = status}

healthStatusHttpCode(s) == CASE s = "pass" -> 200 [] s = "warn" -> 207 [] s = "fail" -> 503

\* The endpoint answers itself, with the report.
GetHealth ==
  response' = [asked |-> "health", of |-> observed, status |-> Report.status,
               code |-> healthStatusHttpCode(Report.status), checks |-> Report.checks]

\* The other middleware adds headers: those with keys unless all pass.
OtherGet ==
  LET With(status) == IF Report.status = "pass" THEN {} ELSE KeysWith(Report, status)
  IN response' = [asked |-> "other", of |-> observed, status |-> Report.status,
                  failures |-> With("fail"), warnings |-> With("warn")]

Get ==
  /\ GetHealth \/ OtherGet
  /\ UNCHANGED <<delay, stopped, looping, latePolls, observed>>

HealthInit ==
  /\ delay = 0 /\ stopped = FALSE /\ looping = TRUE /\ latePolls = 0
  /\ observed = [c \in CheckIndices |-> "pass"]
  /\ response = NoResponse

HealthNext ==
  \/ \E late \in Latenesses \cup {0} : Poll(late)
  \/ Stop \/ Get
  \/ \E c \in CheckIndices, status \in HealthStatuses : ObservationChanges(c, status)

HealthSpec == HealthInit /\ [][HealthNext]_healthVars

-----------------------------------------------------------------------------
(* Properties *)

Worse(s) == CASE s = "pass" -> 0 [] s = "warn" -> 1 [] s = "fail" -> 2

\* Checks with a key among the first n.
Sharing(key, n) == Cardinality({c \in 1 .. n : CheckKeys[c] = key})

\* A response tells of the checks as they were when it was made, all at once,
\* even if they share keys: the status is that of the worst.  The endpoint's
\* body has each check once, in order under its key, and nothing else; its code
\* is an error if and only if one failed.  Headers have the keys of those which
\* failed, and of those which warned.
TellsAllChecks ==
  response.asked # "none" =>
    LET With(status) == {c \in CheckIndices : response.of[c] = status}
    IN /\ \A c \in CheckIndices : Worse(response.of[c]) <= Worse(response.status)
       /\ With(response.status) # {} \/ response.status = "pass"
       /\ response.asked = "health" =>
            /\ \A key \in Keys : Len(response.checks[key]) = Sharing(key, Len(CheckKeys))
            /\ \A c \in CheckIndices :
                 response.checks[CheckKeys[c]][Sharing(CheckKeys[c], c)] = response.of[c]
            /\ response.code >= 300 <=> With("fail") # {}
            /\ response.code = 200 <=> With("pass") = CheckIndices
       /\ response.asked = "other" =>
            /\ response.failures = {CheckKeys[c] : c \in With("fail")}
            /\ response.warnings = {CheckKeys[c] : c \in With("warn")}
=============================================================================
