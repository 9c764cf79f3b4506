------------------------------- MODULE MCKoa -------------------------------
(***************************************************************************)
(* stl-koa for TLC, with the errors which its responses are made of, and   *)
(* stl-graphql.  The parts share no state: each behaviour is of one part,  *)
(* the others rest.                                                        *)
(***************************************************************************)
EXTENDS Request, Throttle, Errors, Health, FieldRequests, KoaApp

CONSTANTS r1, r2

VARIABLE part

TwoRequests == {r1, r2}
\* Another check shares the key of the event loop's, one between them does not.
ThreeKeys == <<"loop", "db", "loop">>

R(p, s, bp, bs) ==
  [steady |-> [points |-> p, seconds |-> s], burst |-> [points |-> bp, seconds |-> bs]]
SomeRates == {R(0, 0, 0, 0), R(2, 2, 0, 0), R(1, 3, 1, 2), R(1, 2, 2, 3)}

\* Without a mapping, and with one to an internal and a public status.
SomeMappings ==
  {[c \in ErrorCodes |-> Nothing],
   [c \in ErrorCodes |-> IF c = "ERR_A" THEN "INTERNAL" ELSE "NOT_FOUND"]}

\* Neither statuses nor the search for fields depend on any state.
ASSUME CodesKeepSeverity
ASSUME FieldsAreFound
ASSUME ~RepeatedAreFound

-----------------------------------------------------------------------------
ThrottleRests ==
  /\ rate = R(0, 0, 0, 0) /\ seconds = 0 /\ made = 0
  /\ windows = [l \in {"steady", "burst"} |-> Fresh]
  /\ bursting = <<>> /\ allowed = <<>> /\ advice = NoAdvice

ErrorsRest ==
  /\ err = [e \in Errs |-> [kind |-> "value", causes |-> <<>>]]
  /\ query = [for |-> "code"]
  /\ walk = <<>> /\ seen = {} /\ codes = {} /\ outcome = "searching" /\ match = Nothing

Init ==
  /\ part \in {"request", "throttle", "errors", "health", "app"}
  /\ RequestInit /\ HealthInit /\ App!Init
  /\ IF part = "throttle" THEN ThrottleInit ELSE ThrottleRests
  /\ IF part = "errors" THEN ErrorsInit ELSE ErrorsRest

Next ==
  /\ part' = part
  /\ \/ /\ part = "request" /\ RequestNext
        /\ UNCHANGED <<throttleVars, errorsVars, healthVars, appVars>>
     \/ /\ part = "throttle" /\ ThrottleNext
        /\ UNCHANGED <<requestVars, errorsVars, healthVars, appVars>>
     \/ /\ part = "errors" /\ ErrorsNext
        /\ UNCHANGED <<requestVars, throttleVars, healthVars, appVars>>
     \/ /\ part = "health" /\ HealthNext
        /\ UNCHANGED <<requestVars, throttleVars, errorsVars, appVars>>
     \/ /\ part = "app" /\ App!Next
        /\ UNCHANGED <<requestVars, throttleVars, errorsVars, healthVars>>

vars == <<part, requestVars, throttleVars, errorsVars, healthVars, appVars>>

\* Only requests have fairness, and none to ask for while they rest.
Spec == Init /\ [][Next]_vars /\ RequestFairness

=============================================================================
