----------------------------- MODULE ActiveSpan -----------------------------
(***************************************************************************)
(* One call of withActiveSpan (stl-telemetry/src/tracing/spans.ts).  The   *)
(* span has parts: the wrapped function, or the intensive operation it     *)
(* returns, and each generator bound to the span.  `pending` counts those  *)
(* not completed yet and the span ends when it is back to zero.            *)
(*                                                                         *)
(* Bound generators are consumed at most once, up to their end or not, and *)
(* an operation runs once (stl-utils/src/intensive.ts asserts it), starting *)
(* after the function returned it.                                         *)
(***************************************************************************)
EXTENDS Integers, FiniteSets

CONSTANT Generators

ASSUME GeneratorsAssumption == IsFiniteSet(Generators)

VARIABLES
  recording,  \* does the tracer record the span?
  skipOk,     \* skipOkStatus
  fn,         \* the function: in its synchronous "body", a pending "promise",
              \* "returned", "threw", "rejected", or "threwBlank" and
              \* "rejectedBlank" when that was with a falsy value
  op,         \* the operation which it returned, "none" if it returned another
              \* value
  gens,       \* the generators
  pending,
  errored,
  status,     \* the last status set on the span
  ends        \* how often the span was ended, and activeSpanEnd emitted

optionVars == <<recording, skipOk>>
spanVars == <<pending, errored, status, ends>>
vars == <<optionVars, fn, op, gens, spanVars>>

Init ==
  /\ recording \in BOOLEAN /\ skipOk \in BOOLEAN
  /\ fn = "body" /\ op = "none"
  /\ gens = [g \in Generators |-> "idle"]
  /\ pending = 1 /\ errored = FALSE
  /\ status = "unset" /\ ends = 0

-----------------------------------------------------------------------------
(* Completing a part. *)

\* A part is done, or it failed, maybe with a falsy value: undefined, 0 or ''.
Outcomes == {"done", "failed", "blank"}

\* Mutants: only the last part's error counts; the span ends before its last
\* part.
CompletePendingLastError(outcome) ==
  /\ pending' = pending - 1 /\ errored' = (outcome = "failed")
  /\ IF pending > 1
     THEN UNCHANGED <<status, ends>>
     ELSE /\ status' = IF errored' THEN "error" ELSE IF skipOk THEN status ELSE "ok"
          /\ ends' = ends + 1
CompletePendingEarly(outcome) ==
  /\ pending' = pending - 1 /\ errored' = (errored \/ outcome = "failed")
  /\ status' = IF errored' THEN "error" ELSE IF skipOk THEN status ELSE "ok"
  /\ ends' = IF pending > 2 THEN ends ELSE ends + 1

\* completePending(err): an error which is falsy is none.
CompletePending(outcome) ==
  /\ pending' = pending - 1
  /\ errored' = (errored \/ outcome = "failed")
  /\ IF pending > 1
     THEN UNCHANGED <<status, ends>>
     ELSE /\ status' = IF errored' THEN "error" ELSE IF skipOk THEN status ELSE "ok"
          /\ ends' = ends + 1

\* settingUpEvents: an operation completes with its `end` event, any other
\* value now.
SettingUpEvents(kind) ==
  \/ kind = "operation" /\ op' = "idle" /\ UNCHANGED spanVars
  \/ kind = "value" /\ CompletePending("done") /\ UNCHANGED op

-----------------------------------------------------------------------------
(* The wrapped function. *)

FnThrows(outcome) ==
  /\ fn = "body" /\ outcome # "done"
  /\ fn' = IF outcome = "failed" THEN "threw" ELSE "threwBlank"
  /\ CompletePending(outcome)
  /\ UNCHANGED <<optionVars, op, gens>>

\* Nothing waits for what is returned under a span which does not record.
FnReturns(kind) ==
  /\ fn = "body"
  /\ fn' = "returned"
  /\ IF recording
     THEN SettingUpEvents(kind)
     ELSE UNCHANGED <<op, spanVars>>
  /\ UNCHANGED <<optionVars, gens>>

FnReturnsPromise ==
  /\ fn = "body"
  /\ fn' = "promise"
  /\ UNCHANGED <<optionVars, op, gens, spanVars>>

FnResolves(kind) ==
  /\ fn = "promise"
  /\ fn' = "returned"
  /\ IF recording
     THEN SettingUpEvents(kind)
     ELSE UNCHANGED <<op, spanVars>>
  /\ UNCHANGED <<optionVars, gens>>

\* Mutant: a rejection does not complete the function.
FnRejectsUncaught(outcome) ==
  /\ fn = "promise" /\ outcome # "done"
  /\ fn' = IF outcome = "failed" THEN "rejected" ELSE "rejectedBlank"
  /\ UNCHANGED <<optionVars, op, gens, spanVars>>

FnRejects(outcome) ==
  /\ fn = "promise" /\ outcome # "done"
  /\ fn' = IF outcome = "failed" THEN "rejected" ELSE "rejectedBlank"
  /\ IF recording
     THEN CompletePending(outcome)
     ELSE UNCHANGED spanVars
  /\ UNCHANGED <<optionVars, op, gens>>

-----------------------------------------------------------------------------
(* Operations and generators. *)

OpStarts ==
  /\ op = "idle"
  /\ op' = "running"
  /\ UNCHANGED <<optionVars, fn, gens, spanVars>>

OpEnds(outcome) ==
  /\ op = "running"
  /\ op' = outcome
  /\ CompletePending(outcome)
  /\ UNCHANGED <<optionVars, fn, gens>>

\* The assertion increments the count before it fails.
Bind(g) ==
  /\ gens[g] = "idle"
  /\ gens' = [gens EXCEPT ![g] = IF pending > 0 THEN "bound" ELSE "refused"]
  /\ pending' = pending + 1
  /\ UNCHANGED <<optionVars, fn, op, errored, status, ends>>

Iterate(g) ==
  /\ gens[g] = "bound"
  /\ gens' = [gens EXCEPT ![g] = "iterated"]
  /\ UNCHANGED <<optionVars, fn, op, spanVars>>

\* The iterator awaits: nothing completes within the function's body.
GeneratorEnds(g, outcome) ==
  /\ gens[g] = "iterated" /\ fn # "body"
  /\ gens' = [gens EXCEPT ![g] = outcome]
  /\ CompletePending(outcome)
  /\ UNCHANGED <<optionVars, fn, op>>

\* A consumer which leaves its loop early is not noticed: the iterator given to
\* it has no `return`.
ConsumerLeaves(g) ==
  /\ gens[g] = "iterated"
  /\ gens' = [gens EXCEPT ![g] = "left"]
  /\ UNCHANGED <<optionVars, fn, op, spanVars>>

Kinds == {"value", "operation"}

Next ==
  \/ FnReturnsPromise
  \/ \E outcome \in Outcomes : FnThrows(outcome) \/ FnRejects(outcome) \/ OpEnds(outcome)
  \/ \E kind \in Kinds : FnReturns(kind) \/ FnResolves(kind)
  \/ OpStarts
  \/ \E g \in Generators : \/ Bind(g) \/ Iterate(g) \/ ConsumerLeaves(g)
                           \/ \E outcome \in Outcomes : GeneratorEnds(g, outcome)

Spec == Init /\ [][Next]_vars

-----------------------------------------------------------------------------
GeneratorStates ==
  {"idle", "bound", "refused", "iterated", "left"} \cup Outcomes

TypeOK ==
  /\ recording \in BOOLEAN /\ skipOk \in BOOLEAN
  /\ fn \in {"body", "promise", "returned", "threw", "rejected", "threwBlank", "rejectedBlank"}
  /\ op \in {"none", "idle", "running"} \cup Outcomes
  /\ gens \in [Generators -> GeneratorStates]
  /\ pending \in Nat /\ errored \in BOOLEAN
  /\ status \in {"unset", "ok", "error"} /\ ends \in Nat

\* The parts which are not over.
FnOutstanding == fn \in {"body", "promise"} \/ op \in {"idle", "running"}
Outstanding == {g \in Generators : gens[g] \in {"bound", "iterated", "left"}}
\* With an error; and with a falsy value.
SomePartFailed ==
  fn \in {"threw", "rejected"} \/ op = "failed" \/ \E g \in Generators : gens[g] = "failed"
SomePartBlank ==
  fn \in {"threwBlank", "rejectedBlank"} \/ op = "blank" \/ \E g \in Generators : gens[g] = "blank"

\* A span ends at most once, even if generators are bound after its end, and
\* it ends when its last part does.
EndsOnceAndLast ==
  /\ ends <= 1
  /\ ends = 0 /\ recording => FnOutstanding \/ Outstanding # {}

\* A span ends with nothing outstanding, however its function, operation and
\* generators were interleaved.
EndsWithItsParts ==
  [][ends' > ends => ~FnOutstanding' /\ Outstanding' = {}]_vars

\* It then shows an error exactly if one of its parts, and not only the last
\* one, failed with one. Parts which threw or were rejected with a falsy value
\* do not count (spans.ts:98): a span whose other parts are done is then a
\* success.
ShowsAnyFailure ==
  [][ends' > ends => (status' = "error" <=> SomePartFailed')]_vars

\* Refuted by the code, for falsy values: a span shows an error if a part failed,
\* whatever it threw.
ShowsBlankFailures ==
  [][ends' > ends => (status' = "error" <=> SomePartFailed' \/ SomePartBlank')]_vars

\* Refuted by the code: "It is illegal to bind additional generators after the
\* span has ended."
LateBindingRefused ==
  [][\A g \in Generators :
       ends > 0 /\ gens[g] = "idle" => gens'[g] \in {"idle", "refused"}]_vars
=============================================================================
