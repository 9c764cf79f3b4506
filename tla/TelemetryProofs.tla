-------------------------- MODULE TelemetryProofs ---------------------------
(***************************************************************************)
(* Proofs about stl-telemetry. ActiveSpan, for any finite set of generators: *)
(* `pending` is the number of parts which have not completed, that is the  *)
(* function or its operation, and each generator which was bound, or refused. *)
(* Recording, for any spans and waiters; Metrics, for any libraries; Logging, *)
(* for any specs, contexts and number of loggers.                          *)
(***************************************************************************)
EXTENDS ActiveSpan, Recording, Metrics, Logging,
        FiniteSetTheorems, Induction, TLAPS

-----------------------------------------------------------------------------
(* Active spans *)

\* The function still counts; under a span which does not record it does so
\* for ever, unless it threw.
FnCounts ==
  FnOutstanding \/ (~recording /\ fn \in {"returned", "rejected", "rejectedBlank"})

Counted == {g \in Generators : gens[g] \in {"bound", "iterated", "left", "refused"}}

CountInv == pending = Cardinality(Counted) + (IF FnCounts THEN 1 ELSE 0)

\* An operation exists once the function returned it, to a span which records.
OpInv == op # "none" => recording /\ fn = "returned"

\* Before the end every binding is accepted.  After it the first one is refused
\* and, still counted, keeps the count from reaching zero again.
EndInv ==
  /\ ends = 0 => /\ pending > 0 /\ status = "unset"
                 /\ \A g \in Generators : gens[g] # "refused"
  /\ ends # 0 => /\ ends = 1 /\ ~FnCounts
                 /\ Outstanding # {} => \E g \in Generators : gens[g] = "refused"

\* errored remembers the failures which were counted.
ErrorInv ==
  errored <=> \/ fn = "threw" \/ (recording /\ fn = "rejected") \/ op = "failed"
              \/ \E g \in Generators : gens[g] = "failed"

SpanInv == TypeOK /\ CountInv /\ OpInv /\ EndInv /\ ErrorInv

LEMMA CountedFinite ==
  ASSUME TypeOK
  PROVE  IsFiniteSet(Counted) /\ Cardinality(Counted) \in Nat
<1>1. Counted \subseteq Generators
  BY DEF Counted
<1> QED
  BY <1>1, GeneratorsAssumption, FS_Subset, FS_CardinalityType

\* A bound generator adds one to what is counted.
LEMMA BindCounts ==
  ASSUME TypeOK, NEW g \in Generators, Bind(g)
  PROVE  Cardinality(Counted') = Cardinality(Counted) + 1
<1>1. Counted' = Counted \cup {g} /\ g \notin Counted
  BY DEF Bind, TypeOK, Counted, GeneratorStates, Outcomes
<1> QED
  BY <1>1, CountedFinite, FS_AddElement

\* A generator which ends takes one away.
LEMMA EndDiscounts ==
  ASSUME TypeOK, NEW g \in Generators, NEW outcome \in Outcomes,
         GeneratorEnds(g, outcome)
  PROVE  Cardinality(Counted') = Cardinality(Counted) - 1
<1>1. Counted' = Counted \ {g} /\ g \in Counted
  BY DEF GeneratorEnds, TypeOK, Counted, GeneratorStates, Outcomes
<1> QED
  BY <1>1, CountedFinite, FS_RemoveElement

\* Two generators which count, one of them refused, count for two.
LEMMA RefusedAndOutstanding ==
  ASSUME TypeOK, NEW g \in Generators, gens[g] = "iterated",
         NEW r \in Generators, gens[r] = "refused"
  PROVE  Cardinality(Counted) >= 2
<1>1. {g, r} \subseteq Counted /\ g # r
  BY DEF Counted
<1>2. Cardinality({g, r}) = 2
  <2>1. Cardinality({g}) = 1 /\ IsFiniteSet({g})
    BY FS_Singleton
  <2>2. {g, r} = {g} \cup {r} /\ r \notin {g}
    BY <1>1
  <2> QED
    BY <2>1, <2>2, FS_AddElement
<1> QED
  BY <1>1, <1>2, CountedFinite, FS_Subset

\* Nothing is counted once the count without the function is zero.
LEMMA NothingCounted ==
  ASSUME TypeOK, Cardinality(Counted) = 0
  PROVE  Counted = {} /\ Outstanding = {}
<1>1. Counted = {}
  BY CountedFinite, FS_EmptySet
<1> QED
  BY <1>1 DEF Counted, Outstanding

LEMMA InitSpanInv == Init => SpanInv
<1> SUFFICES ASSUME Init PROVE SpanInv
  OBVIOUS
<1>1. TypeOK
  BY DEF Init, TypeOK, GeneratorStates, Outcomes
<1>2. Counted = {}
  BY DEF Init, Counted
<1>3. Cardinality(Counted) = 0
  BY <1>2, FS_EmptySet
<1> QED
  BY <1>1, <1>3 DEF Init, SpanInv, CountInv, OpInv, EndInv, ErrorInv, FnCounts,
                    FnOutstanding

\* Completing the function or its operation, which counted until then.
LEMMA FnCompletes ==
  ASSUME SpanInv, FnCounts, ~FnCounts', NEW outcome \in Outcomes,
         CompletePending(outcome), UNCHANGED gens
  PROVE  /\ CountInv' /\ EndInv' /\ pending' \in Nat /\ ends' \in Nat
         /\ status' \in {"unset", "ok", "error"} /\ errored' \in BOOLEAN
         /\ ends' > ends => Outstanding' = {}
<1> USE DEF SpanInv, CountInv, EndInv, TypeOK
<1>1. Counted' = Counted /\ Outstanding' = Outstanding
  BY DEF Counted, Outstanding
<1>2. ends = 0 /\ pending = Cardinality(Counted) + 1
  OBVIOUS
<1>3. pending' = Cardinality(Counted')
  BY <1>1, <1>2, CountedFinite DEF CompletePending
<1>4. CASE pending > 1
  BY <1>1, <1>2, <1>3, <1>4, CountedFinite DEF CompletePending
<1>5. CASE ~(pending > 1)
  <2>1. Outstanding = {}
    BY <1>2, <1>5, CountedFinite, NothingCounted
  <2>2. ends' = 1 /\ pending' = 0
    BY <1>2, <1>5, CountedFinite DEF CompletePending
  <2>3. status' \in {"unset", "ok", "error"} /\ errored' \in BOOLEAN
    BY <1>5 DEF CompletePending
  <2> QED
    BY <1>1, <1>3, <2>1, <2>2, <2>3
<1> QED
  BY <1>4, <1>5

\* Completing a generator.
LEMMA GeneratorCompletes ==
  ASSUME SpanInv, NEW g \in Generators, NEW outcome \in Outcomes,
         GeneratorEnds(g, outcome)
  PROVE  /\ CountInv' /\ EndInv' /\ pending' \in Nat /\ ends' \in Nat
         /\ status' \in {"unset", "ok", "error"} /\ errored' \in BOOLEAN
         /\ ends' > ends => ~FnCounts' /\ Outstanding' = {}
<1> USE DEF SpanInv, CountInv, EndInv, TypeOK
<1>1. FnCounts' = FnCounts
  BY DEF GeneratorEnds, FnCounts, FnOutstanding, optionVars
<1>2. Cardinality(Counted') = Cardinality(Counted) - 1
  BY EndDiscounts
<1>3. Cardinality(Counted) \in Nat /\ g \in Counted
  BY CountedFinite DEF GeneratorEnds, Counted
<1>4. pending' = Cardinality(Counted') + (IF FnCounts' THEN 1 ELSE 0)
  BY <1>1, <1>2, <1>3 DEF GeneratorEnds, CompletePending
<1>5. \A r \in Generators : gens'[r] = "refused" <=> gens[r] = "refused"
  BY DEF GeneratorEnds, Outcomes
<1>6. Outstanding' \subseteq Outstanding /\ g \in Outstanding
  BY DEF GeneratorEnds, Outstanding, Outcomes
<1>7. CASE ends # 0
  <2>1. PICK r \in Generators : gens[r] = "refused"
    BY <1>6, <1>7
  <2>2. pending >= 2
    BY <1>3, <1>7, <2>1, RefusedAndOutstanding DEF GeneratorEnds
  <2> QED
    BY <1>1, <1>3, <1>4, <1>5, <1>6, <1>7, <2>1, <2>2
    DEF GeneratorEnds, CompletePending
<1>8. CASE ends = 0 /\ pending > 1
  BY <1>4, <1>5, <1>8, <1>3 DEF GeneratorEnds, CompletePending
<1>9. CASE ends = 0 /\ ~(pending > 1)
  <2>1. Cardinality(Counted) >= 1
    BY <1>3, CountedFinite, FS_EmptySet
  <2>2. Cardinality(Counted) = 1 /\ ~FnCounts
    BY <1>3, <1>9, <2>1
  <2>3. Cardinality(Counted') = 0 /\ ~FnCounts'
    BY <1>1, <1>2, <2>2
  <2>4. Counted' = {}
    <3>1. Counted' \subseteq Counted
      BY DEF GeneratorEnds, Counted
    <3> QED
      BY <2>3, <3>1, CountedFinite, FS_Subset, FS_EmptySet
  <2>5. Outstanding' = {}
    BY <2>4 DEF Outstanding, Counted
  <2>6. ends' = 1 /\ pending' = 0
    BY <1>3, <1>4, <1>9, <2>3 DEF GeneratorEnds, CompletePending
  <2>7. status' \in {"unset", "ok", "error"} /\ errored' \in BOOLEAN
    BY <1>9 DEF GeneratorEnds, CompletePending
  <2> QED
    BY <1>4, <2>3, <2>5, <2>6, <2>7
<1> QED
  BY <1>7, <1>8, <1>9

LEMMA BindSpanInv ==
  ASSUME SpanInv, NEW g \in Generators, Bind(g)
  PROVE  SpanInv'
<1>0. Cardinality(Counted') = Cardinality(Counted) + 1 /\ Cardinality(Counted) \in Nat
  BY BindCounts, CountedFinite DEF SpanInv
<1> USE DEF SpanInv, TypeOK, Bind, optionVars
<1>1. TypeOK'
  BY DEF GeneratorStates, Outcomes
<1>2. FnCounts' = FnCounts
  BY DEF FnCounts, FnOutstanding
<1>3. CountInv'
  BY <1>0, <1>2 DEF CountInv
<1>4. EndInv'
  <2>1. CASE pending > 0
    <3>1. \A r \in Generators : gens'[r] = "refused" <=> gens[r] = "refused"
      BY <2>1
    <3>2. ends # 0 => \E r \in Generators : gens[r] = "refused"
      <4> SUFFICES ASSUME ends # 0, \A r \in Generators : gens[r] # "refused"
                   PROVE  FALSE
        OBVIOUS
      <4>1. Outstanding = {} /\ ~FnCounts
        BY DEF EndInv
      <4>2. Counted = {}
        BY <4>1 DEF Counted, Outstanding
      <4> QED
        BY <2>1, <4>1, <4>2, FS_EmptySet DEF CountInv
    <3> QED
      BY <1>2, <2>1, <3>1, <3>2 DEF EndInv
  <2>2. CASE ~(pending > 0)
    BY <1>2, <2>2 DEF EndInv
  <2> QED
    BY <2>1, <2>2
<1>5. OpInv' /\ ErrorInv'
  BY DEF OpInv, ErrorInv
<1> QED
  BY <1>1, <1>3, <1>4, <1>5

LEMMA SpanInvInductive == SpanInv /\ [Next]_vars => SpanInv'
<1> SUFFICES ASSUME SpanInv, [Next]_vars PROVE SpanInv'
  OBVIOUS
<1> USE DEF optionVars, spanVars
<1>1. ASSUME UNCHANGED <<recording, skipOk, gens, spanVars>>, FnCounts' = FnCounts,
             TypeOK', OpInv', ErrorInv'
      PROVE  SpanInv'
  <2>1. Counted' = Counted /\ Outstanding' = Outstanding
    BY <1>1 DEF Counted, Outstanding
  <2> QED
    BY <1>1, <2>1 DEF SpanInv, CountInv, EndInv
<1>2. ASSUME NEW outcome \in Outcomes, FnThrows(outcome)
      PROVE  SpanInv'
  <2>1. FnCounts /\ ~FnCounts' /\ op = "none"
    BY <1>2 DEF FnThrows, FnCounts, FnOutstanding, SpanInv, OpInv
  <2>2. /\ CountInv' /\ EndInv' /\ pending' \in Nat /\ ends' \in Nat
        /\ status' \in {"unset", "ok", "error"} /\ errored' \in BOOLEAN
    BY <1>2, <2>1, FnCompletes DEF FnThrows
  <2> QED
    BY <1>2, <2>1, <2>2
    DEF FnThrows, CompletePending, SpanInv, TypeOK, OpInv, ErrorInv
<1>3. ASSUME NEW kind \in Kinds, FnReturns(kind) \/ FnResolves(kind)
      PROVE  SpanInv'
  <2>0. op = "none" /\ fn \in {"body", "promise"} /\ fn' = "returned" /\ FnCounts
    BY <1>3 DEF FnReturns, FnResolves, FnCounts, FnOutstanding, SpanInv, OpInv
  <2>1. CASE ~recording
    BY <1>1, <1>3, <2>0, <2>1
    DEF FnReturns, FnResolves, FnCounts, FnOutstanding, SpanInv, TypeOK, OpInv, ErrorInv
  <2>2. CASE recording /\ kind = "operation"
    BY <1>1, <1>3, <2>0, <2>2
    DEF FnReturns, FnResolves, SettingUpEvents, FnCounts, FnOutstanding, SpanInv,
        TypeOK, OpInv, ErrorInv
  <2>3. CASE recording /\ kind = "value"
    <3>1. CompletePending("done") /\ UNCHANGED <<op, gens, recording, skipOk>>
      BY <1>3, <2>3 DEF FnReturns, FnResolves, SettingUpEvents
    <3>2. ~FnCounts'
      BY <2>0, <2>3, <3>1 DEF FnCounts, FnOutstanding
    <3>3. /\ CountInv' /\ EndInv' /\ pending' \in Nat /\ ends' \in Nat
          /\ status' \in {"unset", "ok", "error"} /\ errored' \in BOOLEAN
      BY <2>0, <3>1, <3>2, FnCompletes DEF Outcomes
    <3>4. errored' = errored
      BY <3>1 DEF CompletePending, SpanInv, TypeOK
    <3> QED
      BY <2>0, <2>3, <3>1, <3>3, <3>4 DEF SpanInv, TypeOK, OpInv, ErrorInv
  <2> QED
    BY <2>1, <2>2, <2>3 DEF Kinds
<1>4. CASE FnReturnsPromise
  BY <1>1, <1>4
  DEF FnReturnsPromise, FnCounts, FnOutstanding, SpanInv, TypeOK, OpInv, ErrorInv
<1>5. ASSUME NEW outcome \in Outcomes, FnRejects(outcome)
      PROVE  SpanInv'
  <2>0. op = "none" /\ FnCounts
    BY <1>5 DEF FnRejects, FnCounts, FnOutstanding, SpanInv, OpInv
  <2>1. CASE ~recording
    BY <1>1, <1>5, <2>0, <2>1
    DEF FnRejects, FnCounts, FnOutstanding, SpanInv, TypeOK, OpInv, ErrorInv
  <2>2. CASE recording
    <3>1. ~FnCounts'
      BY <1>5, <2>0, <2>2 DEF FnRejects, FnCounts, FnOutstanding
    <3>2. /\ CountInv' /\ EndInv' /\ pending' \in Nat /\ ends' \in Nat
          /\ status' \in {"unset", "ok", "error"} /\ errored' \in BOOLEAN
      BY <1>5, <2>0, <2>2, <3>1, FnCompletes DEF FnRejects
    <3> QED
      BY <1>5, <2>0, <2>2, <3>2
      DEF FnRejects, CompletePending, SpanInv, TypeOK, OpInv, ErrorInv
  <2> QED
    BY <2>1, <2>2
<1>6. CASE OpStarts
  BY <1>1, <1>6
  DEF OpStarts, FnCounts, FnOutstanding, SpanInv, TypeOK, OpInv, ErrorInv
<1>7. ASSUME NEW outcome \in Outcomes, OpEnds(outcome)
      PROVE  SpanInv'
  <2>1. FnCounts /\ ~FnCounts' /\ recording /\ fn = "returned"
    BY <1>7 DEF OpEnds, FnCounts, FnOutstanding, SpanInv, OpInv, Outcomes
  <2>2. /\ CountInv' /\ EndInv' /\ pending' \in Nat /\ ends' \in Nat
        /\ status' \in {"unset", "ok", "error"} /\ errored' \in BOOLEAN
    BY <1>7, <2>1, FnCompletes DEF OpEnds
  <2> QED
    BY <1>7, <2>1, <2>2
    DEF OpEnds, CompletePending, SpanInv, TypeOK, OpInv, ErrorInv
<1>8. ASSUME NEW g \in Generators, Bind(g)
      PROVE  SpanInv'
  BY <1>8, BindSpanInv
<1>9. ASSUME NEW g \in Generators, Iterate(g) \/ ConsumerLeaves(g)
      PROVE  SpanInv'
  <2>1. Counted' = Counted /\ Outstanding' = Outstanding /\ TypeOK'
    BY <1>9 DEF Iterate, ConsumerLeaves, Counted, Outstanding, SpanInv, TypeOK,
                GeneratorStates, Outcomes
  <2>2. FnCounts' = FnCounts
    BY <1>9 DEF Iterate, ConsumerLeaves, FnCounts, FnOutstanding
  <2> QED
    BY <1>9, <2>1, <2>2 DEF Iterate, ConsumerLeaves, SpanInv, TypeOK, CountInv,
                            OpInv, EndInv, ErrorInv
<1>10. ASSUME NEW g \in Generators, NEW outcome \in Outcomes, GeneratorEnds(g, outcome)
       PROVE  SpanInv'
  <2>1. /\ CountInv' /\ EndInv' /\ pending' \in Nat /\ ends' \in Nat
        /\ status' \in {"unset", "ok", "error"} /\ errored' \in BOOLEAN
    BY <1>10, GeneratorCompletes
  <2>2. gens' \in [Generators -> GeneratorStates]
    BY <1>10 DEF GeneratorEnds, SpanInv, TypeOK, GeneratorStates, Outcomes
  <2>3. ErrorInv'
    BY <1>10 DEF GeneratorEnds, CompletePending, SpanInv, TypeOK, ErrorInv
  <2> QED
    BY <1>10, <2>1, <2>2, <2>3 DEF GeneratorEnds, SpanInv, TypeOK, OpInv
<1>11. CASE UNCHANGED vars
  BY <1>1, <1>11
  DEF vars, FnCounts, FnOutstanding, SpanInv, TypeOK, OpInv, ErrorInv
<1> QED
  BY <1>2, <1>3, <1>4, <1>5, <1>6, <1>7, <1>8, <1>9, <1>10, <1>11 DEF Next

LEMMA SpanInvariance == Spec => []SpanInv
  BY InitSpanInv, SpanInvInductive, PTL DEF Spec

\* The span, its function, its operation and its generators stay well formed.
THEOREM TypeCorrect == Spec => []TypeOK
<1>1. SpanInv => TypeOK
  BY DEF SpanInv
<1> QED
  BY <1>1, SpanInvariance, PTL

\* A span ends once, and does not stay open when nothing is outstanding: with
\* no binding refused yet, what is counted is what is outstanding.
THEOREM SpanEndsOnce == Spec => []EndsOnceAndLast
<1>1. SpanInv => EndsOnceAndLast
  <2> SUFFICES ASSUME SpanInv PROVE EndsOnceAndLast
    OBVIOUS
  <2>1. ends <= 1
    BY DEF SpanInv, EndInv, TypeOK
  <2>2. ASSUME ends = 0, recording, ~FnOutstanding, Outstanding = {}
        PROVE  FALSE
    <3>1. Counted = {}
      BY <2>2 DEF Counted, Outstanding, SpanInv, EndInv
    <3> QED
      BY <2>2, <3>1, FS_EmptySet DEF SpanInv, EndInv, CountInv, FnCounts
  <2> QED
    BY <2>1, <2>2 DEF EndsOnceAndLast
<1> QED
  BY <1>1, SpanInvariance, PTL

\* The step which ends the span completes a part, the last one.
LEMMA EndingStep ==
  ASSUME SpanInv, Next, ends' > ends
  PROVE  /\ \E outcome \in Outcomes : CompletePending(outcome)
         /\ Outstanding' = {}
<1> USE DEF optionVars, spanVars
<1>1. ASSUME FnCounts, ~FnCounts', UNCHANGED gens,
             NEW outcome \in Outcomes, CompletePending(outcome)
      PROVE  Outstanding' = {}
  BY <1>1, FnCompletes
<1>2. ASSUME NEW outcome \in Outcomes, FnThrows(outcome)
      PROVE  /\ \E o \in Outcomes : CompletePending(o)
             /\ Outstanding' = {}
  BY <1>1, <1>2 DEF FnThrows, FnCounts, FnOutstanding, SpanInv, OpInv
<1>3. ASSUME NEW kind \in Kinds, FnReturns(kind) \/ FnResolves(kind)
      PROVE  /\ \E outcome \in Outcomes : CompletePending(outcome)
             /\ Outstanding' = {}
  <2>0. recording /\ kind # "operation"
    BY <1>3 DEF FnReturns, FnResolves, SettingUpEvents, CompletePending, SpanInv, TypeOK
  <2>1. CompletePending("done") /\ UNCHANGED <<op, gens, recording>>
    BY <1>3, <2>0 DEF FnReturns, FnResolves, SettingUpEvents
  <2>2. FnCounts /\ ~FnCounts'
    BY <1>3, <2>0, <2>1
    DEF FnReturns, FnResolves, FnCounts, FnOutstanding, SpanInv, OpInv
  <2> QED
    BY <1>1, <1>3, <2>1, <2>2 DEF FnReturns, FnResolves, Outcomes
<1>4. ASSUME NEW outcome \in Outcomes, FnRejects(outcome)
      PROVE  /\ \E o \in Outcomes : CompletePending(o)
             /\ Outstanding' = {}
  <2>0. recording
    BY <1>4 DEF FnRejects, CompletePending, SpanInv, TypeOK
  <2>1. CompletePending(outcome) /\ UNCHANGED <<op, gens, recording>>
    BY <1>4, <2>0 DEF FnRejects
  <2>2. FnCounts /\ ~FnCounts'
    BY <1>4, <2>0 DEF FnRejects, FnCounts, FnOutstanding, SpanInv, OpInv
  <2> QED
    BY <1>1, <1>4, <2>1, <2>2 DEF FnRejects
<1>5. ASSUME NEW outcome \in Outcomes, OpEnds(outcome)
      PROVE  /\ \E o \in Outcomes : CompletePending(o)
             /\ Outstanding' = {}
  BY <1>1, <1>5 DEF OpEnds, FnCounts, FnOutstanding, SpanInv, OpInv, Outcomes
<1>6. ASSUME NEW g \in Generators, NEW outcome \in Outcomes, GeneratorEnds(g, outcome)
      PROVE  /\ \E o \in Outcomes : CompletePending(o)
             /\ Outstanding' = {}
  BY <1>6, GeneratorCompletes DEF GeneratorEnds
<1>7. ASSUME FnReturnsPromise \/ OpStarts
      PROVE  FALSE
  BY <1>7 DEF FnReturnsPromise, OpStarts, SpanInv, TypeOK
<1>8. ASSUME NEW g \in Generators, Bind(g) \/ Iterate(g) \/ ConsumerLeaves(g)
      PROVE  FALSE
  BY <1>8 DEF Bind, Iterate, ConsumerLeaves, SpanInv, TypeOK
<1> QED
  BY <1>2, <1>3, <1>4, <1>5, <1>6, <1>7, <1>8 DEF Next

\* The span ends only when nothing is outstanding any more.
THEOREM SpanEndsLast == Spec => EndsWithItsParts
<1>1. SpanInv /\ SpanInv' /\ [Next]_vars =>
        [ends' > ends => ~FnOutstanding' /\ Outstanding' = {}]_vars
  <2> SUFFICES ASSUME SpanInv, SpanInv', Next, ends' > ends
               PROVE  ~FnOutstanding' /\ Outstanding' = {}
    BY DEF vars, spanVars
  <2>1. ~FnCounts'
    BY DEF SpanInv, TypeOK, EndInv
  <2> QED
    BY <2>1, EndingStep DEF FnCounts
<1> QED
  BY <1>1, SpanInvariance, PTL DEF Spec, EndsWithItsParts

\* The status of the span which ends is an error exactly if a part failed with
\* one, falsy values not being errors.
THEOREM SpanShowsFailures == Spec => ShowsAnyFailure
<1>1. SpanInv /\ SpanInv' /\ [Next]_vars =>
        [ends' > ends => (status' = "error" <=> SomePartFailed')]_vars
  <2> SUFFICES ASSUME SpanInv, SpanInv', Next, ends' > ends
               PROVE  status' = "error" <=> SomePartFailed'
    BY DEF vars, spanVars
  <2>1. ends = 0 /\ ~FnCounts' /\ status = "unset"
    BY DEF SpanInv, TypeOK, EndInv
  <2>2. PICK outcome \in Outcomes : CompletePending(outcome)
    BY EndingStep
  <2>3. status' = "error" <=> errored'
    BY <2>1, <2>2 DEF CompletePending, SpanInv, TypeOK
  <2>4. errored' <=> SomePartFailed'
    BY <2>1 DEF SpanInv, ErrorInv, SomePartFailed, FnCounts, TypeOK
  <2> QED
    BY <2>3, <2>4
<1> QED
  BY <1>1, SpanInvariance, PTL DEF Spec, ShowsAnyFailure

-----------------------------------------------------------------------------
(* Recorded spans *)

\* A record is over, or awaited by whoever waits; it is only forgotten once it
\* is over.
RecordingInv ==
  /\ jobs \in Seq([do : {"delete"}, span : Nat] \cup [do : {"resume"}, waiter : Waiters])
  /\ \A i \in 1 .. Len(jobs) : jobs[i].do = "delete" => jobs[i].span \in endedSpans
  /\ records \subseteq endedSpans \cup openSpans
  /\ lastSpan \in 0 .. MaxSpans /\ openSpans \subseteq 1 .. lastSpan
  /\ waits \in [Waiters -> Nat]

Jobs == [do : {"delete"}, span : Nat] \cup [do : {"resume"}, waiter : Waiters]

\* The waiters of a span which ended are resumed one after the other.
LEMMA AllAreResumed ==
  ASSUME NEW S, IsFiniteSet(S)
  PROVE  SpanSeqs!SetToSeq(S) \in Seq(S)
<1>1. PICK n \in Nat : ExistsBijection(1 .. n, S)
  BY FS_NatBijection
<1>2. Cardinality(S) = n
  BY <1>1, FS_CountingElements
<1>3. PICK f \in Bijection(1 .. n, S) : TRUE
  BY <1>1 DEF ExistsBijection
<1>4. f \in [1 .. n -> S] /\ \A a, b \in 1 .. n : f[a] = f[b] => a = b
  BY <1>3 DEF Bijection, Injection, IsInjective
<1> DEFINE g == SpanSeqs!SetToSeq(S)
<1>5. SpanSeqs!Cardinality(S) = n
  BY <1>2 DEF Cardinality, SpanSeqs!Cardinality
<1>6. g \in [1 .. n -> S]
  BY <1>4, <1>5 DEF SpanSeqs!SetToSeq, SpanSeqs!IsInjective
<1> QED
  BY <1>6

LEMMA FirstIsOne ==
  ASSUME NEW n \in Nat, NEW spans, spans \subseteq 1 .. n, spans # {}
  PROVE  First(spans) \in spans
<1>1. spans \subseteq Nat
  OBVIOUS
<1>2. \E s \in spans : \A t \in spans : s <= t
  BY <1>1, SmallestOf
<1> QED
  BY <1>2 DEF First

LEMMA AwaitFirstWaits ==
  ASSUME RecordingInv, NEW w \in Waiters, NEW queue, AwaitFirst(w, queue, openSpans)
  PROVE  /\ waits' \in [Waiters -> Nat]
         /\ openSpans # {} => \A v \in Waiters : waits'[v] = Returned => waits[v] = Returned
<1>1. MaxSpans \in Nat /\ lastSpan \in Nat /\ openSpans \subseteq 1 .. lastSpan
      /\ lastSpan <= MaxSpans /\ waits \in [Waiters -> Nat] /\ Returned \in Nat
  BY RecordingAssumption DEF RecordingInv, Returned
<1>2. CASE openSpans = {}
  <2>1. waits' = [waits EXCEPT ![w] = Returned]
    BY <1>2 DEF AwaitFirst
  <2> QED
    BY <1>1, <1>2, <2>1
<1>3. CASE openSpans # {}
  <2>1. First(openSpans) \in openSpans
    BY <1>1, <1>3, FirstIsOne
  <2>2. First(openSpans) \in Nat /\ First(openSpans) # Returned
    <3> DEFINE s == First(openSpans)
    <3>1. s \in 1 .. lastSpan
      BY <1>1, <2>1
    <3> HIDE DEF s
    <3>2. s \in Nat /\ s <= MaxSpans
      BY <1>1, <3>1
    <3>3. s # MaxSpans + 1
      BY <1>1, <3>2
    <3> QED
      BY <3>2, <3>3 DEF s, Returned
  <2>3. waits' = [waits EXCEPT ![w] = First(openSpans)]
    BY <1>3 DEF AwaitFirst
  <2> QED
    BY <1>1, <2>2, <2>3
<1> QED
  BY <1>2, <1>3

LEMMA AwaitFirstQueues ==
  ASSUME NEW w \in Waiters, NEW queue \in Seq(Jobs), NEW left, AwaitFirst(w, queue, left)
  PROVE  /\ jobs' \in Seq(Jobs)
         /\ \A i \in 1 .. Len(jobs') :
              jobs'[i].do = "delete" => i \in 1 .. Len(queue) /\ jobs'[i] = queue[i]
<1>1. Resume(w) \in Jobs /\ Resume(w).do = "resume"
  BY DEF Resume, Jobs
<1>2. jobs' = queue \/ jobs' = Append(queue, Resume(w))
  BY DEF AwaitFirst
<1>3. CASE jobs' = queue
  BY <1>3
<1>4. CASE jobs' = Append(queue, Resume(w))
  <2> DEFINE job == Resume(w)
  <2> HIDE DEF job
  <2>1. job \in Jobs /\ job.do = "resume" /\ jobs' = Append(queue, job)
    BY <1>1, <1>4 DEF job
  <2>2. jobs' \in Seq(Jobs) /\ Len(jobs') = Len(queue) + 1 /\ Len(queue) \in Nat
        /\ \A i \in 1 .. Len(queue) : jobs'[i] = queue[i]
        /\ jobs'[Len(queue) + 1] = job
    BY <2>1
  <2> QED
    BY <2>1, <2>2
<1> QED
  BY <1>2, <1>3, <1>4

LEMMA EndRecordingInv ==
  ASSUME RecordingInv, NEW s \in 1 .. MaxSpans, End(s)
  PROVE  RecordingInv'
<1> DEFINE resumed == {Resume(w) : w \in {v \in Waiters : waits[v] = s}}
           order == SpanSeqs!SetToSeq(resumed)
<1>0. s \in Nat
  BY RecordingAssumption
<1>1. jobs \in Seq(Jobs)
  BY DEF RecordingInv, Jobs
<1>2. order \in Seq(resumed)
  <2>1. IsFiniteSet({v \in Waiters : waits[v] = s})
    BY RecordingAssumption, FS_Subset
  <2> DEFINE their == {v \in Waiters : waits[v] = s}
             resume == [w \in their |-> Resume(w)]
  <2>2. resume \in Surjection(their, resumed)
    BY DEF Surjection
  <2>3. IsFiniteSet(resumed)
    BY <2>1, <2>2, FS_Surjection
  <2> QED
    BY <2>3, AllAreResumed
<1>3. \A job \in resumed : job \in Jobs /\ job.do = "resume"
  BY DEF Resume, Jobs
<1>4. Delete(s) \in Jobs /\ Delete(s).span = s
  BY <1>0 DEF Delete, Jobs
<1>5. /\ records' \subseteq endedSpans' \cup openSpans' /\ endedSpans' = endedSpans \cup {s}
      /\ lastSpan' \in 0 .. MaxSpans /\ openSpans' \subseteq 1 .. lastSpan'
      /\ waits' \in [Waiters -> Nat]
  BY DEF End, RecordingInv
<1>6. CASE s \in endedSpans
  <2>1. jobs' = jobs
    BY <1>6 DEF End
  <2> QED
    BY <1>5, <2>1 DEF RecordingInv
<1>7. CASE s \notin endedSpans
  <2> DEFINE first == Append(jobs, Delete(s))
             d == Delete(s)
  <2>1. jobs' = (jobs \o <<d>>) \o order
    BY <1>7 DEF End
  <2> HIDE DEF resumed, order, d
  <2>2. jobs' \in Seq(Jobs)
    <3>1. order \in Seq(Jobs)
      BY <1>2, <1>3
    <3>2. <<d>> \in Seq(Jobs)
      BY <1>4 DEF d
    <3> QED
      BY <1>1, <2>1, <3>1, <3>2
  <2>3. ASSUME NEW i \in 1 .. Len(jobs'), jobs'[i].do = "delete"
        PROVE  jobs'[i].span \in endedSpans'
    <3>1. Len(jobs') = Len(jobs) + 1 + Len(order) /\ Len(jobs) \in Nat /\ Len(order) \in Nat
      BY <1>1, <1>2, <2>1
    <3>2. CASE i \in 1 .. Len(jobs)
      <4>1. jobs'[i] = jobs[i]
        BY <1>1, <1>2, <2>1, <3>2
      <4> QED
        BY <1>5, <2>3, <3>2, <4>1 DEF RecordingInv
    <3>3. CASE i = Len(jobs) + 1
      <4>1. jobs'[i] = d
        BY <1>1, <1>2, <2>1, <3>3
      <4> QED
        BY <1>4, <1>5, <4>1 DEF d
    <3>4. CASE i > Len(jobs) + 1
      <4>1. i - (Len(jobs) + 1) \in 1 .. Len(order)
        BY <3>1, <3>4
      <4>2. jobs'[i] = order[i - (Len(jobs) + 1)]
        BY <1>1, <1>2, <2>1, <3>1, <3>4, <4>1
      <4> QED
        BY <1>2, <1>3, <2>3, <4>1, <4>2
    <3> QED
      BY <3>1, <3>2, <3>3, <3>4
  <2> QED
    BY <1>5, <2>2, <2>3 DEF RecordingInv, Jobs
<1> QED
  BY <1>6, <1>7

LEMMA RunJobRecordingInv ==
  ASSUME RecordingInv, RunJob
  PROVE  RecordingInv'
<1>1. jobs \in Seq(Jobs) /\ jobs # <<>> /\ UNCHANGED <<records, endedSpans>>
  BY DEF RecordingInv, Jobs, RunJob
<1>2. /\ Tail(jobs) \in Seq(Jobs) /\ Head(jobs) = jobs[1] /\ jobs[1] \in Jobs
      /\ 1 \in 1 .. Len(jobs)
      /\ \A i \in 1 .. Len(Tail(jobs)) : Tail(jobs)[i] = jobs[i + 1] /\ i + 1 \in 1 .. Len(jobs)
  BY <1>1
<1>3. CASE Head(jobs).do = "delete"
  <2>1. openSpans' = openSpans \ {Head(jobs).span} /\ jobs' = Tail(jobs)
    BY <1>3 DEF RunJob, WithoutSpan
  <2>2. Head(jobs).span \in endedSpans
    BY <1>2, <1>3 DEF RecordingInv
  <2>3. /\ records' \subseteq endedSpans' \cup openSpans'
        /\ lastSpan' \in 0 .. MaxSpans /\ openSpans' \subseteq 1 .. lastSpan'
        /\ waits' \in [Waiters -> Nat]
    BY <1>1, <1>3, <2>1, <2>2 DEF RecordingInv, RunJob
  <2>4. \A i \in 1 .. Len(jobs') : jobs'[i].do = "delete" => jobs'[i].span \in endedSpans'
    BY <1>1, <1>2, <2>1 DEF RecordingInv
  <2> QED
    BY <1>2, <2>1, <2>3, <2>4 DEF RecordingInv, Jobs
<1>4. CASE Head(jobs).do # "delete"
  <2>1. AwaitFirst(Head(jobs).waiter, Tail(jobs), openSpans) /\ openSpans' = openSpans
    BY <1>4 DEF RunJob
  <2>2. Head(jobs).waiter \in Waiters
    BY <1>2, <1>4 DEF Jobs
  <2>3. /\ jobs' \in Seq(Jobs)
        /\ \A i \in 1 .. Len(jobs') :
             jobs'[i].do = "delete" => i \in 1 .. Len(Tail(jobs)) /\ jobs'[i] = Tail(jobs)[i]
    BY <1>2, <2>1, <2>2, AwaitFirstQueues
  <2>4. \A i \in 1 .. Len(jobs') : jobs'[i].do = "delete" => jobs'[i].span \in endedSpans'
    BY <1>1, <1>2, <2>3 DEF RecordingInv
  <2>5. waits' \in [Waiters -> Nat] /\ lastSpan' = lastSpan
    BY <2>1, <2>2, AwaitFirstWaits DEF RunJob
  <2> QED
    BY <1>1, <2>1, <2>3, <2>4, <2>5 DEF RecordingInv, Jobs
<1> QED
  BY <1>3, <1>4

LEMMA NextRecordingInv ==
  ASSUME RecordingInv, [RecordingNext]_recordingVars
  PROVE  RecordingInv'
<1>1. CASE RunJob
  BY <1>1, RunJobRecordingInv
<1>2. ASSUME NEW s \in 1 .. MaxSpans, End(s)
      PROVE  RecordingInv'
  BY <1>2, EndRecordingInv
<1>3. ASSUME NEW w \in Waiters, WaitForPendingSpans(w)
      PROVE  RecordingInv'
  <2>1. jobs \in Seq(Jobs) /\ AwaitFirst(w, jobs, openSpans)
        /\ UNCHANGED <<records, openSpans, lastSpan, endedSpans>>
    BY <1>3 DEF WaitForPendingSpans, RecordingInv, Jobs
  <2>2. /\ jobs' \in Seq(Jobs)
        /\ \A i \in 1 .. Len(jobs') :
             jobs'[i].do = "delete" => i \in 1 .. Len(jobs) /\ jobs'[i] = jobs[i]
    BY <2>1, AwaitFirstQueues
  <2>3. waits' \in [Waiters -> Nat]
    BY <2>1, AwaitFirstWaits
  <2> QED
    BY <2>1, <2>2, <2>3 DEF RecordingInv, Jobs
<1>4. CASE RecordingSpan \/ ResetSpans \/ UNCHANGED recordingVars
  <2>0. UNCHANGED <<jobs, endedSpans, waits>>
    BY <1>4 DEF RecordingSpan, ResetSpans, recordingVars
  <2>1. /\ records' \subseteq endedSpans' \cup openSpans'
        /\ lastSpan' \in 0 .. MaxSpans /\ openSpans' \subseteq 1 .. lastSpan'
    <3>1. CASE RecordingSpan
      <4>1. lastSpan' = lastSpan + 1 /\ lastSpan < MaxSpans
        BY <3>1 DEF RecordingSpan
      <4>2. lastSpan' \in 0 .. MaxSpans /\ lastSpan' \in 1 .. lastSpan'
            /\ 1 .. lastSpan \subseteq 1 .. lastSpan'
        BY <4>1, RecordingAssumption DEF RecordingInv
      <4>3. records' = records \cup {lastSpan'} /\ openSpans' = openSpans \cup {lastSpan'}
        BY <3>1 DEF RecordingSpan
      <4> QED
        BY <2>0, <4>2, <4>3 DEF RecordingInv
    <3>2. CASE ResetSpans
      BY <3>2 DEF ResetSpans, RecordingInv
    <3>3. CASE UNCHANGED recordingVars
      BY <3>3 DEF recordingVars, RecordingInv
    <3> QED
      BY <1>4, <3>1, <3>2, <3>3
  <2> QED
    BY <2>0, <2>1 DEF RecordingInv
<1> QED
  BY <1>1, <1>2, <1>3, <1>4 DEF RecordingNext

LEMMA RecordingInvariance == RecordingSpec => []RecordingInv
<1>1. RecordingInit => RecordingInv
  BY RecordingAssumption DEF RecordingInit, RecordingInv, Idle
<1>2. RecordingInv /\ [RecordingNext]_recordingVars => RecordingInv'
  BY NextRecordingInv
<1> QED
  BY <1>1, <1>2, PTL DEF RecordingSpec

\* However many spans start, end or are forgotten while waiters wait, a wait
\* returns with every record over (recording.ts:36).
THEOREM WaitsReturnWithNoneOpen == RecordingSpec => ReturnsWithNoneOpen
<1> DEFINE Right == \A w \in Waiters :
              waits[w] # Returned /\ waits'[w] = Returned => AllEnded(records')
<1>1. RecordingInv /\ [RecordingNext]_recordingVars => [Right]_recordingVars
  <2> SUFFICES ASSUME RecordingInv, RecordingNext, NEW w \in Waiters,
                      waits[w] # Returned, waits'[w] = Returned
               PROVE  AllEnded(records')
    BY DEF recordingVars
  <2>1. ASSUME NEW v \in Waiters, NEW queue, AwaitFirst(v, queue, openSpans), UNCHANGED <<records, endedSpans>>
        PROVE  AllEnded(records')
    <3>1. CASE openSpans = {}
      BY <2>1, <3>1 DEF AllEnded, RecordingInv
    <3>2. CASE openSpans # {}
      BY <2>1, <3>2, AwaitFirstWaits
    <3> QED
      BY <3>1, <3>2
  <2>2. CASE RunJob
    <3>1. jobs # <<>> /\ jobs \in Seq(Jobs)
      BY <2>2 DEF RunJob, RecordingInv, Jobs
    <3>2. Head(jobs) \in Jobs
      BY <3>1
    <3>3. Head(jobs).do # "delete"
      BY <2>2 DEF RunJob
    <3>4. Head(jobs).waiter \in Waiters
      BY <3>2, <3>3 DEF Jobs
    <3> QED
      BY <2>1, <2>2, <3>3, <3>4 DEF RunJob
  <2>3. ASSUME NEW v \in Waiters, WaitForPendingSpans(v)
        PROVE  AllEnded(records')
    BY <2>1, <2>3 DEF WaitForPendingSpans
  <2>4. RecordingSpan \/ ResetSpans \/ (\E s \in 1 .. MaxSpans : End(s)) => waits' = waits
    BY DEF RecordingSpan, ResetSpans, End
  <2> QED
    BY <2>2, <2>3, <2>4 DEF RecordingNext
<1> QED
  BY <1>1, RecordingInvariance, PTL DEF RecordingSpec, ReturnsWithNoneOpen

-----------------------------------------------------------------------------
(* Metrics *)

\* What was collected so far came in order.
MetricsType ==
  /\ values \in [Metrics -> Nat] /\ observed \in Nat
  /\ exported \in [Metrics -> Seq(Nat)]
  /\ \A g \in Metrics :
       /\ values[g] <= observed
       /\ \A i \in DOMAIN exported[g] : exported[g][i] <= observed

LEMMA HandOverOrder ==
  ASSUME MetricsType, HandedOverInOrder, NEW gs, HandOver(gs), observed' = observed
  PROVE  MetricsType' /\ HandedOverInOrder'
<1>1. ASSUME NEW g \in Metrics
      PROVE  /\ values'[g] \in Nat /\ values'[g] \in {0, values[g]}
             /\ \/ exported'[g] = exported[g]
                \/ values[g] # 0 /\ values'[g] = 0 /\ exported'[g] = Append(exported[g], values[g])
  BY DEF HandOver, MetricsType
<1>2. ASSUME NEW g \in Metrics
      PROVE  /\ exported'[g] \in Seq(Nat)
             /\ \A i \in DOMAIN exported'[g] : exported'[g][i] <= observed
             /\ \A i, j \in DOMAIN exported'[g] : i < j => exported'[g][i] < exported'[g][j]
             /\ values'[g] # 0 => \A i \in DOMAIN exported'[g] : exported'[g][i] < values'[g]
  <2> DEFINE was == exported[g]
  <2>1. was \in Seq(Nat) /\ values[g] \in Nat /\ values[g] <= observed /\ observed \in Nat
    BY DEF MetricsType
  <2>2. /\ \A i \in DOMAIN was : was[i] <= observed
        /\ \A i, j \in DOMAIN was : i < j => was[i] < was[j]
        /\ values[g] # 0 => \A i \in DOMAIN was : was[i] < values[g]
    BY DEF MetricsType, HandedOverInOrder
  <2>3. CASE exported'[g] = was
    BY <1>1, <2>1, <2>2, <2>3
  <2>4. CASE values[g] # 0 /\ values'[g] = 0 /\ exported'[g] = Append(was, values[g])
    <3> DEFINE now == Append(was, values[g])
    <3>1. /\ now \in Seq(Nat) /\ Len(now) = Len(was) + 1 /\ Len(was) \in Nat
          /\ now[Len(was) + 1] = values[g]
          /\ \A i \in 1 .. Len(was) : now[i] = was[i] /\ was[i] \in Nat
          /\ DOMAIN now = 1 .. Len(was) + 1 /\ DOMAIN was = 1 .. Len(was)
      BY <2>1
    <3> HIDE DEF now
    <3>2. \A i \in DOMAIN now :
            (i \in DOMAIN was /\ now[i] = was[i]) \/ now[i] = values[g]
      BY <3>1
    <3>3. \A i \in DOMAIN now : now[i] <= observed
      <4>1. ASSUME NEW i \in DOMAIN now
            PROVE  now[i] <= observed
        <5>1. CASE i \in DOMAIN was /\ now[i] = was[i]
          BY <2>2, <5>1
        <5>2. CASE now[i] = values[g]
          BY <2>1, <5>2
        <5> QED
          BY <3>2, <5>1, <5>2
      <4> QED
        BY <4>1
    <3>4. ASSUME NEW i \in DOMAIN now, NEW j \in DOMAIN now, i < j
          PROVE  now[i] < now[j]
      <4>1. i \in DOMAIN was /\ now[i] = was[i]
        BY <3>1, <3>4
      <4>2. CASE j \in DOMAIN was /\ now[j] = was[j]
        BY <2>2, <3>4, <4>1, <4>2
      <4>3. CASE now[j] = values[g]
        BY <2>2, <2>4, <4>1, <4>3
      <4> QED
        BY <3>2, <4>2, <4>3
    <3> QED
      BY <2>4, <3>1, <3>3, <3>4 DEF now
  <2> QED
    BY <1>1, <2>3, <2>4
<1>3. /\ values' \in [Metrics -> Nat] /\ exported' \in [Metrics -> Seq(Nat)]
      /\ \A g \in Metrics : values'[g] <= observed
  <2>1. DOMAIN values' = Metrics /\ DOMAIN exported' = Metrics
    BY DEF HandOver
  <2>2. values' = [g \in Metrics |-> values'[g]] /\ exported' = [g \in Metrics |-> exported'[g]]
    BY <2>1 DEF HandOver
  <2>3. \A g \in Metrics : values'[g] <= observed
    BY <1>1, SMTT(30) DEF MetricsType
  <2> QED
    BY <1>1, <1>2, <2>2, <2>3
<1>4. HandedOverInOrder'
  BY <1>2 DEF HandedOverInOrder
<1>5. MetricsType'
  BY <1>2, <1>3 DEF MetricsType
<1> QED
  BY <1>4, <1>5

LEMMA ObserveOrder ==
  ASSUME MetricsType, HandedOverInOrder, Observe
  PROVE  MetricsType' /\ HandedOverInOrder'
<1>1. PICK g \in gauges : /\ observed' = observed + 1 /\ exported' = exported
                          /\ values' = [values EXCEPT ![g] = observed + 1]
  BY DEF Observe
<1>2. \A m \in Metrics : /\ values'[m] \in {values[m], observed + 1}
                         /\ values'[m] # values[m] => values'[m] = observed + 1
  BY <1>1 DEF MetricsType
<1>3. /\ values' \in [Metrics -> Nat] /\ observed' \in Nat /\ exported' \in [Metrics -> Seq(Nat)]
  <2>1. values \in [Metrics -> Nat] /\ observed + 1 \in Nat
    BY DEF MetricsType
  <2>2. values' \in [Metrics -> Nat]
    BY <1>1, <2>1
  <2> QED
    BY <1>1, <2>1, <2>2 DEF MetricsType
<1>4. \A m \in Metrics : \A i \in DOMAIN exported[m] : exported[m][i] \in Nat
  BY DEF MetricsType
<1>5. MetricsType'
  <2>1. \A m \in Metrics : values'[m] <= observed'
    BY <1>1, <1>2 DEF MetricsType
  <2>2. ASSUME NEW m \in Metrics, NEW i \in DOMAIN exported[m]
        PROVE  exported[m][i] <= observed'
    <3>1. exported[m][i] \in Nat /\ exported[m][i] <= observed /\ observed \in Nat
      BY <1>4 DEF MetricsType
    <3> QED
      BY <1>1, <3>1
  <2> QED
    BY <1>1, <1>3, <2>1, <2>2 DEF MetricsType
<1>6. \A m \in Metrics : values'[m] # 0 => \A i \in DOMAIN exported[m] : exported[m][i] < values'[m]
  <2>1. ASSUME NEW m \in Metrics, NEW i \in DOMAIN exported[m], values'[m] # 0
        PROVE  exported[m][i] < values'[m]
    <3>1. exported[m][i] \in Nat /\ exported[m][i] <= observed /\ observed \in Nat
      BY <1>4 DEF MetricsType
    <3>2. CASE values'[m] = values[m]
      <4>1. values[m] # 0 => exported[m][i] < values[m]
        BY DEF HandedOverInOrder
      <4> QED
        BY <2>1, <3>2, <4>1
    <3>3. CASE values'[m] = observed + 1
      BY <3>1, <3>3
    <3> QED
      BY <1>2, <3>2, <3>3
  <2> QED
    BY <2>1
<1>7. HandedOverInOrder'
  BY <1>1, <1>6 DEF HandedOverInOrder
<1> QED
  BY <1>5, <1>7

\* Values are handed over in order, whatever is loaded.
LEMMA NextInOrder ==
  ASSUME MetricsType, HandedOverInOrder, [MetricsNext]_metricsVars
  PROVE  MetricsType' /\ HandedOverInOrder'
<1>1. CASE Observe
  BY <1>1, ObserveOrder
<1>2. CASE EffectsEnded
  <2>1. PICK i \in DOMAIN runs : HandOver(runs[i].gauges) /\ observed' = observed
    BY <1>2 DEF EffectsEnded
  <2> QED
    BY <2>1, HandOverOrder
<1>3. CASE Load \/ OnCollection \/ Reset \/ Collect \/ EffectEnds \/ UNCHANGED metricsVars
  <2>1. UNCHANGED <<values, observed, exported>>
    BY <1>3 DEF Load, OnCollection, Reset, Collect, EffectEnds, metricsVars
  <2> QED
    BY <2>1 DEF MetricsType, HandedOverInOrder
<1> QED
  BY <1>1, <1>2, <1>3 DEF MetricsNext

-----------------------------------------------------------------------------
(* Loading *)

Entry == [instrument : Instruments, metric : Nat]
LoadState ==
  [entries : SUBSET Entry, metrics : SUBSET Nat, created : SUBSET Nat,
   newGauges : SUBSET Nat, next : Nat, throws : BOOLEAN]

\* What was loaded after some instruments: entries are added, all of those
\* created, and among them the gauges.
LoadedRight(so, first) ==
  /\ first <= so.next
  /\ \A m \in so.created : first <= m /\ m < so.next
  /\ so.newGauges \subseteq so.created
  /\ entries \subseteq so.entries
  /\ \A e \in so.entries : e \in entries \/ e.metric \in so.created
  /\ \A m \in so.created : \E e \in so.entries : e.metric = m

LEMMA LoadOneIsTyped ==
  ASSUME NEW so \in LoadState, NEW instrument \in Instruments
  PROVE  LoadOne(so, instrument) \in LoadState
<1> DEFINE cached == {e \in so.entries : e.instrument.name = instrument.name}
           found == CHOOSE e \in cached : TRUE
<1>1. CASE so.throws
  BY <1>1 DEF LoadOne
<1>2. CASE ~so.throws /\ cached # {}
  <2>1. found \in so.entries
    BY <1>2
  <2>2. found \in Entry
    BY <2>1 DEF LoadState
  <2>3. LoadOne(so, instrument) =
          [so EXCEPT !.throws = found.instrument # instrument, !.metrics = @ \cup {found.metric}]
    BY <1>2 DEF LoadOne
  <2> HIDE DEF found
  <2>4. (found.instrument # instrument) \in BOOLEAN /\ so.metrics \cup {found.metric} \in SUBSET Nat
    BY <2>2 DEF LoadState, Entry
  <2> QED
    BY <2>3, <2>4 DEF LoadState
<1>3. CASE ~so.throws /\ cached = {}
  <2> DEFINE new == [instrument |-> instrument, metric |-> so.next]
             more == IF instrument.kind = "gauge" THEN so.newGauges \cup {so.next} ELSE so.newGauges
  <2>1. LoadOne(so, instrument) =
          [so EXCEPT !.entries = @ \cup {new}, !.metrics = @ \cup {so.next},
                     !.created = @ \cup {so.next}, !.newGauges = more, !.next = @ + 1]
    BY <1>3 DEF LoadOne
  <2>2. /\ so.entries \cup {new} \in SUBSET Entry /\ so.metrics \cup {so.next} \in SUBSET Nat
        /\ so.created \cup {so.next} \in SUBSET Nat /\ more \in SUBSET Nat /\ so.next + 1 \in Nat
    BY DEF LoadState, Entry
  <2> HIDE DEF new, more
  <2> QED
    BY <2>1, <2>2 DEF LoadState
<1> QED
  BY <1>1, <1>2, <1>3

LEMMA LoadOneIsRight ==
  ASSUME NEW so \in LoadState, NEW instrument \in Instruments, NEW first \in Nat,
         LoadedRight(so, first)
  PROVE  LoadedRight(LoadOne(so, instrument), first)
<1> DEFINE cached == {e \in so.entries : e.instrument.name = instrument.name}
           then == LoadOne(so, instrument)
<1>1. CASE so.throws
  BY <1>1 DEF LoadOne
<1>2. CASE ~so.throws /\ cached # {}
  <2>1. /\ then.next = so.next /\ then.created = so.created /\ then.entries = so.entries
        /\ then.newGauges = so.newGauges
    BY <1>2 DEF LoadOne, LoadState
  <2> HIDE DEF then
  <2> QED
    BY <2>1 DEF LoadedRight, then
<1>3. CASE ~so.throws /\ cached = {}
  <2> DEFINE new == [instrument |-> instrument, metric |-> so.next]
  <2>1. /\ then.next = so.next + 1 /\ then.created = so.created \cup {so.next}
        /\ then.entries = so.entries \cup {new}
        /\ then.newGauges \in {so.newGauges, so.newGauges \cup {so.next}}
    BY <1>3 DEF LoadOne, LoadState
  <2>2. so.next \in Nat /\ new.metric = so.next /\ \A m \in so.created : m \in Nat
    BY DEF LoadState
  <2> HIDE DEF then, new
  <2>3. first <= then.next /\ \A m \in then.created : first <= m /\ m < then.next
    BY <2>1, <2>2 DEF LoadedRight
  <2>4. then.newGauges \subseteq then.created /\ entries \subseteq then.entries
    BY <2>1 DEF LoadedRight
  <2>5. /\ \A e \in then.entries : e \in entries \/ e.metric \in then.created
        /\ \A m \in then.created : \E e \in then.entries : e.metric = m
    BY <2>1, <2>2 DEF LoadedRight
  <2> QED
    BY <2>3, <2>4, <2>5 DEF LoadedRight, then
<1> QED
  BY <1>1, <1>2, <1>3

Nothing(first) ==
  [entries |-> entries, metrics |-> {}, created |-> {}, newGauges |-> {},
   next |-> first, throws |-> FALSE]
LoadingFrom(L, instruments, first) ==
  [n \in 0 .. Len(instruments) |->
     IF n = 0 THEN Nothing(first) ELSE LoadOne(L[n - 1], instruments[n])]
Loading(instruments, first) == CHOOSE L : L = LoadingFrom(L, instruments, first)

LEMMA LoadedIsLast ==
  ASSUME NEW instruments, NEW first
  PROVE  Loaded(instruments, first) = Loading(instruments, first)[Len(instruments)]
  BY DEF Loaded, Loading, LoadingFrom, Nothing

LEMMA LoadingExists ==
  ASSUME NEW instruments \in Seq(Instruments), NEW first \in Nat, entries \subseteq Entry
  PROVE  \E L : L = LoadingFrom(L, instruments, first)
<1> DEFINE S == LoadState
           n == Len(instruments)
           step == [m \in 1 .. n |-> [s \in S |-> LoadOne(s, instruments[m])]]
<1>0. n \in Nat
  OBVIOUS
<1>1. n \in Nat /\ Nothing(first) \in S
  BY DEF Nothing, LoadState
<1>2. step \in [1 .. n -> [S -> S]]
  BY LoadOneIsTyped
<1>3. PICK L \in [0 .. n -> S] : FollowsTo(L, n, Nothing(first), step)
  <2> HIDE DEF S, step, n
  <2> QED
    BY <1>1, <1>2, IteratesTo
<1>4. ASSUME NEW m \in 0 .. n, m # 0
      PROVE  L[m] = LoadOne(L[m - 1], instruments[m])
  <2>1. m \in 1 .. n /\ m - 1 \in 0 .. n /\ L[m - 1] \in S
    <3> HIDE DEF S, step
    <3>1. m \in 1 .. n /\ m - 1 \in 0 .. n
      BY <1>0, <1>4
    <3> QED
      BY <1>3, <3>1
  <2>2. L[m] = step[m][L[m - 1]]
    <3> HIDE DEF S, step
    <3> QED
      BY <1>3, <2>1 DEF FollowsTo
  <2> QED
    BY <2>1, <2>2
<1> QED
  BY <1>3, <1>4 DEF LoadingFrom, FollowsTo

LEMMA LoadedIsRight ==
  ASSUME NEW instruments \in Seq(Instruments), NEW first \in Nat, entries \subseteq Entry
  PROVE  /\ Loaded(instruments, first) \in LoadState
         /\ LoadedRight(Loaded(instruments, first), first)
<1> DEFINE L == Loading(instruments, first)
           Right(n) == L[n] \in LoadState /\ LoadedRight(L[n], first)
           Bad == {n \in 0 .. Len(instruments) : ~Right(n)}
<1>0. Len(instruments) \in Nat
  OBVIOUS
<1>1. L = LoadingFrom(L, instruments, first)
  BY LoadingExists DEF Loading
<1>2. L[0] = Nothing(first)
  BY <1>0, <1>1 DEF LoadingFrom
<1>3. \A n \in 1 .. Len(instruments) : L[n] = LoadOne(L[n - 1], instruments[n])
  BY <1>0, <1>1 DEF LoadingFrom
<1> HIDE DEF L
<1>4. Right(0)
  BY <1>2 DEF Nothing, LoadState, LoadedRight
<1>5. SUFFICES ASSUME Bad # {}
               PROVE  FALSE
  BY <1>0, LoadedIsLast DEF L
<1>6. PICK n \in Bad : \A m \in Bad : n <= m
  <2>1. Bad \subseteq Nat
    BY <1>0
  <2> HIDE DEF Bad
  <2> QED
    BY <1>5, <2>1, SmallestOf
<1>7. n # 0 /\ n \in 1 .. Len(instruments) /\ Right(n - 1) /\ instruments[n] \in Instruments
  BY <1>4, <1>6
<1>8. Right(n)
  BY <1>3, <1>7, LoadOneIsTyped, LoadOneIsRight
<1> QED
  BY <1>6, <1>8

-----------------------------------------------------------------------------
(* Collecting *)

\* Metrics are numbered as they are created, and one callback is registered for
\* the gauges of a load.
MetricsInv ==
  /\ lastMetric \in Nat
  /\ entries \subseteq Entry /\ \A e \in entries : e.metric <= lastMetric
  /\ gauges \subseteq Nat /\ \A g \in gauges : g <= lastMetric
  /\ threw \subseteq Nat /\ \A g \in threw : g <= lastMetric
  /\ \A c \in registered : \A g \in c.gauges : g \notin threw /\ \E e \in entries : e.metric = g
  /\ \A e \in entries : e.metric \in gauges \ threw => \E c \in registered : e.metric \in c.gauges
  /\ \A c, d \in registered : \A g \in c.gauges : g \in d.gauges => c = d

LEMMA LoadInv ==
  ASSUME MetricsInv, Load
  PROVE  MetricsInv'
<1>1. PICK instruments \in Libraries :
        LET so == Loaded(instruments, lastMetric + 1)
        IN /\ entries' = so.entries /\ lastMetric' = so.next - 1
           /\ gauges' = gauges \cup so.newGauges
           /\ IF so.throws
              THEN threw' = threw \cup so.created /\ UNCHANGED registered
              ELSE /\ registered' = IF so.newGauges = {} THEN registered
                                    ELSE registered \cup
                                      {[gauges |-> CollectedBy(so), load |-> Len(loads) + 1]}
                   /\ UNCHANGED threw
  BY DEF Load
<1> DEFINE so == Loaded(instruments, lastMetric + 1)
           c0 == [gauges |-> so.newGauges, load |-> Len(loads) + 1]
<1>2. so \in LoadState /\ LoadedRight(so, lastMetric + 1) /\ lastMetric \in Nat
  BY MetricsAssumption, LoadedIsRight DEF MetricsInv
<1>3. /\ entries' = so.entries /\ lastMetric' = so.next - 1
      /\ gauges' = gauges \cup so.newGauges
      /\ \/ threw' = threw \cup so.created /\ registered' = registered
         \/ threw' = threw /\ registered' = registered /\ so.newGauges = {}
         \/ threw' = threw /\ registered' = registered \cup {c0}
  BY <1>1 DEF CollectedBy
<1>4. c0.gauges = so.newGauges
  OBVIOUS
<1>5. /\ so.entries \subseteq Entry /\ so.next \in Nat /\ so.created \subseteq Nat
      /\ so.newGauges \subseteq so.created /\ entries \subseteq so.entries
      /\ lastMetric < so.next /\ \A m \in so.created : lastMetric < m /\ m < so.next
      /\ \A e \in so.entries : e \in entries \/ e.metric \in so.created
      /\ \A m \in so.created : \E e \in so.entries : e.metric = m
  BY <1>2 DEF LoadedRight, LoadState
<1> HIDE DEF so, c0
<1>6. \A e \in entries : e.metric \in Nat /\ e.metric <= lastMetric
  BY DEF MetricsInv, Entry
<1>7. lastMetric' \in Nat /\ lastMetric <= lastMetric' /\ \A m \in so.created : m <= lastMetric'
  BY <1>2, <1>3, <1>5
<1>8. entries' \subseteq Entry /\ \A e \in entries' : e.metric <= lastMetric'
  BY <1>2, <1>3, <1>5, <1>6, <1>7
<1>9. \A g \in gauges \cup threw : g \in Nat /\ g <= lastMetric
  BY DEF MetricsInv
<1>10. /\ gauges' \subseteq Nat /\ \A g \in gauges' : g <= lastMetric'
       /\ threw' \subseteq Nat /\ \A g \in threw' : g <= lastMetric'
  <2>1. \A g \in gauges \cup threw \cup so.created : g \in Nat /\ g <= lastMetric'
    BY <1>2, <1>5, <1>7, <1>9
  <2> QED
    BY <1>3, <1>5, <2>1
<1>11. /\ \A e \in entries : e.metric \notin so.created
       /\ \A g \in gauges : g \notin so.created
       /\ \A g \in threw : g \notin so.created
  <2>1. \A e \in entries : e.metric \notin so.created
    BY <1>2, <1>5, <1>6
  <2>2. \A g \in gauges \cup threw : g \notin so.created
    BY <1>2, <1>5, <1>9
  <2> QED
    BY <2>1, <2>2
<1>12. /\ registered \subseteq registered'
       /\ \A c \in registered' : c \in registered \/ (c = c0 /\ threw' = threw)
       /\ threw' = threw \/ threw' = threw \cup so.created
       /\ threw' = threw /\ so.newGauges # {} => c0 \in registered'
  BY <1>3, <1>5, <1>11
<1>13. ASSUME NEW c \in registered', NEW g \in c.gauges
       PROVE  g \notin threw' /\ \E e \in entries' : e.metric = g
  <2>1. CASE c \in registered
    <3>1. PICK e \in entries : g \notin threw /\ e.metric = g
      BY <1>13, <2>1 DEF MetricsInv
    <3> QED
      BY <1>3, <1>5, <1>11, <1>12, <3>1
  <2>2. CASE c = c0 /\ threw' = threw
    BY <1>3, <1>4, <1>5, <1>11, <1>13, <2>2
  <2> QED
    BY <1>12, <1>13, <2>1, <2>2
<1>14. ASSUME NEW e \in entries', e.metric \in gauges' \ threw'
       PROVE  \E c \in registered' : e.metric \in c.gauges
  <2>1. CASE e \in entries
    <3>1. e.metric \in gauges \ threw
      BY <1>3, <1>5, <1>11, <1>12, <1>14, <2>1
    <3> QED
      BY <1>12, <2>1, <3>1 DEF MetricsInv
  <2>2. CASE e.metric \in so.created
    <3>1. e.metric \in so.newGauges /\ threw' = threw
      BY <1>3, <1>11, <1>12, <1>14, <2>2
    <3> QED
      BY <1>4, <1>12, <3>1
  <2> QED
    BY <1>3, <1>5, <1>14, <2>1, <2>2
<1>15. ASSUME NEW c \in registered', NEW d \in registered', NEW g \in c.gauges, g \in d.gauges
       PROVE  c = d
  <2>1. ASSUME NEW x \in registered, g \in x.gauges
        PROVE  g \notin so.newGauges
    <3>1. PICK e \in entries : e.metric = g
      BY <2>1 DEF MetricsInv
    <3> QED
      BY <1>5, <1>11, <3>1
  <2>2. CASE c \in registered /\ d \in registered
    BY <1>15, <2>2 DEF MetricsInv
  <2>3. CASE c = c0 \/ d = c0
    BY <1>4, <1>12, <1>15, <2>1, <2>3
  <2> QED
    BY <1>12, <1>15, <2>2, <2>3
<1> QED
  BY <1>7, <1>8, <1>10, <1>13, <1>14, <1>15 DEF MetricsInv

LEMMA NextMetricsInv ==
  ASSUME MetricsInv, [MetricsNext]_metricsVars
  PROVE  MetricsInv'
<1>1. CASE Load
  BY <1>1, LoadInv
<1>2. CASE Reset
  <2>1. entries' = {} /\ registered' = {} /\ UNCHANGED <<lastMetric, gauges, threw>>
    BY <1>2 DEF Reset, ResetAll
  <2> QED
    BY <2>1 DEF MetricsInv
<1>3. CASE OnCollection \/ Observe \/ Collect \/ EffectEnds \/ EffectsEnded \/ UNCHANGED metricsVars
  <2>1. UNCHANGED <<entries, registered, lastMetric, gauges, threw>>
    BY <1>3 DEF OnCollection, Observe, Collect, EffectEnds, EffectsEnded, metricsVars
  <2> QED
    BY <2>1 DEF MetricsInv
<1> QED
  BY <1>1, <1>2, <1>3 DEF MetricsNext

LEMMA MetricsInvariance ==
  MetricsSpec => [](MetricsInv /\ MetricsType /\ HandedOverInOrder)
<1>1. MetricsInit => MetricsInv /\ MetricsType /\ HandedOverInOrder
  <2> SUFFICES ASSUME MetricsInit
               PROVE  MetricsInv /\ MetricsType /\ HandedOverInOrder
    OBVIOUS
  <2>1. MetricsInv
    BY DEF MetricsInit, MetricsInv
  <2>2. MetricsType /\ HandedOverInOrder
    BY DEF MetricsInit, MetricsType, HandedOverInOrder
  <2> QED
    BY <2>1, <2>2
<1>2. MetricsInv /\ MetricsType /\ HandedOverInOrder /\ [MetricsNext]_metricsVars
        => (MetricsInv /\ MetricsType /\ HandedOverInOrder)'
  BY NextMetricsInv, NextInOrder
<1> QED
  BY <1>1, <1>2, PTL DEF MetricsSpec

\* The last value observed is where it should be.
KeptInv == latest \in [Metrics -> Nat] /\ LastIsKept

LEMMA HandOverKeeps ==
  ASSUME MetricsType, KeptInv, NEW gs, HandOver(gs), latest' = latest
  PROVE  KeptInv'
<1>1. ASSUME NEW g \in Metrics, values[g] # 0 /\ g \in gs
      PROVE  exported'[g] # <<>> /\ exported'[g][Len(exported'[g])] = latest[g]
  <2>1. exported[g] \in Seq(Nat) /\ exported'[g] = Append(exported[g], values[g])
    BY <1>1 DEF HandOver, MetricsType
  <2>2. values[g] = latest[g]
    BY <1>1 DEF KeptInv, LastIsKept
  <2>3. /\ Len(exported'[g]) = Len(exported[g]) + 1 /\ Len(exported[g]) \in Nat
        /\ exported'[g][Len(exported[g]) + 1] = values[g]
    BY <2>1
  <2>4. exported'[g] # <<>>
    BY <2>1, <2>3
  <2> QED
    BY <2>2, <2>3, <2>4
<1>2. \A g \in Metrics : g \in gs => values'[g] = 0
  BY DEF HandOver
<1>3. \A g \in Metrics : values[g] = 0 \/ g \notin gs =>
        values'[g] = values[g] /\ exported'[g] = exported[g]
  BY DEF HandOver
<1>4. ASSUME NEW g \in Metrics
      PROVE  \/ values'[g] = latest'[g]
             \/ /\ values'[g] = 0 /\ exported'[g] # <<>>
                /\ exported'[g][Len(exported'[g])] = latest'[g]
  <2>1. CASE values[g] # 0 /\ g \in gs
    BY <1>1, <1>2, <2>1
  <2>2. CASE values[g] = 0 \/ g \notin gs
    <3>1. \/ values[g] = latest[g]
          \/ /\ values[g] = 0 /\ exported[g] # <<>>
             /\ exported[g][Len(exported[g])] = latest[g]
      BY DEF KeptInv, LastIsKept
    <3> QED
      BY <1>3, <2>2, <3>1
  <2> QED
    BY <2>1, <2>2
<1> QED
  BY <1>4 DEF KeptInv, LastIsKept

LEMMA ObserveKeeps ==
  ASSUME MetricsType, KeptInv, Observe
  PROVE  KeptInv'
<1>1. PICK g \in gauges : /\ exported' = exported
                          /\ values' = [values EXCEPT ![g] = observed + 1]
                          /\ latest' = [latest EXCEPT ![g] = observed + 1]
  BY DEF Observe
<1>2. latest' \in [Metrics -> Nat]
  <2>1. observed + 1 \in Nat
    BY DEF MetricsType
  <2> QED
    BY <1>1, <2>1 DEF KeptInv
<1>3. \A m \in Metrics : \/ values'[m] = latest'[m]
                         \/ values'[m] = values[m] /\ latest'[m] = latest[m]
  BY <1>1 DEF KeptInv, MetricsType
<1> QED
  BY <1>1, <1>2, <1>3 DEF KeptInv, LastIsKept

LEMMA KeptInvariance == MetricsSpec => []KeptInv
<1>1. MetricsInit => KeptInv
  BY DEF MetricsInit, KeptInv, LastIsKept
<1>2. ASSUME MetricsType, KeptInv, [MetricsNext]_metricsVars
      PROVE  KeptInv'
  <2>1. CASE Observe
    BY <1>2, <2>1, ObserveKeeps
  <2>2. CASE EffectsEnded
    <3>1. PICK i \in DOMAIN runs : HandOver(runs[i].gauges) /\ latest' = latest
      BY <2>2 DEF EffectsEnded
    <3> QED
      BY <1>2, <3>1, HandOverKeeps
  <2>3. CASE Load \/ OnCollection \/ Reset \/ Collect \/ EffectEnds \/ UNCHANGED metricsVars
    <3>1. UNCHANGED <<values, latest, exported>>
      BY <2>3 DEF Load, OnCollection, Reset, Collect, EffectEnds, metricsVars
    <3> QED
      BY <1>2, <3>1 DEF KeptInv, LastIsKept
  <2> QED
    BY <1>2, <2>1, <2>2, <2>3 DEF MetricsNext
<1>3. MetricsType /\ KeptInv /\ [MetricsNext]_metricsVars => KeptInv'
  BY <1>2
<1> QED
  BY <1>1, <1>3, MetricsInvariance, PTL DEF MetricsSpec

\* Whatever libraries load and in which order, with loads which throw, resets
\* and collections which overlap or fail, each cached gauge is collected by one
\* callback, which hands its values over in order, each once at most, and the
\* last value observed is kept until it is handed over (metrics.ts:79-106).
THEOREM ValuesAreHandedOverOnce == MetricsSpec => []HandedOverOnce
<1>1. MetricsInv => CollectedByOne
  <2> SUFFICES ASSUME MetricsInv
               PROVE  CollectedByOne
    OBVIOUS
  <2>1. ASSUME NEW e \in entries, e.metric \in gauges \ threw
        PROVE  Cardinality({c \in registered : e.metric \in c.gauges}) = 1
    <3>1. PICK c \in registered : e.metric \in c.gauges
      BY <2>1 DEF MetricsInv
    <3>2. {d \in registered : e.metric \in d.gauges} = {c}
      BY <3>1 DEF MetricsInv
    <3> QED
      BY <3>2, FS_Singleton
  <2>2. \A c \in registered : c.gauges \subseteq {e.metric : e \in entries} \ threw
    BY DEF MetricsInv
  <2> QED
    BY <2>1, <2>2 DEF CollectedByOne
<1>2. MetricsInv /\ HandedOverInOrder /\ KeptInv => HandedOverOnce
  BY <1>1 DEF HandedOverOnce, KeptInv
<1> QED
  BY <1>2, MetricsInvariance, KeptInvariance, PTL

-----------------------------------------------------------------------------
(* Logging *)

Items == [glob : DOMAIN Globs \cup {Default}, level : Nat]
Loggers == [lib : Libs, ctx : CtxOptions, parent : Nat, given : CtxOptions]
Messages ==
  [lib : Libs, level : LogLevels, ctx : CtxOptions, by : Nat, own : CtxOptions,
   active : CtxOptions, at : {Recorded, "dropped"}]

-----------------------------------------------------------------------------
(* Libraries' levels *)

LEMMA LastIsOne ==
  ASSUME NEW n \in Nat, NEW S, S \subseteq 1 .. n, S # {}
  PROVE  LastIn(S) \in S /\ \A j \in S : j <= LastIn(S)
<1>1. \E i \in S : \A j \in S : j <= i
  BY LargestOf
<1> QED
  BY <1>1 DEF LastIn

LEMMA LastIsUnique ==
  ASSUME NEW n \in Nat, NEW S, S \subseteq 1 .. n, NEW i \in S, \A j \in S : j <= i
  PROVE  LastIn(S) = i
<1>1. LastIn(S) \in S /\ \A j \in S : j <= LastIn(S)
  BY LastIsOne
<1> DEFINE l == LastIn(S)
<1>2. l \in S /\ \A j \in S : j <= l
  BY <1>1
<1> HIDE DEF l
<1>3. l \in 1 .. n /\ i \in 1 .. n /\ l <= i /\ i <= l
  BY <1>2
<1>4. l = i
  BY <1>3
<1> QED
  BY <1>4 DEF l

LEMMA ThresholdIsLevel ==
  ASSUME NEW spec \in Specs, NEW lib
  PROVE  MapTo(spec, lib) \in Nat /\ Threshold(spec, lib) \in Nat
<1>1. spec \in Seq(Items) /\ FallbackLevel \in Nat
  BY LoggingAssumption DEF Items
<1>2. Len(spec) \in Nat /\ DOMAIN spec = 1 .. Len(spec)
      /\ \A i \in DOMAIN spec : spec[i].level \in Nat
  <2>1. Len(spec) \in Nat /\ DOMAIN spec = 1 .. Len(spec)
        /\ \A i \in DOMAIN spec : spec[i] \in Items
    BY <1>1
  <2> QED
    BY <2>1 DEF Items
<1>3. ASSUME NEW i \in DOMAIN spec
      PROVE  LastValue(spec, spec[i].glob) \in Nat
  <2> DEFINE S == {j \in DOMAIN spec : spec[j].glob = spec[i].glob}
  <2>1. S \subseteq 1 .. Len(spec) /\ S # {}
    BY <1>2, <1>3
  <2>2. LastIn(S) \in S
    <3> HIDE DEF S
    <3> QED
      BY <1>2, <2>1, LastIsOne
  <2> QED
    BY <1>2, <2>2 DEF LastValue
<1>4. MapperFallback(spec) \in Nat
  <2>1. CASE \E i \in DOMAIN spec : spec[i].glob = Default
    <3>1. PICK i \in DOMAIN spec : spec[i].glob = Default
      BY <2>1
    <3>2. LastValue(spec, Default) \in Nat
      BY <1>3, <3>1
    <3> QED
      BY <2>1, <3>2 DEF MapperFallback
  <2>2. CASE ~ \E i \in DOMAIN spec : spec[i].glob = Default
    BY <2>2 DEF MapperFallback
  <2> QED
    BY <2>1, <2>2
<1> DEFINE matching == {i \in Places(spec) : lib \in Globs[spec[i].glob]}
<1>5. CASE matching = {}
  BY <1>1, <1>4, <1>5 DEF MapTo, Threshold
<1>6. CASE matching # {}
  <2>1. matching \subseteq 1 .. Len(spec)
    BY <1>2 DEF Places
  <2>2. LastIn(matching) \in matching
    <3> HIDE DEF matching
    <3> QED
      BY <1>2, <1>6, <2>1, LastIsOne
  <2>3. LastIn(matching) \in DOMAIN spec
    BY <1>2, <2>1, <2>2
  <2>4. LastValue(spec, spec[LastIn(matching)].glob) \in Nat
    BY <1>3, <2>3
  <2>5. MapTo(spec, lib) = LastValue(spec, spec[LastIn(matching)].glob)
    BY <1>6 DEF MapTo
  <2> QED
    BY <1>1, <2>4, <2>5 DEF Threshold
<1> QED
  BY <1>5, <1>6

\* Where no glob comes twice and the default comes first, later items override
\* earlier ones, as forSpec's comment has it.
LEMMA LaterOverridesWhenOrdered ==
  ASSUME NEW spec \in Specs, Ordered(spec), NEW lib
  PROVE  MapTo(spec, lib) = LastMatching(spec, lib)
<1>1. spec \in Seq(Items)
  BY LoggingAssumption DEF Items
<1>2. Len(spec) \in Nat /\ DOMAIN spec = 1 .. Len(spec)
  BY <1>1
<1>3. ASSUME NEW i \in DOMAIN spec
      PROVE  LastValue(spec, spec[i].glob) = spec[i].level
  <2> DEFINE S == {j \in DOMAIN spec : spec[j].glob = spec[i].glob}
  <2>1. S = {i}
    BY <1>3 DEF Ordered
  <2>2. LastIn(S) = i
    <3>1. S \subseteq 1 .. Len(spec) /\ i \in S /\ \A j \in S : j <= i
      BY <1>2, <1>3, <2>1
    <3> HIDE DEF S
    <3> QED
      BY <1>2, <3>1, LastIsUnique
  <2> QED
    BY <2>2 DEF LastValue
<1> DEFINE placed == {i \in Places(spec) : lib \in Globs[spec[i].glob]}
           all == {i \in DOMAIN spec : spec[i].glob = Default \/ lib \in Globs[spec[i].glob]}
<1>4. Places(spec) = {i \in DOMAIN spec : spec[i].glob # Default}
  <2>1. ASSUME NEW i \in DOMAIN spec, NEW j \in 1 .. i - 1
        PROVE  spec[j].glob # spec[i].glob
    <3>1. j \in DOMAIN spec /\ j # i
      BY <1>2, <2>1
    <3> QED
      BY <3>1 DEF Ordered
  <2> QED
    BY <2>1 DEF Places
<1>5. all \subseteq 1 .. Len(spec) /\ placed \subseteq all
  BY <1>2, <1>4
<1>6. CASE placed # {}
  <2> DEFINE l == LastIn(placed)
  <2>1. l \in placed /\ \A j \in placed : j <= l
    <3>1. placed \subseteq 1 .. Len(spec)
      BY <1>5
    <3> HIDE DEF placed
    <3> QED
      BY <1>2, <1>6, <3>1, LastIsOne
  <2>2. l \in all /\ \A j \in all : j <= l
    <3>1. l \in 1 .. Len(spec)
      BY <1>5, <2>1
    <3>2. ASSUME NEW j \in all
          PROVE  j <= l
      <4>1. CASE spec[j].glob = Default
        <5>1. j = 1
          BY <3>2, <4>1 DEF Ordered
        <5> HIDE DEF l
        <5> QED
          BY <3>1, <5>1
      <4>2. CASE spec[j].glob # Default
        BY <1>4, <2>1, <3>2, <4>2
      <4> QED
        BY <4>1, <4>2
    <3> QED
      BY <1>5, <2>1, <3>2
  <2>3. LastIn(all) = l
    <3> HIDE DEF all, l
    <3> QED
      BY <1>2, <1>5, <2>2, LastIsUnique
  <2>4. l \in DOMAIN spec /\ all # {}
    BY <1>2, <1>5, <2>2
  <2>5. LastValue(spec, spec[l].glob) = spec[l].level
    BY <1>3, <2>4
  <2> QED
    BY <1>6, <2>3, <2>4, <2>5 DEF MapTo, LastMatching
<1>7. CASE placed = {}
  <2>1. all = {i \in DOMAIN spec : spec[i].glob = Default}
    BY <1>4, <1>7
  <2>2. MapTo(spec, lib) = MapperFallback(spec)
    BY <1>7 DEF MapTo
  <2> QED
    BY <2>1, <2>2 DEF MapperFallback, LastMatching, LastValue
<1> QED
  BY <1>6, <1>7

-----------------------------------------------------------------------------
(* Loggers *)

CtxIn(all, i) == IF i = 0 THEN NoCtx ELSE all[i].ctx

Reaches(level, min, opLevel) == level >= min \/ (opLevel # 0 /\ level >= opLevel)

LoggedRight(m) ==
  /\ m.by \in 1 .. Len(loggers) /\ m.lib = loggers[m.by].lib
  /\ m.at = Recorded <=>
       Reaches(m.level, Threshold(specs["library"], m.lib),
               ActiveLevel(CtxOr(m.own, CtxOr(loggers[m.by].ctx, m.active))))

\* A logger's context is the one which it was given or its parent's, which is
\* older; each message was logged by a logger, and where it had to be.
LoggingInv ==
  /\ specs \in [{"library", "output"} -> Specs]
  /\ activeCtx \in CtxOptions
  /\ loggers \in Seq(Loggers)
  /\ \A i \in 1 .. Len(loggers) :
       /\ loggers[i].parent < i
       /\ loggers[i].ctx = CtxOr(loggers[i].given, CtxIn(loggers, loggers[i].parent))
  /\ messages \in Seq(Messages)
  /\ \A n \in 1 .. Len(messages) : LoggedRight(messages[n])

LEMMA LevelsAreTyped ==
  ASSUME NEW ctx \in CtxOptions
  PROVE  ActiveLevel(ctx) \in Nat
  BY LoggingAssumption DEF ActiveLevel, CtxOptions

LEMMA CtxOrIsTyped ==
  ASSUME NEW ctx \in CtxOptions, NEW other \in CtxOptions
  PROVE  CtxOr(ctx, other) \in CtxOptions
  BY DEF CtxOr

\* A message reaches the lesser of two levels if it reaches one of them.
LEMMA ShouldLogIfReached ==
  ASSUME LoggingInv, NEW i \in DOMAIN loggers, NEW level \in LogLevels, NEW ctx \in CtxOptions
  PROVE  LET logged == CtxOr(ctx, ContextOf(loggers[i]))
         IN /\ logged \in CtxOptions
            /\ ShouldLogAt(loggers[i], level, logged) <=>
                 Reaches(level, Threshold(specs["library"], loggers[i].lib),
                         ActiveLevel(CtxOr(ctx, CtxOr(loggers[i].ctx, activeCtx))))
<1> DEFINE own == ContextOf(loggers[i])
           logged == CtxOr(ctx, own)
           min == Threshold(specs["library"], loggers[i].lib)
           opLevel == ActiveLevel(logged)
<1>1. loggers[i] \in Loggers
  BY DEF LoggingInv
<1>2. own \in CtxOptions /\ own = CtxOr(loggers[i].ctx, activeCtx)
  BY <1>1, CtxOrIsTyped DEF LoggingInv, Loggers, ContextOf
<1>3. logged \in CtxOptions /\ CtxOr(logged, own) = logged
  BY <1>2, CtxOrIsTyped DEF CtxOr
<1>4. min \in Nat /\ opLevel \in Nat /\ level \in Nat
  BY <1>3, ThresholdIsLevel, LevelsAreTyped, LoggingAssumption DEF LoggingInv
<1>5. ShouldLogAt(loggers[i], level, logged) <=> level >= IF opLevel # 0 /\ opLevel < min THEN opLevel ELSE min
  BY <1>3 DEF ShouldLogAt
<1>6. (level >= IF opLevel # 0 /\ opLevel < min THEN opLevel ELSE min) <=> Reaches(level, min, opLevel)
  <2> HIDE DEF min, opLevel
  <2> QED
    BY <1>4 DEF Reaches
<1> QED
  BY <1>2, <1>3, <1>5, <1>6

LEMMA ChildInv ==
  ASSUME LoggingInv, NEW i \in DOMAIN loggers, NEW ctx \in CtxOptions, Child(i, ctx)
  PROVE  LoggingInv'
<1> DEFINE new == [lib |-> loggers[i].lib, ctx |-> ChildCtx(loggers[i], ctx),
                   parent |-> i, given |-> ctx]
<1>1. loggers' = Append(loggers, new) /\ UNCHANGED <<specs, activeCtx, messages>>
  BY DEF Child
<1>2. loggers \in Seq(Loggers) /\ i \in 1 .. Len(loggers) /\ loggers[i] \in Loggers
  BY DEF LoggingInv
<1>3. new \in Loggers /\ new.parent = i /\ new.given = ctx
      /\ new.ctx = CtxOr(ctx, loggers[i].ctx)
  BY <1>2, CtxOrIsTyped DEF Loggers, ChildCtx
<1> HIDE DEF new
<1>4. /\ loggers' \in Seq(Loggers) /\ Len(loggers') = Len(loggers) + 1 /\ Len(loggers) \in Nat
      /\ \A j \in 1 .. Len(loggers) : loggers'[j] = loggers[j]
      /\ loggers'[Len(loggers) + 1] = new
  BY <1>1, <1>2, <1>3
<1>5. ASSUME NEW j \in 1 .. Len(loggers')
      PROVE  /\ loggers'[j].parent < j
             /\ loggers'[j].ctx = CtxOr(loggers'[j].given, CtxIn(loggers', loggers'[j].parent))
  <2>1. CASE j \in 1 .. Len(loggers)
    <3>1. loggers'[j] = loggers[j] /\ loggers[j] \in Loggers
      BY <1>2, <1>4, <2>1
    <3>2. loggers[j].parent \in Nat /\ loggers[j].parent < j
      BY <2>1, <3>1 DEF LoggingInv, Loggers
    <3>3. CtxIn(loggers', loggers[j].parent) = CtxIn(loggers, loggers[j].parent)
      BY <1>4, <2>1, <3>1, <3>2 DEF CtxIn
    <3> QED
      BY <2>1, <3>1, <3>2, <3>3 DEF LoggingInv, CtxIn
  <2>2. CASE j = Len(loggers) + 1
    <3>1. loggers'[j] = new /\ loggers'[i] = loggers[i] /\ i # 0
      BY <1>2, <1>4, <2>2
    <3> QED
      BY <1>2, <1>3, <1>4, <2>2, <3>1 DEF CtxIn
  <2> QED
    BY <1>4, <2>1, <2>2
<1>6. ASSUME NEW n \in 1 .. Len(messages)
      PROVE  LoggedRight(messages[n])'
  <2>1. LoggedRight(messages[n])
    BY DEF LoggingInv
  <2>2. messages[n].by \in 1 .. Len(loggers)
    BY <2>1 DEF LoggedRight
  <2>3. messages[n].by \in 1 .. Len(loggers') /\ loggers'[messages[n].by] = loggers[messages[n].by]
    BY <1>4, <2>2
  <2> QED
    BY <1>1, <2>1, <2>3 DEF LoggedRight
<1> QED
  BY <1>1, <1>4, <1>5, <1>6 DEF LoggingInv

LEMMA LogAtInv ==
  ASSUME LoggingInv, NEW i \in DOMAIN loggers, NEW level \in LogLevels,
         NEW ctx \in CtxOptions, LogAt(i, level, ctx)
  PROVE  LoggingInv'
<1> DEFINE logged == CtxOr(ctx, ContextOf(loggers[i]))
           at == IF ShouldLogAt(loggers[i], level, logged) THEN Recorded ELSE "dropped"
           new == [lib |-> loggers[i].lib, level |-> level, ctx |-> logged,
                   by |-> i, own |-> ctx, active |-> activeCtx, at |-> at]
<1>1. messages' = Append(messages, new) /\ UNCHANGED <<specs, loggers, activeCtx>>
  BY DEF LogAt
<1>2. /\ messages \in Seq(Messages) /\ i \in 1 .. Len(loggers) /\ Len(loggers) \in Nat
      /\ loggers[i] \in Loggers /\ activeCtx \in CtxOptions
  BY DEF LoggingInv
<1>3. logged \in CtxOptions
  BY ShouldLogIfReached
<1>4. at \in {Recorded, "dropped"} /\ (at = Recorded <=> ShouldLogAt(loggers[i], level, logged))
  BY DEF Recorded
<1>5. /\ new.lib = loggers[i].lib /\ new.level = level /\ new.by = i /\ new.own = ctx
      /\ new.active = activeCtx /\ new.at = at
  OBVIOUS
<1>6. new \in Messages
  BY <1>2, <1>3, <1>4 DEF Messages, Loggers
<1>7. LoggedRight(new)
  <2>1. at = Recorded <=>
          Reaches(level, Threshold(specs["library"], loggers[i].lib),
                  ActiveLevel(CtxOr(ctx, CtxOr(loggers[i].ctx, activeCtx))))
    BY <1>4, ShouldLogIfReached
  <2> HIDE DEF new, at, logged
  <2> QED
    BY <1>2, <1>5, <2>1 DEF LoggedRight
<1> HIDE DEF new, at, logged
<1>8. /\ messages' \in Seq(Messages) /\ Len(messages') = Len(messages) + 1
      /\ Len(messages) \in Nat
      /\ \A n \in 1 .. Len(messages) : messages'[n] = messages[n]
      /\ messages'[Len(messages) + 1] = new
  BY <1>1, <1>2, <1>6
<1>9. ASSUME NEW n \in 1 .. Len(messages')
      PROVE  LoggedRight(messages'[n])
  <2>1. CASE n \in 1 .. Len(messages)
    BY <1>8, <2>1 DEF LoggingInv
  <2>2. CASE n = Len(messages) + 1
    BY <1>7, <1>8, <2>2
  <2> QED
    BY <1>8, <2>1, <2>2
<1>10. \A n \in 1 .. Len(messages') : LoggedRight(messages[n])'
  BY <1>1, <1>9 DEF LoggedRight
<1> QED
  BY <1>1, <1>8, <1>10 DEF LoggingInv, CtxIn

LEMMA NextLoggingInv ==
  ASSUME LoggingInv, [LoggingNext]_loggingVars
  PROVE  LoggingInv'
<1>1. ASSUME NEW i \in DOMAIN loggers, NEW ctx \in CtxOptions, Child(i, ctx)
      PROVE  LoggingInv'
  BY <1>1, ChildInv
<1>2. ASSUME NEW i \in DOMAIN loggers, NEW ctx \in CtxOptions, NEW level \in LogLevels,
             LogAt(i, level, ctx)
      PROVE  LoggingInv'
  BY <1>2, LogAtInv
<1>3. CASE (\E ctx \in CtxOptions : Activate(ctx)) \/ ResetLogs \/ UNCHANGED loggingVars
  <2>1. UNCHANGED <<specs, loggers, messages>> /\ activeCtx' \in CtxOptions
    BY <1>3 DEF Activate, ResetLogs, loggingVars, LoggingInv
  <2> QED
    BY <2>1 DEF LoggingInv, LoggedRight, CtxIn
<1> QED
  BY <1>1, <1>2, <1>3 DEF LoggingNext

LEMMA LoggingInvariance == LoggingSpec => []LoggingInv
<1>1. LoggingInit => LoggingInv
  <2> SUFFICES ASSUME LoggingInit
               PROVE  LoggingInv
    OBVIOUS
  <2>1. PICK lib \in Libs :
          loggers = <<[lib |-> lib, ctx |-> NoCtx, parent |-> 0, given |-> NoCtx]>>
    BY DEF LoggingInit
  <2> DEFINE first == [lib |-> lib, ctx |-> NoCtx, parent |-> 0, given |-> NoCtx]
  <2>2. first \in Loggers /\ first.parent = 0 /\ first.ctx = NoCtx /\ first.given = NoCtx
    BY DEF Loggers, CtxOptions
  <2>3. loggers = <<first>>
    BY <2>1
  <2> HIDE DEF first
  <2>4. loggers \in Seq(Loggers) /\ Len(loggers) = 1 /\ loggers[1] = first
    BY <2>2, <2>3
  <2>5. messages \in Seq(Messages) /\ Len(messages) = 0
    BY DEF LoggingInit
  <2> QED
    BY <2>2, <2>4, <2>5 DEF LoggingInit, LoggingInv, CtxOptions, CtxOr, CtxIn
<1>2. LoggingInv /\ [LoggingNext]_loggingVars => LoggingInv'
  BY NextLoggingInv
<1> QED
  BY <1>1, <1>2, PTL DEF LoggingSpec

\* Contexts are handed down.
LEMMA NearestIsHandedDown ==
  ASSUME LoggingInv
  PROVE  \A i \in 1 .. Len(loggers) : NearestCtx[i] = loggers[i].ctx
<1> DEFINE From(N) == [i \in 0 .. Len(loggers) |->
                        IF i = 0 THEN NoCtx ELSE CtxOr(loggers[i].given, N[loggers[i].parent])]
           W == [i \in 0 .. Len(loggers) |-> CtxIn(loggers, i)]
<1>1. Len(loggers) \in Nat
  BY DEF LoggingInv
<1>2. ASSUME NEW i \in 1 .. Len(loggers)
      PROVE  loggers[i].parent \in 0 .. i - 1 /\ loggers[i].parent \in 0 .. Len(loggers)
  <2>1. loggers[i] \in Loggers /\ loggers[i].parent < i
    BY <1>2 DEF LoggingInv
  <2> QED
    BY <1>1, <2>1 DEF Loggers
<1>3. W = From(W)
  <2>1. ASSUME NEW i \in 0 .. Len(loggers)
        PROVE  W[i] = From(W)[i]
    <3>1. CASE i = 0
      BY <2>1, <3>1 DEF CtxIn
    <3>2. CASE i # 0
      <4>1. i \in 1 .. Len(loggers)
        BY <1>1, <2>1, <3>2
      <4>2. W[loggers[i].parent] = CtxIn(loggers, loggers[i].parent)
        BY <1>2, <4>1
      <4> QED
        BY <3>2, <4>1, <4>2 DEF LoggingInv, CtxIn
    <3> QED
      BY <3>1, <3>2
  <2> QED
    BY <2>1
<1>4. NearestCtx = CHOOSE N : N = From(N)
  BY DEF NearestCtx
<1>5. NearestCtx = From(NearestCtx)
  <2> HIDE DEF From, W
  <2> QED
    BY <1>3, <1>4
<1> DEFINE N == NearestCtx
           Bad == {i \in 1 .. Len(loggers) : N[i] # loggers[i].ctx}
<1>6. N[0] = NoCtx /\ \A i \in 1 .. Len(loggers) :
                        N[i] = CtxOr(loggers[i].given, N[loggers[i].parent])
  BY <1>1, <1>5
<1> HIDE DEF N
<1>7. SUFFICES ASSUME Bad # {}
               PROVE  FALSE
  BY DEF N
<1>8. PICK i \in Bad : \A j \in Bad : i <= j
  <2>1. Bad \subseteq Nat
    OBVIOUS
  <2> HIDE DEF Bad
  <2> QED
    BY <1>7, <2>1, SmallestOf
<1>9. i \in 1 .. Len(loggers) /\ loggers[i].parent \in 0 .. i - 1
      /\ loggers[i].parent \in 0 .. Len(loggers)
  BY <1>2
<1>10. N[loggers[i].parent] = CtxIn(loggers, loggers[i].parent)
  <2>1. CASE loggers[i].parent = 0
    BY <1>6, <2>1 DEF CtxIn
  <2>2. CASE loggers[i].parent # 0
    <3>1. loggers[i].parent \in 1 .. Len(loggers) /\ ~(i <= loggers[i].parent)
      BY <1>1, <1>9, <2>2
    <3>2. loggers[i].parent \notin Bad
      BY <1>8, <3>1
    <3> QED
      BY <2>2, <3>1, <3>2 DEF CtxIn
  <2> QED
    BY <2>1, <2>2
<1>11. N[i] = loggers[i].ctx
  BY <1>6, <1>9, <1>10 DEF LoggingInv
<1> QED
  BY <1>8, <1>11

\* Whichever spec gives the levels, whatever loggers are derived with a context or
\* without, and whichever span is active, a message is logged exactly if it
\* reaches the level of its library or of its operation (loggers.ts:183).
THEOREM LogsWhatItsOperationAsksFor == LoggingSpec => []LoggedInItsOperation
<1>1. LoggingInv => LoggedInItsOperation
  <2> SUFFICES ASSUME LoggingInv, Ordered(specs["library"]), NEW n \in DOMAIN messages
               PROVE  LET m == messages[n]
                          last == LastMatching(specs["library"], m.lib)
                          opLevel == ActiveLevel(CtxOr(m.own, CtxOr(NearestCtx[m.by], m.active)))
                      IN m.at = Recorded <=>
                           \/ m.level >= IF last = 0 THEN FallbackLevel ELSE last
                           \/ opLevel # 0 /\ m.level >= opLevel
    BY DEF LoggedInItsOperation
  <2> DEFINE m == messages[n]
  <2>1. n \in 1 .. Len(messages) /\ specs["library"] \in Specs
    BY DEF LoggingInv
  <2>2. LoggedRight(m)
    BY <2>1 DEF LoggingInv
  <2>3. NearestCtx[m.by] = loggers[m.by].ctx
    BY <2>2, NearestIsHandedDown DEF LoggedRight
  <2>4. MapTo(specs["library"], m.lib) = LastMatching(specs["library"], m.lib)
    BY <2>1, LaterOverridesWhenOrdered
  <2> QED
    BY <2>2, <2>3, <2>4 DEF LoggedRight, Reaches, Threshold
<1> QED
  BY <1>1, LoggingInvariance, PTL
=============================================================================
