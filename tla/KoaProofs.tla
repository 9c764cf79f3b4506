----------------------------- MODULE KoaProofs ------------------------------
(***************************************************************************)
(* Proofs about stl-koa and what its clients are told. Requests, for any   *)
(* number of them: each is counted once, and its spans tell how it was     *)
(* answered. Throttles, for any rates and costs: rates are kept, and       *)
(* whoever is refused is told when to come back. Health, for any checks: a *)
(* response tells of all of them. Its app, for any number of calls of      *)
(* stop: its end is heard. Errors, for any without circular causes:        *)
(* the one which is told of is the first which matches.                    *)
(***************************************************************************)
EXTENDS Request, Throttle, Health, KoaApp, Errors,
        SequenceTheorems, FiniteSetTheorems, Induction, TLAPS

-----------------------------------------------------------------------------
(* Requests *)

SpanStatuses == {"none", "unset", "ok", "error"}

RequestType ==
  /\ fn \in [Requests -> {"none", "handling", "annotating", "returned", "rejected"}]
  /\ race \in [Requests -> {"none", "running", "won", "lost"}]
  /\ koa \in [Requests -> {"waiting", "respond", "onerror", "done"}]
  /\ bypassed \in [Requests -> BOOLEAN]
  /\ body \in [Requests -> {"none", "data", "stream", "failure"}]
  /\ code \in [Requests -> Codes]
  /\ req \in [Requests -> {"open", "complete", "aborted"}]
  /\ res \in [Requests -> {"open", "written", "closed"}]
  /\ finished \in [Requests -> BOOLEAN] /\ target \in [Requests -> BOOLEAN]
  /\ gauge \in Nat
  /\ counted \in [Requests -> Seq([as : {"duration", "aborted"}, target : BOOLEAN])]
  /\ span \in [Requests -> [status : SpanStatuses, ended : BOOLEAN]]
  /\ streaming \in [Requests -> [status : SpanStatuses, ended : BOOLEAN]]

\* Nothing happens to a request before it is received.
NotReceived(r) ==
  fn[r] = "none" =>
    /\ race[r] = "none" /\ koa[r] = "waiting" /\ ~bypassed[r]
    /\ res[r] = "open" /\ streaming[r].status = "none"

\* The race runs no longer than its function, and koa waits as long.
Raced(r) ==
  /\ fn[r] \in {"handling", "annotating"} =>
       /\ race[r] \in {"running", "lost"}
       /\ span[r].status = "unset" /\ streaming[r].status = "none"
  /\ fn[r] \in {"returned", "rejected"} => race[r] \in {"won", "lost"}
  /\ race[r] = "running" => koa[r] = "waiting"
  /\ race[r] = "running" /\ ~bypassed[r] => res[r] = "open"

\* Only koa and the handler write, koa once the target was inferred or the
\* connection is gone.
Targeted(r) ==
  /\ fn[r] \in {"annotating", "returned", "rejected"} => target[r]
  /\ koa[r] \in {"respond", "onerror"} =>
       target[r] \/ req[r] = "aborted" \/ res[r] = "closed"
  /\ res[r] = "written" /\ ~bypassed[r] => target[r]

Sound(r) ==
  /\ NotReceived(r) /\ Raced(r) /\ Targeted(r)
  /\ Recorded(r) /\ OwnSpanTells(r) /\ StreamingEnds(r)

RequestInv == RequestType /\ \A r \in Requests : Sound(r)

RequestIInv == RequestInv /\ gauge = Cardinality(Active)

\* No request was received yet.
LEMMA InitRequestInv == RequestInit => RequestInv
  BY DEF RequestInit, RequestInv, RequestType, Sound, NotReceived, Raced, Targeted,
         Recorded, OwnSpanTells, StreamingEnds, NoSpan, SpanStatuses, Codes

\* A step is of one request: the others are left alone.
Alone(r) ==
  \A x \in Requests \ {r} :
    /\ fn'[x] = fn[x] /\ race'[x] = race[x] /\ koa'[x] = koa[x]
    /\ bypassed'[x] = bypassed[x] /\ body'[x] = body[x] /\ code'[x] = code[x]
    /\ req'[x] = req[x] /\ res'[x] = res[x] /\ finished'[x] = finished[x]
    /\ target'[x] = target[x] /\ counted'[x] = counted[x]
    /\ span'[x] = span[x] /\ streaming'[x] = streaming[x]

\* What the end of the function raced changes.
LEMMA EndsChanges ==
  ASSUME RequestType, NEW r \in Requests, NEW how \in {"returned", "rejected"},
         NEW told \in SpanStatuses, Ends(r, how, told)
  PROVE  /\ fn' = [fn EXCEPT ![r] = how]
         /\ span' = [span EXCEPT ![r] =
              [status |-> IF race[r] = "lost" THEN "error" ELSE told, ended |-> TRUE]]
         /\ race' = [race EXCEPT ![r] = IF @ = "running" THEN "won" ELSE @]
         /\ koa' = [koa EXCEPT ![r] =
              IF race[r] = "running"
              THEN IF how = "returned" THEN "respond" ELSE "onerror" ELSE @]
  BY DEF Ends, RequestType

\* What a response concluded changes: its streaming span, or its own.
LEMMA ConcludeChanges ==
  ASSUME RequestType, NEW r \in Requests, NEW b \in {"data", "stream", "failure"},
         NEW c \in Codes, Conclude(r, b, c)
  PROVE  /\ body' = [body EXCEPT ![r] = b] /\ code' = [code EXCEPT ![r] = c]
         /\ streaming' = [streaming EXCEPT ![r].status =
              IF bypassed[r] \/ b = "stream" THEN "unset" ELSE @]
         /\ Ends(r, "returned",
                 IF bypassed[r] \/ b = "stream" THEN span[r].status
                 ELSE IF c = "low" THEN "ok" ELSE "error")
  BY DEF Conclude, RequestType

\* A handler which is done.
LEMMA HandlerEndsCases ==
  ASSUME NEW r \in Requests, HandlerEnds(r)
  PROVE  /\ fn[r] = "handling" /\ target' = [target EXCEPT ![r] = TRUE]
         /\ UNCHANGED <<bypassed, req, res, finished, gauge, counted>>
         /\ \/ /\ race[r] = "lost" /\ Ends(r, "returned", span[r].status)
               /\ UNCHANGED <<body, code, streaming>>
            \/ /\ race[r] # "lost" /\ fn' = [fn EXCEPT ![r] = "annotating"]
               /\ UNCHANGED <<race, koa, body, code, span, streaming>>
            \/ /\ race[r] # "lost"
               /\ \E b \in {"data", "stream", "failure"}, c \in Codes : Conclude(r, b, c)
<1>1. ASSUME NEW b \in {"data", "stream"}, NEW c \in Codes, HandlerReturns(r, b, c)
      PROVE  /\ race[r] = "lost" =>
                  Ends(r, "returned", span[r].status) /\ UNCHANGED <<body, code, streaming>>
             /\ race[r] # "lost" => Conclude(r, b, c)
  BY <1>1 DEF HandlerReturns
<1>2. ASSUME NEW error \in {"standard", "other"}, NEW c \in Codes, HandlerThrows(r, error, c)
      PROVE  \/ /\ race[r] = "lost" /\ Ends(r, "returned", span[r].status)
                /\ UNCHANGED <<body, code, streaming>>
             \/ /\ race[r] # "lost" /\ fn' = [fn EXCEPT ![r] = "annotating"]
                /\ UNCHANGED <<race, koa, body, code, span, streaming>>
             \/ race[r] # "lost" /\ Conclude(r, "failure", c)
  BY <1>2 DEF HandlerThrows, spanVars
<1>3. /\ fn[r] = "handling" /\ target' = [target EXCEPT ![r] = TRUE]
      /\ UNCHANGED <<bypassed, req, res, finished, gauge, counted>>
  BY DEF HandlerEnds, HandlerReturns, HandlerThrows, InferTarget, metricVars
<1> QED
  BY <1>1, <1>2, <1>3 DEF HandlerEnds

\* A step of one request leaves the others alone.
LEMMA StepIsAlone ==
  ASSUME RequestType, NEW r \in Requests, RequestStep(r)
  PROVE  Alone(r)
<1> USE DEF RequestType
<1>1. CASE Receive(r)
  BY <1>1 DEF Receive, Alone
<1>2. CASE Bypass(r)
  BY <1>2 DEF Bypass, Alone, metricVars, spanVars
<1>3. ASSUME NEW how \in {"returned", "rejected"}, NEW told \in SpanStatuses,
             Ends(r, how, told)
      PROVE  \A x \in Requests \ {r} :
               /\ fn'[x] = fn[x] /\ race'[x] = race[x] /\ koa'[x] = koa[x]
               /\ span'[x] = span[x]
  BY <1>3, EndsChanges
<1>4. ASSUME NEW b \in {"data", "stream", "failure"}, NEW c \in Codes,
             Conclude(r, b, c), UNCHANGED <<bypassed, req, res, finished, counted>>,
             \A x \in Requests \ {r} : target'[x] = target[x]
      PROVE  Alone(r)
  <2>1. CASE bypassed[r] \/ b = "stream"
    <3>1. span[r].status \in SpanStatuses
      OBVIOUS
    <3>2. Ends(r, "returned", span[r].status)
      BY <1>4, <2>1 DEF Conclude
    <3> QED
      BY <1>3, <1>4, <3>1, <3>2, ConcludeChanges DEF Alone
  <2>2. CASE ~(bypassed[r] \/ b = "stream") /\ c = "low"
    <3>1. Ends(r, "returned", "ok")
      BY <1>4, <2>2 DEF Conclude
    <3> QED
      BY <1>3, <1>4, <3>1, ConcludeChanges DEF Alone, SpanStatuses
  <2>3. CASE ~(bypassed[r] \/ b = "stream") /\ c = "high"
    <3>1. Ends(r, "returned", "error")
      BY <1>4, <2>3 DEF Conclude
    <3> QED
      BY <1>3, <1>4, <3>1, ConcludeChanges DEF Alone, SpanStatuses
  <2> QED
    BY <2>1, <2>2, <2>3 DEF Codes
<1>5. CASE HandlerEnds(r)
  <2>0. /\ target' = [target EXCEPT ![r] = TRUE]
        /\ UNCHANGED <<bypassed, req, res, finished, counted>>
    BY <1>5, HandlerEndsCases
  <2>1. CASE race[r] = "lost" /\ Ends(r, "returned", span[r].status)
             /\ UNCHANGED <<body, code, streaming>>
    <3>1. span[r].status \in SpanStatuses
      OBVIOUS
    <3> QED
      BY <1>3, <2>0, <2>1, <3>1 DEF Alone
  <2>2. CASE /\ fn' = [fn EXCEPT ![r] = "annotating"]
             /\ UNCHANGED <<race, koa, body, code, span, streaming>>
    BY <2>0, <2>2 DEF Alone
  <2>3. CASE \E b \in {"data", "stream", "failure"}, c \in Codes : Conclude(r, b, c)
    BY <1>4, <2>0, <2>3
  <2> QED
    BY <1>5, <2>1, <2>2, <2>3, HandlerEndsCases
<1>6. CASE AnnotatorFails(r)
  BY <1>3, <1>6 DEF AnnotatorFails, Alone, metricVars
<1>7. ASSUME NEW c \in Codes, Annotated(r, c)
      PROVE  Alone(r)
  BY <1>4, <1>7 DEF Annotated, metricVars
<1>8. CASE Respond(r)
  BY <1>8 DEF Respond, Alone, handlerVars, metricVars, spanVars
<1>9. CASE HandlerWrites(r)
  BY <1>9 DEF HandlerWrites, Alone, handlerVars, metricVars, spanVars
<1>10. ASSUME NEW end \in {"complete", "aborted"}, ReqCloses(r, end)
       PROVE  Alone(r)
  BY <1>10 DEF ReqCloses, Abort, Alone, metricVars, spanVars
<1>11. ASSUME NEW ok \in BOOLEAN, ResCloses(r, ok)
       PROVE  Alone(r)
  BY <1>11 DEF ResCloses, CountOut, Abort, Alone
<1> QED
  BY <1>1, <1>2, <1>5, <1>6, <1>7, <1>8, <1>9, <1>10, <1>11 DEF RequestStep

\* A request which is left alone stays sound.
LEMMA AloneIsSound ==
  ASSUME NEW r \in Requests, Alone(r), NEW x \in Requests \ {r}, Sound(x)
  PROVE  Sound(x)'
  BY DEF Alone, Sound, NotReceived, Raced, Targeted, Recorded, OwnSpanTells, StreamingEnds

\* What the function raced leaves of its request when it ends.
LEMMA EndsAt ==
  ASSUME RequestType, NEW r \in Requests, NEW how \in {"returned", "rejected"},
         NEW told \in SpanStatuses, Ends(r, how, told)
  PROVE  /\ fn'[r] = how /\ span'[r].ended
         /\ span'[r].status = IF race[r] = "lost" THEN "error" ELSE told
         /\ race[r] = "running" => race'[r] = "won" /\ koa'[r] \in {"respond", "onerror"}
         /\ race[r] # "running" => race'[r] = race[r] /\ koa'[r] = koa[r]
  BY EndsChanges DEF RequestType

\* A race which is not lost concludes with its response, an annotated error with
\* a failure.
LEMMA ConcludeIsSound ==
  ASSUME RequestType, NEW r \in Requests, Sound(r),
         NEW b \in {"data", "stream", "failure"}, NEW c \in Codes, Conclude(r, b, c),
         \/ fn[r] = "handling" /\ race[r] # "lost"
         \/ fn[r] = "annotating" /\ b # "stream",
         target'[r] = TRUE,
         UNCHANGED <<bypassed, req, res, finished, counted>>
  PROVE  Sound(r)'
<1> DEFINE streams == bypassed[r] \/ b = "stream"
           told == IF streams THEN span[r].status ELSE IF c = "low" THEN "ok" ELSE "error"
<1>1. Ends(r, "returned", told) /\ told \in SpanStatuses
  BY ConcludeChanges DEF RequestType, SpanStatuses
<1>2. /\ code'[r] = c /\ streaming'[r].ended = streaming[r].ended
      /\ streaming'[r].status = IF streams THEN "unset" ELSE streaming[r].status
  BY ConcludeChanges DEF RequestType
<1>3. /\ fn'[r] = "returned" /\ span'[r].ended
      /\ span'[r].status = IF race[r] = "lost" THEN "error" ELSE told
      /\ race[r] = "running" => race'[r] = "won" /\ koa'[r] \in {"respond", "onerror"}
      /\ race[r] # "running" => race'[r] = race[r] /\ koa'[r] = koa[r]
  BY <1>1, EndsAt
<1>4. /\ race[r] \in {"running", "lost"} /\ streaming[r].status = "none"
      /\ span[r].status = "unset"
      /\ res[r] = "written" /\ ~bypassed[r] => target[r]
  BY DEF Sound, Raced, Targeted
<1>5. NotReceived(r)' /\ Raced(r)' /\ Targeted(r)' /\ Recorded(r)'
  BY <1>3, <1>4 DEF Sound, NotReceived, Raced, Targeted, Recorded
<1>6. OwnSpanTells(r)'
  BY <1>2, <1>3, <1>4 DEF OwnSpanTells, Codes
<1>7. StreamingEnds(r)'
  BY <1>2, <1>4 DEF Sound, Raced, StreamingEnds
<1> QED
  BY <1>5, <1>6, <1>7 DEF Sound

\* A step leaves its own request sound.
LEMMA StepIsSound ==
  ASSUME RequestType, NEW r \in Requests, Sound(r), RequestStep(r)
  PROVE  Sound(r)'
<1> USE DEF RequestType
<1>1. CASE Receive(r)
  BY <1>1 DEF Receive, Sound, NotReceived, Raced, Targeted, Recorded, OwnSpanTells, StreamingEnds
<1>2. CASE Bypass(r)
  <2>1. /\ fn[r] = "handling" /\ bypassed'[r] = TRUE
        /\ UNCHANGED <<fn, race, koa, code, target, req, res, finished, counted,
                       span, streaming>>
    BY <1>2 DEF Bypass, metricVars, spanVars
  <2> QED
    BY <2>1 DEF Sound, NotReceived, Raced, Targeted, Recorded, OwnSpanTells,
                StreamingEnds
<1>3. CASE HandlerEnds(r)
  <2>0. /\ fn[r] = "handling" /\ target'[r] = TRUE
        /\ UNCHANGED <<bypassed, req, res, finished, counted>>
    BY <1>3, HandlerEndsCases
  <2>1. CASE race[r] = "lost" /\ Ends(r, "returned", span[r].status)
             /\ UNCHANGED <<body, code, streaming>>
    <3>1. span[r].status \in SpanStatuses
      OBVIOUS
    <3>2. /\ fn'[r] = "returned" /\ span'[r].ended /\ span'[r].status = "error"
          /\ race'[r] = "lost" /\ koa'[r] = koa[r]
      BY <2>1, <3>1, EndsAt
    <3> QED
      BY <2>0, <2>1, <3>2
         DEF Sound, NotReceived, Raced, Targeted, Recorded, OwnSpanTells, StreamingEnds
  <2>2. CASE /\ fn' = [fn EXCEPT ![r] = "annotating"] /\ race[r] # "lost"
             /\ UNCHANGED <<race, koa, body, code, span, streaming>>
    BY <2>0, <2>2 DEF Sound, NotReceived, Raced, Targeted, Recorded, OwnSpanTells, StreamingEnds
  <2>3. CASE /\ race[r] # "lost"
             /\ \E b \in {"data", "stream", "failure"}, c \in Codes : Conclude(r, b, c)
    BY <2>0, <2>3, ConcludeIsSound
  <2> QED
    BY <1>3, <2>1, <2>2, <2>3, HandlerEndsCases
<1>4. CASE AnnotatorFails(r)
  <2>1. span[r].status \in SpanStatuses
    OBVIOUS
  <2>2. fn[r] = "annotating" /\ Ends(r, "rejected", span[r].status)
    BY <1>4 DEF AnnotatorFails
  <2>3. /\ fn'[r] = "rejected" /\ span'[r].ended
        /\ span'[r].status = IF race[r] = "lost" THEN "error" ELSE span[r].status
        /\ race[r] = "running" => race'[r] = "won" /\ koa'[r] \in {"respond", "onerror"}
        /\ race[r] # "running" => race'[r] = race[r] /\ koa'[r] = koa[r]
    BY <2>1, <2>2, EndsAt
  <2> QED
    BY <1>4, <2>2, <2>3
       DEF AnnotatorFails, metricVars, Sound, NotReceived, Raced, Targeted, Recorded,
           OwnSpanTells, StreamingEnds
<1>5. ASSUME NEW c \in Codes, Annotated(r, c)
      PROVE  Sound(r)'
  <2>1. target[r]
    BY <1>5 DEF Annotated, Sound, Targeted
  <2> QED
    BY <1>5, <2>1, ConcludeIsSound DEF Annotated, metricVars
<1>6. CASE Respond(r)
  BY <1>6
     DEF Respond, handlerVars, metricVars, spanVars, Sound, NotReceived, Raced, Targeted,
         Recorded, OwnSpanTells, StreamingEnds
<1>7. CASE HandlerWrites(r)
  BY <1>7
     DEF HandlerWrites, handlerVars, metricVars, spanVars, Sound, NotReceived, Raced, Targeted,
         Recorded, OwnSpanTells, StreamingEnds
<1>8. ASSUME NEW end \in {"complete", "aborted"}, ReqCloses(r, end)
      PROVE  Sound(r)'
  BY <1>8
     DEF ReqCloses, Abort, metricVars, spanVars, Sound, NotReceived, Raced, Targeted, Recorded,
         OwnSpanTells, StreamingEnds
<1>9. ASSUME NEW ok \in BOOLEAN, ResCloses(r, ok)
      PROVE  Sound(r)'
  <2>1. /\ fn[r] # "none" /\ res[r] # "closed" /\ (ok => res[r] = "written")
        /\ res'[r] = "closed" /\ finished'[r] = ok
        /\ UNCHANGED <<fn, bypassed, code, target, req, span>>
    BY <1>9 DEF ResCloses, Written
  <2>2. /\ ok => UNCHANGED <<race, koa>>
        /\ ~ok => IF race[r] = "running"
                   THEN race'[r] = "lost" /\ koa'[r] = "onerror"
                   ELSE race'[r] = race[r] /\ koa'[r] = koa[r]
    BY <1>9 DEF ResCloses, Abort
  <2>3. counted[r] = <<>>
    BY <2>1 DEF Sound, Recorded
  <2>4. counted'[r] = <<[as |-> IF ok THEN "duration" ELSE "aborted",
                         target |-> target[r]]>>
    BY <1>9, <2>3 DEF ResCloses, CountOut
  <2>5. /\ streaming[r].status = "none" <=> streaming'[r].status = "none"
        /\ streaming[r].status # "none" =>
             streaming'[r].ended /\ (streaming'[r].status = "ok" => ok)
    BY <1>9 DEF ResCloses
  <2>6. NotReceived(r)' /\ Raced(r)' /\ Targeted(r)'
    BY <2>1, <2>2, <2>5 DEF Sound, NotReceived, Raced, Targeted
  <2>7. Recorded(r)'
    BY <2>1, <2>4 DEF Sound, Targeted, Recorded
  <2>8. OwnSpanTells(r)' /\ StreamingEnds(r)'
    BY <2>1, <2>2, <2>5 DEF Sound, Raced, OwnSpanTells, StreamingEnds
  <2> QED
    BY <2>6, <2>7, <2>8 DEF Sound
<1> QED
  BY <1>1, <1>2, <1>3, <1>4, <1>5, <1>6, <1>7, <1>8, <1>9 DEF RequestStep

-----------------------------------------------------------------------------
(* The gauge. *)

\* A step receives a request, closes a response, or leaves both as they are.
LEMMA ActiveChanges ==
  ASSUME RequestInv, NEW r \in Requests, RequestStep(r)
  PROVE  \/ /\ r \notin Active /\ Active' = Active \cup {r} /\ gauge' = gauge + 1
         \/ /\ r \in Active /\ Active' = Active \ {r} /\ gauge' = gauge - 1
         \/ Active' = Active /\ gauge' = gauge
<1> USE DEF RequestInv, RequestType
<1>0. Alone(r)
  BY StepIsAlone
<1>1. CASE Receive(r)
  <2>1. fn[r] = "none" /\ res[r] = "open" /\ fn'[r] = "handling" /\ res' = res
        /\ gauge' = gauge + 1
    BY <1>1 DEF Receive, Sound, NotReceived
  <2> QED
    BY <1>0, <2>1 DEF Active, Alone
<1>2. ASSUME NEW ok \in BOOLEAN, ResCloses(r, ok)
      PROVE  r \in Active /\ Active' = Active \ {r} /\ gauge' = gauge - 1
  BY <1>2 DEF ResCloses, CountOut, Active
<1>3. ASSUME fn[r] # "none", fn'[r] # "none", gauge' = gauge,
             res'[r] = "closed" <=> res[r] = "closed"
      PROVE  Active' = Active /\ gauge' = gauge
  BY <1>0, <1>3 DEF Active, Alone
<1>4. fn[r] = "none" => koa[r] = "waiting" /\ ~bypassed[r]
  BY DEF Sound, NotReceived
<1>5. CASE Bypass(r)
  BY <1>3, <1>5 DEF Bypass, metricVars
<1>6. CASE HandlerEnds(r)
  <2>1. fn[r] = "handling" /\ res' = res /\ gauge' = gauge
    BY <1>6, HandlerEndsCases
  <2>2. ASSUME NEW b \in {"data", "stream", "failure"}, NEW c \in Codes,
               Conclude(r, b, c)
        PROVE  fn'[r] = "returned"
    BY <2>2 DEF Conclude, Ends
  <2>3. Ends(r, "returned", span[r].status) => fn'[r] = "returned"
    BY DEF Ends
  <2>4. fn' = [fn EXCEPT ![r] = "annotating"] => fn'[r] = "annotating"
    OBVIOUS
  <2>5. \/ Ends(r, "returned", span[r].status)
        \/ fn' = [fn EXCEPT ![r] = "annotating"]
        \/ \E b \in {"data", "stream", "failure"}, c \in Codes : Conclude(r, b, c)
    BY <1>6, HandlerEndsCases
  <2>6. fn'[r] # "none"
    BY <2>2, <2>3, <2>4, <2>5
  <2> QED
    BY <1>3, <2>1, <2>6
<1>7. CASE AnnotatorFails(r)
  BY <1>3, <1>7 DEF AnnotatorFails, Ends, metricVars
<1>8. ASSUME NEW c \in Codes, Annotated(r, c)
      PROVE  Active' = Active /\ gauge' = gauge
  <2>1. fn'[r] # "none"
    BY <1>8, ConcludeChanges DEF Annotated, Ends
  <2> QED
    BY <1>3, <1>8, <2>1 DEF Annotated, metricVars
<1>9. CASE Respond(r)
  BY <1>3, <1>4, <1>9 DEF Respond, handlerVars, metricVars
<1>10. CASE HandlerWrites(r)
  BY <1>3, <1>4, <1>10 DEF HandlerWrites, handlerVars, metricVars
<1>11. ASSUME NEW end \in {"complete", "aborted"}, ReqCloses(r, end)
       PROVE  Active' = Active /\ gauge' = gauge
  BY <1>3, <1>11 DEF ReqCloses, metricVars
<1> QED
  BY <1>1, <1>2, <1>5, <1>6, <1>7, <1>8, <1>9, <1>10, <1>11 DEF RequestStep

\* The gauge follows the requests which are received and closed.
LEMMA GaugeCounts ==
  ASSUME RequestIInv, NEW r \in Requests, RequestStep(r)
  PROVE  gauge' = Cardinality(Active')
<1>1. IsFiniteSet(Active)
  BY RequestsAssumption, FS_Subset DEF Active
<1>2. Cardinality(Active) \in Nat /\ gauge = Cardinality(Active)
  BY <1>1, FS_CardinalityType DEF RequestIInv
<1>3. CASE r \notin Active /\ Active' = Active \cup {r} /\ gauge' = gauge + 1
  BY <1>1, <1>2, <1>3, FS_AddElement
<1>4. CASE r \in Active /\ Active' = Active \ {r} /\ gauge' = gauge - 1
  BY <1>1, <1>2, <1>4, FS_RemoveElement
<1>5. CASE Active' = Active /\ gauge' = gauge
  BY <1>2, <1>5
<1> QED
  BY <1>3, <1>4, <1>5, ActiveChanges DEF RequestIInv

-----------------------------------------------------------------------------
\* A span whose status is set is a span.
LEMMA StatusIsTyped ==
  ASSUME NEW f \in [Requests -> [status : SpanStatuses, ended : BOOLEAN]],
         NEW r \in Requests, NEW s \in SpanStatuses
  PROVE  [f EXCEPT ![r].status = s] \in [Requests -> [status : SpanStatuses, ended : BOOLEAN]]
  OBVIOUS

\* A span which ends is a span.
LEMMA EndsIsTyped ==
  ASSUME RequestType, NEW r \in Requests, NEW how \in {"returned", "rejected"},
         NEW told \in SpanStatuses, Ends(r, how, told)
  PROVE  /\ fn' \in [Requests -> {"none", "handling", "annotating", "returned", "rejected"}]
         /\ race' \in [Requests -> {"none", "running", "won", "lost"}]
         /\ koa' \in [Requests -> {"waiting", "respond", "onerror", "done"}]
         /\ span' \in [Requests -> [status : SpanStatuses, ended : BOOLEAN]]
<1>1. fn' = [fn EXCEPT ![r] = how]
  BY EndsChanges
<1>2. race' = [race EXCEPT ![r] = IF @ = "running" THEN "won" ELSE @]
  BY EndsChanges
<1>3. \E k \in {"respond", "onerror", koa[r]} : koa' = [koa EXCEPT ![r] = k]
  BY EndsChanges
<1>4. \E s \in SpanStatuses : span' = [span EXCEPT ![r] = [status |-> s, ended |-> TRUE]]
  BY EndsChanges DEF SpanStatuses
<1>5. fn' \in [Requests -> {"none", "handling", "annotating", "returned", "rejected"}]
  BY <1>1 DEF RequestType
<1>6. race' \in [Requests -> {"none", "running", "won", "lost"}]
  BY <1>2 DEF RequestType
<1>7. koa' \in [Requests -> {"waiting", "respond", "onerror", "done"}]
  BY <1>3, ZenonT(60) DEF RequestType
<1>8. span' \in [Requests -> [status : SpanStatuses, ended : BOOLEAN]]
  BY <1>4 DEF RequestType
<1> QED
  BY <1>5, <1>6, <1>7, <1>8

\* A response which is concluded is well formed.
LEMMA ConcludeIsTyped ==
  ASSUME RequestType, NEW r \in Requests,
         NEW b \in {"data", "stream", "failure"}, NEW c \in Codes, Conclude(r, b, c)
  PROVE  /\ fn' \in [Requests -> {"none", "handling", "annotating", "returned", "rejected"}]
         /\ race' \in [Requests -> {"none", "running", "won", "lost"}]
         /\ koa' \in [Requests -> {"waiting", "respond", "onerror", "done"}]
         /\ body' \in [Requests -> {"none", "data", "stream", "failure"}]
         /\ code' \in [Requests -> Codes]
         /\ span' \in [Requests -> [status : SpanStatuses, ended : BOOLEAN]]
         /\ streaming' \in [Requests -> [status : SpanStatuses, ended : BOOLEAN]]
<1> DEFINE streams == bypassed[r] \/ b = "stream"
           told == IF streams THEN span[r].status ELSE IF c = "low" THEN "ok" ELSE "error"
<1>1. /\ body' \in [Requests -> {"none", "data", "stream", "failure"}]
      /\ code' \in [Requests -> Codes]
  <2>1. body' = [body EXCEPT ![r] = b] /\ code' = [code EXCEPT ![r] = c]
    BY ConcludeChanges
  <2> QED
    BY <2>1 DEF RequestType
<1>2. streaming' \in [Requests -> [status : SpanStatuses, ended : BOOLEAN]]
  <2>1. (IF streams THEN "unset" ELSE streaming[r].status) \in SpanStatuses
    BY DEF RequestType, SpanStatuses
  <2>2. streaming' = [streaming EXCEPT ![r].status =
                        IF streams THEN "unset" ELSE streaming[r].status]
    BY ConcludeChanges
  <2> QED
    BY <2>1, <2>2, StatusIsTyped DEF RequestType
<1>3. Ends(r, "returned", told) /\ told \in SpanStatuses
  BY ConcludeChanges DEF RequestType, SpanStatuses
<1> QED
  BY <1>1, <1>2, <1>3, EndsIsTyped

\* Whatever the step, requests stay well formed.
LEMMA StepIsTyped ==
  ASSUME RequestInv, NEW r \in Requests, RequestStep(r), gauge' \in Nat
  PROVE  RequestType'
<1> USE DEF RequestInv, RequestType
<1>1. CASE Receive(r)
  <2>1. span' \in [Requests -> [status : SpanStatuses, ended : BOOLEAN]]
    BY <1>1, StatusIsTyped DEF Receive, SpanStatuses
  <2> QED
    BY <1>1, <2>1 DEF Receive
<1>2. CASE Bypass(r)
  BY <1>2 DEF Bypass, metricVars, spanVars
<1>3. CASE HandlerEnds(r)
  <2>0. /\ target' = [target EXCEPT ![r] = TRUE]
        /\ UNCHANGED <<bypassed, req, res, finished, gauge, counted>>
    BY <1>3, HandlerEndsCases
  <2>1. CASE race[r] = "lost" /\ Ends(r, "returned", span[r].status)
             /\ UNCHANGED <<body, code, streaming>>
    BY <2>0, <2>1, EndsIsTyped
  <2>2. CASE /\ fn' = [fn EXCEPT ![r] = "annotating"]
             /\ UNCHANGED <<race, koa, body, code, span, streaming>>
    BY <2>0, <2>2
  <2>3. CASE \E b \in {"data", "stream", "failure"}, c \in Codes : Conclude(r, b, c)
    BY <2>0, <2>3, ConcludeIsTyped
  <2> QED
    BY <1>3, <2>1, <2>2, <2>3, HandlerEndsCases
<1>4. CASE AnnotatorFails(r)
  BY <1>4, EndsIsTyped DEF AnnotatorFails, metricVars
<1>5. ASSUME NEW c \in Codes, Annotated(r, c)
      PROVE  RequestType'
  BY <1>5, ConcludeIsTyped DEF Annotated, metricVars
<1>6. CASE Respond(r)
  BY <1>6 DEF Respond, handlerVars, metricVars, spanVars
<1>7. CASE HandlerWrites(r)
  BY <1>7 DEF HandlerWrites, handlerVars, metricVars, spanVars
<1>8. ASSUME NEW end \in {"complete", "aborted"}, ReqCloses(r, end)
      PROVE  RequestType'
  BY <1>8, ZenonT(60) DEF ReqCloses, Abort, metricVars, spanVars
<1>9. ASSUME NEW ok \in BOOLEAN, ResCloses(r, ok)
      PROVE  RequestType'
  <2>1. counted' \in [Requests -> Seq([as : {"duration", "aborted"}, target : BOOLEAN])]
    BY <1>9 DEF ResCloses, CountOut
  <2>2. streaming' \in [Requests -> [status : SpanStatuses, ended : BOOLEAN]]
    BY <1>9 DEF ResCloses, SpanStatuses
  <2>3. race' \in [Requests -> {"none", "running", "won", "lost"}]
    <3>1. CASE race' = race
      BY <3>1
    <3>2. CASE race' = [race EXCEPT ![r] = "lost"]
      BY <3>2
    <3> QED
      BY <1>9, <3>1, <3>2 DEF ResCloses, Abort
  <2>4. koa' \in [Requests -> {"waiting", "respond", "onerror", "done"}]
    <3>1. CASE koa' = koa
      BY <3>1
    <3>2. CASE koa' = [koa EXCEPT ![r] = "onerror"]
      BY <3>2
    <3> QED
      BY <1>9, <3>1, <3>2 DEF ResCloses, Abort
  <2> QED
    BY <1>9, <2>1, <2>2, <2>3, <2>4 DEF ResCloses
<1> QED
  BY <1>1, <1>2, <1>3, <1>4, <1>5, <1>6, <1>7, <1>8, <1>9 DEF RequestStep

\* The invariant of requests holds.
LEMMA RequestInvariance == RequestSpec => []RequestIInv
<1>1. RequestInit => RequestIInv
  <2>1. RequestInit => Active = {} /\ gauge = 0
    BY DEF RequestInit, Active
  <2> QED
    BY <2>1, InitRequestInv, FS_EmptySet DEF RequestIInv
<1>2. ASSUME RequestIInv, NEW r \in Requests, RequestStep(r)
      PROVE  RequestIInv'
  <2>1. gauge' = Cardinality(Active') /\ IsFiniteSet(Active')
    BY <1>2, GaugeCounts, RequestsAssumption, FS_Subset DEF Active
  <2>2. RequestType'
    BY <1>2, <2>1, StepIsTyped, FS_CardinalityType DEF RequestIInv
  <2>3. \A x \in Requests : Sound(x)'
    BY <1>2, StepIsAlone, AloneIsSound, StepIsSound DEF RequestIInv, RequestInv
  <2> QED
    BY <2>1, <2>2, <2>3 DEF RequestIInv, RequestInv
<1>3. RequestIInv /\ UNCHANGED requestVars => RequestIInv'
  BY DEF RequestIInv, RequestInv, RequestType, Sound, NotReceived, Raced, Targeted, Recorded,
         OwnSpanTells, StreamingEnds, Active, requestVars, handlerVars, metricVars, spanVars
<1>4. RequestIInv /\ [RequestNext]_requestVars => RequestIInv'
  BY <1>2, <1>3 DEF RequestNext
<1> QED
  BY <1>1, <1>4, PTL DEF RequestSpec

\* Requests are well formed.
THEOREM RequestTypeCorrect == RequestSpec => []RequestType
<1>1. RequestIInv => RequestType
  BY DEF RequestIInv, RequestInv
<1> QED
  BY <1>1, RequestInvariance, PTL

\* Any number of requests is counted in and out: activeRequests is exact, and
\* each request recorded once, as what it came to.
THEOREM RequestsAreCountedOnce == RequestSpec => []CountedOnce
<1>1. RequestIInv => CountedOnce
  BY DEF RequestIInv, RequestInv, Sound, CountedOnce
<1> QED
  BY <1>1, RequestInvariance, PTL

\* The spans of a request tell how it was answered.
THEOREM RequestSpansTell == RequestSpec => []SpansTellAnswer
<1>1. RequestIInv => SpansTellAnswer
  BY DEF RequestIInv, RequestInv, Sound, SpansTellAnswer
<1> QED
  BY <1>1, RequestInvariance, PTL

-----------------------------------------------------------------------------
(* Throttles *)

Window == [consumed : Nat, until : Nat]
BurstCall == [points : Costs, until : Nat]

ThrottleType ==
  /\ rate \in Rates /\ seconds \in Nat
  /\ windows \in [{"steady", "burst"} -> Window]
  /\ bursting \in Seq(BurstCall)

\* A limiter which refused refuses until its window is over.
Exhausted(l) == windows[l].consumed > rate[l].points

\* While the burst limiter is to be asked, the steady one refuses.
BurstingInv ==
  bursting # <<>> =>
    /\ Throttles /\ rate.burst # NoBurst
    /\ Exhausted("steady") /\ seconds < windows["steady"].until
    /\ \A i \in 1 .. Len(bursting) : bursting[i].until = windows["steady"].until

\* Until the key is used, an advice is about the windows which refused.
AdviceInv ==
  advice # NoAdvice =>
    /\ Throttles /\ advice.points \in Costs
    /\ advice.by = "ensure" => advice.until = windows["steady"].until
    /\ advice.by # "ensure" =>
         /\ advice.by = "consume" /\ Exhausted("steady")
         /\ rate.burst = NoBurst => advice.until = windows["steady"].until
         /\ rate.burst # NoBurst =>
              /\ Exhausted("burst")
              /\ advice.until = Retry(windows["steady"].until, windows["burst"].until)

ThrottleInv == ThrottleType /\ BurstingInv /\ AdviceInv

\* No window was opened yet.
LEMMA InitThrottleInv == ThrottleInit => ThrottleInv
  BY DEF ThrottleInit, ThrottleInv, ThrottleType, BurstingInv, AdviceInv, Window, Fresh

\* No call is for free.
LEMMA CostsArePositive == \A points \in Costs : points \in Nat /\ points > 0
  BY ThrottleAssumption

\* A rate is of its limiters' points; one without burst has no points for it.
LEMMA RateIsTyped ==
  ASSUME rate \in Rates
  PROVE  /\ \A l \in {"steady", "burst"} :
              rate[l].points \in Nat /\ rate[l].seconds \in Nat
         /\ Throttles => rate.steady.seconds > 0 /\ rate.steady # NoBurst
         /\ rate.burst # NoBurst => rate.burst.seconds > 0
<1>1. ThrottleRate(rate)
  BY ThrottleAssumption
<1>2. PointSource(rate["steady"]) /\ PointSource(rate["burst"])
  BY <1>1 DEF ThrottleRate
<1>3. \A l \in {"steady", "burst"} :
        rate[l].points \in Nat /\ rate[l].seconds \in Nat
  BY <1>2 DEF PointSource
<1>4. Throttles => rate.steady.seconds > 0 /\ rate.steady # NoBurst
  BY <1>2 DEF PointSource, Throttles, NoBurst
<1>5. rate.burst # NoBurst => rate.burst.seconds > 0
  BY <1>2 DEF PointSource, NoBurst
<1> QED
  BY <1>3, <1>4, <1>5

\* Points added to a window which is open stay in it, and a refusal shows.
LEMMA AddedPoints ==
  ASSUME ThrottleType, NEW l \in {"steady", "burst"}, NEW points \in Costs
  PROVE  /\ Add(l, points) \in Window
         /\ Add(l, points).consumed > rate[l].points <=> Refuses(l, points)
         /\ seconds < windows[l].until =>
              /\ Add(l, points).until = windows[l].until
              /\ Add(l, points).consumed > windows[l].consumed
         /\ rate[l].seconds > 0 => seconds < Add(l, points).until
<1>1. points \in Nat /\ points > 0
  BY CostsArePositive
<1>2. rate[l].points \in Nat /\ rate[l].seconds \in Nat
  BY RateIsTyped DEF ThrottleType
<1>3. seconds \in Nat /\ windows[l] \in Window
  BY DEF ThrottleType
<1>4. windows[l].consumed \in Nat /\ windows[l].until \in Nat
  BY <1>3 DEF Window
<1> QED
  BY <1>1, <1>2, <1>3, <1>4 DEF Add, Consumed, Refuses, Window

\* Consuming and penalizing leave a steady window which is open as it is, and
\* exhausted if it was; the burst window likewise.
LEMMA ConsumeInv ==
  ASSUME ThrottleInv, NEW points \in Costs, Consume(points)
  PROVE  ThrottleInv'
<1> DEFINE window == Add("steady", points)
<1> USE DEF ThrottleInv, ThrottleType
<1>0. UNCHANGED <<rate, seconds>> /\ (Throttles' <=> Throttles)
  BY DEF Consume, Throttles
<1>1. CASE ~Throttles
  <2>1. bursting = <<>> /\ advice = NoAdvice
    BY <1>1 DEF BurstingInv, AdviceInv
  <2> QED
    BY <1>0, <1>1, <2>1 DEF Consume, BurstingInv, AdviceInv
<1>2. CASE Throttles
  <2>1. /\ window \in Window
        /\ window.consumed > rate["steady"].points <=> Refuses("steady", points)
        /\ seconds < windows["steady"].until =>
             /\ window.until = windows["steady"].until
             /\ window.consumed > windows["steady"].consumed
        /\ seconds < window.until
    BY <1>2, AddedPoints, RateIsTyped
  <2>2. windows' = [windows EXCEPT !["steady"] = window]
    BY <1>2 DEF Consume
  <2>3. windows' \in [{"steady", "burst"} -> Window] /\ window.until \in Nat
    BY <2>1, <2>2 DEF Window
  <2>4. windows'["steady"] = window /\ windows'["burst"] = windows["burst"]
    BY <2>2
  <2>5. bursting # <<>> =>
          /\ Exhausted("steady")' /\ windows'["steady"].until = windows["steady"].until
    <3>1. rate["steady"].points \in Nat
      BY RateIsTyped
    <3>2. window.consumed \in Nat /\ windows["steady"].consumed \in Nat
      BY <2>1 DEF Window
    <3>3. bursting # <<>> => /\ windows["steady"].consumed > rate["steady"].points
                             /\ seconds < windows["steady"].until
      BY DEF BurstingInv, Exhausted
    <3> QED
      BY <1>0, <2>1, <2>4, <3>1, <3>2, <3>3 DEF Exhausted
  <2>6. CASE UNCHANGED bursting
    <3>1. ThrottleType'
      BY <1>0, <2>3, <2>6
    <3>2. BurstingInv'
      BY <1>0, <2>5, <2>6 DEF BurstingInv
    <3>3. CASE advice' = NoAdvice
      BY <3>1, <3>2, <3>3 DEF AdviceInv
    <3>4. CASE /\ Refuses("steady", points) /\ rate.burst = NoBurst
               /\ Throw("consume", window.until, points)
      BY <1>0, <1>2, <2>1, <2>4, <3>1, <3>2, <3>4 DEF AdviceInv, Throw, Exhausted
    <3> QED
      BY <1>2, <2>6, <3>3, <3>4 DEF Consume
  <2>7. CASE /\ Refuses("steady", points) /\ rate.burst # NoBurst
             /\ bursting' = Append(bursting, [points |-> points, until |-> window.until])
             /\ advice' = NoAdvice
    <3>1. ThrottleType'
      <4>1. [points |-> points, until |-> window.until] \in BurstCall
        BY <2>3 DEF BurstCall
      <4> QED
        BY <1>0, <2>3, <2>7, <4>1
    <3>2. BurstingInv'
      <4>1. bursting \in Seq(BurstCall)
        OBVIOUS
      <4>2. Exhausted("steady")' /\ seconds < windows'["steady"].until
        BY <1>0, <2>1, <2>4, <2>7 DEF Exhausted
      <4>3. \A i \in 1 .. Len(bursting) : bursting[i].until = window.until
        BY <2>4, <2>5, <4>1 DEF BurstingInv
      <4>4. \A i \in 1 .. Len(bursting') : bursting'[i].until = window.until
        BY <2>7, <4>1, <4>3
      <4> QED
        BY <1>0, <1>2, <2>4, <2>7, <4>2, <4>4 DEF BurstingInv
    <3> QED
      BY <2>7, <3>1, <3>2 DEF AdviceInv
  <2> QED
    BY <1>2, <2>6, <2>7 DEF Consume
<1> QED
  BY <1>1, <1>2

\* Nor does the rest of consume.
LEMMA ConsumeBurstInv ==
  ASSUME ThrottleInv, ConsumeBurst
  PROVE  ThrottleInv'
<1> DEFINE call == Head(bursting)
           window == Add("burst", call.points)
<1> USE DEF ThrottleInv, ThrottleType
<1>0. /\ UNCHANGED <<rate, seconds>> /\ (Throttles' <=> Throttles)
      /\ bursting # <<>> /\ bursting' = Tail(bursting)
      /\ windows' = [windows EXCEPT !["burst"] = window]
  BY DEF ConsumeBurst, Throttles
<1>1. /\ Throttles /\ rate.burst # NoBurst /\ rate.burst.seconds > 0
      /\ Exhausted("steady") /\ seconds < windows["steady"].until
      /\ \A i \in 1 .. Len(bursting) : bursting[i].until = windows["steady"].until
  BY <1>0, RateIsTyped DEF BurstingInv
<1>2. call.points \in Costs /\ call.until = windows["steady"].until
  <2>1. bursting \in Seq(BurstCall) /\ bursting # <<>>
    BY <1>0
  <2>2. call = bursting[1] /\ 1 \in 1 .. Len(bursting)
    BY <2>1
  <2>3. bursting[1] \in BurstCall
    BY <2>1, <2>2
  <2> QED
    BY <1>1, <2>2, <2>3 DEF BurstCall
<1>3. /\ window \in Window
      /\ window.consumed > rate["burst"].points <=> Refuses("burst", call.points)
  BY <1>2, AddedPoints
<1>4. windows'["burst"] = window /\ windows'["steady"] = windows["steady"]
  BY <1>0
<1>5. ThrottleType'
  BY <1>0, <1>3
<1>6. Exhausted("steady")'
  BY <1>0, <1>1, <1>4 DEF Exhausted
<1>7. BurstingInv'
  <2>1. \A i \in 1 .. Len(bursting') : bursting'[i].until = windows["steady"].until
    BY <1>0, <1>1
  <2> QED
    BY <1>0, <1>1, <1>4, <1>6, <2>1 DEF BurstingInv
<1>8. AdviceInv'
  <2>1. CASE advice' = NoAdvice
    BY <2>1 DEF AdviceInv
  <2>2. CASE /\ Refuses("burst", call.points)
             /\ Throw("consume", Retry(call.until, window.until), call.points)
    <3>1. Exhausted("burst")'
      BY <1>0, <1>3, <1>4, <2>2 DEF Exhausted
    <3>2. /\ advice'.by = "consume" /\ advice'.points \in Costs
          /\ advice'.until = Retry(windows'["steady"].until, windows'["burst"].until)
      BY <1>2, <1>4, <2>2 DEF Throw
    <3> QED
      BY <1>0, <1>1, <1>6, <3>1, <3>2 DEF AdviceInv
  <2> QED
    BY <2>1, <2>2 DEF ConsumeBurst
<1> QED
  BY <1>5, <1>7, <1>8

\* ensure only reads.
LEMMA EnsureInv ==
  ASSUME ThrottleInv, NEW points \in Costs, Ensure(points)
  PROVE  ThrottleInv'
<1> USE DEF ThrottleInv, ThrottleType
<1>0. UNCHANGED <<rate, seconds, windows, bursting>>
  BY DEF Ensure
<1>1. ThrottleType' /\ BurstingInv'
  BY <1>0 DEF BurstingInv, Throttles, Exhausted
<1>2. AdviceInv'
  <2>1. CASE UNCHANGED advice
    BY <1>0, <2>1 DEF AdviceInv, Throttles, Exhausted
  <2>2. CASE Throttles /\ Throw("ensure", windows["steady"].until, points)
    BY <1>0, <2>2 DEF AdviceInv, Throttles, Throw
  <2> QED
    BY <2>1, <2>2 DEF Ensure
<1> QED
  BY <1>1, <1>2

\* penalize forgets what was advised.
LEMMA PenalizeInv ==
  ASSUME ThrottleInv, NEW points \in Costs, Penalize(points)
  PROVE  ThrottleInv'
<1> DEFINE window == Add("steady", points)
<1> USE DEF ThrottleInv, ThrottleType
<1>0. UNCHANGED <<rate, seconds, bursting>> /\ advice' = NoAdvice
  BY DEF Penalize
<1>1. /\ window \in Window
      /\ seconds < windows["steady"].until =>
           /\ window.until = windows["steady"].until
           /\ window.consumed > windows["steady"].consumed
  BY AddedPoints
<1>2. CASE UNCHANGED windows
  BY <1>0, <1>2 DEF BurstingInv, AdviceInv, Throttles, Exhausted
<1>3. CASE windows' = [windows EXCEPT !["steady"] = window]
  <2>1. ThrottleType'
    BY <1>0, <1>1, <1>3
  <2>2. bursting # <<>> =>
          Exhausted("steady")' /\ windows'["steady"].until = windows["steady"].until
    <3>1. windows'["steady"] = window
      BY <1>3
    <3>2. rate["steady"].points \in Nat
      BY RateIsTyped
    <3> QED
      BY <1>0, <1>1, <3>1, <3>2 DEF BurstingInv, Exhausted, Window
  <2>3. BurstingInv'
    BY <1>0, <2>2 DEF BurstingInv, Throttles
  <2> QED
    BY <1>0, <2>1, <2>3 DEF AdviceInv
<1> QED
  BY <1>2, <1>3 DEF Penalize

\* The invariant of throttles holds.
LEMMA ThrottleInvariance == ThrottleSpec => []ThrottleInv
<1>1. ASSUME ThrottleInv, SecondPasses
      PROVE  ThrottleInv'
  BY <1>1 DEF SecondPasses, ThrottleInv, ThrottleType, BurstingInv, AdviceInv, Throttles,
              Exhausted
<1>2. ThrottleInv /\ UNCHANGED throttleVars => ThrottleInv'
  BY DEF throttleVars, ThrottleInv, ThrottleType, BurstingInv, AdviceInv, Throttles,
         Exhausted
<1>3. ThrottleInv /\ [ThrottleNext]_throttleVars => ThrottleInv'
  BY <1>1, <1>2, ConsumeInv, ConsumeBurstInv, EnsureInv, PenalizeInv DEF ThrottleNext
<1> QED
  BY <1>3, InitThrottleInv, PTL DEF ThrottleSpec

\* For any rates and costs, whoever was refused is told when a window is over:
\* consume refuses it until then, and later as long as no window of a limiter
\* with that many points is over.
THEOREM RetryAfterIsRight == ThrottleSpec => []RetryAfterHolds
<1>1. ThrottleInv => RetryAfterHolds
  <2> DEFINE limiters == {l \in {"steady", "burst"} : rate[l] # NoBurst}
             through == \E l \in limiters : ~Refuses(l, advice.points)
  <2> SUFFICES ASSUME ThrottleInv, advice # NoAdvice
               PROVE  /\ \E l \in limiters : advice.until = windows[l].until
                      /\ advice.by = "consume" /\ seconds < advice.until => ~through
                      /\ advice.until <= seconds /\ ~through =>
                           \A l \in limiters :
                             advice.points <= rate[l].points => seconds < windows[l].until
    BY DEF RetryAfterHolds
  <2>0. /\ Throttles /\ advice.points \in Nat /\ advice.points > 0
        /\ rate.steady # NoBurst
    <3>1. Throttles /\ advice.points \in Costs /\ rate \in Rates
      BY DEF ThrottleInv, ThrottleType, AdviceInv
    <3>2. advice.points \in Nat /\ advice.points > 0
      BY <3>1, CostsArePositive
    <3>3. rate.steady # NoBurst
      BY <3>1, RateIsTyped
    <3> QED
      BY <3>1, <3>2, <3>3
  <2>1. \A l \in {"steady", "burst"} :
          /\ rate[l].points \in Nat
          /\ windows[l].until \in Nat /\ windows[l].consumed \in Nat
    BY RateIsTyped DEF ThrottleInv, ThrottleType, Window
  <2>2. seconds \in Nat
    BY DEF ThrottleInv, ThrottleType
  <2>3. ASSUME NEW l \in limiters, windows[l].until <= seconds,
               advice.points <= rate[l].points
        PROVE  ~Refuses(l, advice.points)
    BY <2>0, <2>1, <2>2, <2>3 DEF Refuses, Consumed
  <2>4. ASSUME NEW l \in limiters, Exhausted(l), windows[l].until > seconds
        PROVE  Refuses(l, advice.points)
    BY <2>0, <2>1, <2>2, <2>4 DEF Refuses, Consumed, Exhausted
  <2>5. "steady" \in limiters /\ ("burst" \in limiters <=> rate.burst # NoBurst)
    BY <2>0
  <2>6. \E l \in limiters : advice.until = windows[l].until
    BY <2>5 DEF ThrottleInv, AdviceInv, Retry
  <2>7. ASSUME advice.by = "consume", seconds < advice.until
        PROVE  ~through
    <3>1. \A l \in limiters : Exhausted(l) /\ windows[l].until >= advice.until
      <4>1. CASE rate.burst = NoBurst
        BY <2>1, <2>5, <2>7, <4>1 DEF ThrottleInv, AdviceInv
      <4>2. CASE rate.burst # NoBurst
        BY <2>1, <2>5, <2>7, <4>2 DEF ThrottleInv, AdviceInv, Retry
      <4> QED
        BY <4>1, <4>2
    <3>2. advice.until \in Nat
      BY <2>1, <2>6
    <3>3. ASSUME NEW l \in limiters
          PROVE  Refuses(l, advice.points)
      <4>1. windows[l].until > seconds
        BY <2>1, <2>2, <2>7, <3>1, <3>2
      <4> QED
        BY <2>4, <3>1, <4>1
    <3> QED
      BY <3>3
  <2>8. ASSUME ~through, NEW l \in limiters, advice.points <= rate[l].points
        PROVE  seconds < windows[l].until
    <3>1. Refuses(l, advice.points)
      BY <2>8
    <3> QED
      BY <2>1, <2>2, <2>3, <2>8, <3>1
  <2> QED
    BY <2>6, <2>7, <2>8
<1> QED
  BY <1>1, ThrottleInvariance, PTL

-----------------------------------------------------------------------------
(* The rate *)

Limiters == {"steady", "burst"}
Allowance == [by : {"none"} \cup Limiters, points : Costs, at : Nat]
Lesser(a, b) == IF a < b THEN a ELSE b

\* What was spent since `at` is within the points of the current window, and of
\* some whole windows which that time met before it.
Kept(spent, at, window, r) ==
  \/ spent = 0
  \/ \E m \in Nat : /\ m * r.seconds + at < window.until
                    /\ spent <= Lesser(window.consumed, r.points) + m * r.points

\* Since each call allowed, a limiter kept its windows.
KeptBy(l) ==
  \A i \in 1 .. Len(allowed) :
    IF rate[l].seconds = 0 THEN Spent(l, Len(allowed)) - Spent(l, i - 1) = 0
    ELSE Kept(Spent(l, Len(allowed)) - Spent(l, i - 1), allowed[i].at, windows[l], rate[l])

\* No window is over later than one which starts now; nothing was allowed later
\* than now.
ClockInv ==
  /\ \A l \in Limiters : windows[l].until <= seconds + rate[l].seconds
  /\ \A i \in 1 .. Len(allowed) : allowed[i].at <= seconds

RateInv ==
  /\ allowed \in Seq(Allowance) /\ ClockInv
  /\ Throttles => \A l \in Limiters : KeptBy(l)
  /\ RateBounded

\* Multiples of what they are of.
LEMMA Multiples ==
  ASSUME NEW m \in Nat, NEW s \in Nat
  PROVE  m * s \in Nat /\ (m + 1) * s = m * s + s
  OBVIOUS

\* Two bounds on multiples.
LEMMA MultipleIsBounded ==
  ASSUME NEW m \in Nat, NEW s \in Nat, s > 0, NEW x \in Nat, m * s <= x + s
  PROVE  x \div s \in Nat /\ m <= 1 + x \div s
<1> DEFINE q == x \div s
           r == x % s
<1>1. q \in Nat /\ r \in Nat /\ r < s /\ x = q * s + r
  OBVIOUS
<1> HIDE DEF q, r
<1>2. m * s < (q + 2) * s
  <2>1. (q + 2) * s = q * s + s + s
    BY <1>1
  <2> QED
    BY <1>1, <2>1
<1>3. m < q + 2
  BY <1>1, <1>2
<1> QED
  BY <1>1, <1>3 DEF q

LEMMA MultiplesGrow ==
  ASSUME NEW m \in Nat, NEW k \in Nat, m <= k, NEW p \in Nat
  PROVE  m * p <= k * p
  OBVIOUS

\* Points added to a window keep what was spent within it, and those added too
\* if the window then has no more than it may.
LEMMA AddingKeeps ==
  ASSUME NEW r \in [points : Nat, seconds : Nat], r.seconds > 0,
         NEW window \in Window, NEW now \in Nat, NEW at \in Nat, at <= now,
         NEW p \in Nat, NEW spent \in Int, Kept(spent, at, window, r),
         NEW next,
         next = IF now < window.until
                THEN [consumed |-> window.consumed + p, until |-> window.until]
                ELSE [consumed |-> 0 + p, until |-> now + r.seconds]
  PROVE  /\ Kept(spent, at, next, r)
         /\ next.consumed <= r.points => Kept(spent + p, at, next, r)
<1> DEFINE s == r.seconds
           pts == r.points
<1>0. /\ s \in Nat /\ s > 0 /\ pts \in Nat
      /\ window.consumed \in Nat /\ window.until \in Nat
      /\ next.consumed \in Nat /\ next.until \in Nat
  BY DEF Window
<1> HIDE DEF s, pts
<1>1. CASE now < window.until
  <2>1. next.consumed = window.consumed + p /\ next.until = window.until
    BY <1>1
  <2>2. CASE spent = 0
    <3>1. Kept(spent, at, next, r)
      BY <2>2 DEF Kept
    <3>2. ASSUME next.consumed <= r.points
          PROVE  Kept(spent + p, at, next, r)
      <4>1. 0 * s + at < next.until /\ 0 \in Nat
        BY <1>0, <1>1, <2>1
      <4>2. spent + p <= Lesser(next.consumed, pts) + 0 * pts
        BY <1>0, <2>1, <2>2, <3>2 DEF Lesser, pts
      <4> QED
        BY <4>1, <4>2 DEF Kept, s, pts
    <3> QED
      BY <3>1, <3>2
  <2>3. ASSUME NEW m \in Nat, m * s + at < window.until,
               spent <= Lesser(window.consumed, pts) + m * pts
        PROVE  /\ Kept(spent, at, next, r)
               /\ next.consumed <= r.points => Kept(spent + p, at, next, r)
    <3>1. m * s \in Nat /\ m * pts \in Nat
      BY <1>0, Multiples
    <3>2. m * s + at < next.until
      BY <2>1, <2>3
    <3>3. spent <= Lesser(next.consumed, pts) + m * pts
      BY <1>0, <2>1, <2>3, <3>1 DEF Lesser
    <3>4. next.consumed <= pts => spent + p <= Lesser(next.consumed, pts) + m * pts
      BY <1>0, <2>1, <2>3, <3>1 DEF Lesser
    <3> QED
      BY <3>2, <3>3, <3>4 DEF Kept, s, pts
  <2> QED
    BY <2>2, <2>3 DEF Kept, s, pts
<1>2. CASE ~ (now < window.until)
  <2>1. next.consumed = p /\ next.until = now + s
    BY <1>2 DEF s
  <2>2. CASE spent = 0
    <3>1. Kept(spent, at, next, r)
      BY <2>2 DEF Kept
    <3>2. ASSUME next.consumed <= r.points
          PROVE  Kept(spent + p, at, next, r)
      <4>1. 0 * s + at < next.until /\ 0 \in Nat
        BY <1>0, <2>1
      <4>2. spent + p <= Lesser(next.consumed, pts) + 0 * pts
        BY <1>0, <2>1, <2>2, <3>2 DEF Lesser, pts
      <4> QED
        BY <4>1, <4>2 DEF Kept, s, pts
    <3> QED
      BY <3>1, <3>2
  <2>3. ASSUME NEW m \in Nat, m * s + at < window.until,
               spent <= Lesser(window.consumed, pts) + m * pts
        PROVE  /\ Kept(spent, at, next, r)
               /\ next.consumed <= r.points => Kept(spent + p, at, next, r)
    <3>1. /\ m * s \in Nat /\ m * pts \in Nat
          /\ (m + 1) * s = m * s + s /\ (m + 1) * pts = m * pts + pts
          /\ m + 1 \in Nat
      BY <1>0, Multiples
    <3>2. (m + 1) * s + at < next.until
      BY <1>0, <1>2, <2>1, <2>3, <3>1
    <3>3. spent <= Lesser(next.consumed, pts) + (m + 1) * pts
      BY <1>0, <2>1, <2>3, <3>1 DEF Lesser
    <3>4. next.consumed <= pts => spent + p <= Lesser(next.consumed, pts) + (m + 1) * pts
      BY <1>0, <2>1, <2>3, <3>1 DEF Lesser
    <3> QED
      BY <3>1, <3>2, <3>3, <3>4 DEF Kept, s, pts
  <2> QED
    BY <2>2, <2>3 DEF Kept, s, pts
<1> QED
  BY <1>1, <1>2

\* What a limiter spent up to each call allowed stays, and the next one adds
\* its points if it is the limiter's.
LEMMA SpentIsTyped ==
  ASSUME allowed \in Seq(Allowance), NEW l
  PROVE  /\ Spent(l, 0) = 0
         /\ \A n \in Nat : Spent(l, n) \in Int
         /\ \A n \in 1 .. Len(allowed) : Spent(l, n) =
              Spent(l, n - 1) + (IF allowed[n].by = l THEN allowed[n].points ELSE 0)
<1> DEFINE f == Points(l)
<1>1. DOMAIN f = 1 .. Len(allowed) /\ Len(allowed) \in Nat
  BY DEF Points
<1>2. \A i \in 1 .. Len(allowed) :
        f[i] = (IF allowed[i].by = l THEN allowed[i].points ELSE 0) /\ f[i] \in Int
  <2>1. \A i \in 1 .. Len(allowed) : allowed[i] \in Allowance
    OBVIOUS
  <2> QED
    BY <2>1, <1>1, CostsArePositive DEF Points, Allowance
<1>3. \A i \in DOMAIN f : f[i] \in Int
  BY <1>1, <1>2
<1> HIDE DEF f
<1>4. /\ SumTo(f, 0) = 0
      /\ \A n \in Nat \ {0} : SumTo(f, n) = SumTo(f, n - 1) + (IF n \in DOMAIN f THEN f[n] ELSE 0)
      /\ \A n \in Nat : SumTo(f, n) \in Int
  BY <1>3, SumSteps
<1>5. \A n : Spent(l, n) = SumTo(f, n)
  BY DEF Spent, f
<1>6. ASSUME NEW n \in 1 .. Len(allowed)
      PROVE  SumTo(f, n) = SumTo(f, n - 1) + (IF allowed[n].by = l THEN allowed[n].points ELSE 0)
  <2>1. n \in Nat \ {0} /\ n \in DOMAIN f
    BY <1>1
  <2> QED
    BY <1>2, <1>4, <2>1
<1> QED
  BY <1>4, <1>5, <1>6

\* What is spent after a step.
SpentThen(l, n) == SumTo(Points(l)', n)

LEMMA SpentGrows ==
  ASSUME allowed \in Seq(Allowance), NEW e \in Allowance, allowed' = Append(allowed, e), NEW l
  PROVE  /\ allowed' \in Seq(Allowance) /\ Len(allowed') = Len(allowed) + 1
         /\ \A n \in 0 .. Len(allowed) : SpentThen(l, n) = Spent(l, n)
         /\ SpentThen(l, Len(allowed) + 1) =
              Spent(l, Len(allowed)) + (IF e.by = l THEN e.points ELSE 0)
<1> DEFINE f == Points(l)
           g == Points(l)'
           N == Len(allowed)
<1>1. /\ N \in Nat /\ allowed' \in Seq(Allowance) /\ Len(allowed') = N + 1
      /\ DOMAIN allowed = 1 .. N /\ DOMAIN allowed' = 1 .. N + 1
      /\ \A i \in 1 .. N : allowed'[i] = allowed[i]
      /\ allowed'[N + 1] = e
  OBVIOUS
<1>2. \A i \in 1 .. N : allowed[i] \in Allowance
  BY <1>1
<1>3. DOMAIN f = 1 .. N /\ DOMAIN g = 1 .. N + 1
  BY <1>1 DEF Points
<1>4. \A i \in 1 .. N : f[i] = (IF allowed[i].by = l THEN allowed[i].points ELSE 0)
                        /\ f[i] \in Int /\ g[i] = f[i]
  <2>1. \A i \in 1 .. N : i \in 1 .. N + 1
    BY <1>1
  <2> QED
    BY <1>1, <1>2, <2>1, CostsArePositive DEF Points, Allowance
<1>5. g[N + 1] = (IF e.by = l THEN e.points ELSE 0) /\ g[N + 1] \in Int
  BY <1>1, CostsArePositive DEF Points, Allowance
<1>6. (\A i \in DOMAIN f : f[i] \in Int) /\ (\A i \in DOMAIN g : g[i] \in Int)
  <2> HIDE DEF f, g
  <2>1. \A i \in 1 .. N + 1 : i = N + 1 \/ i \in 1 .. N
    BY <1>1
  <2> QED
    BY <1>3, <1>4, <1>5, <2>1
<1>7. (\A n : Spent(l, n) = SumTo(f, n)) /\ (\A n : SpentThen(l, n) = SumTo(g, n))
  BY DEF Spent, SpentThen
<1> HIDE DEF f, g, N
<1>8. ASSUME NEW n \in 0 .. N
      PROVE  SumTo(f, n) = SumTo(g, n)
  <2>1. n \in Nat /\ \A i \in 1 .. n : i \in 1 .. N /\ i \in 1 .. N + 1
    BY <1>1
  <2>2. \A i \in 1 .. n : (i \in DOMAIN f <=> i \in DOMAIN g) /\ (i \in DOMAIN f => f[i] = g[i])
    BY <1>3, <1>4, <2>1
  <2> QED
    BY <1>6, <2>1, <2>2, SameSums
<1>9. SumTo(g, N + 1) = SumTo(g, N) + g[N + 1]
  <2>1. N + 1 \in Nat \ {0} /\ N + 1 \in DOMAIN g /\ (N + 1) - 1 = N
    BY <1>1, <1>3
  <2> QED
    BY <1>6, <2>1, SumSteps
<1>10. N \in 0 .. N
  BY <1>1
<1> QED
  BY <1>1, <1>5, <1>7, <1>8, <1>9, <1>10 DEF N

\* A limiter keeps its windows when points are added to it, if those allowed
\* were not too many.
LEMMA LimiterKeeps ==
  ASSUME ThrottleType, RateInv, Throttles, NEW l \in Limiters, NEW points \in Costs,
         NEW by, UNCHANGED <<rate, seconds>>,
         \/ windows'[l] = windows[l] /\ by # l
         \/ /\ windows'[l] = Add(l, points) /\ rate[l].seconds > 0
            /\ by = l => ~Refuses(l, points),
         \/ UNCHANGED allowed /\ by # l
         \/ /\ by \in {"none"} \cup Limiters
            /\ allowed' = Append(allowed, [by |-> by, points |-> points, at |-> seconds])
  PROVE  KeptBy(l)'
<1> DEFINE e == [by |-> by, points |-> points, at |-> seconds]
           N == Len(allowed)
           N1 == Len(allowed')
           r == rate[l]
<1>1. /\ seconds \in Nat /\ windows[l] \in Window /\ points \in Nat /\ points > 0
      /\ r \in [points : Nat, seconds : Nat]
  <2>1. ThrottleRate(rate)
    BY ThrottleAssumption DEF ThrottleType
  <2>2. r \in [points : Nat, seconds : Nat]
    BY <2>1 DEF ThrottleRate, PointSource, Limiters
  <2> QED
    BY <2>2, CostsArePositive DEF ThrottleType, Limiters
<1>2. allowed \in Seq(Allowance) /\ N \in Nat
      /\ \A i \in 1 .. N : allowed[i] \in Allowance /\ allowed[i].at \in Nat /\ allowed[i].at <= seconds
  <2>1. allowed \in Seq(Allowance) /\ N \in Nat
    BY DEF RateInv
  <2>2. \A i \in 1 .. N : allowed[i] \in Allowance
    BY <2>1
  <2> QED
    BY <2>1, <2>2 DEF RateInv, ClockInv, Allowance
<1>3. windows'[l] = Add(l, points) =>
        windows'[l] = IF seconds < windows[l].until
                      THEN [consumed |-> windows[l].consumed + points, until |-> windows[l].until]
                      ELSE [consumed |-> 0 + points, until |-> seconds + r.seconds]
  BY DEF Add, Consumed
<1>4. windows'[l] = Add(l, points) => (windows'[l].consumed <= r.points <=> ~Refuses(l, points))
  <2>1. Add(l, points).consumed = Consumed(l) + points
    BY DEF Add
  <2>2. Consumed(l) \in Nat /\ r.points \in Nat
    BY <1>1 DEF Consumed, Window
  <2> QED
    BY <1>1, <2>1, <2>2 DEF Refuses
<1>5. \A n \in Nat : Spent(l, n) \in Int
  BY <1>2, SpentIsTyped
<1> DEFINE gain == IF allowed' # allowed /\ by = l THEN points ELSE 0
<1>6. /\ \A n \in 0 .. N : SpentThen(l, n) = Spent(l, n)
      /\ N1 \in Nat /\ N1 >= N
      /\ SpentThen(l, N1) = Spent(l, N) + gain
      /\ \A i \in 1 .. N1 : i \in 1 .. N \/ (i = N1 /\ i - 1 = N /\ N1 # N)
      /\ \A i \in 1 .. N : allowed'[i] = allowed[i]
      /\ N1 # N => allowed'[N1] = e
  <2>1. CASE UNCHANGED allowed
    <3>1. \A n : SpentThen(l, n) = Spent(l, n)
      BY <2>1 DEF Spent, SpentThen, Points
    <3>2. gain = 0 /\ N1 = N
      BY <2>1
    <3>3. Spent(l, N) \in Int
      BY <1>2, <1>5
    <3> HIDE DEF gain
    <3> QED
      BY <1>2, <2>1, <3>1, <3>2, <3>3
  <2>2. CASE /\ by \in {"none"} \cup Limiters /\ allowed' = Append(allowed, e)
    <3>1. e \in Allowance
      BY <1>1, <2>2 DEF Allowance
    <3>2. /\ N1 = N + 1
          /\ \A n \in 0 .. N : SpentThen(l, n) = Spent(l, n)
          /\ SpentThen(l, N + 1) = Spent(l, N) + (IF e.by = l THEN e.points ELSE 0)
      <4> HIDE DEF e
      <4> QED
        BY <1>2, <2>2, <3>1, SpentGrows
    <3>3. allowed' # allowed
      BY <1>2, <3>2
    <3>4. gain = IF e.by = l THEN e.points ELSE 0
      BY <3>3
    <3>5. (\A i \in 1 .. N : allowed'[i] = allowed[i]) /\ allowed'[N + 1] = e
      BY <1>2, <2>2
    <3>6. \A i \in 1 .. N + 1 : i \in 1 .. N \/ i = N + 1
      BY <1>2
    <3>7. SpentThen(l, N1) = Spent(l, N) + gain
      BY <3>2, <3>4
    <3> HIDE DEF gain, e
    <3> QED
      BY <1>2, <3>2, <3>5, <3>6, <3>7
  <2> QED
    BY <2>1, <2>2
<1> SUFFICES ASSUME NEW i \in 1 .. N1
             PROVE  IF rate'[l].seconds = 0 THEN SpentThen(l, N1) - SpentThen(l, i - 1) = 0
                    ELSE Kept(SpentThen(l, N1) - SpentThen(l, i - 1), allowed'[i].at, windows'[l], rate'[l])
  BY DEF KeptBy, Spent, SpentThen
<1> DEFINE spent == Spent(l, N) - Spent(l, i - 1)
<1>7. /\ i - 1 \in 0 .. N /\ i - 1 \in Nat /\ SpentThen(l, i - 1) = Spent(l, i - 1)
      /\ Spent(l, N) \in Int /\ Spent(l, i - 1) \in Int
  <2>1. i - 1 \in 0 .. N /\ i - 1 \in Nat
    BY <1>2, <1>6
  <2> QED
    BY <1>2, <1>5, <1>6, <2>1
<1>8. SpentThen(l, N1) - SpentThen(l, i - 1) = spent + gain /\ spent \in Int /\ gain \in Nat
  <2>1. gain \in Nat
    BY <1>1
  <2> HIDE DEF gain
  <2> QED
    BY <1>6, <1>7, <2>1
<1>9. /\ r.seconds = 0 => spent = 0
      /\ r.seconds # 0 => Kept(spent, allowed'[i].at, windows[l], r)
      /\ allowed'[i].at \in Nat /\ allowed'[i].at <= seconds
  <2>1. CASE i \in 1 .. N
    <3>1. KeptBy(l)
      BY DEF RateInv
    <3> QED
      BY <1>2, <1>6, <2>1, <3>1 DEF KeptBy
  <2>2. CASE i = N1 /\ i - 1 = N /\ N1 # N
    <3>1. spent = 0 /\ allowed'[i].at = seconds
      BY <1>6, <1>7, <2>2
    <3> QED
      BY <1>1, <3>1 DEF Kept
  <2> QED
    BY <1>6, <2>1, <2>2
<1>10. rate' = rate /\ r.seconds \in Nat
  BY <1>1
<1>11. CASE windows'[l] = windows[l] /\ by # l
  <2>1. gain = 0 /\ spent + gain = spent
    BY <1>8, <1>11
  <2> HIDE DEF gain, spent, r
  <2> QED
    BY <1>8, <1>9, <1>10, <1>11, <2>1 DEF r
<1>12. CASE /\ windows'[l] = Add(l, points) /\ rate[l].seconds > 0
            /\ by = l => ~Refuses(l, points)
  <2> DEFINE next == windows'[l]
             at == allowed'[i].at
             window == windows[l]
  <2>1. /\ Kept(spent, at, window, r) /\ r.seconds > 0 /\ at \in Nat /\ at <= seconds
    BY <1>1, <1>9, <1>12
  <2>2. next = IF seconds < window.until
               THEN [consumed |-> window.consumed + points, until |-> window.until]
               ELSE [consumed |-> 0 + points, until |-> seconds + r.seconds]
    BY <1>3, <1>12
  <2>3. /\ Kept(spent, at, next, r)
        /\ next.consumed <= r.points => Kept(spent + points, at, next, r)
    <3>1. window \in Window /\ spent \in Int /\ points \in Nat /\ seconds \in Nat
          /\ r \in [points : Nat, seconds : Nat]
      BY <1>1, <1>8
    <3> HIDE DEF next, at, window, r, spent
    <3> QED
      BY <2>1, <2>2, <3>1, AddingKeeps
  <2>4. CASE gain = 0
    <3>1. spent + gain = spent
      BY <1>8, <2>4
    <3> HIDE DEF gain, spent, r, at, next
    <3> QED
      BY <1>8, <1>10, <2>1, <2>3, <3>1 DEF r, at, next
  <2>5. CASE gain # 0
    <3>1. gain = points /\ next.consumed <= r.points
      BY <1>4, <1>12, <2>5
    <3> HIDE DEF gain, spent, r, at, next
    <3> QED
      BY <1>8, <1>10, <2>1, <2>3, <3>1 DEF r, at, next
  <2> QED
    BY <2>4, <2>5
<1> QED
  BY <1>11, <1>12

\* What was kept since a call within as long as a steady window is within the
\* windows which that time meets.
LEMMA KeptIsBounded ==
  ASSUME NEW r \in [points : Nat, seconds : Nat], r.seconds > 0, NEW steady \in Nat, steady > 0,
         NEW window \in Window, NEW now \in Nat, window.until <= now + r.seconds,
         NEW at \in Nat, now < at + steady, NEW spent \in Int, Kept(spent, at, window, r)
  PROVE  spent <= (2 + (steady - 1) \div r.seconds) * r.points
<1> DEFINE s == r.seconds
           p == r.points
           d == (steady - 1) \div s
<1>1. s \in Nat /\ s > 0 /\ p \in Nat /\ steady - 1 \in Nat /\ window.until \in Nat
      /\ window.consumed \in Nat
  BY DEF Window
<1>2. d \in Nat
  <2> DEFINE x == steady - 1
  <2>1. x \in Nat /\ 0 * s <= x + s /\ 0 \in Nat
    BY <1>1
  <2> HIDE DEF x, s
  <2>2. x \div s \in Nat
    BY <1>1, <2>1, MultipleIsBounded
  <2> QED
    BY <2>2 DEF x
<1> HIDE DEF s, p, d
<1>3. CASE spent = 0
  <2>1. (2 + d) * p \in Nat
    BY <1>1, <1>2
  <2> QED
    BY <1>3, <2>1 DEF s, p, d
<1>4. CASE \E m \in Nat : /\ m * r.seconds + at < window.until
                          /\ spent <= Lesser(window.consumed, r.points) + m * r.points
  <2>1. PICK m \in Nat : /\ m * s + at < window.until
                         /\ spent <= Lesser(window.consumed, p) + m * p
    BY <1>4 DEF s, p
  <2>2. m * s \in Nat /\ m * p \in Nat /\ (m + 1) * p = m * p + p
    BY <1>1, Multiples
  <2>3. m * s <= (steady - 1) + s
    BY <1>1, <2>1, <2>2 DEF s
  <2>4. m <= 1 + d
    <3> DEFINE x == steady - 1
    <3>1. x \in Nat /\ m * s <= x + s
      BY <1>1, <2>3
    <3> HIDE DEF x
    <3>2. m <= 1 + x \div s
      BY <1>1, <3>1, MultipleIsBounded
    <3> QED
      BY <3>2 DEF x, d
  <2>5. spent <= (m + 1) * p
    BY <1>1, <2>1, <2>2 DEF Lesser
  <2>6. (m + 1) * p <= (2 + d) * p /\ (m + 1) * p \in Nat /\ (2 + d) * p \in Nat
    <3>1. m + 1 \in Nat /\ 2 + d \in Nat /\ m + 1 <= 2 + d
      BY <1>2, <2>4
    <3>2. (m + 1) * p \in Nat /\ (2 + d) * p \in Nat
      BY <1>1, <3>1
    <3> QED
      BY <1>1, <3>1, <3>2, MultiplesGrow
  <2> QED
    BY <2>5, <2>6 DEF s, p, d
<1> QED
  BY <1>3, <1>4 DEF Kept

\* Limiters which keep their windows keep the rate, also with the call which
\* was allowed last.
LEMMA RateStaysBounded ==
  ASSUME ThrottleType, ThrottleType', RateInv, UNCHANGED <<rate, seconds>>, ClockInv',
         Throttles => \A l \in Limiters : KeptBy(l)',
         \/ UNCHANGED allowed
         \/ \E e \in Allowance : e.at = seconds /\ allowed' = Append(allowed, e)
  PROVE  RateInv'
<1> DEFINE N == Len(allowed)
<1>0. Throttles' <=> Throttles
  BY DEF Throttles
<1>1. allowed \in Seq(Allowance) /\ N \in Nat
  BY DEF RateInv
<1>2. CASE UNCHANGED allowed
  <2>1. RateBounded'
    BY <1>0, <1>2, SMTT(40) DEF RateInv, RateBounded, Spent, Points
  <2> QED
    BY <1>0, <1>1, <1>2, <2>1 DEF RateInv
<1>3. ASSUME NEW e \in Allowance, e.at = seconds, allowed' = Append(allowed, e)
      PROVE  RateInv'
  <2>1. /\ allowed' \in Seq(Allowance) /\ Len(allowed') = N + 1
        /\ \A i \in 1 .. N : allowed'[i] = allowed[i]
        /\ DOMAIN allowed = 1 .. N /\ DOMAIN allowed' = 1 .. N + 1
    BY <1>1, <1>3
  <2> DEFINE Met(l) == IF rate[l].seconds = 0 THEN 0
                       ELSE 2 + (rate.steady.seconds - 1) \div rate[l].seconds
  <2>2. ASSUME Throttles, NEW l \in Limiters, NEW i \in 1 .. N + 1, NEW j \in 1 .. N + 1,
               i <= j, allowed'[j].at < allowed'[i].at + rate.steady.seconds
        PROVE  SpentThen(l, j) - SpentThen(l, i - 1) <= Met(l) * rate[l].points
    <3>1. CASE j \in 1 .. N
      <4>1. i \in 1 .. N /\ i - 1 \in 0 .. N /\ j \in 0 .. N
        BY <1>1, <2>2, <3>1
      <4>2. Spent(l, j) - Spent(l, i - 1) <= Met(l) * rate[l].points
        BY <2>1, <2>2, <3>1, <4>1 DEF RateInv, RateBounded, Limiters
      <4>3. SpentThen(l, j) = Spent(l, j) /\ SpentThen(l, i - 1) = Spent(l, i - 1)
        BY <1>1, <1>3, <4>1, SpentGrows
      <4> QED
        BY <4>2, <4>3
    <3>2. CASE j = N + 1
      <4> DEFINE spent == SpentThen(l, N + 1) - SpentThen(l, i - 1)
                 r == rate[l]
      <4>1. IF r.seconds = 0 THEN spent = 0
            ELSE Kept(spent, allowed'[i].at, windows'[l], r)
        <5>1. KeptBy(l)'
          BY <2>2
        <5> QED
          BY <2>1, <5>1 DEF KeptBy, Spent, SpentThen
      <4>2. spent \in Int
        <5>1. \A n \in Nat : SpentThen(l, n) \in Int
          <6>1. \A i_1 \in DOMAIN Points(l)' : Points(l)'[i_1] \in Int
            <7>1. \A k \in 1 .. N + 1 : allowed'[k] \in Allowance
              BY <2>1
            <7> QED
              BY <2>1, <7>1, CostsArePositive DEF Points, Allowance
          <6> QED
            BY <6>1, SumSteps DEF SpentThen
        <5>2. N + 1 \in Nat /\ i - 1 \in Nat
          BY <1>1
        <5> QED
          BY <5>1, <5>2
      <4>3. CASE r.seconds = 0
        <5>1. r.points \in Nat
          BY RateIsTyped DEF ThrottleType, Limiters
        <5>2. Met(l) * r.points = 0
          BY <4>3, <5>1
        <5>3. spent <= Met(l) * r.points
          BY <4>1, <4>3, <5>2
        <5> QED
          BY <3>2, <5>3
      <4>4. CASE r.seconds # 0
        <5>1. r \in [points : Nat, seconds : Nat] /\ r.seconds > 0
          <6>1. ThrottleRate(rate)
            BY ThrottleAssumption DEF ThrottleType
          <6>2. r \in [points : Nat, seconds : Nat]
            BY <6>1 DEF ThrottleRate, PointSource, Limiters
          <6> QED
            BY <4>4, <6>2
        <5>2. rate.steady.seconds \in Nat /\ rate.steady.seconds > 0
          BY <2>2, RateIsTyped DEF ThrottleType
        <5>3. windows'[l] \in Window /\ seconds \in Nat
              /\ windows'[l].until <= seconds + r.seconds
          BY DEF ThrottleType, ClockInv, Limiters
        <5>4. allowed'[i].at \in Nat /\ allowed'[j].at \in Nat
          <6>1. \A k \in 1 .. N + 1 : allowed'[k] \in Allowance
            BY <2>1
          <6> QED
            BY <2>2, <6>1 DEF Allowance
        <5>5. allowed'[j].at = seconds
          BY <1>1, <1>3, <3>2
        <5>6. Kept(spent, allowed'[i].at, windows'[l], r)
          BY <4>1, <4>4
        <5>7. seconds < allowed'[i].at + rate.steady.seconds
          BY <2>2, <5>5
        <5>8. spent <= (2 + (rate.steady.seconds - 1) \div r.seconds) * r.points
          <6> DEFINE at == allowed'[i].at
                     window == windows'[l]
                     steady == rate.steady.seconds
          <6>1. at \in Nat /\ window \in Window /\ steady \in Nat /\ steady > 0
                /\ window.until <= seconds + r.seconds /\ Kept(spent, at, window, r)
                /\ seconds < at + steady
            BY <5>2, <5>3, <5>4, <5>6, <5>7
          <6> HIDE DEF at, window, steady, r, spent
          <6>2. spent <= (2 + (steady - 1) \div r.seconds) * r.points
            BY <4>2, <5>1, <5>3, <6>1, KeptIsBounded
          <6> QED
            BY <6>2 DEF steady
        <5> HIDE DEF spent
        <5>9. spent <= Met(l) * rate[l].points
          BY <4>4, <5>8
        <5> QED
          BY <3>2, <5>9 DEF spent
      <4> QED
        BY <4>3, <4>4
    <3> QED
      BY <1>1, <3>1, <3>2
  <2>3. RateBounded'
    BY <1>0, <2>1, <2>2 DEF RateBounded, Limiters, Spent, SpentThen
  <2> QED
    BY <1>0, <2>1, <2>3 DEF RateInv
<1> QED
  BY <1>2, <1>3

\* The clock of a step which adds points to the windows of one limiter at most.
LEMMA ClockStays ==
  ASSUME ThrottleType, ClockInv, allowed \in Seq(Allowance), UNCHANGED <<rate, seconds>>,
         NEW points \in Costs, NEW l \in Limiters,
         \/ UNCHANGED windows
         \/ windows' = [windows EXCEPT ![l] = Add(l, points)],
         \/ UNCHANGED allowed
         \/ \E e \in Allowance : e.at = seconds /\ allowed' = Append(allowed, e)
  PROVE  ClockInv'
<1>1. \A k \in Limiters : windows'[k].until <= seconds' + rate'[k].seconds
  <2> SUFFICES ASSUME NEW k \in Limiters
               PROVE  windows'[k].until <= seconds + rate[k].seconds
    OBVIOUS
  <2>1. windows[k].until <= seconds + rate[k].seconds
    BY DEF ClockInv
  <2>2. seconds \in Nat /\ rate[k].seconds \in Nat /\ windows[k].until \in Nat
    BY RateIsTyped DEF ThrottleType, Limiters, Window
  <2>3. Add(k, points).until <= seconds + rate[k].seconds
    BY <2>1, <2>2 DEF Add
  <2>4. windows'[k] = windows[k] \/ windows'[k] = Add(k, points)
    BY DEF ThrottleType, Limiters
  <2> QED
    BY <2>1, <2>3, <2>4
<1>2. \A i \in 1 .. Len(allowed') : allowed'[i].at <= seconds'
  <2>1. CASE UNCHANGED allowed
    BY <2>1 DEF ClockInv
  <2>2. ASSUME NEW e \in Allowance, e.at = seconds, allowed' = Append(allowed, e)
        PROVE  \A i \in 1 .. Len(allowed') : allowed'[i].at <= seconds'
    <3>1. /\ Len(allowed) \in Nat /\ Len(allowed') = Len(allowed) + 1
          /\ \A i \in 1 .. Len(allowed) : allowed'[i] = allowed[i]
          /\ allowed'[Len(allowed) + 1] = e
      BY <2>2
    <3>2. seconds \in Nat
      BY DEF ThrottleType
    <3>3. \A i \in 1 .. Len(allowed) + 1 : i \in 1 .. Len(allowed) \/ i = Len(allowed) + 1
      BY <3>1
    <3>4. \A i \in 1 .. Len(allowed) : allowed[i].at <= seconds
      BY DEF ClockInv
    <3> QED
      BY <2>2, <3>1, <3>2, <3>3, <3>4
  <2> QED
    BY <2>1, <2>2
<1> QED
  BY <1>1, <1>2 DEF ClockInv

\* A step which adds points to the windows of l, or of none, and allows what fits.
LEMMA StepKeepsRate ==
  ASSUME ThrottleType, ThrottleType', RateInv, UNCHANGED <<rate, seconds>>,
         NEW points \in Costs, NEW l \in Limiters, NEW by \in {"none", l},
         Throttles => rate[l].seconds > 0,
         Throttles \/ by = "none",
         by = l => ~Refuses(l, points),
         \/ UNCHANGED windows /\ by = "none"
         \/ windows' = [windows EXCEPT ![l] = Add(l, points)],
         \/ UNCHANGED allowed /\ by = "none"
         \/ allowed' = Append(allowed, [by |-> by, points |-> points, at |-> seconds])
  PROVE  RateInv'
<1>1. allowed \in Seq(Allowance) /\ ClockInv
  BY DEF RateInv
<1>2. \/ UNCHANGED allowed
      \/ \E e \in Allowance : e.at = seconds /\ allowed' = Append(allowed, e)
  <2> DEFINE e == [by |-> by, points |-> points, at |-> seconds]
  <2>1. e \in Allowance /\ e.at = seconds
    BY DEF Allowance, ThrottleType, Limiters
  <2> HIDE DEF e
  <2>2. UNCHANGED allowed \/ allowed' = Append(allowed, e)
    BY DEF e
  <2> QED
    BY <2>1, <2>2
<1>3. ClockInv'
  BY <1>1, <1>2, ClockStays
<1>4. ASSUME Throttles, NEW k \in Limiters
      PROVE  KeptBy(k)'
  <2>1. l # "none" /\ k # "none" /\ by \in {"none"} \cup Limiters
    BY DEF Limiters
  <2>2. \/ windows'[k] = windows[k] /\ by # k
        \/ windows'[k] = Add(k, points) /\ rate[k].seconds > 0 /\ (by = k => ~Refuses(k, points))
    <3>1. CASE UNCHANGED windows /\ by = "none"
      BY <2>1, <3>1
    <3>2. CASE windows' = [windows EXCEPT ![l] = Add(l, points)]
      <4>1. CASE k = l
        BY <1>4, <3>2, <4>1 DEF ThrottleType, Limiters
      <4>2. CASE k # l
        BY <2>1, <3>2, <4>2 DEF ThrottleType, Limiters
      <4> QED
        BY <4>1, <4>2
    <3> QED
      BY <3>1, <3>2
  <2>3. \/ UNCHANGED allowed /\ by # k
        \/ /\ by \in {"none"} \cup Limiters
           /\ allowed' = Append(allowed, [by |-> by, points |-> points, at |-> seconds])
    BY <2>1
  <2> QED
    BY <1>4, <2>2, <2>3, LimiterKeeps
<1> QED
  BY <1>2, <1>3, <1>4, RateStaysBounded

LEMMA ConsumeKeepsRate ==
  ASSUME ThrottleInv, ThrottleType', RateInv, NEW points \in Costs, Consume(points)
  PROVE  RateInv'
<1>0. UNCHANGED <<rate, seconds>> /\ "steady" \in Limiters /\ ThrottleType
  BY DEF Consume, Limiters, ThrottleInv
<1>1. Throttles => rate["steady"].seconds > 0
  BY <1>0, RateIsTyped DEF ThrottleType
<1>2. CASE ~Throttles
  <2>1. UNCHANGED windows
        /\ allowed' = Append(allowed, [by |-> "none", points |-> points, at |-> seconds])
    BY <1>2 DEF Consume, Allow
  <2> QED
    BY <1>0, <1>2, <2>1, StepKeepsRate
<1>3. CASE Throttles
  <2>1. windows' = [windows EXCEPT !["steady"] = Add("steady", points)]
    BY <1>3 DEF Consume
  <2>2. CASE ~Refuses("steady", points)
    <3>1. allowed' = Append(allowed, [by |-> "steady", points |-> points, at |-> seconds])
      BY <1>3, <2>2 DEF Consume, Allow
    <3> QED
      BY <1>0, <1>1, <1>3, <2>1, <2>2, <3>1, StepKeepsRate
  <2>3. CASE Refuses("steady", points)
    <3>1. UNCHANGED allowed
      BY <1>3, <2>3 DEF Consume
    <3> QED
      BY <1>0, <1>1, <2>1, <3>1, StepKeepsRate
  <2> QED
    BY <2>2, <2>3
<1> QED
  BY <1>2, <1>3

LEMMA ConsumeBurstKeepsRate ==
  ASSUME ThrottleInv, ThrottleType', RateInv, ConsumeBurst
  PROVE  RateInv'
<1> DEFINE points == Head(bursting).points
<1>0. UNCHANGED <<rate, seconds>> /\ "burst" \in Limiters /\ ThrottleType
  BY DEF ConsumeBurst, Limiters, ThrottleInv
<1>1. Throttles /\ rate["burst"].seconds > 0
  BY <1>0, RateIsTyped DEF ThrottleType, ThrottleInv, BurstingInv, ConsumeBurst
<1>2. points \in Costs
  <2>1. bursting \in Seq(BurstCall) /\ bursting # <<>>
    BY <1>0 DEF ThrottleType, ConsumeBurst
  <2>2. Head(bursting) \in BurstCall
    BY <2>1
  <2> QED
    BY <2>2 DEF BurstCall
<1>3. windows' = [windows EXCEPT !["burst"] = Add("burst", points)]
  BY DEF ConsumeBurst
<1>4. CASE ~Refuses("burst", points)
  <2>1. allowed' = Append(allowed, [by |-> "burst", points |-> points, at |-> seconds])
    BY <1>4 DEF ConsumeBurst, Allow
  <2> HIDE DEF points
  <2> QED
    BY <1>0, <1>1, <1>2, <1>3, <1>4, <2>1, StepKeepsRate
<1>5. CASE Refuses("burst", points)
  <2>1. UNCHANGED allowed
    BY <1>5 DEF ConsumeBurst
  <2> HIDE DEF points
  <2> QED
    BY <1>0, <1>1, <1>2, <1>3, <2>1, StepKeepsRate
<1> QED
  BY <1>4, <1>5

\* Seconds pass for all windows.
LEMMA SecondsKeepRate ==
  ASSUME ThrottleInv, RateInv, SecondPasses
  PROVE  RateInv'
<1>1. UNCHANGED <<rate, windows, allowed>> /\ seconds' = seconds + 1 /\ seconds \in Nat
  BY DEF SecondPasses, ThrottleInv, ThrottleType
<1>2. ClockInv'
  <2>1. \A l \in Limiters : windows[l].until <= seconds + rate[l].seconds
                            /\ windows[l].until \in Nat /\ rate[l].seconds \in Nat
    BY RateIsTyped DEF ThrottleInv, ThrottleType, RateInv, ClockInv, Limiters, Window
  <2>2. \A i \in 1 .. Len(allowed) : allowed[i].at <= seconds /\ allowed[i].at \in Nat
    <3>1. \A i \in 1 .. Len(allowed) : allowed[i] \in Allowance
      BY DEF RateInv
    <3> QED
      BY <3>1 DEF RateInv, ClockInv, Allowance
  <2>3. \A l \in Limiters : windows[l].until <= seconds + 1 + rate[l].seconds
    BY <1>1, <2>1
  <2>4. \A i \in 1 .. Len(allowed) : allowed[i].at <= seconds + 1
    BY <1>1, <2>2
  <2> QED
    BY <1>1, <2>3, <2>4 DEF ClockInv
<1> QED
  BY <1>1, <1>2 DEF RateInv, KeptBy, RateBounded, Spent, Points, Throttles

\* The invariant of rates holds.
LEMMA RateInvariance == ThrottleSpec => [](ThrottleInv /\ RateInv)
<1>1. ASSUME ThrottleInit
      PROVE  RateInv
  <2>1. allowed = <<>> /\ seconds = 0 /\ rate \in Rates
        /\ \A l \in Limiters : windows[l].until = 0
    BY <1>1 DEF ThrottleInit, Fresh, Limiters
  <2>2. \A l \in Limiters : rate[l].seconds \in Nat
    BY <2>1, RateIsTyped DEF Limiters
  <2>3. ClockInv
    BY <2>1, <2>2 DEF ClockInv
  <2> QED
    BY <2>1, <2>3 DEF RateInv, KeptBy, RateBounded
<1>2. ASSUME ThrottleInv, ThrottleInv', RateInv, [ThrottleNext]_throttleVars
      PROVE  RateInv'
  <2>0. ThrottleType /\ ThrottleType'
    BY <1>2 DEF ThrottleInv
  <2>1. ASSUME NEW points \in Costs, Ensure(points)
        PROVE  RateInv'
    BY <1>2, <2>1 DEF Ensure, RateInv, ClockInv, KeptBy, RateBounded, Spent, Points, Throttles
  <2>2. ASSUME NEW points \in Costs, Penalize(points)
        PROVE  RateInv'
    <3>1. UNCHANGED <<rate, seconds, allowed>> /\ "steady" \in Limiters
      BY <2>2 DEF Penalize, Limiters
    <3>2. Throttles => rate["steady"].seconds > 0
      BY <2>0, RateIsTyped DEF ThrottleType
    <3>3. UNCHANGED windows \/ windows' = [windows EXCEPT !["steady"] = Add("steady", points)]
      BY <2>2 DEF Penalize
    <3> QED
      BY <1>2, <2>0, <3>1, <3>2, <3>3, StepKeepsRate
  <2>3. CASE UNCHANGED throttleVars
    BY <1>2, <2>3 DEF throttleVars, RateInv, ClockInv, KeptBy, RateBounded, Spent, Points,
                      Throttles
  <2> QED
    BY <1>2, <2>0, <2>1, <2>2, <2>3, ConsumeKeepsRate, ConsumeBurstKeepsRate, SecondsKeepRate
       DEF ThrottleNext
<1>3. ThrottleInv /\ ThrottleInv' /\ RateInv /\ [ThrottleNext]_throttleVars => RateInv'
  BY <1>2
<1> QED
  BY <1>1, <1>3, ThrottleInvariance, PTL DEF ThrottleSpec

\* Rates are kept, and whoever is refused is told when to come back, for any
\* rates and costs.
THEOREM ThrottlesHold == ThrottleSpec => []ThrottleHolds
<1>1. RateInv => RateBounded
  BY DEF RateInv
<1>2. RateBounded /\ RetryAfterHolds => ThrottleHolds
  BY DEF ThrottleHolds
<1> QED
  BY <1>1, <1>2, RateInvariance, RetryAfterIsRight, PTL

-----------------------------------------------------------------------------
(* Health checks *)

HealthType == observed \in [CheckIndices -> HealthStatuses]

HealthInv == HealthType /\ TellsAllChecks

\* The report of the first checks, one after the other.
EmptyReport == [status |-> "pass", checks |-> [key \in Keys |-> <<>>]]
AnyReport == [status : HealthStatuses, checks : [Keys -> Seq(HealthStatuses)]]
Extended(report, n) ==
  [status |-> mergeHealthStatuses(report.status, observed[n]), checks |-> Added(report.checks, n)]
Checked == 0 .. Len(CheckKeys)
ReportedFrom(R) ==
  [n \in Checked |-> IF n = 0 THEN EmptyReport ELSE Extended(R[n - 1], n)]

LEMMA ChecksAreCounted ==
  /\ Len(CheckKeys) \in Nat \ {0} /\ CheckIndices = 1 .. Len(CheckKeys)
  /\ \A c \in CheckIndices : CheckKeys[c] \in Keys
  BY HealthAssumption DEF CheckIndices, Keys

\* What is shown of the report of the first n checks.
Shares(key, n) == {c \in 1 .. n : CheckKeys[c] = key}
StatusTells(report, n) ==
  /\ \A c \in 1 .. n : Worse(observed[c]) <= Worse(report.status)
  /\ report.status = "pass" \/ \E c \in 1 .. n : observed[c] = report.status
PlacesTell(checks, n) ==
  /\ \A key \in Keys : Len(checks[key]) = Sharing(key, n)
  /\ \A c \in 1 .. n : Sharing(CheckKeys[c], c) \in DOMAIN checks[CheckKeys[c]]
  /\ \A c \in 1 .. n : checks[CheckKeys[c]][Sharing(CheckKeys[c], c)] = observed[c]
NothingElse(checks, n) ==
  \A key \in Keys : \A i \in DOMAIN checks[key] :
    \E c \in 1 .. n : CheckKeys[c] = key /\ observed[c] = checks[key][i]

LEMMA SharingCounts ==
  ASSUME NEW key
  PROVE  /\ Sharing(key, 0) = 0
         /\ \A n \in Nat : Sharing(key, n) \in Nat
         /\ \A n \in Nat : Sharing(key, n + 1) =
              IF CheckKeys[n + 1] = key THEN Sharing(key, n) + 1 ELSE Sharing(key, n)
<1>1. \A n : Sharing(key, n) = Cardinality(Shares(key, n))
  BY DEF Sharing, Shares
<1>2. Shares(key, 0) = {}
  BY DEF Shares
<1>3. ASSUME NEW n \in Nat
      PROVE  IsFiniteSet(Shares(key, n))
  <2>1. IsFiniteSet(1 .. n)
    BY FS_Interval
  <2>2. Shares(key, n) \subseteq 1 .. n
    BY DEF Shares
  <2> QED
    BY <2>1, <2>2, FS_Subset
<1>4. ASSUME NEW n \in Nat, CheckKeys[n + 1] = key
      PROVE  Sharing(key, n + 1) = Sharing(key, n) + 1
  <2>1. Shares(key, n + 1) = Shares(key, n) \cup {n + 1} /\ n + 1 \notin Shares(key, n)
    BY <1>4 DEF Shares
  <2> QED
    BY <1>1, <1>3, <2>1, FS_AddElement
<1>5. ASSUME NEW n \in Nat, CheckKeys[n + 1] # key
      PROVE  Sharing(key, n + 1) = Sharing(key, n)
  <2>1. Shares(key, n + 1) = Shares(key, n)
    BY <1>5 DEF Shares
  <2> QED
    BY <1>1, <2>1
<1> QED
  BY <1>1, <1>2, <1>3, <1>4, <1>5, FS_EmptySet, FS_CardinalityType

LEMMA AddedIsTyped ==
  ASSUME HealthType, NEW n \in CheckIndices, NEW checks \in [Keys -> Seq(HealthStatuses)]
  PROVE  /\ Added(checks, n) \in [Keys -> Seq(HealthStatuses)]
         /\ Added(checks, n)[CheckKeys[n]] = Append(checks[CheckKeys[n]], observed[n])
         /\ \A key \in Keys : key # CheckKeys[n] => Added(checks, n)[key] = checks[key]
<1>1. observed[n] \in HealthStatuses /\ CheckKeys[n] \in Keys
  BY ChecksAreCounted DEF HealthType
<1>2. Append(checks[CheckKeys[n]], observed[n]) \in Seq(HealthStatuses)
  BY <1>1
<1> QED
  BY <1>1, <1>2 DEF Added

LEMMA EmptyIsReport == EmptyReport \in AnyReport
  BY DEF EmptyReport, AnyReport, HealthStatuses

LEMMA ExtendedIsReport ==
  ASSUME HealthType, NEW n \in CheckIndices, NEW report \in AnyReport
  PROVE  Extended(report, n) \in AnyReport
<1>1. mergeHealthStatuses(report.status, observed[n]) \in HealthStatuses
  BY DEF mergeHealthStatuses, HealthStatuses
<1>2. Added(report.checks, n) \in [Keys -> Seq(HealthStatuses)]
  BY AddedIsTyped DEF AnyReport
<1> QED
  BY <1>1, <1>2 DEF Extended, AnyReport

LEMMA ReportsFollow ==
  ASSUME HealthType
  PROVE  /\ Reported[0] = EmptyReport
         /\ \A n \in CheckIndices : Reported[n] = Extended(Reported[n - 1], n)
<1> DEFINE N == Len(CheckKeys)
           S == AnyReport
           step == [n \in 1 .. N |-> [s \in S |-> Extended(s, n)]]
<1>0. N \in Nat /\ CheckIndices = 1 .. N
  BY ChecksAreCounted
<1>1. step \in [1 .. N -> [S -> S]]
  BY <1>0, ExtendedIsReport
<1>2. PICK R \in [0 .. N -> S] : FollowsTo(R, N, EmptyReport, step)
  <2>1. EmptyReport \in S
    BY EmptyIsReport
  <2> HIDE DEF S, step, N
  <2> QED
    BY <1>0, <1>1, <2>1, IteratesTo
<1>3. R[0] = EmptyReport
  BY <1>2 DEF FollowsTo
<1>4. ASSUME NEW n \in 1 .. N
      PROVE  R[n] = Extended(R[n - 1], n)
  <2>1. n - 1 \in 0 .. N
    BY <1>0
  <2>2. R[n - 1] \in S
    BY <2>1
  <2>3. R[n] = step[n][R[n - 1]]
    <3> HIDE DEF S, step, N
    <3> QED
      BY <1>2 DEF FollowsTo
  <2> QED
    BY <2>2, <2>3
<1>5. R = ReportedFrom(R)
  <2> HIDE DEF step
  <2>1. \A n \in 0 .. N : n # 0 => n \in 1 .. N
    BY <1>0
  <2>2. R = [n \in 0 .. N |-> R[n]]
    OBVIOUS
  <2> QED
    BY <1>3, <1>4, <2>1, <2>2 DEF ReportedFrom, Checked
<1>6. Reported = CHOOSE W : W = ReportedFrom(W)
  BY DEF Reported, ReportedFrom, Extended, EmptyReport, Checked
<1>7. Reported = ReportedFrom(Reported)
  BY <1>5, <1>6
<1>8. \A n \in 0 .. N : Reported[n] = IF n = 0 THEN EmptyReport ELSE Extended(Reported[n - 1], n)
  BY <1>7 DEF ReportedFrom, Checked
<1>9. 0 \in 0 .. N /\ \A n \in 1 .. N : n \in 0 .. N /\ n # 0
  BY <1>0
<1> QED
  BY <1>0, <1>8, <1>9

LEMMA EmptyTells ==
  /\ StatusTells(EmptyReport, 0) /\ PlacesTell(EmptyReport.checks, 0)
  /\ NothingElse(EmptyReport.checks, 0)
<1>1. \A key \in Keys : EmptyReport.checks[key] = <<>> /\ Sharing(key, 0) = 0
  BY SharingCounts DEF EmptyReport
<1>2. \A c \in 1 .. 0 : FALSE
  OBVIOUS
<1>3. EmptyReport.status = "pass"
  BY DEF EmptyReport
<1>4. Len(<<>>) = 0 /\ DOMAIN <<>> = {}
  OBVIOUS
<1> QED
  BY <1>1, <1>2, <1>3, <1>4 DEF StatusTells, PlacesTell, NothingElse

\* Each check adds itself to what is told of those before.
LEMMA ExtendedTells ==
  ASSUME HealthType, NEW n \in Nat, n + 1 \in CheckIndices, NEW report \in AnyReport,
         StatusTells(report, n), PlacesTell(report.checks, n), NothingElse(report.checks, n)
  PROVE  /\ StatusTells(Extended(report, n + 1), n + 1)
         /\ PlacesTell(Extended(report, n + 1).checks, n + 1)
         /\ NothingElse(Extended(report, n + 1).checks, n + 1)
<1> DEFINE k == CheckKeys[n + 1]
           old == report.checks
           new == Added(old, n + 1)
           s == report.status
           t == mergeHealthStatuses(s, observed[n + 1])
<1>0. /\ Len(CheckKeys) \in Nat /\ CheckIndices = 1 .. Len(CheckKeys) /\ k \in Keys
      /\ \A c \in 1 .. n : c \in CheckIndices /\ c \in 1 .. n + 1
      /\ \A c \in 1 .. n + 1 : c = n + 1 \/ c \in 1 .. n
      /\ n + 1 \in 1 .. n + 1
  BY ChecksAreCounted
<1>1. Extended(report, n + 1).status = t /\ Extended(report, n + 1).checks = new
  BY DEF Extended
<1>2. s \in HealthStatuses /\ old \in [Keys -> Seq(HealthStatuses)]
  BY DEF AnyReport
<1>3. \A c \in CheckIndices : observed[c] \in HealthStatuses
  BY DEF HealthType
<1>4. /\ new[k] = Append(old[k], observed[n + 1])
      /\ \A key \in Keys : key # k => new[key] = old[key]
      /\ new \in [Keys -> Seq(HealthStatuses)]
  BY <1>2, AddedIsTyped
<1> HIDE DEF new, old
<1>5. /\ Len(new[k]) = Len(old[k]) + 1 /\ Len(old[k]) \in Nat
      /\ new[k][Len(old[k]) + 1] = observed[n + 1]
      /\ DOMAIN old[k] = 1 .. Len(old[k]) /\ DOMAIN new[k] = 1 .. Len(old[k]) + 1
      /\ \A i \in 1 .. Len(old[k]) : new[k][i] = old[k][i]
  <2>1. old[k] \in Seq(HealthStatuses) /\ observed[n + 1] \in HealthStatuses
    BY <1>0, <1>2, <1>3
  <2> QED
    BY <1>4, <2>1
<1>6. Len(old[k]) = Sharing(k, n) /\ Sharing(k, n + 1) = Sharing(k, n) + 1
  BY <1>0, SharingCounts DEF PlacesTell, old
<1>7. StatusTells(Extended(report, n + 1), n + 1)
  <2>1. /\ Worse(s) <= Worse(t) /\ Worse(observed[n + 1]) <= Worse(t) /\ t \in {s, observed[n + 1]}
        /\ Worse(s) \in Nat /\ Worse(t) \in Nat
    BY <1>2, <1>3 DEF mergeHealthStatuses, HealthStatuses, Worse
  <2>2. \A c \in 1 .. n : Worse(observed[c]) \in Nat /\ Worse(observed[c]) <= Worse(s)
    <3>1. \A c \in 1 .. n : observed[c] \in HealthStatuses
      BY <1>0, <1>3
    <3> QED
      BY <3>1 DEF StatusTells, HealthStatuses, Worse
  <2> HIDE DEF s, t
  <2>3. \A c \in 1 .. n + 1 : Worse(observed[c]) <= Worse(t)
    <3>1. \A c \in 1 .. n : Worse(observed[c]) <= Worse(t)
      BY <2>1, <2>2
    <3> QED
      BY <1>0, <2>1, <3>1
  <2>4. t = "pass" \/ \E c \in 1 .. n + 1 : observed[c] = t
    <3>1. s = "pass" \/ \E c \in 1 .. n : observed[c] = s
      BY DEF StatusTells, s
    <3> QED
      BY <1>0, <2>1, <3>1
  <2> QED
    BY <1>1, <2>3, <2>4 DEF StatusTells
<1>8. PlacesTell(new, n + 1)
  <2>1. \A key \in Keys : Len(new[key]) = Sharing(key, n + 1)
    <3>1. ASSUME NEW key \in Keys, key # k
          PROVE  Len(new[key]) = Sharing(key, n + 1)
      <4>1. new[key] = old[key] /\ Len(old[key]) = Sharing(key, n)
        BY <1>4, <3>1 DEF PlacesTell, old
      <4> QED
        BY <3>1, <4>1, SharingCounts
    <3> QED
      BY <1>5, <1>6, <3>1
  <2>2. ASSUME NEW c \in 1 .. n
        PROVE  /\ Sharing(CheckKeys[c], c) \in DOMAIN new[CheckKeys[c]]
               /\ new[CheckKeys[c]][Sharing(CheckKeys[c], c)] = observed[c]
    <3>0. CheckKeys[c] \in Keys
      BY <1>0, ChecksAreCounted
    <3>1. /\ Sharing(CheckKeys[c], c) \in DOMAIN old[CheckKeys[c]]
          /\ old[CheckKeys[c]][Sharing(CheckKeys[c], c)] = observed[c]
      BY DEF PlacesTell, old
    <3>2. CASE CheckKeys[c] # k
      BY <1>4, <3>0, <3>1, <3>2
    <3>3. CASE CheckKeys[c] = k
      <4>1. Sharing(k, c) \in 1 .. Len(old[k])
        BY <1>5, <3>1, <3>3
      <4> QED
        BY <1>5, <3>1, <3>3, <4>1
    <3> QED
      BY <3>2, <3>3
  <2>3. Sharing(k, n + 1) \in DOMAIN new[k] /\ new[k][Sharing(k, n + 1)] = observed[n + 1]
    BY <1>5, <1>6
  <2> QED
    BY <1>0, <2>1, <2>2, <2>3 DEF PlacesTell
<1>9. NothingElse(new, n + 1)
  <2> SUFFICES ASSUME NEW key \in Keys, NEW i \in DOMAIN new[key]
               PROVE  \E c \in 1 .. n + 1 : CheckKeys[c] = key /\ observed[c] = new[key][i]
    BY DEF NothingElse
  <2>1. ASSUME i \in DOMAIN old[key], new[key][i] = old[key][i]
        PROVE  \E c \in 1 .. n + 1 : CheckKeys[c] = key /\ observed[c] = new[key][i]
    <3>1. PICK c \in 1 .. n : CheckKeys[c] = key /\ observed[c] = old[key][i]
      BY <2>1 DEF NothingElse, old
    <3> QED
      BY <1>0, <2>1, <3>1
  <2>2. CASE key # k
    BY <1>4, <2>1, <2>2
  <2>3. CASE key = k /\ i # Len(old[k]) + 1
    <3>1. i \in 1 .. Len(old[k])
      BY <1>5, <2>3
    <3> QED
      BY <1>5, <2>1, <2>3, <3>1
  <2>4. CASE key = k /\ i = Len(old[k]) + 1
    BY <1>0, <1>5, <2>4
  <2> QED
    BY <2>2, <2>3, <2>4
<1> QED
  BY <1>1, <1>7, <1>8, <1>9

LEMMA ReportIsRight ==
  ASSUME HealthType, NEW n \in Checked
  PROVE  /\ Reported[n] \in AnyReport
         /\ StatusTells(Reported[n], n) /\ PlacesTell(Reported[n].checks, n)
         /\ NothingElse(Reported[n].checks, n)
<1> DEFINE Right(k) ==
             /\ Reported[k] \in AnyReport
             /\ StatusTells(Reported[k], k) /\ PlacesTell(Reported[k].checks, k)
             /\ NothingElse(Reported[k].checks, k)
           Bad == {k \in Checked : ~Right(k)}
<1>0. Len(CheckKeys) \in Nat /\ CheckIndices = 1 .. Len(CheckKeys)
  BY ChecksAreCounted
<1>1. SUFFICES ASSUME Bad # {}
               PROVE  FALSE
  OBVIOUS
<1>2. PICK k \in Bad : \A j \in Bad : k <= j
  <2>1. Bad \subseteq Nat
    BY <1>0 DEF Checked
  <2> HIDE DEF Bad
  <2> QED
    BY <1>1, <2>1, SmallestOf
<1>3. Right(0)
  BY ReportsFollow, EmptyIsReport, EmptyTells
<1>4. k \in CheckIndices /\ k - 1 \in Nat /\ (k - 1) + 1 = k /\ Right(k - 1)
  <2>1. k \in Checked /\ k # 0
    BY <1>2, <1>3
  <2>2. k \in CheckIndices /\ k - 1 \in Checked /\ k - 1 \in Nat /\ ~(k <= k - 1) /\ (k - 1) + 1 = k
    BY <1>0, <2>1 DEF Checked
  <2>3. k - 1 \notin Bad
    BY <1>2, <2>2
  <2> QED
    BY <2>2, <2>3
<1>5. Reported[k] = Extended(Reported[k - 1], k)
  BY <1>4, ReportsFollow
<1>6. Reported[k] \in AnyReport
  BY <1>4, <1>5, ExtendedIsReport
<1>7. StatusTells(Reported[k], k) /\ PlacesTell(Reported[k].checks, k)
      /\ NothingElse(Reported[k].checks, k)
  BY <1>4, <1>5, ExtendedTells
<1> QED
  BY <1>2, <1>6, <1>7

\* The report's status is the worst, it has each check at its place, and its
\* keys with a status are those of the checks which have it.
LEMMA ReportTells ==
  ASSUME HealthType
  PROVE  /\ Report.status \in HealthStatuses
         /\ StatusTells(Report, Len(CheckKeys)) /\ PlacesTell(Report.checks, Len(CheckKeys))
         /\ \A s : KeysWith(Report, s) =
              {CheckKeys[c] : c \in {d \in CheckIndices : observed[d] = s}}
<1>0. Len(CheckKeys) \in Nat /\ Len(CheckKeys) \in Checked /\ CheckIndices = 1 .. Len(CheckKeys)
  BY ChecksAreCounted DEF Checked
<1>1. /\ Report \in AnyReport /\ StatusTells(Report, Len(CheckKeys))
      /\ PlacesTell(Report.checks, Len(CheckKeys)) /\ NothingElse(Report.checks, Len(CheckKeys))
  BY <1>0, ReportIsRight DEF Report
<1>2. ASSUME NEW s
      PROVE  KeysWith(Report, s) =
               {CheckKeys[c] : c \in {d \in CheckIndices : observed[d] = s}}
  <2> DEFINE Told == {CheckKeys[c] : c \in {d \in CheckIndices : observed[d] = s}}
  <2>1. ASSUME NEW key \in KeysWith(Report, s)
        PROVE  key \in Told
    <3>1. PICK i \in DOMAIN Report.checks[key] : Report.checks[key][i] = s
      BY <2>1 DEF KeysWith
    <3>2. PICK c \in CheckIndices : CheckKeys[c] = key /\ observed[c] = s
      <4>1. key \in Keys
        BY <2>1 DEF KeysWith
      <4> QED
        BY <1>0, <1>1, <3>1, <4>1 DEF NothingElse
    <3> QED
      BY <3>2
  <2>2. ASSUME NEW c \in CheckIndices, observed[c] = s
        PROVE  CheckKeys[c] \in KeysWith(Report, s)
    <3>1. CheckKeys[c] \in Keys
      BY ChecksAreCounted
    <3>2. /\ Sharing(CheckKeys[c], c) \in DOMAIN Report.checks[CheckKeys[c]]
          /\ Report.checks[CheckKeys[c]][Sharing(CheckKeys[c], c)] = s
      BY <1>0, <1>1, <2>2 DEF PlacesTell
    <3> QED
      BY <3>1, <3>2 DEF KeysWith
  <2> QED
    BY <2>1, <2>2
<1> QED
  BY <1>1, <1>2 DEF AnyReport

LEMMA GetTells ==
  ASSUME HealthType, Get
  PROVE  TellsAllChecks'
<1> DEFINE With(s) == {c \in CheckIndices : observed[c] = s}
           KeysOf(s) == {CheckKeys[c] : c \in With(s)}
           N == Len(CheckKeys)
<1>0. CheckIndices = 1 .. N
  BY ChecksAreCounted
<1>1. \A c \in CheckIndices : observed[c] \in HealthStatuses
  BY DEF HealthType
<1>2. /\ \A c \in CheckIndices : Worse(observed[c]) <= Worse(Report.status)
      /\ With(Report.status) # {} \/ Report.status = "pass"
  BY <1>0, ReportTells DEF StatusTells
<1>3. \A s : KeysWith(Report, s) = KeysOf(s)
  BY ReportTells
<1>4. Report.status = "fail" <=> With("fail") # {}
  BY <1>1, <1>2, ReportTells DEF Worse, HealthStatuses
<1>5. Report.status = "pass" <=> With("pass") = CheckIndices
  <2>1. 1 \in CheckIndices
    BY ChecksAreCounted
  <2> QED
    BY <1>1, <1>2, <2>1, ReportTells DEF Worse, HealthStatuses
<1>6. CASE GetHealth
  <2>1. /\ response'.asked = "health" /\ response'.of = observed
        /\ response'.status = Report.status /\ response'.checks = Report.checks
        /\ response'.code = healthStatusHttpCode(Report.status)
    BY <1>6 DEF GetHealth
  <2>2. /\ response'.code >= 300 <=> Report.status = "fail"
        /\ response'.code = 200 <=> Report.status = "pass"
    BY <2>1, ReportTells DEF healthStatusHttpCode, HealthStatuses
  <2>3. /\ \A c \in CheckIndices :
             response'.checks[CheckKeys[c]][Sharing(CheckKeys[c], c)] = observed[c]
        /\ \A key \in Keys : Len(response'.checks[key]) = Sharing(key, N)
    BY <1>0, <2>1, ReportTells DEF PlacesTell
  <2> QED
    BY <1>2, <1>4, <1>5, <2>1, <2>2, <2>3 DEF TellsAllChecks
<1>7. CASE OtherGet
  <2>1. /\ response'.asked = "other" /\ response'.of = observed
        /\ response'.status = Report.status
        /\ response'.failures = IF Report.status = "pass" THEN {} ELSE KeysOf("fail")
        /\ response'.warnings = IF Report.status = "pass" THEN {} ELSE KeysOf("warn")
    BY <1>3, <1>7 DEF OtherGet
  <2>2. Report.status = "pass" => KeysOf("fail") = {} /\ KeysOf("warn") = {}
    BY <1>5
  <2>3. response'.failures = KeysOf("fail") /\ response'.warnings = KeysOf("warn")
    BY <2>1, <2>2
  <2> QED
    BY <1>2, <2>1, <2>3 DEF TellsAllChecks
<1> QED
  BY <1>6, <1>7 DEF Get

LEMMA HealthInvariance == HealthSpec => []HealthInv
<1>0. response' = NoResponse => TellsAllChecks'
  BY DEF TellsAllChecks, NoResponse
<1>1. HealthInit => HealthInv
  BY DEF HealthInit, HealthInv, HealthType, TellsAllChecks, HealthStatuses, NoResponse
<1>2. ASSUME HealthInv, [HealthNext]_healthVars
      PROVE  HealthInv'
  <2>0. HealthType /\ TellsAllChecks
    BY <1>2 DEF HealthInv
  <2>2. ASSUME NEW late, Poll(late)
        PROVE  HealthInv'
    <3>1. ObserveDelay(delay') \in HealthStatuses
      BY DEF ObserveDelay, HealthStatuses
    <3>2. HealthType'
      BY <2>0, <2>2, <3>1 DEF Poll, HealthType
    <3> QED
      BY <1>0, <2>2, <3>2 DEF Poll, HealthInv
  <2>3. CASE Stop
    BY <1>0, <2>0, <2>3 DEF Stop, HealthInv, HealthType
  <2>4. CASE Get
    BY <2>0, <2>4, GetTells DEF Get, HealthInv, HealthType
  <2>5. ASSUME NEW c \in CheckIndices, NEW s \in HealthStatuses,
               ObservationChanges(c, s)
        PROVE  HealthInv'
    BY <1>0, <2>0, <2>5 DEF ObservationChanges, HealthInv, HealthType
  <2>6. CASE UNCHANGED healthVars
    BY <2>0, <2>6 DEF healthVars, HealthInv, HealthType, TellsAllChecks
  <2> QED
    BY <1>2, <2>2, <2>3, <2>4, <2>5, <2>6 DEF HealthNext
<1>3. HealthInv /\ [HealthNext]_healthVars => HealthInv'
  BY <1>2
<1> QED
  BY <1>1, <1>3, PTL DEF HealthSpec

\* Whatever the checks and their keys, a response tells of them all as they
\* were when it was made.
THEOREM ResponsesTellAllChecks == HealthSpec => []TellsAllChecks
<1>1. HealthInv => TellsAllChecks
  BY DEF HealthInv
<1> QED
  BY <1>1, HealthInvariance, PTL

-----------------------------------------------------------------------------
(* The app *)

\* The app is set up once, before which it has no server and no known host.
AppSetup ==
  /\ last = 0 => setup[1] = "none" /\ server[1] = "none" /\ host[1] = "none"
  /\ setup[1] \in {"queued", "binding"} =>
       /\ status = "binding" /\ active = 1
       /\ server[1] = "none" /\ host[1] # "resolved"
  /\ \A i \in 1 .. Len(ticks) :
       ticks[i].what = "setup" => ticks[i].binding = 1 /\ setup[1] = "queued"
  /\ \A i, j \in 1 .. Len(ticks) :
       ticks[i].what = "setup" /\ ticks[j].what = "setup" => i = j

\* The calls are about its binding, and stop it once it is known.
AppCalls ==
  \A c \in AppCallers :
    /\ calls[c].at \in {"waiting", "stopping"} => calls[c].binding = 1
    /\ calls[c].at = "stopping" => host[1] = "resolved"

AppInv == App!TypeOK /\ AppSetup /\ AppCalls /\ App!ListensKnowingly

LEMMA BoundOnce == App!Bindings = {1}
  BY DEF App!Bindings

LEMMA InitAppInv == App!Init => AppInv
<1> SUFFICES ASSUME App!Init
             PROVE  AppInv
  OBVIOUS
<1>1. App!TypeOK
  BY BoundOnce DEF App!Init, App!TypeOK
<1>2. AppSetup /\ AppCalls
  BY BoundOnce DEF App!Init, AppSetup, AppCalls
<1>3. App!ListensKnowingly
  BY BoundOnce DEF App!Init, App!ListensKnowingly
<1> QED
  BY <1>1, <1>2, <1>3 DEF AppInv

\* An event which is queued sets nothing up.
LEMMA EventIsQueued ==
  ASSUME AppInv, NEW e \in {"unbound", "error"},
         ticks' = Append(ticks, App!QueuedTick(e, 0))
  PROVE  /\ ticks' \in Seq([what : {"setup", "unbound", "error"}, binding : {0} \cup App!Bindings])
         /\ \A i \in 1 .. Len(ticks') :
              ticks'[i].what = "setup" => i \in 1 .. Len(ticks) /\ ticks'[i] = ticks[i]
<1>1. ticks \in Seq([what : {"setup", "unbound", "error"}, binding : {0} \cup App!Bindings])
  BY DEF AppInv, App!TypeOK
<1>2. App!QueuedTick(e, 0) \in [what : {"setup", "unbound", "error"}, binding : {0} \cup App!Bindings]
  BY DEF App!QueuedTick
<1> QED
  BY <1>1, <1>2 DEF App!QueuedTick

\* Unbinding queues an event at most.
LEMMA AppUnbinds ==
  ASSUME AppInv, App!Unbind
  PROVE  /\ status' = "unbound"
         /\ active' \in {0, active}
         /\ ticks' \in Seq([what : {"setup", "unbound", "error"}, binding : {0} \cup App!Bindings])
         /\ \A i \in 1 .. Len(ticks') :
              ticks'[i].what = "setup" => i \in 1 .. Len(ticks) /\ ticks'[i] = ticks[i]
<1>1. CASE status = "unbound"
  BY <1>1 DEF App!Unbind, App!statusVars, AppInv, App!TypeOK
<1>2. CASE status # "unbound"
  <2>1. ticks' = Append(ticks, App!QueuedTick("unbound", 0)) /\ status' = "unbound" /\ active' = 0
    BY <1>2 DEF App!Unbind, App!statusVars
  <2> QED
    BY <2>1, EventIsQueued
<1> QED
  BY <1>1, <1>2

LEMMA AppStarts ==
  ASSUME AppInv, NEW how, App!Start(how)
  PROVE  AppInv'
<1> DEFINE Queued == [what : {"setup", "unbound", "error"}, binding : {0} \cup App!Bindings]
<1> USE DEF App!Start
<1>1. last = 0 /\ last' = 1 /\ status' = "binding" /\ active' = 1
  BY BoundOnce DEF AppInv, App!TypeOK
<1>2. /\ host' = [host EXCEPT ![1] = "pending"] /\ setup' = [setup EXCEPT ![1] = "queued"]
      /\ ticks' = Append(ticks, App!QueuedTick("setup", 1))
      /\ runs' = [runs EXCEPT ![1] = IF how = "run" THEN "waiting" ELSE "none"]
      /\ UNCHANGED <<server, calls, onStops, turn>>
  BY <1>1
<1>3. setup[1] = "none" /\ server[1] = "none"
  BY <1>1 DEF AppInv, AppSetup
<1>4. /\ ticks' \in Seq(Queued)
      /\ \A i \in 1 .. Len(ticks') : ticks'[i].what = "setup" =>
           i = Len(ticks) + 1 /\ ticks'[i].binding = 1
  <2>1. ticks \in Seq(Queued) /\ App!QueuedTick("setup", 1) \in Queued
    BY BoundOnce DEF AppInv, App!TypeOK, App!QueuedTick
  <2>2. \A i \in 1 .. Len(ticks) : ticks[i].what # "setup"
    BY <1>3 DEF AppInv, AppSetup
  <2> HIDE DEF Queued
  <2> QED
    BY <1>2, <2>1, <2>2 DEF App!QueuedTick
<1>5. App!TypeOK'
  BY <1>1, <1>2, <1>4, BoundOnce DEF AppInv, App!TypeOK
<1>6. AppSetup'
  BY <1>1, <1>2, <1>3, <1>4, BoundOnce DEF AppInv, App!TypeOK, AppSetup
<1>7. AppCalls'
  BY <1>1, <1>2, BoundOnce DEF AppInv, App!TypeOK, AppCalls, AppSetup
<1>8. App!ListensKnowingly'
  BY <1>2, <1>3, BoundOnce DEF App!ListensKnowingly
<1> QED
  BY <1>5, <1>6, <1>7, <1>8 DEF AppInv

LEMMA AppBinds ==
  ASSUME AppInv, NEW n \in App!Bindings,
         App!BindSucceeds(n) \/ App!BindFails(n) \/ App!SetupErrs(n)
  PROVE  AppInv'
<1>0. n = 1
  BY BoundOnce
<1>1. CASE App!BindSucceeds(n)
  <2> USE <1>1 DEF App!BindSucceeds, App!Opens
  <2>1. status = "binding" /\ active = 1 /\ last # 0
    BY <1>0 DEF AppInv, AppSetup
  <2>2. App!TypeOK'
    BY <1>0, <2>1, BoundOnce DEF AppInv, App!TypeOK
  <2>3. setup'[1] \notin {"queued", "binding"} /\ setup[1] = "binding" /\ UNCHANGED <<last, ticks>>
    BY <1>0, <2>1, BoundOnce DEF AppInv, App!TypeOK
  <2>4. AppSetup'
    BY <2>1, <2>3 DEF AppInv, AppSetup
  <2>5. AppCalls' /\ App!ListensKnowingly'
    BY <1>0, <2>1, BoundOnce
       DEF AppInv, App!TypeOK, AppCalls, App!ListensKnowingly
  <2> QED
    BY <2>2, <2>4, <2>5 DEF AppInv
<1>2. CASE App!BindFails(n)
  <2> USE <1>2 DEF App!BindFails
  <2>1. status = "binding" /\ active = 1 /\ server[1] = "none" /\ last # 0
    BY <1>0 DEF AppInv, AppSetup
  <2>2. App!TypeOK'
    BY <1>0, BoundOnce DEF AppInv, App!TypeOK
  <2>3. setup'[1] = "failing" /\ setup[1] = "binding" /\ UNCHANGED <<last, ticks>>
    BY <1>0, BoundOnce DEF AppInv, App!TypeOK
  <2>4. AppSetup'
    BY <2>1, <2>3 DEF AppInv, AppSetup
  <2>5. AppCalls' /\ App!ListensKnowingly'
    BY <2>1, BoundOnce DEF AppInv, AppCalls, App!ListensKnowingly
  <2> QED
    BY <2>2, <2>4, <2>5 DEF AppInv
<1>3. CASE App!SetupErrs(n)
  <2> USE <1>3 DEF App!SetupErrs, App!Emit, App!statusVars
  <2>1. App!TypeOK'
    BY <1>0, BoundOnce DEF AppInv, App!TypeOK
  <2>2. setup'[1] = "failed" /\ setup[1] = "failing" /\ UNCHANGED <<last, ticks>>
    BY <1>0, BoundOnce DEF AppInv, App!TypeOK
  <2>3. AppSetup'
    BY <2>2 DEF AppInv, AppSetup
  <2>4. AppCalls' /\ App!ListensKnowingly'
    BY DEF AppInv, AppCalls, App!ListensKnowingly
  <2> QED
    BY <2>1, <2>3, <2>4 DEF AppInv
<1> QED
  BY <1>1, <1>2, <1>3

\* Whoever closed the server.
LEMMA AppCloses ==
  ASSUME AppInv, NEW n \in App!Bindings, App!ServerCloses(n)
  PROVE  AppInv'
<1> USE DEF App!ServerCloses, App!Closes, App!bindingVars
<1>0. n = 1 /\ server[1] = "open" /\ App!Unbind
  BY BoundOnce
<1>1. setup[1] \notin {"queued", "binding"} /\ last # 0
  BY <1>0 DEF AppInv, AppSetup
<1>2. App!TypeOK'
  <2>1. /\ status' = "unbound" /\ active' \in {0} \cup App!Bindings
        /\ ticks' \in Seq([what : {"setup", "unbound", "error"}, binding : {0} \cup App!Bindings])
    BY <1>0, AppUnbinds DEF AppInv, App!TypeOK
  <2>2. server' \in [App!Bindings -> {"none", "open", "closed"}] /\ turn' = "ticks"
    BY DEF AppInv, App!TypeOK
  <2>3. UNCHANGED <<last, host, setup, calls, onStops, runs>>
    OBVIOUS
  <2> HIDE DEF App!ServerCloses, App!Closes
  <2> QED
    BY <2>1, <2>2, <2>3 DEF AppInv, App!TypeOK
<1>3. server'[1] = "closed"
  BY <1>0, BoundOnce DEF AppInv, App!TypeOK
<1>4. AppSetup'
  BY <1>0, <1>1, AppUnbinds DEF AppInv, AppSetup
<1>5. AppCalls' /\ App!ListensKnowingly'
  BY <1>3, BoundOnce DEF AppInv, AppCalls, App!ListensKnowingly
<1> QED
  BY <1>2, <1>4, <1>5 DEF AppInv

LEMMA AppStops ==
  ASSUME AppInv, NEW c \in AppCallers,
         \/ App!Stop(c) \/ App!StopGoesOn(c)
         \/ App!StopSucceeds(c) \/ App!StopFails(c)
  PROVE  AppInv'
<1> USE DEF App!At, App!bindingVars, App!Returned
<1> DEFINE Call == [at : {"idle", "waiting", "stopping", "returned"},
                    binding : {0} \cup App!Bindings]
<1>0. calls \in [AppCallers -> Call]
  BY DEF AppInv, App!TypeOK
<1>1. CASE App!Stop(c)
  <2> USE <1>1 DEF App!Stop, App!statusVars
  <2>1. /\ calls' \in [AppCallers -> Call]
        /\ \A d \in AppCallers : d # c => calls'[d] = calls[d]
        /\ calls'[c].at = "returned" \/ (calls'[c].at = "waiting" /\ calls'[c].binding = 1)
    <3>1. CASE active = 0
      <4>1. calls' = [calls EXCEPT ![c].at = "returned"]
        BY <3>1
      <4> QED
        BY <1>0, <4>1
    <3>2. CASE active # 0
      <4>1. active = 1 /\ active \in {0} \cup App!Bindings
        BY <3>2, BoundOnce DEF AppInv, App!TypeOK
      <4>2. calls' = [calls EXCEPT ![c] = [at |-> "waiting", binding |-> active]]
        BY <3>2
      <4> QED
        BY <1>0, <4>1, <4>2
    <3> QED
      BY <3>1, <3>2
  <2>2. App!TypeOK'
    BY <2>1 DEF AppInv, App!TypeOK
  <2>3. AppCalls'
    BY <2>1 DEF AppInv, AppCalls
  <2>4. AppSetup' /\ App!ListensKnowingly'
    BY DEF AppInv, AppSetup, App!ListensKnowingly
  <2> QED
    BY <2>2, <2>3, <2>4 DEF AppInv
<1>2. CASE App!StopGoesOn(c)
  <2> USE <1>2 DEF App!StopGoesOn
  <2>1. calls[c].binding = 1 /\ host[1] = "resolved" /\ status' \in {status, "unbinding"}
        /\ (status' # status => status = "bound")
    BY DEF AppInv, AppCalls
  <2>2. /\ calls' \in [AppCallers -> Call]
        /\ \A d \in AppCallers : d # c => calls'[d] = calls[d]
        /\ calls'[c].binding = 1 /\ calls'[c].at \in {"returned", "stopping"}
    BY <1>0, <2>1
  <2>3. onStops' \in [App!Bindings -> Nat]
    BY <2>1, BoundOnce DEF AppInv, App!TypeOK
  <2>4. App!TypeOK'
    BY <2>1, <2>2, <2>3 DEF AppInv, App!TypeOK
  <2>5. AppCalls'
    BY <2>1, <2>2 DEF AppInv, AppCalls
  <2>6. AppSetup' /\ App!ListensKnowingly'
    BY <2>1, BoundOnce DEF AppInv, AppSetup, App!ListensKnowingly
  <2> QED
    BY <2>4, <2>5, <2>6 DEF AppInv
<1>3. CASE App!StopSucceeds(c)
  <2> USE <1>3 DEF App!StopSucceeds
  <2>1. calls[c].binding = 1 /\ server[1] = "closed" /\ App!Unbind
    BY DEF AppInv, AppCalls
  <2>2. /\ calls' \in [AppCallers -> Call]
        /\ \A d \in AppCallers : d # c => calls'[d] = calls[d]
        /\ calls'[c].at = "returned"
    BY <1>0
  <2>3. App!TypeOK'
    BY <2>1, <2>2, AppUnbinds, BoundOnce DEF AppInv, App!TypeOK
  <2>4. AppCalls'
    BY <2>2 DEF AppInv, AppCalls
  <2>5. AppSetup'
    BY <2>1, AppUnbinds DEF AppInv, AppSetup
  <2>6. App!ListensKnowingly'
    BY <2>1, BoundOnce DEF App!ListensKnowingly
  <2> QED
    BY <2>3, <2>4, <2>5, <2>6 DEF AppInv
<1>4. CASE App!StopFails(c)
  <2> USE <1>4 DEF App!StopFails
  <2>1. host[1] = "resolved" /\ status' = "error"
    BY DEF AppInv, AppCalls
  <2>2. /\ calls' \in [AppCallers -> Call]
        /\ \A d \in AppCallers : d # c => calls'[d] = calls[d]
        /\ calls'[c].at = "returned"
    BY <1>0
  <2>3. /\ ticks' \in Seq([what : {"setup", "unbound", "error"}, binding : {0} \cup App!Bindings])
        /\ \A i \in 1 .. Len(ticks') :
             ticks'[i].what = "setup" => i \in 1 .. Len(ticks) /\ ticks'[i] = ticks[i]
    BY EventIsQueued
  <2>4. App!TypeOK'
    BY <2>1, <2>2, <2>3 DEF AppInv, App!TypeOK
  <2>5. AppCalls'
    BY <2>2 DEF AppInv, AppCalls
  <2>6. AppSetup' /\ App!ListensKnowingly'
    BY <2>1, <2>3, BoundOnce DEF AppInv, AppSetup, App!ListensKnowingly
  <2> QED
    BY <2>4, <2>5, <2>6 DEF AppInv
<1> QED
  BY <1>1, <1>2, <1>3, <1>4

LEMMA AppTicks ==
  ASSUME AppInv, App!Tick
  PROVE  AppInv'
<1> USE DEF App!Tick, App!statusVars
<1> DEFINE Queued == [what : {"setup", "unbound", "error"}, binding : {0} \cup App!Bindings]
<1>1. ticks \in Seq(Queued) /\ ticks # <<>> /\ ticks' = Tail(ticks)
      /\ UNCHANGED <<status, active, last, host, server, calls, onStops, turn>>
  BY DEF AppInv, App!TypeOK
<1>2. /\ ticks' \in Seq(Queued)
      /\ Head(ticks) = ticks[1] /\ ticks[1] \in Queued /\ 1 \in 1 .. Len(ticks)
      /\ \A i \in 1 .. Len(ticks') : ticks'[i] = ticks[i + 1] /\ i + 1 \in 1 .. Len(ticks)
  <2> HIDE DEF Queued
  <2>1. Len(ticks) \in Nat /\ Len(ticks) # 0 /\ ticks' \in Seq(Queued)
    BY <1>1, EmptySeq, HeadTailProperties
  <2>2. Head(ticks) = ticks[1] /\ 1 \in 1 .. Len(ticks) /\ ticks[1] \in Queued
    BY <1>1, <2>1
  <2>3. \A i \in 1 .. Len(ticks') : ticks'[i] = ticks[i + 1] /\ i + 1 \in 1 .. Len(ticks)
    BY <1>1, <2>1, SMTT(30)
  <2> QED
    BY <2>1, <2>2, <2>3
<1>3. AppCalls' /\ App!ListensKnowingly'
  BY <1>1 DEF AppInv, AppCalls, App!ListensKnowingly
<1>4. CASE Head(ticks).what = "setup"
  <2>1. Head(ticks).binding = 1 /\ setup[1] = "queued"
    BY <1>2, <1>4 DEF AppInv, AppSetup
  <2>2. setup' = [setup EXCEPT ![1] = "binding"] /\ runs' = runs
    BY <1>4, <2>1
  <2>3. App!TypeOK'
    <3>1. setup' \in [App!Bindings -> {"none", "queued", "binding", "done", "failing", "failed"}]
      BY <2>2 DEF AppInv, App!TypeOK
    <3>2. runs' = runs /\ ticks' \in Seq(Queued) /\ turn' = turn
      BY <1>1, <1>2, <2>2
    <3> QED
      BY <1>1, <3>1, <3>2 DEF AppInv, App!TypeOK
  <2>4. \A i \in 1 .. Len(ticks') : ticks'[i].what # "setup"
    BY <1>2, <1>4 DEF AppInv, AppSetup
  <2>5. AppSetup'
    BY <1>1, <2>1, <2>2, <2>4, BoundOnce DEF AppInv, App!TypeOK, AppSetup
  <2> QED
    BY <1>3, <2>3, <2>5 DEF AppInv
<1>5. CASE Head(ticks).what # "setup"
  <2>1. App!Emit(Head(ticks).what) /\ setup' = setup
    BY <1>5
  <2>2. App!TypeOK'
    BY <1>1, <1>2, <2>1 DEF AppInv, App!TypeOK, App!Emit
  <2>3. AppSetup'
    BY <1>1, <1>2, <2>1 DEF AppInv, AppSetup
  <2> QED
    BY <1>3, <2>2, <2>3 DEF AppInv
<1> QED
  BY <1>4, <1>5

LEMMA NextAppInv ==
  ASSUME AppInv, [App!Next]_App!vars
  PROVE  AppInv'
<1>1. ASSUME NEW how \in {"start", "run"}, App!Start(how)
      PROVE  AppInv'
  BY <1>1, AppStarts
<1>2. ASSUME NEW n \in App!Bindings,
             \/ App!BindSucceeds(n) \/ App!BindFails(n) \/ App!SetupErrs(n)
             \/ App!ServerCloses(n)
      PROVE  AppInv'
  BY <1>2, AppBinds, AppCloses
<1>3. ASSUME NEW c \in AppCallers,
             \/ App!Stop(c) \/ App!StopGoesOn(c)
             \/ App!StopSucceeds(c) \/ App!StopFails(c)
      PROVE  AppInv'
  BY <1>3, AppStops
<1>4. CASE App!Tick
  BY <1>4, AppTicks
<1>5. CASE App!NextTurn \/ UNCHANGED App!vars
  <2>1. /\ UNCHANGED <<status, active, last, host, setup, server, calls, onStops, runs, ticks>>
        /\ turn' \in {turn, "jobs", "ticks"}
    BY <1>5 DEF App!NextTurn, App!vars, App!statusVars, App!bindingVars
  <2>2. App!TypeOK'
    BY <2>1 DEF AppInv, App!TypeOK
  <2>3. AppSetup' /\ AppCalls' /\ App!ListensKnowingly'
    BY <2>1 DEF AppInv, AppSetup, AppCalls, App!ListensKnowingly
  <2> QED
    BY <2>2, <2>3 DEF AppInv
<1> QED
  BY <1>1, <1>2, <1>3, <1>4, <1>5 DEF App!Next

\* An event waits to be emitted.
EventQueued == \E i \in 1 .. Len(ticks) : ticks[i].what # "setup"

\* What an end leaves to run, until it was heard.
AppEnds ==
  /\ status = "binding" => setup[1] \in {"queued", "binding"}
  /\ status = "unbinding" => \E c \in AppCallers : calls[c].at = "stopping"
  /\ status = "unbound" => last = 0 \/ server[1] = "closed"
  /\ server[1] = "closed" => status \in {"unbound", "error"}
  /\ runs[1] = "waiting" /\ App!Over(1) => EventQueued \/ setup[1] = "failing"
  /\ \A c \in AppCallers : calls[c].at = "returned" /\ calls[c].binding = 1 =>
       App!Over(1) \/ status = "unbinding"
  /\ \A c \in AppCallers : calls[c].at = "idle" => calls[c].binding = 0

LEMMA InitAppEnds == App!Init => AppEnds
  BY BoundOnce DEF App!Init, AppEnds, App!Over

LEMMA QueuedStays ==
  ASSUME AppInv, NEW e \in {"unbound", "error"}, ticks' = Append(ticks, App!QueuedTick(e, 0))
  PROVE  EventQueued'
<1>1. ticks \in Seq([what : {"setup", "unbound", "error"}, binding : {0} \cup App!Bindings])
  BY DEF AppInv, App!TypeOK
<1>2. ticks'[Len(ticks) + 1] = App!QueuedTick(e, 0) /\ Len(ticks') = Len(ticks) + 1
      /\ Len(ticks) \in Nat
  BY <1>1
<1>3. Len(ticks) + 1 \in 1 .. Len(ticks') /\ App!QueuedTick(e, 0).what # "setup"
  BY <1>2 DEF App!QueuedTick
<1> QED
  BY <1>2, <1>3 DEF EventQueued

LEMMA UnbindIsQueued ==
  ASSUME AppInv, App!Unbind
  PROVE  EventQueued' \/ (status = "unbound" /\ UNCHANGED <<status, active, ticks>>)
  BY QueuedStays DEF App!Unbind, App!statusVars

LEMMA AppStartsOrBinds ==
  ASSUME AppInv, AppEnds,
         \/ \E how \in {"start", "run"} : App!Start(how)
         \/ \E n \in App!Bindings : App!BindSucceeds(n) \/ App!BindFails(n) \/ App!SetupErrs(n)
  PROVE  AppEnds'
<1> USE DEF AppEnds, App!Over
<1>1. ASSUME NEW how \in {"start", "run"}, App!Start(how)
      PROVE  AppEnds'
  <2> USE <1>1 DEF App!Start
  <2>1. last = 0 /\ last' = 1 /\ status' = "binding"
    BY BoundOnce DEF AppInv, App!TypeOK
  <2>2. setup' = [setup EXCEPT ![1] = "queued"] /\ UNCHANGED <<server, calls>>
    BY <2>1
  <2>3. setup'[1] = "queued" /\ server'[1] = "none"
    BY <2>1, <2>2, BoundOnce DEF AppInv, App!TypeOK, AppSetup
  <2>4. ASSUME NEW c \in AppCallers, calls[c].at = "returned"
        PROVE  calls[c].binding # 1 \/ App!Over(1)
    <3>1. status = "unbound" /\ server[1] = "none" /\ setup[1] = "none"
      BY <2>1 DEF AppInv, AppSetup
    <3> QED
      BY <2>4, <3>1
  <2>5. \A c \in AppCallers : calls[c].at = "returned" => calls[c].binding # 1
    BY <2>1, <2>4 DEF AppInv, AppSetup
  <2> QED
    BY <2>1, <2>2, <2>3, <2>5
<1>2. ASSUME NEW n \in App!Bindings, App!BindSucceeds(n)
      PROVE  AppEnds'
  <2> USE <1>2 DEF App!BindSucceeds, App!Opens
  <2>1. n = 1 /\ status = "binding" /\ server[1] = "none"
    BY BoundOnce DEF AppInv, AppSetup
  <2>2. /\ status' = "bound" /\ server'[1] = "open" /\ setup'[1] \in {"done", "failing"}
        /\ UNCHANGED <<calls, last>>
    BY <2>1, BoundOnce DEF AppInv, App!TypeOK
  <2>3. ~App!Over(1)
    BY <2>1
  <2> QED
    BY <2>1, <2>2, <2>3
<1>3. ASSUME NEW n \in App!Bindings, App!BindFails(n)
      PROVE  AppEnds'
  <2> USE <1>3 DEF App!BindFails
  <2>1. n = 1 /\ status' = "error" /\ setup'[1] = "failing" /\ server[1] = "none" /\ UNCHANGED server
    BY BoundOnce DEF AppInv, App!TypeOK, AppSetup
  <2> QED
    BY <2>1
<1>4. ASSUME NEW n \in App!Bindings, App!SetupErrs(n)
      PROVE  AppEnds'
  <2> USE <1>4 DEF App!SetupErrs, App!statusVars
  <2>1. n = 1 /\ setup[1] = "failing" /\ setup'[1] = "failed"
        /\ UNCHANGED <<status, calls, server, last>>
    BY BoundOnce DEF AppInv, App!TypeOK
  <2>2. runs'[1] # "waiting"
    BY BoundOnce DEF AppInv, App!TypeOK, App!Emit
  <2> QED
    BY <2>1, <2>2
<1> QED
  BY <1>1, <1>2, <1>3, <1>4

LEMMA AppClosesKnowingly ==
  ASSUME AppInv, AppEnds, NEW n \in App!Bindings, App!ServerCloses(n)
  PROVE  AppEnds'
<1> USE DEF App!ServerCloses, App!Closes, App!bindingVars
<1>1. n = 1 /\ server[1] = "open" /\ App!Unbind /\ status # "unbound"
  BY BoundOnce DEF AppInv, App!ListensKnowingly
<1>2. server'[1] = "closed" /\ status' = "unbound" /\ EventQueued'
  BY <1>1, BoundOnce, AppUnbinds, UnbindIsQueued DEF AppInv, App!TypeOK
<1> QED
  BY <1>2 DEF AppEnds, App!Over

LEMMA AppStopsKnowingly ==
  ASSUME AppInv, AppEnds, NEW c \in AppCallers,
         App!Stop(c) \/ App!StopGoesOn(c) \/ App!StopSucceeds(c) \/ App!StopFails(c)
  PROVE  AppEnds'
<1> USE DEF App!At, App!bindingVars, App!Returned, App!Over
<1> DEFINE Call == [at : {"idle", "waiting", "stopping", "returned"},
                    binding : {0} \cup App!Bindings]
<1>0. calls \in [AppCallers -> Call]
  BY DEF AppInv, App!TypeOK
<1> HIDE DEF Call
<1>1. CASE App!Stop(c)
  <2> USE <1>1 DEF App!Stop, App!statusVars
  <2>1. UNCHANGED <<status, active, last, host, setup, server, runs, ticks>>
    OBVIOUS
  <2>2. /\ \A d \in AppCallers : d # c => calls'[d] = calls[d]
        /\ calls[c].at = "idle"
        /\ calls'[c].at = "waiting" \/ (calls'[c].at = "returned" /\ calls'[c].binding = calls[c].binding)
    BY <1>0 DEF Call
  <2>3. \A d \in AppCallers : calls[d].at = "stopping" => calls'[d].at = "stopping"
    BY <2>2
  <2>4. \A d \in AppCallers : calls'[d].at = "returned" /\ calls'[d].binding = 1 =>
          calls[d].at = "returned" /\ calls[d].binding = 1
    BY <2>2 DEF AppEnds
  <2>5. \A d \in AppCallers : calls'[d].at = "idle" => calls'[d].binding = 0
    BY <2>2 DEF AppEnds
  <2> QED
    BY <2>1, <2>3, <2>4, <2>5 DEF AppEnds, EventQueued
<1>2. CASE App!StopGoesOn(c)
  <2> USE <1>2 DEF App!StopGoesOn
  <2>1. calls[c].binding = 1 /\ host[1] = "resolved" /\ last # 0
        /\ setup[1] \notin {"queued", "binding"}
    BY DEF AppInv, AppCalls, AppSetup
  <2>2. UNCHANGED <<active, last, host, setup, server, runs, ticks>>
    OBVIOUS
  <2>3. CASE status # "bound"
    <3>1. status' = status
          /\ \A d \in AppCallers : d # c => calls'[d] = calls[d]
      BY <1>0, <2>3
    <3>2. calls'[c].at = "returned"
      BY <1>0, <2>3 DEF Call
    <3>3. App!Over(1) \/ status = "unbinding"
      BY <2>1, <2>3 DEF AppEnds, AppInv, App!TypeOK
    <3>4. \A d \in AppCallers : calls[d].at = "stopping" => calls'[d].at = "stopping"
      BY <3>1
    <3>5. \A d \in AppCallers : calls'[d].at = "idle" => calls'[d].binding = 0
      BY <3>1, <3>2 DEF AppEnds
    <3>6. \A d \in AppCallers : calls'[d].at = "returned" => d = c \/ calls'[d] = calls[d]
      BY <3>1
    <3>7. App!Over(1)' <=> App!Over(1)
      BY <2>2, <3>1
    <3>8. \A d \in AppCallers : calls'[d].at = "returned" /\ calls'[d].binding = 1 =>
            App!Over(1) \/ status = "unbinding"
      BY <3>3, <3>6 DEF AppEnds
    <3>9. status' = "unbinding" => \E d \in AppCallers : calls'[d].at = "stopping"
      BY <3>1, <3>4 DEF AppEnds
    <3>10. runs'[1] = "waiting" /\ App!Over(1)' => EventQueued' \/ setup'[1] = "failing"
      BY <2>2, <3>1, <3>7 DEF AppEnds, EventQueued
    <3>11. \A d \in AppCallers : calls'[d].at = "returned" /\ calls'[d].binding = 1 =>
             App!Over(1)' \/ status' = "unbinding"
      BY <3>1, <3>7, <3>8
    <3>12. /\ status' = "binding" => setup'[1] \in {"queued", "binding"}
           /\ status' = "unbound" => last' = 0 \/ server'[1] = "closed"
           /\ server'[1] = "closed" => status' \in {"unbound", "error"}
      BY <2>2, <3>1 DEF AppEnds
    <3> QED
      BY <3>5, <3>9, <3>10, <3>11, <3>12 DEF AppEnds
  <2>4. CASE status = "bound"
    <3>1. status' = "unbinding" /\ calls'[c].at = "stopping"
      BY <1>0, <2>4 DEF Call
    <3>2. server[1] # "closed"
      BY <2>4 DEF AppEnds
    <3>3. /\ \A d \in AppCallers : d # c => calls'[d] = calls[d]
          /\ UNCHANGED <<last, setup, server, runs, ticks>>
      BY <1>0, <2>2, <2>4
    <3>4. /\ \A d \in AppCallers : calls'[d].at = "idle" => calls'[d].binding = 0
          /\ App!Over(1)' => App!Over(1)
      BY <3>1, <3>2, <3>3 DEF AppEnds
    <3>5. runs'[1] = "waiting" /\ App!Over(1)' => EventQueued' \/ setup'[1] = "failing"
      BY <3>3, <3>4 DEF AppEnds, EventQueued
    <3> QED
      BY <3>1, <3>2, <3>3, <3>4, <3>5 DEF AppEnds
  <2> QED
    BY <2>3, <2>4
<1>3. CASE App!StopSucceeds(c)
  <2> USE <1>3 DEF App!StopSucceeds
  <2>1. server[1] = "closed" /\ UNCHANGED <<last, host, setup, server, runs>>
    BY DEF AppInv, AppCalls
  <2>2. status' = "unbound"
    BY AppUnbinds
  <2>3. runs[1] = "waiting" => EventQueued' \/ setup[1] = "failing"
    BY <2>1, UnbindIsQueued DEF AppEnds, EventQueued
  <2> QED
    BY <2>1, <2>2, <2>3 DEF AppEnds
<1>4. CASE App!StopFails(c)
  <2> USE <1>4 DEF App!StopFails
  <2>1. status' = "error" /\ EventQueued'
    BY QueuedStays
  <2> QED
    BY <2>1 DEF AppEnds
<1> QED
  BY <1>1, <1>2, <1>3, <1>4

LEMMA AppTicksKnowingly ==
  ASSUME AppInv, AppEnds, App!Tick
  PROVE  AppEnds'
<1> USE DEF App!Tick, App!statusVars, App!Over
<1>1. ticks \in Seq([what : {"setup", "unbound", "error"}, binding : {0} \cup App!Bindings])
      /\ ticks # <<>> /\ ticks' = Tail(ticks)
      /\ UNCHANGED <<status, last, server, calls>>
  BY DEF AppInv, App!TypeOK
<1>2. Len(ticks) \in Nat /\ Len(ticks) # 0 /\ Head(ticks) = ticks[1] /\ 1 \in 1 .. Len(ticks)
  BY <1>1, EmptySeq, HeadTailProperties
<1>3. CASE Head(ticks).what = "setup"
  <2>1. Head(ticks).binding = 1 /\ setup[1] = "queued"
    BY <1>2, <1>3 DEF AppInv, AppSetup
  <2>2. setup' = [setup EXCEPT ![1] = "binding"] /\ runs' = runs
    BY <1>3, <2>1
  <2>3. setup'[1] = "binding"
    BY <2>2, BoundOnce DEF AppInv, App!TypeOK
  <2>4. status = "binding" /\ server[1] = "none"
    BY <2>1 DEF AppInv, AppSetup
  <2>5. ~App!Over(1)'
    BY <1>1, <2>3, <2>4
  <2>6. ~App!Over(1)
    BY <2>1, <2>4
  <2> QED
    BY <1>1, <2>3, <2>4, <2>5, <2>6 DEF AppEnds
<1>4. CASE Head(ticks).what # "setup"
  <2>1. App!Emit(Head(ticks).what) /\ setup' = setup
    BY <1>4
  <2>2. runs'[1] # "waiting"
    BY <2>1, BoundOnce DEF App!Emit, AppInv, App!TypeOK
  <2> QED
    BY <1>1, <2>1, <2>2 DEF AppEnds
<1> QED
  BY <1>3, <1>4

LEMMA NextAppEnds ==
  ASSUME AppInv, AppEnds, [App!Next]_App!vars
  PROVE  AppEnds'
<1>1. CASE App!NextTurn \/ UNCHANGED App!vars
  BY <1>1 DEF App!NextTurn, App!vars, App!statusVars, App!bindingVars, AppEnds, App!Over,
              EventQueued
<1> QED
  BY <1>1, AppStartsOrBinds, AppClosesKnowingly, AppStopsKnowingly, AppTicksKnowingly
     DEF App!Next

\* Whoever closes the server of an app or stops it, and in any order, the app
\* knows, whoever awaits its run hears of it, and no stop leaves it running.
THEOREM AppHearsItsEnd == AppSpec => []AppEndIsHeard
<1>1. App!Init => AppInv /\ AppEnds
  BY InitAppInv, InitAppEnds
<1>2. AppInv /\ AppEnds /\ [App!Next]_App!vars => (AppInv /\ AppEnds)'
  BY NextAppInv, NextAppEnds
<1>3. ASSUME AppInv, AppEnds
      PROVE  AppEndIsHeard
  <2>1. ASSUME AppRests
        PROVE  /\ ~EventQueued /\ setup[1] # "failing"
               /\ \A c \in AppCallers : calls[c].at # "stopping"
    <3>1. \A i \in 1 .. 0 : FALSE
      OBVIOUS
    <3>2. ~EventQueued
      BY <2>1, <3>1 DEF AppRests, EventQueued
    <3> QED
      BY <2>1, <3>2, BoundOnce DEF AppRests, App!JobQueued, App!At
  <2> QED
    BY <1>3, <2>1 DEF AppEnds, AppEndIsHeard, App!At
<1> QED
  BY <1>1, <1>2, <1>3, PTL DEF AppSpec, App!Spec

-----------------------------------------------------------------------------
(* Errors *)

Count == Cardinality(Errs)

\* Causes are higher errors, a status wraps one, and standard errors have codes.
Shaped ==
  \A e \in Errs :
    /\ err[e].causes \in Seq(Errs)
    /\ \A i \in 1 .. Len(err[e].causes) : e < err[e].causes[i]
    /\ isStatusError(e) => Len(err[e].causes) = 1
    /\ isStandardError(e) => err[e].code \in ErrorCodes

LEMMA ErrsAreNumbers == Count \in Nat /\ Errs = 1 .. Count /\ 1 \in Errs
  BY ErrorsAssumption, FS_CardinalityType DEF Count

LEMMA InitShaped ==
  ASSUME ErrorsInit, ~Cyclic
  PROVE  Shaped
<1>1. err \in [Errs -> Shapes(Errs \ {1})]
      /\ \A e \in Errs : \A c \in ErrorSeqs!ToSet(err[e].causes) : c > e
  BY DEF ErrorsInit
<1> SUFFICES ASSUME NEW e \in Errs
             PROVE  /\ err[e].causes \in Seq(Errs)
                    /\ \A i \in 1 .. Len(err[e].causes) : e < err[e].causes[i]
                    /\ isStatusError(e) => Len(err[e].causes) = 1
                    /\ isStandardError(e) => err[e].code \in ErrorCodes
  BY DEF Shaped
<1> DEFINE es == Errs \ {1}
<1>2. err[e] \in Shapes(es)
  BY <1>1
<1>3. /\ err[e].causes \in Seq(Errs)
      /\ isStatusError(e) => Len(err[e].causes) = 1
      /\ isStandardError(e) => err[e].code \in ErrorCodes
  <2> USE DEF isStatusError, isStandardError
  <2>1. CASE err[e] \in [kind : {"standard"}, code : ErrorCodes \ {Coerced},
                         causes : {cs \in ErrorSeqs!SeqOf(es, 2) : ErrorSeqs!IsInjective(cs)}]
    <3>1. err[e].kind = "standard" /\ err[e].code \in ErrorCodes
          /\ err[e].causes \in ErrorSeqs!SeqOf(es, 2)
      BY <2>1
    <3>2. PICK m \in 0 .. 2 : err[e].causes \in [1 .. m -> es]
      BY <3>1 DEF ErrorSeqs!SeqOf
    <3>3. err[e].causes \in Seq(Errs)
      BY <3>2
    <3> QED
      BY <3>1, <3>3
  <2>2. CASE err[e] \in [kind : {"status"}, status : UsedStatuses, causes : {<<c>> : c \in es}]
    <3>1. err[e].kind = "status" /\ err[e].causes \in {<<c>> : c \in es}
      BY <2>2
    <3>2. PICK c \in es : err[e].causes = <<c>>
      BY <3>1
    <3> QED
      BY <3>1, <3>2
  <2> DEFINE atMostOne == {<<>>} \cup {<<c>> : c \in es}
  <2>3. ASSUME err[e].causes \in atMostOne
        PROVE  err[e].causes \in Seq(Errs)
    <3>1. CASE err[e].causes = <<>>
      BY <3>1
    <3>2. ASSUME NEW c \in es, err[e].causes = <<c>>
          PROVE  err[e].causes \in Seq(Errs)
      BY <3>2
    <3> QED
      BY <2>3, <3>1, <3>2
  <2> HIDE DEF atMostOne
  <2>5. CASE err[e] \in [kind : {"standard"}, code : ErrorCodes \cap {Coerced}, causes : atMostOne]
    <3>1. err[e].kind = "standard" /\ err[e].code \in ErrorCodes /\ err[e].causes \in atMostOne
      BY <2>5
    <3> QED
      BY <2>3, <3>1
  <2>6. CASE err[e] \in [kind : {"graphql"}, coded : BOOLEAN, causes : atMostOne]
    <3>1. err[e].kind = "graphql" /\ err[e].causes \in atMostOne
      BY <2>6
    <3> QED
      BY <2>3, <3>1
  <2>4. CASE err[e] \in [kind : {"error", "value"}, causes : {<<>>}]
    <3>1. err[e].kind \in {"error", "value"} /\ err[e].causes = <<>>
      BY <2>4
    <3> QED
      BY <3>1
  <2> QED
    BY <1>2, <2>1, <2>2, <2>4, <2>5, <2>6 DEF Shapes, atMostOne
<1>4. ASSUME NEW i \in 1 .. Len(err[e].causes)
      PROVE  e < err[e].causes[i]
  <2>1. i \in DOMAIN err[e].causes /\ err[e].causes[i] \in Errs
    BY <1>3, <1>4
  <2>2. err[e].causes[i] \in ErrorSeqs!ToSet(err[e].causes)
    BY <2>1 DEF ErrorSeqs!ToSet
  <2>3. err[e].causes[i] > e
    BY <1>1, <2>2
  <2> QED
    BY <2>1, <2>3, ErrsAreNumbers
<1> QED
  BY <1>3, <1>4

-----------------------------------------------------------------------------
\* The functions over errors, as what they choose.
CausesIn(er, e) == IF er[e].kind = "graphql" THEN <<>> ELSE er[e].causes

ContentsFrom(W, er) ==
  [e \in Errs |-> IF er[e].kind = "status" THEN W[CausesIn(er, e)[1]] ELSE e]
Contents(er) == CHOOSE W : W = ContentsFrom(W, er)

OriginalsFrom(W, er) ==
  [e \in Errs |-> IF ~ (er[e].kind = "graphql" \/ (er[e].kind = "standard" /\ er[e].code = Coerced))
                  THEN e
                  ELSE IF er[e].causes = <<>> THEN NoError ELSE W[er[e].causes[1]]]
Originals(er) == CHOOSE W : W = OriginalsFrom(W, er)

NothingFrom(W, er) ==
  [e \in Errs |-> /\ ~ (/\ ~ (er[e].kind = "graphql")
                        /\ ~ (er[e].kind = "standard" /\ er[e].code = Coerced))
                  /\ er[e].causes # <<>> => W[er[e].causes[1]]]
WrappingNothing(er) == CHOOSE W : W = NothingFrom(W, er)

LEMMA AreChosen ==
  /\ findContents = Contents(err) /\ originalError = Originals(err)
  /\ WrapsNothing = WrappingNothing(err)
<1>1. findContents = Contents(err)
  BY DEF findContents, Contents, ContentsFrom, CausesIn, CausesOf, isStatusError, isGraphqlError
<1>2. originalError = Originals(err)
  BY DEF originalError, Originals, OriginalsFrom, IsWrapper, isGraphqlError, isCoerced,
         isStandardError
<1>3. WrapsNothing = WrappingNothing(err)
  BY DEF WrapsNothing, WrappingNothing, NothingFrom, IsSource, isGraphqlError, isCoerced,
         isStandardError
<1> QED
  BY <1>1, <1>2, <1>3

\* The contents of an error are one which wraps none.
LEMMA ContentsAreRight ==
  ASSUME Shaped, NEW e \in Errs
  PROVE  /\ findContents[e] \in Errs /\ ~isStatusError(findContents[e])
         /\ ~isStatusError(e) => findContents[e] = e
<1> DEFINE W == findContents
           ends == {c \in 1 .. Count : ~isStatusError(c)}
           out == [c \in 1 .. Count |-> c]
           next == [c \in 1 .. Count |-> IF isStatusError(c) THEN err[c].causes[1] ELSE c]
<1>1. Count \in Nat /\ Errs = 1 .. Count
  BY ErrsAreNumbers
<1>2. \A c \in Errs : isStatusError(c) =>
        CausesIn(err, c) = err[c].causes /\ err[c].causes[1] \in Errs /\ c < err[c].causes[1]
  BY DEF Shaped, isStatusError, CausesIn
<1>3. Ascending(Count, Errs, ends, out, next)
  <2>1. \A c \in 1 .. Count : c \notin ends => isStatusError(c)
    OBVIOUS
  <2>2. out \in [1 .. Count -> Errs] /\ next \in [1 .. Count -> 1 .. Count]
        /\ \A c \in 1 .. Count : c \notin ends => c < next[c]
    BY <1>1, <1>2, <2>1
  <2> HIDE DEF ends, out, next
  <2> QED
    BY <1>1, <2>2 DEF Ascending
<1>4. PICK f \in [1 .. Count -> Errs] : Climbs(f, Count, ends, out, next)
  <2> HIDE DEF ends, out, next
  <2> QED
    BY <1>3, Ascends
<1>5. f = ContentsFrom(f, err)
  <2>1. \A c \in Errs : f[c] = IF err[c].kind = "status" THEN f[CausesIn(err, c)[1]] ELSE c
    BY <1>1, <1>2, <1>4 DEF Climbs, isStatusError
  <2> QED
    BY <1>1, <1>4, <2>1 DEF ContentsFrom
<1>6. W = ContentsFrom(W, err)
  BY <1>5, AreChosen DEF Contents
<1> HIDE DEF W
<1>7. \A c \in Errs : W[c] = IF isStatusError(c) THEN W[err[c].causes[1]] ELSE c
  BY <1>2, <1>6 DEF ContentsFrom, isStatusError
<1> DEFINE Bad == {c \in 1 .. Count : ~ (W[c] \in Errs /\ ~isStatusError(W[c]))}
<1>8. Bad = {}
  <2> SUFFICES ASSUME Bad # {}
               PROVE  FALSE
    OBVIOUS
  <2>1. PICK c \in Bad : \A d \in Bad : d <= c
    <3>1. Bad \subseteq 1 .. Count
      OBVIOUS
    <3> HIDE DEF Bad
    <3> QED
      BY <1>1, <3>1, LargestOf
  <2>2. c \in Errs /\ isStatusError(c)
    BY <1>1, <1>7, <2>1
  <2>3. err[c].causes[1] \in 1 .. Count /\ ~ (err[c].causes[1] <= c)
    BY <1>1, <1>2, <2>2
  <2>4. err[c].causes[1] \notin Bad
    <3> HIDE DEF Bad
    <3> QED
      BY <2>1, <2>3
  <2> QED
    BY <1>7, <2>1, <2>2, <2>3, <2>4
<1> QED
  BY <1>1, <1>7, <1>8 DEF W

LEMMA FirstCause ==
  ASSUME Shaped, NEW c \in Errs, err[c].causes # <<>>
  PROVE  err[c].causes[1] \in Errs /\ c < err[c].causes[1]
<1>1. err[c].causes \in Seq(Errs)
  BY DEF Shaped
<1>2. 1 \in 1 .. Len(err[c].causes)
  BY <1>1
<1> QED
  BY <1>1, <1>2 DEF Shaped

\* What is under the wrappers, as the recursion has it.
LEMMA OriginalIs ==
  ASSUME Shaped
  PROVE  \A c \in Errs : originalError[c] = IF ~IsWrapper(c) THEN c
                         ELSE IF err[c].causes = <<>> THEN NoError
                         ELSE originalError[err[c].causes[1]]
<1> DEFINE S == Errs \cup {NoError}
           ends == {c \in 1 .. Count : ~IsWrapper(c) \/ err[c].causes = <<>>}
           out == [c \in 1 .. Count |-> IF ~IsWrapper(c) THEN c ELSE NoError]
           next == [c \in 1 .. Count |-> IF c \in ends THEN c ELSE err[c].causes[1]]
<1>1. Count \in Nat /\ Errs = 1 .. Count
  BY ErrsAreNumbers
<1>2. \A c \in Errs : err[c].causes # <<>> =>
        err[c].causes[1] \in Errs /\ c < err[c].causes[1]
  BY FirstCause
<1>3. Ascending(Count, S, ends, out, next)
  <2>1. \A c \in 1 .. Count : c \notin ends => err[c].causes # <<>>
    OBVIOUS
  <2>2. out \in [1 .. Count -> S]
    BY <1>1
  <2>3. next \in [1 .. Count -> 1 .. Count]
        /\ \A c \in 1 .. Count : c \notin ends => c < next[c]
    <3> HIDE DEF ends
    <3> QED
      BY <1>1, <1>2, <2>1
  <2> HIDE DEF ends, out, next, S
  <2> QED
    BY <1>1, <2>2, <2>3 DEF Ascending
<1>4. PICK f \in [1 .. Count -> S] : Climbs(f, Count, ends, out, next)
  <2> HIDE DEF ends, out, next, S
  <2> QED
    BY <1>3, Ascends
<1>5. f = OriginalsFrom(f, err)
  <2>1. \A c \in Errs : f[c] = IF ~IsWrapper(c) THEN c
                               ELSE IF err[c].causes = <<>> THEN NoError ELSE f[err[c].causes[1]]
    BY <1>1, <1>4 DEF Climbs
  <2> QED
    BY <1>1, <1>4, <2>1 DEF OriginalsFrom, IsWrapper, isGraphqlError, isCoerced, isStandardError
<1> DEFINE W == originalError
<1>6. W = OriginalsFrom(W, err)
  BY <1>5, AreChosen DEF Originals
<1> HIDE DEF W
<1>7. \A c \in Errs : W[c] = IF ~IsWrapper(c) THEN c
                             ELSE IF err[c].causes = <<>> THEN NoError ELSE W[err[c].causes[1]]
  BY <1>6 DEF OriginalsFrom, IsWrapper, isGraphqlError, isCoerced, isStandardError
<1> QED
  BY <1>7 DEF W

LEMMA WrapsNothingIs ==
  ASSUME Shaped
  PROVE  \A c \in Errs : WrapsNothing[c] =
           (~IsSource(c) /\ (err[c].causes # <<>> => WrapsNothing[err[c].causes[1]]))
<1> DEFINE ends == {c \in 1 .. Count : IsSource(c) \/ err[c].causes = <<>>}
           out == [c \in 1 .. Count |-> ~IsSource(c)]
           next == [c \in 1 .. Count |-> IF c \in ends THEN c ELSE err[c].causes[1]]
<1>1. Count \in Nat /\ Errs = 1 .. Count
  BY ErrsAreNumbers
<1>2. \A c \in Errs : err[c].causes # <<>> =>
        err[c].causes[1] \in Errs /\ c < err[c].causes[1]
  BY FirstCause
<1>3. Ascending(Count, BOOLEAN, ends, out, next)
  <2>1. \A c \in 1 .. Count : c \notin ends => err[c].causes # <<>>
    OBVIOUS
  <2>2. out \in [1 .. Count -> BOOLEAN]
    BY Zenon DEF IsSource
  <2>3. next \in [1 .. Count -> 1 .. Count]
        /\ \A c \in 1 .. Count : c \notin ends => c < next[c]
    <3> HIDE DEF ends
    <3> QED
      BY <1>1, <1>2, <2>1
  <2> HIDE DEF ends, out, next
  <2> QED
    BY <1>1, <2>2, <2>3 DEF Ascending
<1>4. PICK f \in [1 .. Count -> BOOLEAN] : Climbs(f, Count, ends, out, next)
  <2> HIDE DEF ends, out, next
  <2> QED
    BY <1>3, Ascends
<1>5. f = NothingFrom(f, err)
  <2>1. \A c \in Errs : f[c] =
          (~IsSource(c) /\ (err[c].causes # <<>> => f[err[c].causes[1]]))
    <3>1. \A c \in 1 .. Count : f[c] \in BOOLEAN
      BY <1>4
    <3>2. ASSUME NEW c \in Errs
          PROVE  f[c] = (~IsSource(c) /\ (err[c].causes # <<>> => f[err[c].causes[1]]))
      <4>1. CASE c \in ends
        <5>1. f[c] = ~IsSource(c)
          BY <1>1, <1>4, <4>1, Zenon DEF Climbs
        <5> QED
          BY <4>1, <5>1, Zenon
      <4>2. CASE c \notin ends
        <5>1. f[c] = f[err[c].causes[1]] /\ ~IsSource(c) /\ err[c].causes # <<>>
          BY <1>1, <1>4, <4>2, Zenon DEF Climbs
        <5>2. f[err[c].causes[1]] \in BOOLEAN
          BY <1>1, <1>2, <3>1, <5>1, Zenon
        <5> QED
          BY <5>1, <5>2, Zenon
      <4> QED
        BY <4>1, <4>2
    <3> QED
      BY <3>2, Zenon
  <2> QED
    BY <1>1, <1>4, <2>1 DEF NothingFrom, IsSource, isGraphqlError, isCoerced, isStandardError
<1> DEFINE W == WrapsNothing
<1>6. W = NothingFrom(W, err)
  BY <1>5, AreChosen DEF WrappingNothing
<1> HIDE DEF W
<1>7. \A c \in Errs : W[c] =
        (~IsSource(c) /\ (err[c].causes # <<>> => W[err[c].causes[1]]))
  BY <1>6, Zenon DEF NothingFrom, IsSource, isGraphqlError, isCoerced, isStandardError
<1> QED
  BY <1>7 DEF W

\* Under the wrappers is a source, or nothing if there are only wrappers.
LEMMA SourceIsRead ==
  ASSUME Shaped, NEW e \in Errs
  PROVE  /\ originalError[e] \in Errs \cup {NoError}
         /\ IF originalError[e] = NoError THEN WrapsNothing[e]
            ELSE IsSource(originalError[e]) /\ ~WrapsNothing[e]
<1> DEFINE W == originalError
           Right(c) == /\ W[c] \in Errs \cup {NoError}
                       /\ IF W[c] = NoError THEN WrapsNothing[c]
                          ELSE IsSource(W[c]) /\ ~WrapsNothing[c]
           Bad == {c \in 1 .. Count : ~Right(c)}
<1>1. Count \in Nat /\ Errs = 1 .. Count
  BY ErrsAreNumbers
<1>2. \A c \in Errs : IsWrapper(c) <=> ~IsSource(c)
  BY DEF IsWrapper, IsSource
<1>3. Bad = {}
  <2> SUFFICES ASSUME Bad # {}
               PROVE  FALSE
    OBVIOUS
  <2>1. PICK c \in Bad : \A d \in Bad : d <= c
    <3>1. Bad \subseteq 1 .. Count
      OBVIOUS
    <3> HIDE DEF Bad
    <3> QED
      BY <1>1, <3>1, LargestOf
  <2>2. c \in Errs /\ ~Right(c)
    BY <1>1, <2>1
  <2>3. /\ W[c] = IF ~IsWrapper(c) THEN c
                  ELSE IF err[c].causes = <<>> THEN NoError ELSE W[err[c].causes[1]]
        /\ WrapsNothing[c] = (~IsSource(c) /\ (err[c].causes # <<>> => WrapsNothing[err[c].causes[1]]))
    BY <2>2, OriginalIs, WrapsNothingIs
  <2> HIDE DEF W
  <2>4. CASE ~IsWrapper(c)
    <3>1. W[c] = c /\ IsSource(c) /\ ~WrapsNothing[c]
      BY <1>2, <2>2, <2>3, <2>4
    <3>2. c # NoError
      BY <1>1, <2>2 DEF NoError
    <3> QED
      BY <2>2, <3>1, <3>2
  <2>5. CASE IsWrapper(c) /\ err[c].causes = <<>>
    <3>1. W[c] = NoError /\ WrapsNothing[c]
      BY <1>2, <2>2, <2>3, <2>5
    <3> QED
      BY <2>2, <3>1
  <2>6. CASE IsWrapper(c) /\ err[c].causes # <<>>
    <3> DEFINE d == err[c].causes[1]
    <3>1. d \in Errs /\ c < d
      BY <2>2, <2>6, FirstCause
    <3>2. d \in 1 .. Count /\ ~ (d <= c)
      BY <1>1, <2>2, <3>1
    <3>3. Right(d)
      <4>1. d \notin Bad
        <5> HIDE DEF Bad, d
        <5> QED
          BY <2>1, <3>2
      <4> HIDE DEF d
      <4> QED
        BY <3>2, <4>1
    <3>4. W[c] = W[d] /\ WrapsNothing[c] = WrapsNothing[d]
      <4>1. W[c] = W[d]
        BY <2>3, <2>6
      <4>2. WrapsNothing[d] \in BOOLEAN
        BY <3>1, WrapsNothingIs
      <4>3. WrapsNothing[c] = WrapsNothing[d]
        BY <1>2, <2>2, <2>3, <2>6, <4>2
      <4> QED
        BY <4>1, <4>3
    <3> QED
      BY <2>2, <3>3, <3>4
  <2> QED
    BY <2>4, <2>5, <2>6
<1>4. Right(e)
  <2>1. e \in 1 .. Count /\ e \notin Bad
    BY <1>1, <1>3
  <2> QED
    BY <2>1
<1> QED
  BY <1>4

\* The search starts from an error, if from any.
LEMMA RootIsAnError ==
  ASSUME Shaped
  PROVE  Root \in Errs \cup {NoError} /\ ReadsTheSource
<1>1. 1 \in Errs
  BY ErrsAreNumbers
<1> QED
  BY <1>1, SourceIsRead DEF Root, ReadsTheSource

-----------------------------------------------------------------------------
(* The tree of causes *)

Node == [error : Errs, path : Seq(Nat)]
Tree == Nodes[Count]

Start(root) == IF root = NoError THEN <<>> ELSE <<[error |-> root, path |-> <<>>]>>
CauseNodesIn(er, node) ==
  [i \in DOMAIN CausesIn(er, node.error) |->
     [error |-> CausesIn(er, node.error)[i], path |-> Append(node.path, i)]]
TreeFrom(W, er, root) ==
  [n \in Nat |->
     IF n = 0 THEN ErrorSeqs!ToSet(Start(root))
     ELSE W[n - 1] \cup UNION {ErrorSeqs!ToSet(CauseNodesIn(er, node)) : node \in W[n - 1]}]
TreeOf(er, root) == CHOOSE W : W = TreeFrom(W, er, root)

LEMMA NodesAreChosen == Nodes = TreeOf(err, Root)
  BY DEF Nodes, TreeOf, TreeFrom, Start, CauseNodesIn, CausesIn, FromRoot, CauseNodes, CausesOf,
         isGraphqlError

\* The causes of a node are nodes one level below it, of higher errors.
LEMMA CausesAreNodes ==
  ASSUME Shaped, NEW node \in Node
  PROVE  /\ CauseNodes(node) \in Seq(Node)
         /\ \A i \in 1 .. Len(CauseNodes(node)) :
              /\ CauseNodes(node)[i].path = Append(node.path, i)
              /\ node.error < CauseNodes(node)[i].error
         /\ ErrorSeqs!ToSet(CauseNodes(node))
              = {CauseNodes(node)[i] : i \in 1 .. Len(CauseNodes(node))}
<1> DEFINE cs == CausesOf(node.error)
<1>1. node.error \in Errs /\ node.path \in Seq(Nat)
  BY DEF Node
<1>2. cs \in Seq(Errs) /\ \A i \in 1 .. Len(cs) : node.error < cs[i]
  BY <1>1 DEF Shaped, CausesOf
<1>3. CauseNodes(node) = [i \in DOMAIN cs |-> [error |-> cs[i], path |-> Append(node.path, i)]]
  BY DEF CauseNodes
<1> HIDE DEF cs
<1>4. DOMAIN cs = 1 .. Len(cs) /\ Len(cs) \in Nat
  BY <1>2
<1>5. \A i \in 1 .. Len(cs) : [error |-> cs[i], path |-> Append(node.path, i)] \in Node
  <2>1. \A i \in 1 .. Len(cs) : cs[i] \in Errs /\ Append(node.path, i) \in Seq(Nat)
    BY <1>1, <1>2
  <2> QED
    BY <2>1 DEF Node
<1>6. CauseNodes(node) \in Seq(Node) /\ Len(CauseNodes(node)) = Len(cs)
  <2> HIDE DEF Node
  <2> QED
    BY <1>3, <1>4, <1>5
<1> QED
  BY <1>2, <1>3, <1>4, <1>6 DEF ErrorSeqs!ToSet

\* The nodes as the recursion has them.
LEMMA NodesGrow ==
  ASSUME Shaped
  PROVE  /\ Nodes[0] = ErrorSeqs!ToSet(FromRoot)
         /\ \A n \in Nat :
              /\ Nodes[n] \subseteq Node
              /\ Nodes[n + 1] = Nodes[n] \cup
                   UNION {ErrorSeqs!ToSet(CauseNodes(node)) : node \in Nodes[n]}
<1> DEFINE S == SUBSET Node
           Grow(W) == W \cup UNION {ErrorSeqs!ToSet(CauseNodes(node)) : node \in W}
           base == ErrorSeqs!ToSet(FromRoot)
           step == [n \in Nat |-> [W \in S |-> Grow(W)]]
<1>1. base \in S
  <2>1. Root \in Errs \cup {NoError}
    BY RootIsAnError
  <2>2. \/ FromRoot = <<>>
        \/ Root \in Errs /\ FromRoot = <<[error |-> Root, path |-> <<>>]>>
    BY <2>1 DEF FromRoot
  <2>3. CASE FromRoot = <<>>
    BY <2>3 DEF ErrorSeqs!ToSet
  <2>4. CASE Root \in Errs /\ FromRoot = <<[error |-> Root, path |-> <<>>]>>
    <3> DEFINE node == [error |-> Root, path |-> <<>>]
    <3>1. node \in Node
      BY <2>4 DEF Node
    <3> HIDE DEF node
    <3>2. FromRoot = <<node>>
      BY <2>4 DEF node
    <3>3. base = {node}
      BY <3>2 DEF ErrorSeqs!ToSet
    <3> QED
      BY <3>1, <3>3
  <2> QED
    BY <2>2, <2>3, <2>4
<1>2. \A W \in S : Grow(W) \in S
  <2> SUFFICES ASSUME NEW W \in S, NEW node \in W
               PROVE  ErrorSeqs!ToSet(CauseNodes(node)) \subseteq Node
    OBVIOUS
  <2>1. node \in Node
    OBVIOUS
  <2> HIDE DEF Node
  <2>2. /\ CauseNodes(node) \in Seq(Node)
        /\ ErrorSeqs!ToSet(CauseNodes(node))
             = {CauseNodes(node)[i] : i \in 1 .. Len(CauseNodes(node))}
    BY <2>1, CausesAreNodes
  <2> QED
    BY <2>2
<1> HIDE DEF base, S
<1>3. step \in [Nat -> [S -> S]]
  <2> HIDE DEF Grow
  <2> QED
    BY <1>2
<1>4. PICK f \in [Nat -> S] : Follows(f, base, step)
  <2> HIDE DEF step
  <2> QED
    BY <1>1, <1>3, Iterates
<1>5. f[0] = base /\ \A n \in Nat : f[n] \in S /\ f[n + 1] = Grow(f[n])
  <2>1. f[0] = base /\ \A n \in Nat : f[n] \in S /\ f[n + 1] = step[n][f[n]]
    BY <1>4 DEF Follows
  <2> HIDE DEF Grow
  <2> QED
    BY <2>1
<1>6. f = TreeFrom(f, err, Root)
  <2>1. \A n \in Nat : f[n] = IF n = 0 THEN base ELSE Grow(f[n - 1])
    <3> HIDE DEF Grow
    <3>1. \A n \in Nat : n # 0 => n - 1 \in Nat /\ (n - 1) + 1 = n
      OBVIOUS
    <3> QED
      BY <1>5, <3>1
  <2>2. f = [n \in Nat |-> IF n = 0 THEN base ELSE Grow(f[n - 1])]
    <3> HIDE DEF Grow
    <3> QED
      BY <1>4, <2>1
  <2> QED
    BY <2>2 DEF base, TreeFrom, Start, CauseNodesIn, CausesIn, FromRoot, CauseNodes, CausesOf,
                isGraphqlError
<1>7. Nodes = TreeFrom(Nodes, err, Root)
  BY <1>6, NodesAreChosen DEF TreeOf
<1>8. Nodes = [n \in Nat |-> IF n = 0 THEN base ELSE Grow(Nodes[n - 1])]
  BY <1>7 DEF base, TreeFrom, Start, CauseNodesIn, CausesIn, FromRoot, CauseNodes, CausesOf,
              isGraphqlError
<1>9. Nodes[0] = base /\ \A n \in Nat : Nodes[n + 1] = Grow(Nodes[n])
  <2> HIDE DEF Grow
  <2> DEFINE W == Nodes
  <2>1. W = [n \in Nat |-> IF n = 0 THEN base ELSE Grow(W[n - 1])]
    BY <1>8
  <2> HIDE DEF W
  <2>2. W[0] = base
    BY <2>1
  <2>3. ASSUME NEW n \in Nat
        PROVE  W[n + 1] = Grow(W[n])
    <3>1. n + 1 \in Nat /\ n + 1 # 0 /\ (n + 1) - 1 = n
      OBVIOUS
    <3>2. W[n + 1] = Grow(W[(n + 1) - 1])
      BY <2>1, <3>1
    <3> QED
      BY <3>1, <3>2
  <2> QED
    BY <2>2, <2>3 DEF W
<1> DEFINE Bad == {n \in Nat : Nodes[n] \notin S}
<1>10. Bad = {}
  <2> SUFFICES ASSUME Bad # {}
               PROVE  FALSE
    OBVIOUS
  <2>1. PICK n \in Bad : \A m \in Bad : n <= m
    <3>1. Bad \subseteq Nat
      OBVIOUS
    <3> HIDE DEF Bad
    <3> QED
      BY <3>1, SmallestOf
  <2>2. n \in Nat /\ Nodes[n] \notin S
    OBVIOUS
  <2>3. n # 0
    BY <1>1, <1>9, <2>2
  <2>4. n - 1 \in Nat /\ (n - 1) + 1 = n /\ ~ (n <= n - 1)
    BY <2>2, <2>3
  <2>5. Nodes[n - 1] \in S
    BY <2>1, <2>4
  <2> HIDE DEF Grow
  <2>6. Nodes[(n - 1) + 1] = Grow(Nodes[n - 1])
    BY <1>9, <2>4
  <2> QED
    BY <1>2, <2>2, <2>4, <2>5, <2>6
<1> QED
  BY <1>9, <1>10 DEF base, S

LEMMA RootIsNode ==
  ASSUME Shaped
  PROVE  /\ FromRoot = <<>> \/ \E node \in Node : node.path = <<>> /\ FromRoot = <<node>>
         /\ \A node \in ErrorSeqs!ToSet(FromRoot) :
              node \in Node /\ node.path = <<>> /\ FromRoot = <<node>>
<1>1. Root \in Errs \cup {NoError}
  BY RootIsAnError
<1>2. \/ FromRoot = <<>>
      \/ Root \in Errs /\ FromRoot = <<[error |-> Root, path |-> <<>>]>>
  BY <1>1 DEF FromRoot
<1>3. CASE FromRoot = <<>>
  <2>1. ErrorSeqs!ToSet(FromRoot) = {}
    BY <1>3 DEF ErrorSeqs!ToSet
  <2> QED
    BY <1>3, <2>1
<1>4. CASE Root \in Errs /\ FromRoot = <<[error |-> Root, path |-> <<>>]>>
  <2> DEFINE root == [error |-> Root, path |-> <<>>]
  <2>1. root \in Node /\ root.path = <<>>
    BY <1>4 DEF Node
  <2>2. FromRoot = <<root>>
    BY <1>4
  <2> HIDE DEF root
  <2>3. ErrorSeqs!ToSet(FromRoot) = {root}
    BY <2>2 DEF ErrorSeqs!ToSet
  <2> QED
    BY <2>1, <2>2, <2>3
<1> QED
  BY <1>2, <1>3, <1>4

\* A set with the root, and with the causes of each of its nodes, has them all.
LEMMA TreeInduction ==
  ASSUME Shaped, NEW P, ErrorSeqs!ToSet(FromRoot) \subseteq P,
         \A node \in P \cap Node : ErrorSeqs!ToSet(CauseNodes(node)) \subseteq P
  PROVE  \A n \in Nat : Nodes[n] \subseteq P
<1> DEFINE Bad == {n \in Nat : ~ (Nodes[n] \subseteq P)}
<1> SUFFICES ASSUME Bad # {}
             PROVE  FALSE
  OBVIOUS
<1>1. PICK n \in Bad : \A m \in Bad : n <= m
  <2>1. Bad \subseteq Nat
    OBVIOUS
  <2> HIDE DEF Bad
  <2> QED
    BY <2>1, SmallestOf
<1>2. n \in Nat /\ ~ (Nodes[n] \subseteq P)
  OBVIOUS
<1>3. n # 0
  BY <1>2, NodesGrow
<1>4. n - 1 \in Nat /\ (n - 1) + 1 = n /\ ~ (n <= n - 1)
  BY <1>2, <1>3
<1>5. Nodes[n - 1] \subseteq P
  BY <1>1, <1>4
<1>6. Nodes[n - 1] \subseteq Node
      /\ Nodes[n] = Nodes[n - 1] \cup
           UNION {ErrorSeqs!ToSet(CauseNodes(node)) : node \in Nodes[n - 1]}
  <2>1. Nodes[(n - 1) + 1] = Nodes[n - 1] \cup
           UNION {ErrorSeqs!ToSet(CauseNodes(node)) : node \in Nodes[n - 1]}
    BY <1>4, NodesGrow
  <2> QED
    BY <1>4, <2>1, NodesGrow
<1> QED
  BY <1>2, <1>5, <1>6

\* A node is as far from the root as its path is long, and there are as many
\* errors at least: the nodes at most that far are all.
LEMMA TreeIsClosed ==
  ASSUME Shaped
  PROVE  /\ Tree \subseteq Node /\ ErrorSeqs!ToSet(FromRoot) \subseteq Tree
         /\ \A node \in Tree :
              Len(node.path) < node.error /\ ErrorSeqs!ToSet(CauseNodes(node)) \subseteq Tree
<1>1. Count \in Nat /\ Errs = 1 .. Count
  BY ErrsAreNumbers
<1>2. /\ Nodes[0] = ErrorSeqs!ToSet(FromRoot)
      /\ \A n \in Nat : Nodes[n] \subseteq Node
      /\ \A n \in Nat : Nodes[n + 1] = Nodes[n] \cup
           UNION {ErrorSeqs!ToSet(CauseNodes(node)) : node \in Nodes[n]}
  BY NodesGrow
<1> DEFINE Bad == {n \in Nat : ~ (\A m \in 0 .. n : Nodes[m] \subseteq Nodes[n])}
<1>3. Bad = {}
  <2> SUFFICES ASSUME Bad # {}
               PROVE  FALSE
    OBVIOUS
  <2>1. PICK n \in Bad : \A m \in Bad : n <= m
    <3>1. Bad \subseteq Nat
      OBVIOUS
    <3> HIDE DEF Bad
    <3> QED
      BY <3>1, SmallestOf
  <2>2. PICK m \in 0 .. n : ~ (Nodes[m] \subseteq Nodes[n])
    OBVIOUS
  <2>3. n \in Nat /\ m # n
    BY <2>2
  <2>4. n - 1 \in Nat /\ (n - 1) + 1 = n /\ ~ (n <= n - 1) /\ m \in 0 .. n - 1
    BY <2>2, <2>3
  <2>5. Nodes[m] \subseteq Nodes[n - 1]
    BY <2>1, <2>4
  <2>6. Nodes[n - 1] \subseteq Nodes[(n - 1) + 1]
    BY <1>2, <2>4
  <2> QED
    BY <2>2, <2>4, <2>5, <2>6
<1>4. \A n \in Nat : \A m \in 0 .. n : Nodes[m] \subseteq Nodes[n]
  BY <1>3
<1> DEFINE Placed(node) == Len(node.path) < node.error /\ node \in Nodes[Len(node.path)]
           P == {node \in Node : Placed(node)}
<1>5. ErrorSeqs!ToSet(FromRoot) \subseteq P
  <2> SUFFICES ASSUME NEW node \in ErrorSeqs!ToSet(FromRoot)
               PROVE  node \in P
    OBVIOUS
  <2>1. node \in Node /\ node.path = <<>>
    BY RootIsNode
  <2>2. Len(node.path) = 0 /\ node.error \in 1 .. Count
    BY <1>1, <2>1 DEF Node
  <2> QED
    BY <1>1, <1>2, <2>1, <2>2
<1>6. ASSUME NEW node \in P \cap Node, NEW c \in ErrorSeqs!ToSet(CauseNodes(node))
      PROVE  c \in P
  <2>1. node \in Node /\ node.path \in Seq(Nat) /\ Len(node.path) \in Nat
        /\ node.error \in 1 .. Count
    BY <1>1 DEF Node
  <2>2. PICK i \in 1 .. Len(CauseNodes(node)) : c = CauseNodes(node)[i]
    BY <2>1, CausesAreNodes
  <2>3. c \in Node /\ c.path = Append(node.path, i) /\ node.error < c.error
    BY <2>1, <2>2, CausesAreNodes
  <2>4. Len(c.path) = Len(node.path) + 1
    BY <2>1, <2>3
  <2>5. c.error \in 1 .. Count
    BY <1>1, <2>3 DEF Node
  <2>6. Len(c.path) < c.error
    BY <1>1, <2>1, <2>3, <2>4, <2>5
  <2>7. c \in Nodes[Len(c.path)]
    <3>1. node \in Nodes[Len(node.path)]
      OBVIOUS
    <3>2. Nodes[Len(node.path) + 1] = Nodes[Len(node.path)] \cup
            UNION {ErrorSeqs!ToSet(CauseNodes(m)) : m \in Nodes[Len(node.path)]}
      BY <1>2, <2>1
    <3>3. c \in Nodes[Len(node.path) + 1]
      BY <3>1, <3>2
    <3> QED
      BY <2>4, <3>3
  <2> QED
    BY <2>3, <2>6, <2>7
<1>7. \A n \in Nat : Nodes[n] \subseteq P
  <2> HIDE DEF P
  <2> QED
    BY <1>5, <1>6, TreeInduction
<1>8. Tree \subseteq Node /\ ErrorSeqs!ToSet(FromRoot) \subseteq Tree
  BY <1>1, <1>2, <1>4 DEF Tree
<1>9. ASSUME NEW node \in Tree
      PROVE  Len(node.path) < node.error /\ ErrorSeqs!ToSet(CauseNodes(node)) \subseteq Tree
  <2>1. node \in Node /\ Placed(node)
    BY <1>1, <1>7 DEF Tree
  <2>2. Len(node.path) \in Nat /\ node.error \in 1 .. Count
    BY <1>1, <2>1 DEF Node
  <2>3. Len(node.path) + 1 \in 0 .. Count
    BY <1>1, <2>1, <2>2
  <2>4. ErrorSeqs!ToSet(CauseNodes(node)) \subseteq Nodes[Len(node.path) + 1]
    BY <1>2, <2>1, <2>2
  <2> QED
    BY <1>1, <1>4, <2>1, <2>3, <2>4 DEF Tree
<1> QED
  BY <1>8, <1>9

-----------------------------------------------------------------------------
(* Paths *)

\* q goes on from p, or p is at the left of where q goes on.
Under(p, q) == Len(p) < Len(q) /\ \A i \in 1 .. Len(p) : p[i] = q[i]
AtLeft(p, q) ==
  \E i \in 1 .. Len(p) :
    i <= Len(q) /\ p[i] < q[i] /\ \A j \in 1 .. i - 1 : p[j] = q[j]

LEMMA PathsGoOn ==
  ASSUME NEW p \in Seq(Nat), NEW q \in Seq(Nat), NEW i \in Nat
  PROVE  /\ Append(p, i) \in Seq(Nat) /\ Len(Append(p, i)) = Len(p) + 1
         /\ Under(p, Append(p, i))
         /\ Under(p, q) => Under(p, Append(q, i))
         /\ AtLeft(p, q) => AtLeft(Append(p, i), q)
         /\ \A j \in Nat : i < j => AtLeft(Append(p, i), Append(p, j))
         /\ \A r \in Seq(Nat) : AtLeft(p, q) /\ Under(q, r) => AtLeft(p, r)
<1>1. /\ Append(p, i) \in Seq(Nat) /\ Len(Append(p, i)) = Len(p) + 1 /\ Len(p) \in Nat
      /\ \A k \in 1 .. Len(p) : Append(p, i)[k] = p[k]
      /\ Append(p, i)[Len(p) + 1] = i
  OBVIOUS
<1>2. Under(p, Append(p, i))
  BY <1>1 DEF Under
<1>3. ASSUME Under(p, q)
      PROVE  Under(p, Append(q, i))
  <2>1. Len(Append(q, i)) = Len(q) + 1 /\ \A k \in 1 .. Len(q) : Append(q, i)[k] = q[k]
    OBVIOUS
  <2> QED
    BY <1>3, <2>1 DEF Under
<1>4. ASSUME AtLeft(p, q)
      PROVE  AtLeft(Append(p, i), q)
  <2> HIDE <1>1
  <2>1. PICK k \in 1 .. Len(p) :
          k <= Len(q) /\ p[k] < q[k] /\ \A j \in 1 .. k - 1 : p[j] = q[j]
    BY <1>4 DEF AtLeft
  <2>2. k \in 1 .. Len(Append(p, i)) /\ Append(p, i)[k] = p[k]
        /\ \A j \in 1 .. k - 1 : Append(p, i)[j] = p[j]
    BY <1>1
  <2> QED
    BY <2>1, <2>2 DEF AtLeft
<1>5. ASSUME NEW j \in Nat, i < j
      PROVE  AtLeft(Append(p, i), Append(p, j))
  <2>1. /\ Len(Append(p, j)) = Len(p) + 1
        /\ \A k \in 1 .. Len(p) : Append(p, j)[k] = p[k]
        /\ Append(p, j)[Len(p) + 1] = j
    OBVIOUS
  <2>2. Len(p) + 1 \in 1 .. Len(Append(p, i)) /\ (Len(p) + 1) - 1 = Len(p)
    BY <1>1
  <2> QED
    BY <1>1, <1>5, <2>1, <2>2 DEF AtLeft
<1>6. ASSUME NEW r \in Seq(Nat), AtLeft(p, q), Under(q, r)
      PROVE  AtLeft(p, r)
  <2> HIDE <1>1
  <2>1. PICK k \in 1 .. Len(p) :
          k <= Len(q) /\ p[k] < q[k] /\ \A j \in 1 .. k - 1 : p[j] = q[j]
    BY <1>6 DEF AtLeft
  <2>2. Len(q) < Len(r) /\ \A j \in 1 .. Len(q) : q[j] = r[j]
    BY <1>6 DEF Under
  <2>3. k \in 1 .. Len(q) /\ k <= Len(r) /\ \A j \in 1 .. k - 1 : j \in 1 .. Len(q)
    <3>1. Len(p) \in Nat /\ Len(q) \in Nat /\ Len(r) \in Nat
      OBVIOUS
    <3>2. k \in 1 .. Len(p) /\ k <= Len(q) /\ Len(q) < Len(r)
      BY <2>1, <2>2, Zenon
    <3> DEFINE lp == Len(p) lq == Len(q) lr == Len(r)
    <3> HIDE DEF lp, lq, lr
    <3>3. k \in 1 .. lq /\ k <= lr /\ \A j \in 1 .. k - 1 : j \in 1 .. lq
      <4>1. lp \in Nat /\ lq \in Nat /\ lr \in Nat /\ k \in 1 .. lp /\ k <= lq /\ lq < lr
        BY <3>1, <3>2, Zenon DEF lp, lq, lr
      <4> HIDE <1>6
      <4> QED
        BY <4>1
    <3> QED
      BY <3>3, Zenon DEF lq, lr
  <2>4. p[k] < r[k] /\ \A j \in 1 .. k - 1 : p[j] = r[j]
    BY <2>1, <2>2, <2>3
  <2> QED
    BY <2>1, <2>3, <2>4 DEF AtLeft
<1> QED
  BY <1>1, <1>2, <1>3, <1>4, <1>5, <1>6

LEMMA PathsInOrder ==
  ASSUME NEW p \in Seq(Nat), NEW q \in Seq(Nat), Under(p, q) \/ AtLeft(p, q)
  PROVE  Before(p, q)
<1>1. CASE Under(p, q)
  <2>1. Len(p) < Len(q) /\ \A i \in 1 .. Len(p) : p[i] = q[i]
    BY <1>1 DEF Under
  <2>2. SubSeq(p, 1, Len(p)) = SubSeq(q, 1, Len(p))
    <3>1. Len(p) \in Nat /\ Len(q) \in Nat
      OBVIOUS
    <3>2. /\ SubSeq(p, 1, Len(p)) = [i \in 1 .. Len(p) |-> p[i]]
          /\ SubSeq(q, 1, Len(p)) = [i \in 1 .. Len(p) |-> q[i]]
      BY <2>1, <3>1
    <3> QED
      BY <2>1, <3>2
  <2>3. p # q
    BY <2>1
  <2> QED
    BY <2>1, <2>2, <2>3 DEF Before, ErrorSeqs!IsStrictPrefix, ErrorSeqs!IsPrefix
<1>2. CASE AtLeft(p, q)
  BY <1>2 DEF AtLeft, Before
<1> QED
  BY <1>1, <1>2

-----------------------------------------------------------------------------
(* The walk *)

Told(e) ==
  IF FailureWanted THEN Standardized(failure(Value(e), e)) ELSE [value |-> Value(e), error |-> e]

\* The nodes to visit are in the order of the search.
WalkInv ==
  /\ walk \in Seq(Tree)
  /\ \A i, j \in 1 .. Len(walk) : i < j => AtLeft(walk[i].path, walk[j].path)

\* The nodes of V are done with: none of them matches, those which are their
\* causes are too or are to be visited, and what they have was collected.
Done(V) ==
  /\ ErrorSeqs!ToSet(FromRoot) \subseteq V \cup ErrorSeqs!ToSet(walk)
  /\ \A node \in V :
       /\ ErrorSeqs!ToSet(CauseNodes(node)) \subseteq V \cup ErrorSeqs!ToSet(walk)
       /\ Value(node.error) = Nothing
       /\ query.for = "collect" => errorCode(node.error) \in codes \cup {Nothing}

\* What is not done with is on the walk, or reached from it.
LEMMA WalkReaches ==
  ASSUME Shaped, WalkInv, NEW V, Done(V), NEW node \in Tree
  PROVE  \/ node \in V
         \/ \E i \in 1 .. Len(walk) : node = walk[i] \/ Under(walk[i].path, node.path)
<1> DEFINE Reached(n) == \E i \in 1 .. Len(walk) : n = walk[i] \/ Under(walk[i].path, n.path)
           P == V \cup {n \in Node : Reached(n)}
<1>1. /\ Tree \subseteq Node /\ walk \in Seq(Node)
      /\ ErrorSeqs!ToSet(walk) = {walk[i] : i \in 1 .. Len(walk)}
  <2>1. Tree \subseteq Node
    BY TreeIsClosed
  <2>2. walk \in Seq(Tree)
    BY DEF WalkInv
  <2> HIDE DEF Node
  <2> QED
    BY <2>1, <2>2 DEF ErrorSeqs!ToSet
<1>2. ErrorSeqs!ToSet(walk) \subseteq P
  <2> HIDE DEF Node
  <2> QED
    BY <1>1
<1>3. ErrorSeqs!ToSet(FromRoot) \subseteq P
  <2> HIDE DEF Reached
  <2> QED
    BY <1>2 DEF Done
<1>4. ASSUME NEW n \in P \cap Node, NEW c \in ErrorSeqs!ToSet(CauseNodes(n))
      PROVE  c \in P
  <2>1. CASE n \in V
    <3> HIDE DEF Reached
    <3> QED
      BY <1>2, <2>1 DEF Done
  <2>2. CASE Reached(n)
    <3> HIDE DEF Node
    <3>1. n \in Node
      OBVIOUS
    <3>2. PICK k \in 1 .. Len(CauseNodes(n)) : c = CauseNodes(n)[k]
      BY <3>1, CausesAreNodes
    <3>3. c \in Node /\ c.path = Append(n.path, k) /\ k \in Nat
      BY <3>1, <3>2, CausesAreNodes
    <3>4. PICK i \in 1 .. Len(walk) : n = walk[i] \/ Under(walk[i].path, n.path)
      BY <2>2
    <3>5. n.path \in Seq(Nat) /\ walk[i].path \in Seq(Nat)
      <4>1. walk[i] \in Node
        BY <1>1
      <4> QED
        BY <3>1, <4>1 DEF Node
    <3>6. Under(walk[i].path, c.path)
      BY <3>3, <3>4, <3>5, PathsGoOn
    <3> QED
      BY <3>3, <3>6
  <2> QED
    BY <2>1, <2>2
<1>5. Tree \subseteq P
  <2>1. Count \in Nat
    BY ErrsAreNumbers
  <2> HIDE DEF P
  <2> QED
    BY <1>3, <1>4, <2>1, TreeInduction DEF Tree
<1> QED
  BY <1>5

\* All matches are after the first of the walk.
LEMMA HeadIsFirst ==
  ASSUME Shaped, WalkInv, walk # <<>>, NEW V, Done(V), NEW node \in Tree, Value(node.error) # Nothing
  PROVE  node = Head(walk) \/ Before(Head(walk).path, node.path)
<1>1. PICK i \in 1 .. Len(walk) : node = walk[i] \/ Under(walk[i].path, node.path)
  BY WalkReaches DEF Done
<1>2. walk \in Seq(Tree) /\ Head(walk) = walk[1] /\ 1 \in 1 .. Len(walk)
  BY DEF WalkInv
<1>3. walk[1].path \in Seq(Nat) /\ walk[i].path \in Seq(Nat) /\ node.path \in Seq(Nat)
  <2>1. Tree \subseteq Node
    BY TreeIsClosed
  <2>2. walk[1] \in Node /\ walk[i] \in Node /\ node \in Node
    BY <1>2, <2>1
  <2> QED
    BY <2>2 DEF Node
<1>4. CASE i = 1
  BY <1>1, <1>2, <1>3, <1>4, PathsInOrder
<1>5. CASE i # 1
  <2>1. AtLeft(walk[1].path, walk[i].path)
    BY <1>2, <1>5 DEF WalkInv
  <2>2. AtLeft(walk[1].path, node.path)
    BY <1>1, <1>3, <2>1, PathsGoOn
  <2> QED
    BY <1>2, <1>3, <2>2, PathsInOrder
<1> QED
  BY <1>4, <1>5

\* The causes of the first node are walked before the others.
LEMMA RestIsInOrder ==
  ASSUME Shaped, WalkInv, walk # <<>>
  PROVE  LET head == Head(walk) r == Rest(head)
         IN /\ head \in Tree /\ r \in Seq(Tree)
            /\ \A i, j \in 1 .. Len(r) : i < j => AtLeft(r[i].path, r[j].path)
            /\ ErrorSeqs!ToSet(walk) \subseteq {head} \cup ErrorSeqs!ToSet(r)
            /\ ErrorSeqs!ToSet(CauseNodes(head)) \subseteq ErrorSeqs!ToSet(r)
<1> DEFINE head == Head(walk)
           cs == CauseNodes(head)
           t == Tail(walk)
           r == Rest(head)
<1>1. walk \in Seq(Tree) /\ head = walk[1] /\ head \in Tree
  BY DEF WalkInv
<1>2. Tree \subseteq Node /\ ErrorSeqs!ToSet(cs) \subseteq Tree
  BY <1>1, TreeIsClosed
<1>3. /\ cs \in Seq(Node) /\ Len(cs) \in Nat
      /\ \A i \in 1 .. Len(cs) : cs[i].path = Append(head.path, i)
      /\ ErrorSeqs!ToSet(cs) = {cs[i] : i \in 1 .. Len(cs)}
  <2>1. head \in Node
    BY <1>1, <1>2
  <2> HIDE DEF head
  <2>2. cs \in Seq(Node) /\ (\A i \in 1 .. Len(cs) : cs[i].path = Append(head.path, i))
        /\ ErrorSeqs!ToSet(cs) = {cs[i] : i \in 1 .. Len(cs)}
    BY <2>1, CausesAreNodes
  <2>3. Len(cs) \in Nat
    <3> HIDE DEF cs
    <3> QED
      BY <2>2
  <2> QED
    BY <2>2, <2>3
<1>4. cs \in Seq(Tree)
  BY <1>2, <1>3
<1>5. t \in Seq(Tree) /\ Len(t) = Len(walk) - 1 /\ Len(walk) \in Nat
      /\ \A i \in 1 .. Len(t) : t[i] = walk[i + 1]
  BY <1>1
<1>6. r = cs \o t
  BY DEF Rest
<1> HIDE DEF cs, t, r
<1>7. /\ r \in Seq(Tree) /\ Len(r) = Len(cs) + Len(t)
      /\ \A i \in 1 .. Len(cs) : r[i] = cs[i]
      /\ \A i \in Len(cs) + 1 .. Len(r) : r[i] = t[i - Len(cs)]
  <2>1. r \in Seq(Tree) /\ Len(r) = Len(cs) + Len(t) /\ Len(cs) \in Nat /\ Len(t) \in Nat
    <3>1. cs \in Seq(Tree) /\ t \in Seq(Tree)
      BY <1>4, <1>5
    <3>2. Len(cs) \in Nat /\ Len(t) \in Nat
      BY <3>1
    <3> QED
      BY <1>6, <3>1, <3>2
  <2>2. \A i \in 1 .. Len(cs) : r[i] = cs[i]
    BY <1>4, <1>5, <1>6
  <2>3. ASSUME NEW i \in Len(cs) + 1 .. Len(r)
        PROVE  r[i] = t[i - Len(cs)]
    <3>1. cs \in Seq(Tree) /\ t \in Seq(Tree) /\ i \in 1 .. Len(cs) + Len(t) /\ ~ (i <= Len(cs))
      BY <1>4, <1>5, <2>1
    <3> HIDE <1>1, <1>2, <1>3
    <3> QED
      BY <1>6, <2>1, <3>1, SMTT(30)
  <2> QED
    BY <2>1, <2>2, <2>3
<1>0. Len(cs) \in Nat /\ Len(walk) \in Nat /\ Len(t) = Len(walk) - 1 /\ Len(r) = Len(cs) + Len(t)
  BY <1>3, <1>5, <1>7, Zenon
<1>8. head.path \in Seq(Nat) /\ \A i \in 1 .. Len(walk) : walk[i].path \in Seq(Nat)
  <2>1. \A i \in 1 .. Len(walk) : walk[i] \in Node
    BY <1>1, <1>2
  <2>2. head \in Node
    BY <1>1, <1>2
  <2> QED
    BY <2>1, <2>2 DEF Node
<1>9. ASSUME NEW i \in 1 .. Len(r), NEW j \in 1 .. Len(r), i < j
      PROVE  AtLeft(r[i].path, r[j].path)
  <2>1. CASE j <= Len(cs)
    <3>1. i \in 1 .. Len(cs) /\ j \in 1 .. Len(cs) /\ i \in Nat /\ j \in Nat
      BY <1>3, <1>9, <2>1
    <3>2. r[i].path = Append(head.path, i) /\ r[j].path = Append(head.path, j)
      BY <1>3, <1>7, <3>1
    <3> QED
      BY <1>8, <1>9, <3>1, <3>2, PathsGoOn
  <2>2. CASE i <= Len(cs) /\ Len(cs) < j
    <3>1. i \in 1 .. Len(cs) /\ i \in Nat /\ j \in Len(cs) + 1 .. Len(r)
          /\ j - Len(cs) \in 1 .. Len(t) /\ (j - Len(cs)) + 1 \in 2 .. Len(walk)
      BY <1>0, <2>2
    <3>2. r[i].path = Append(head.path, i) /\ r[j] = walk[(j - Len(cs)) + 1]
      BY <1>3, <1>5, <1>7, <3>1
    <3>3. AtLeft(head.path, r[j].path) /\ r[j].path \in Seq(Nat)
      <4> DEFINE k == (j - Len(cs)) + 1
      <4>1. k \in 1 .. Len(walk) /\ 1 \in 1 .. Len(walk) /\ 1 < k /\ r[j] = walk[k]
        <5>1. Len(walk) \in Nat /\ k \in 2 .. Len(walk) /\ r[j] = walk[k]
          BY <1>5, <3>1, <3>2
        <5> HIDE DEF k
        <5> QED
          BY <5>1
      <4> HIDE DEF k
      <4>2. AtLeft(walk[1].path, walk[k].path)
        BY <4>1 DEF WalkInv
      <4> QED
        BY <1>1, <1>8, <4>1, <4>2
    <3>4. AtLeft(Append(head.path, i), r[j].path)
      BY <1>8, <3>1, <3>3, PathsGoOn
    <3> QED
      BY <3>2, <3>4, Zenon
  <2>3. CASE Len(cs) < i
    <3> DEFINE k == (i - Len(cs)) + 1
               l == (j - Len(cs)) + 1
    <3>1. /\ i \in Len(cs) + 1 .. Len(r) /\ j \in Len(cs) + 1 .. Len(r)
          /\ i - Len(cs) \in 1 .. Len(t) /\ j - Len(cs) \in 1 .. Len(t)
          /\ k \in 1 .. Len(walk) /\ l \in 1 .. Len(walk) /\ k < l
      BY <1>0, <1>9, <2>3
    <3>2. r[i] = walk[k] /\ r[j] = walk[l]
      BY <1>5, <1>7, <3>1
    <3> HIDE DEF k, l
    <3> QED
      BY <3>1, <3>2 DEF WalkInv
  <2> QED
    BY <1>3, <1>7, <2>1, <2>2, <2>3
<1>10. ErrorSeqs!ToSet(cs) \subseteq ErrorSeqs!ToSet(r)
  <2>1. \A i \in 1 .. Len(cs) : i \in DOMAIN r /\ r[i] = cs[i]
    BY <1>3, <1>5, <1>7
  <2> QED
    BY <1>3, <2>1 DEF ErrorSeqs!ToSet
<1>11. ErrorSeqs!ToSet(walk) \subseteq {head} \cup ErrorSeqs!ToSet(r)
  <2> SUFFICES ASSUME NEW i \in 1 .. Len(walk), i # 1
               PROVE  \E j \in DOMAIN r : walk[i] = r[j]
    BY <1>1 DEF ErrorSeqs!ToSet
  <2> DEFINE j == Len(cs) + (i - 1)
  <2>1. j \in Len(cs) + 1 .. Len(r) /\ j - Len(cs) = i - 1 /\ i - 1 \in 1 .. Len(t)
        /\ (i - 1) + 1 = i /\ j \in DOMAIN r
    <3>2. DOMAIN r = 1 .. Len(r)
      BY <1>7
    <3> HIDE <1>1, <1>2, <1>3, <1>5, <1>7
    <3> QED
      BY <1>0, <3>2
  <2>2. r[j] = t[j - Len(cs)] /\ t[i - 1] = walk[(i - 1) + 1]
    BY <1>5, <1>7, <2>1, Zenon
  <2> HIDE DEF j
  <2> QED
    BY <2>1, <2>2, Zenon
<1> QED
  BY <1>1, <1>7, <1>9, <1>10, <1>11 DEF cs, r

-----------------------------------------------------------------------------
(* The invariant *)

\* What was collected are codes of errors in the tree.
CodesInv == codes \subseteq {errorCode(node.error) : node \in Tree} \ {Nothing}

\* No error which was tested matches.
SeenInv == \A e \in seen : Value(e) = Nothing

SearchInv == outcome = "searching" => SeenInv /\ WalkInv /\ \E V \in SUBSET Tree : Done(V)

QueryInv ==
  query.for = "assigned" => query \in [for : {"assigned"}, statuses : Mappings, keep : BOOLEAN]

FoundInv ==
  outcome = "found" =>
    \E first \in Tree :
      /\ Value(first.error) # Nothing /\ match = Told(first.error)
      /\ \A node \in Tree : Value(node.error) # Nothing =>
           node = first \/ Before(first.path, node.path)

NotFoundInv ==
  outcome = "notFound" =>
    \A node \in Tree :
      /\ Value(node.error) = Nothing
      /\ query.for = "collect" => errorCode(node.error) \in codes \cup {Nothing}

\* A status is derived once no error has one assigned.
DerivedInv ==
  query.for = "derived" =>
    \A node \in Tree : isStandardError(node.error) =>
      query.statuses[errorCode(node.error)] = Nothing

\* Without a source, there is nothing to walk.
RootInv == Root = NoError => walk = <<>>

ErrorsInv ==
  /\ Shaped /\ RootInv /\ QueryInv /\ CodesInv /\ SearchInv
  /\ FoundInv /\ NotFoundInv /\ DerivedInv /\ TellsOneError

LEMMA SameTree ==
  ASSUME err' = err, Standardizing' <=> Standardizing
  PROVE  /\ Root' = Root /\ Tree' = Tree /\ FromRoot' = FromRoot /\ findContents' = findContents
         /\ Shaped' <=> Shaped
         /\ WrapsNothing' = WrapsNothing
         /\ \A e : /\ isStandardError(e)' <=> isStandardError(e)
                   /\ errorCode(e)' = errorCode(e)
         /\ \A node : CauseNodes(node)' = CauseNodes(node)
<1>1. findContents' = Contents(err') /\ originalError' = Originals(err')
  BY DEF findContents, Contents, ContentsFrom, CausesIn, CausesOf, isStatusError, isGraphqlError,
         originalError, Originals, OriginalsFrom, IsWrapper, isCoerced, isStandardError
<1>10. WrapsNothing' = WrappingNothing(err')
  BY DEF WrapsNothing, WrappingNothing, NothingFrom, IsSource, isGraphqlError, isCoerced,
         isStandardError
<1>11. WrapsNothing' = WrapsNothing
  BY <1>10, AreChosen
<1>2. findContents' = findContents /\ originalError' = originalError
  BY <1>1, AreChosen
<1>3. Root' = Root
  BY <1>2 DEF Root, isGraphqlError
<1>4. Nodes' = TreeOf(err', Root')
  BY DEF Nodes, TreeOf, TreeFrom, Start, CauseNodesIn, CausesIn, FromRoot, CauseNodes, CausesOf,
         isGraphqlError
<1>5. Tree' = Tree
  BY <1>3, <1>4, NodesAreChosen DEF Tree, Count
<1>6. FromRoot' = FromRoot
  BY <1>3 DEF FromRoot
<1>7. \A e : /\ isStandardError(e)' <=> isStandardError(e)
             /\ errorCode(e)' = errorCode(e)
  BY DEF errorCode, isStandardError
<1>8. \A node : CauseNodes(node)' = CauseNodes(node)
  BY DEF CauseNodes, CausesOf, isGraphqlError
<1>9. Shaped' <=> Shaped
  BY DEF Shaped, isStatusError, isStandardError
<1> QED
  BY <1>2, <1>3, <1>5, <1>6, <1>7, <1>8, <1>9, <1>11

LEMMA SameSearch ==
  ASSUME err' = err, query' = query
  PROVE  /\ Standardizing' <=> Standardizing
         /\ FailureWanted' <=> FailureWanted
         /\ \A e : Value(e)' = Value(e) /\ Told(e)' = Told(e)
<1>1. (Standardizing' <=> Standardizing) /\ (FailureWanted' <=> FailureWanted)
  BY DEF Standardizing, FailureWanted
<1>2. \A e : Value(e)' = Value(e)
  BY DEF Value, errorCode, isStandardError, isStatusError
<1>3. findContents' = findContents
  BY <1>1, SameTree
<1>4. \A s, e : failure(s, e)' = failure(s, e)
  BY <1>3 DEF failure, statusErrorMessage, errorCode, isStandardError
<1>6. \A f : Standardized(f)' = Standardized(f)
  <2>1. Root' = Root
    BY <1>1, SameTree
  <2> QED
    BY <1>1, <2>1 DEF Standardized, isGraphqlError
<1>5. \A e : Told(e)' = Told(e)
  BY <1>1, <1>2, <1>4, <1>6 DEF Told
<1> QED
  BY <1>1, <1>2, <1>5

\* A walk starts in order, with nothing done.
LEMMA WalkStarts ==
  ASSUME Shaped
  PROVE  /\ FromRoot \in Seq(Tree)
         /\ \A i, j \in 1 .. Len(FromRoot) : ~ (i < j)
<1>1. CASE FromRoot = <<>>
  BY <1>1
<1>2. ASSUME NEW node \in Node, FromRoot = <<node>>
      PROVE  FromRoot \in Seq(Tree) /\ \A i, j \in 1 .. Len(FromRoot) : ~ (i < j)
  <2>1. node \in ErrorSeqs!ToSet(FromRoot)
    BY <1>2 DEF ErrorSeqs!ToSet
  <2>2. node \in Tree
    BY <2>1, TreeIsClosed
  <2> QED
    BY <1>2, <2>2
<1> QED
  BY <1>1, <1>2, RootIsNode

LEMMA InitErrors ==
  ASSUME ErrorsInit, ~Cyclic
  PROVE  ErrorsInv
<1>1. Shaped
  BY InitShaped
<1>2. query.for # "derived" /\ QueryInv
  <2>1. query \in Queries
    BY DEF ErrorsInit
  <2>2. CASE query \in [for : {"code", "collect"}]
    BY <2>2 DEF QueryInv
  <2>3. CASE query \in [for : {"codes"}, wanted : SUBSET ErrorCodes \ {{}}]
    BY <2>3 DEF QueryInv
  <2>4. CASE query \in [for : {"status"}, statuses : Mappings]
    BY <2>4 DEF QueryInv
  <2>5. CASE query \in [for : {"assigned"}, statuses : Mappings, keep : BOOLEAN]
    BY <2>5 DEF QueryInv
  <2> QED
    BY <2>1, <2>2, <2>3, <2>4, <2>5 DEF Queries
<1>3. walk = FromRoot /\ seen = {} /\ codes = {} /\ outcome = "searching"
  BY DEF ErrorsInit
<1>4. WalkInv
  BY <1>1, <1>3, WalkStarts DEF WalkInv
<1>5. Done({})
  BY <1>3 DEF Done
<1>6. SearchInv
  BY <1>3, <1>4, <1>5 DEF SearchInv, SeenInv
<1>7. RootInv
  BY <1>3 DEF RootInv, FromRoot
<1> QED
  BY <1>1, <1>2, <1>3, <1>6, <1>7
     DEF ErrorsInv, CodesInv, FoundInv, NotFoundInv, DerivedInv, TellsOneError

-----------------------------------------------------------------------------
(* The steps *)

\* A failure tells of one error which wraps none, or of nothing.
LEMMA FailureTellsOne ==
  ASSUME Shaped, NEW s, NEW e \in Errs
  PROVE  LET f == failure(s, e)
         IN IF isInternalProblem(f.status)
            THEN f.message = NoError /\ f.code = Nothing /\ ~f.tags /\ ~f.copied
            ELSE /\ f.message \in Errs /\ ~isStatusError(f.message)
                 /\ f.code = errorCode(f.message) /\ ~f.copied
<1>1. findContents[e] \in Errs /\ ~isStatusError(findContents[e])
  BY ContentsAreRight
<1> QED
  BY <1>1 DEF failure, statusErrorMessage

LEMMA UnknownIsInternal == isInternalProblem("UNKNOWN")
<1> DEFINE first == [name |-> "UNKNOWN", grpc |-> 2, http |-> 500]
<1>1. \A i \in DOMAIN Statuses : Statuses[i].name = "UNKNOWN" <=> i = 1
  BY DEF Statuses
<1>2. 1 \in DOMAIN Statuses /\ Statuses[1] = first
  BY DEF Statuses
<1>3. first \in ErrorSeqs!ToSet(Statuses) /\ first.name = "UNKNOWN"
  BY <1>2 DEF ErrorSeqs!ToSet
<1>4. \A s \in ErrorSeqs!ToSet(Statuses) : s.name = "UNKNOWN" => s = first
  BY <1>1, <1>2 DEF ErrorSeqs!ToSet
<1>5. StatusNamed("UNKNOWN") = first
  <2> HIDE DEF first
  <2> QED
    BY <1>3, <1>4 DEF StatusNamed
<1> QED
  BY <1>5 DEF isInternalProblem, statusToHttpCode

\* Made into a GraphQL error, it tells the message of one which wraps nothing.
LEMMA StandardizedTells ==
  ASSUME Shaped, NEW s, NEW e \in Errs, isInternalProblem(s) \/ Root # NoError
  PROVE  LET f == Standardized(failure(s, e))
         IN IF isInternalProblem(f.status)
            THEN /\ f.message # NoError =>
                      Standardizing /\ f.message = 1 /\ isGraphqlError(1) /\ WrapsNothing[1]
                 /\ f.code = Nothing /\ ~f.tags
                 /\ f.copied => Standardizing /\ isGraphqlError(1) /\ f.status = "UNKNOWN"
            ELSE /\ f.message \in Errs /\ ~isStatusError(f.message)
                 /\ f.code = errorCode(f.message) /\ ~f.copied
<1> DEFINE f == failure(s, e)
           g == Standardized(f)
<1>1. /\ f.status = s
      /\ IF isInternalProblem(s)
         THEN f.message = NoError /\ f.code = Nothing /\ ~f.tags /\ ~f.copied
         ELSE /\ f.message \in Errs /\ ~isStatusError(f.message)
              /\ f.code = errorCode(f.message) /\ ~f.copied
  <2>1. f.status = s
    BY DEF failure
  <2> QED
    BY <2>1, FailureTellsOne
<1>2. CASE ~ (Standardizing /\ isGraphqlError(1))
  BY <1>1, <1>2 DEF Standardized
<1>3. CASE Standardizing /\ isGraphqlError(1)
  <2>1. /\ g.status = s /\ g.code = f.code /\ g.tags = f.tags
        /\ g.message = IF query.keep /\ Root = NoError THEN 1 ELSE f.message
        /\ g.copied = (err[1].coded /\ f.status = "UNKNOWN")
    BY <1>3 DEF Standardized, failure
  <2>2. Root = NoError => WrapsNothing[1]
    BY <1>3, RootIsAnError DEF ReadsTheSource
  <2>3. CASE isInternalProblem(s)
    BY <1>1, <1>3, <2>1, <2>2, <2>3
  <2>4. CASE ~isInternalProblem(s)
    <3>1. g.message = f.message
      BY <2>1, <2>4
    <3>2. s # "UNKNOWN"
      BY <2>4, UnknownIsInternal
    <3> QED
      BY <1>1, <2>1, <2>4, <3>1, <3>2
  <2> QED
    BY <2>3, <2>4
<1> QED
  BY <1>2, <1>3

LEMMA VisitKeeps ==
  ASSUME ErrorsInv, Visit
  PROVE  ErrorsInv'
<1> DEFINE node == Head(walk)
           e == node.error
           found == e \notin seen /\ Value(e) # Nothing
<1>1. /\ outcome = "searching" /\ walk # <<>> /\ err' = err /\ query' = query
      /\ seen' = IF err[e].kind = "value" THEN seen ELSE seen \cup {e}
      /\ codes' = IF query.for = "collect" /\ isStandardError(e)
                  THEN codes \cup {err[e].code} ELSE codes
      /\ walk' = IF found THEN walk ELSE Rest(node)
      /\ outcome' = IF found THEN "found"
                    ELSE IF Len(node.path) >= MaxFrames THEN "overflow" ELSE outcome
      /\ match' = IF found THEN Told(e) ELSE match
  BY DEF Visit, Told
<1>2. Shaped /\ QueryInv /\ CodesInv /\ SeenInv /\ WalkInv /\ DerivedInv
  BY <1>1 DEF ErrorsInv, SearchInv
<1>15. Root # NoError
  BY <1>1 DEF ErrorsInv, RootInv
<1>3. PICK V \in SUBSET Tree : Done(V)
  BY <1>1 DEF ErrorsInv, SearchInv
<1>16. RootInv'
  <2>1. Root' = Root
    BY <1>1, SameTree, SameSearch
  <2> QED
    BY <1>15, <2>1 DEF RootInv
<1>4. /\ Tree' = Tree /\ FromRoot' = FromRoot /\ Shaped'
      /\ \A d : /\ isStandardError(d)' <=> isStandardError(d)
                /\ errorCode(d)' = errorCode(d) /\ Value(d)' = Value(d) /\ Told(d)' = Told(d)
      /\ \A n : CauseNodes(n)' = CauseNodes(n)
  BY <1>1, <1>2, SameTree, SameSearch
<1>5. /\ node \in Tree /\ Rest(node) \in Seq(Tree)
      /\ \A i, j \in 1 .. Len(Rest(node)) : i < j => AtLeft(Rest(node)[i].path, Rest(node)[j].path)
      /\ ErrorSeqs!ToSet(walk) \subseteq {node} \cup ErrorSeqs!ToSet(Rest(node))
      /\ ErrorSeqs!ToSet(CauseNodes(node)) \subseteq ErrorSeqs!ToSet(Rest(node))
  BY <1>1, <1>2, RestIsInOrder
<1>6. e \in Errs
  BY <1>2, <1>5, TreeIsClosed DEF Node
<1> HIDE DEF node, e
<1>7. isStandardError(e) => errorCode(e) = err[e].code /\ errorCode(e) # Nothing
  BY <1>2, <1>6, ErrorsAssumption DEF Shaped, errorCode
<1>8. ~isStandardError(e) => errorCode(e) = Nothing
  BY DEF errorCode
<1>9. node.error = e
  BY DEF e
<1>10. CodesInv'
  <2>1. codes' \subseteq codes \cup ({errorCode(e)} \ {Nothing})
    BY <1>1, <1>7
  <2>2. codes' \subseteq {errorCode(n.error) : n \in Tree} \ {Nothing}
    BY <1>2, <1>5, <1>9, <2>1 DEF CodesInv
  <2> QED
    BY <1>4, <2>2 DEF CodesInv
<1>11. QueryInv' /\ DerivedInv'
  BY <1>1, <1>2, <1>4 DEF QueryInv, DerivedInv
<1>12. NotFoundInv'
  BY <1>1 DEF NotFoundInv
<1>13. CASE found
  <2>1. outcome' = "found" /\ match' = Told(e)
    BY <1>1, <1>13
  <2>2. \A n \in Tree : Value(n.error) # Nothing => n = node \/ Before(node.path, n.path)
    BY <1>1, <1>2, <1>3, HeadIsFirst DEF node
  <2>3. FoundInv'
    BY <1>4, <1>5, <1>9, <1>13, <2>1, <2>2 DEF FoundInv
  <2>4. SearchInv'
    BY <2>1 DEF SearchInv
  <2>5. TellsOneError'
    <3> SUFFICES ASSUME FailureWanted'
                 PROVE  TellsOneError'
      BY DEF TellsOneError
    <3>1. match' = Standardized(failure(Value(e), e))
      BY <1>1, <2>1, SameSearch DEF Told
    <3>2. IF isInternalProblem(match'.status)
          THEN /\ match'.message # NoError =>
                    Standardizing /\ match'.message = 1 /\ isGraphqlError(1) /\ WrapsNothing[1]
               /\ match'.code = Nothing /\ ~match'.tags
               /\ match'.copied => Standardizing /\ isGraphqlError(1) /\ match'.status = "UNKNOWN"
          ELSE /\ match'.message \in Errs /\ ~isStatusError(match'.message)
               /\ match'.code = errorCode(match'.message) /\ ~match'.copied
      BY <1>2, <1>6, <1>15, <3>1, StandardizedTells
    <3>3. (Standardizing' <=> Standardizing) /\ WrapsNothing' = WrapsNothing
      BY <1>1, SameTree, SameSearch
    <3> QED
      BY <1>1, <3>2, <3>3
         DEF TellsOneError, isStatusError, errorCode, isStandardError, isGraphqlError
  <2> QED
    BY <1>4, <1>10, <1>11, <1>12, <1>16, <2>3, <2>4, <2>5 DEF ErrorsInv
<1>14. CASE ~found
  <2>1. walk' = Rest(node) /\ outcome' \in {"searching", "overflow"}
    BY <1>1, <1>14
  <2>2. Value(e) = Nothing
    BY <1>2, <1>14 DEF SeenInv
  <2>3. SeenInv'
    <3>1. \A d \in seen' : Value(d) = Nothing
      BY <1>1, <1>2, <2>2 DEF SeenInv
    <3> QED
      BY <1>4, <3>1 DEF SeenInv
  <2>4. WalkInv'
    BY <1>4, <1>5, <2>1 DEF WalkInv
  <2>5. PICK W \in SUBSET Tree : W = V \cup {node}
    BY <1>5
  <2>6. Done(W)'
    <3>1. V \cup ErrorSeqs!ToSet(walk) \subseteq W \cup ErrorSeqs!ToSet(walk')
      BY <1>5, <2>1, <2>5
    <3>2. codes \subseteq codes' /\ (query.for = "collect" => errorCode(e) \in codes' \cup {Nothing})
      BY <1>1, <1>7, <1>8
    <3>3. ErrorSeqs!ToSet(FromRoot) \subseteq W \cup ErrorSeqs!ToSet(walk')
      BY <1>3, <3>1 DEF Done
    <3>4. ASSUME NEW n \in W
          PROVE  /\ ErrorSeqs!ToSet(CauseNodes(n)) \subseteq W \cup ErrorSeqs!ToSet(walk')
                 /\ Value(n.error) = Nothing
                 /\ query.for = "collect" => errorCode(n.error) \in codes' \cup {Nothing}
      <4>1. CASE n = node
        BY <1>5, <1>9, <2>1, <2>2, <3>2, <4>1
      <4>2. CASE n \in V
        BY <1>3, <3>1, <3>2, <4>2 DEF Done
      <4> QED
        BY <2>5, <4>1, <4>2
    <3> QED
      BY <1>1, <1>4, <3>3, <3>4 DEF Done, ErrorSeqs!ToSet
  <2>7. SearchInv'
    BY <1>4, <2>3, <2>4, <2>6 DEF SearchInv
  <2>8. FoundInv' /\ TellsOneError'
    BY <2>1 DEF FoundInv, TellsOneError
  <2> QED
    BY <1>4, <1>10, <1>11, <1>12, <1>16, <2>7, <2>8 DEF ErrorsInv
<1> QED
  BY <1>13, <1>14

\* Once the walk is over, no error matches and all codes were collected.
LEMMA WalkIsOver ==
  ASSUME ErrorsInv, outcome = "searching", walk = <<>>, NEW node \in Tree
  PROVE  /\ Value(node.error) = Nothing
         /\ query.for = "collect" => errorCode(node.error) \in codes \cup {Nothing}
<1>1. Shaped /\ WalkInv
  BY DEF ErrorsInv, SearchInv
<1>2. PICK V \in SUBSET Tree : Done(V)
  BY DEF ErrorsInv, SearchInv
<1>3. node \in V
  BY <1>1, <1>2, WalkReaches
<1> QED
  BY <1>2, <1>3 DEF Done

LEMMA ExhaustKeeps ==
  ASSUME ErrorsInv, Exhaust
  PROVE  ErrorsInv'
<1>1. /\ outcome = "searching" /\ walk = <<>> /\ outcome' = "notFound"
      /\ match' = IF FailureWanted THEN Standardized(failure("UNKNOWN", 1)) ELSE match
      /\ err' = err /\ query' = query /\ codes' = codes
  BY DEF Exhaust
<1>2. Shaped /\ QueryInv /\ CodesInv /\ DerivedInv
  BY DEF ErrorsInv
<1>3. /\ Tree' = Tree /\ Root' = Root /\ Shaped' /\ (Standardizing' <=> Standardizing)
      /\ (FailureWanted' <=> FailureWanted)
      /\ \A d : /\ isStandardError(d)' <=> isStandardError(d)
                /\ errorCode(d)' = errorCode(d) /\ Value(d)' = Value(d)
  BY <1>1, <1>2, SameTree, SameSearch
<1>4. QueryInv' /\ CodesInv' /\ DerivedInv'
  BY <1>1, <1>2, <1>3 DEF QueryInv, CodesInv, DerivedInv
<1>5. NotFoundInv'
  BY <1>1, <1>3, WalkIsOver DEF NotFoundInv
<1>6. FoundInv' /\ SearchInv'
  BY <1>1 DEF FoundInv, SearchInv
<1>7. TellsOneError'
  <2> SUFFICES ASSUME FailureWanted
               PROVE  TellsOneError'
    BY <1>3 DEF TellsOneError
  <2>1. match' = Standardized(failure("UNKNOWN", 1)) /\ 1 \in Errs
    BY <1>1, ErrsAreNumbers
  <2>2. IF isInternalProblem(match'.status)
        THEN /\ match'.message # NoError =>
                  Standardizing /\ match'.message = 1 /\ isGraphqlError(1) /\ WrapsNothing[1]
             /\ match'.code = Nothing /\ ~match'.tags
             /\ match'.copied => Standardizing /\ isGraphqlError(1) /\ match'.status = "UNKNOWN"
        ELSE /\ match'.message \in Errs /\ ~isStatusError(match'.message)
             /\ match'.code = errorCode(match'.message) /\ ~match'.copied
    BY <1>2, <2>1, UnknownIsInternal, StandardizedTells
  <2>3. WrapsNothing' = WrapsNothing
    BY <1>1, <1>3, SameTree
  <2> QED
    BY <1>1, <1>3, <2>2, <2>3
       DEF TellsOneError, isStatusError, errorCode, isStandardError, isGraphqlError
<1>8. RootInv'
  BY <1>1, <1>3 DEF Exhaust, RootInv
<1> QED
  BY <1>3, <1>4, <1>5, <1>6, <1>7, <1>8 DEF ErrorsInv

LEMMA DeriveKeeps ==
  ASSUME ErrorsInv, Derive
  PROVE  ErrorsInv'
<1>1. /\ outcome = "searching" /\ query.for = "assigned" /\ walk = <<>>
      /\ query' = [query EXCEPT !.for = "derived"]
      /\ walk' = FromRoot /\ seen' = {} /\ err' = err /\ codes' = codes /\ outcome' = outcome
  BY DEF Derive
<1>2. Shaped /\ QueryInv /\ CodesInv
  BY DEF ErrorsInv
<1>3. query'.for = "derived" /\ query'.statuses = query.statuses
  BY <1>1, <1>2 DEF QueryInv
<1>4. Standardizing' <=> Standardizing
  BY <1>1, <1>3 DEF Standardizing
<1>5. /\ Tree' = Tree /\ FromRoot' = FromRoot /\ Shaped'
      /\ \A d : /\ isStandardError(d)' <=> isStandardError(d)
                /\ errorCode(d)' = errorCode(d)
  BY <1>1, <1>2, <1>4, SameTree
<1>6. CodesInv' /\ QueryInv'
  BY <1>1, <1>2, <1>3, <1>5 DEF CodesInv, QueryInv
<1>7. DerivedInv'
  <2>1. ASSUME NEW node \in Tree, isStandardError(node.error)
        PROVE  query.statuses[errorCode(node.error)] = Nothing
    <3>1. Value(node.error) = Nothing
      BY <1>1, WalkIsOver
    <3> QED
      BY <1>1, <2>1, <3>1 DEF Value, errorCode
  <2> QED
    BY <1>3, <1>5, <2>1 DEF DerivedInv
<1>8. WalkInv'
  BY <1>1, <1>2, <1>5, WalkStarts DEF WalkInv
<1>9. Done({})'
  BY <1>1, <1>5 DEF Done, ErrorSeqs!ToSet
<1>10. SearchInv'
  BY <1>1, <1>8, <1>9 DEF SearchInv, SeenInv
<1>12. RootInv'
  <2>1. Root' = Root
    BY <1>1, <1>4, SameTree
  <2> QED
    BY <1>1, <2>1 DEF RootInv, FromRoot
<1>11. FoundInv' /\ NotFoundInv' /\ TellsOneError'
  BY <1>1 DEF FoundInv, NotFoundInv, TellsOneError
<1> QED
  BY <1>5, <1>6, <1>7, <1>10, <1>11, <1>12 DEF ErrorsInv

LEMMA ErrorsStutter ==
  ASSUME ErrorsInv, UNCHANGED errorsVars
  PROVE  ErrorsInv'
<1>1. UNCHANGED <<err, query, walk, seen, codes, outcome, match>>
  BY DEF errorsVars
<1>2. /\ Tree' = Tree /\ Root' = Root /\ FromRoot' = FromRoot /\ Shaped'
      /\ (Standardizing' <=> Standardizing) /\ (FailureWanted' <=> FailureWanted)
      /\ \A d : /\ isStandardError(d)' <=> isStandardError(d)
                /\ errorCode(d)' = errorCode(d) /\ Value(d)' = Value(d) /\ Told(d)' = Told(d)
      /\ \A n : CauseNodes(n)' = CauseNodes(n)
  BY <1>1, SameTree, SameSearch DEF ErrorsInv
<1>3. QueryInv' /\ CodesInv' /\ DerivedInv' /\ NotFoundInv' /\ FoundInv'
  BY <1>1, <1>2 DEF ErrorsInv, QueryInv, CodesInv, DerivedInv, NotFoundInv, FoundInv
<1>4. TellsOneError' /\ RootInv'
  <2>1. WrapsNothing' = WrapsNothing
    BY <1>1, <1>2, SameTree
  <2> QED
    BY <1>1, <1>2, <2>1
       DEF ErrorsInv, RootInv, TellsOneError, isStatusError, errorCode, isStandardError,
           isGraphqlError
<1>5. SearchInv'
  <2> SUFFICES ASSUME outcome = "searching"
               PROVE  SearchInv'
    BY <1>1 DEF SearchInv
  <2>1. SeenInv' /\ WalkInv'
    BY <1>1, <1>2 DEF ErrorsInv, SearchInv, SeenInv, WalkInv
  <2>2. PICK V \in SUBSET Tree : Done(V)
    BY DEF ErrorsInv, SearchInv
  <2>3. Done(V)'
    BY <1>1, <1>2, <2>2 DEF Done, ErrorSeqs!ToSet
  <2> QED
    BY <1>2, <2>1, <2>3 DEF SearchInv
<1> QED
  BY <1>2, <1>3, <1>4, <1>5 DEF ErrorsInv

LEMMA InvTells ==
  ASSUME ErrorsInv
  PROVE  TellsFirstMatch
<1> DEFINE matching == {node \in Tree : Value(node.error) # Nothing}
<1>1. outcome = "found" =>
        \E first \in matching :
          /\ \A node \in matching : node = first \/ Before(first.path, node.path)
          /\ match = Told(first.error)
  BY DEF ErrorsInv, FoundInv
<1>2. outcome = "notFound" =>
        /\ matching = {}
        /\ query.for = "collect" => codes = {errorCode(node.error) : node \in Tree} \ {Nothing}
  <2> SUFFICES ASSUME outcome = "notFound"
               PROVE  /\ matching = {}
                      /\ query.for = "collect" =>
                           codes = {errorCode(node.error) : node \in Tree} \ {Nothing}
    OBVIOUS
  <2>1. matching = {}
    BY DEF ErrorsInv, NotFoundInv
  <2>2. ASSUME query.for = "collect", NEW c
        PROVE  c \in codes <=> c \in {errorCode(node.error) : node \in Tree} \ {Nothing}
    BY <2>2 DEF ErrorsInv, NotFoundInv, CodesInv
  <2> HIDE DEF matching
  <2> QED
    BY <2>1, <2>2
<1>3. query.for = "derived" =>
        \A node \in Tree : isStandardError(node.error) =>
          query.statuses[errorCode(node.error)] = Nothing
  BY DEF ErrorsInv, DerivedInv
<1>4. FirstMatch
  BY <1>1, <1>2, <1>3, Zenon DEF FirstMatch, Tree, Count, Told
<1> QED
  BY <1>4, RootIsAnError DEF TellsFirstMatch, ErrorsInv

\* However errors cause, wrap and share one another, without cycles, whoever asks
\* for a code, codes, a status or a failure is told of the first match in the
\* order of the causes, and only of one error which is below every status.
THEOREM FirstMatchIsTold ==
  ASSUME ~Cyclic
  PROVE  ErrorsSpec => []TellsFirstMatch
<1>1. ErrorsInit => ErrorsInv
  BY InitErrors
<1>2. ErrorsInv /\ [ErrorsNext]_errorsVars => ErrorsInv'
  BY VisitKeeps, ExhaustKeeps, DeriveKeeps, ErrorsStutter DEF ErrorsNext
<1>3. ErrorsInv => TellsFirstMatch
  BY InvTells
<1> QED
  BY <1>1, <1>2, <1>3, PTL DEF ErrorsSpec
=============================================================================
