------------------------------ MODULE Request ------------------------------
(***************************************************************************)
(* The koa middleware of setup (stl-koa/src/setup): each request is        *)
(* handled in an instrumented race which its abort loses, is counted in    *)
(* and out, answered by koa, and told of by a span and, if its response    *)
(* streams on, by another one.                                             *)
(*                                                                         *)
(* No deadline is active where koa is called: only aborts lose the race.   *)
(* A request is one call of the middleware, first in its chain.            *)
(***************************************************************************)
EXTENDS Naturals, Sequences, FiniteSets

CONSTANT Requests

\* A server handles finitely many requests.
ASSUME RequestsAssumption == IsFiniteSet(Requests)

VARIABLES
  fn,       \* the function raced: "none" before the request, the handler's
            \* "handling", "annotating" its error, "returned" or "rejected"
  race,     \* "none", "running", "won" or "lost"
  koa,      \* what koa does of the middleware's promise
  bypassed, \* did the handler take the response over (ctx.respond)?
  body,     \* the response's, as the middleware leaves it
  code,     \* its status: "low", or "high" from 500
  req, res, \* Node's request and response
  finished, \* was all of the response written?
  target,   \* was the target inferred?
  gauge,    \* activeRequests
  counted,  \* history: the requests' records, as durations or aborted
  span, streaming \* status of the two spans, "none" without, "unset" before
                  \* it is set, and whether they ended

handlerVars == <<fn, race, bypassed, body, code, target>>
metricVars == <<gauge, counted>>
spanVars == <<span, streaming>>
requestVars == <<handlerVars, koa, req, res, finished, metricVars, spanVars>>

NoSpan == [status |-> "none", ended |-> FALSE]

RequestInit ==
  /\ fn = [r \in Requests |-> "none"] /\ race = [r \in Requests |-> "none"]
  /\ koa = [r \in Requests |-> "waiting"]
  /\ bypassed = [r \in Requests |-> FALSE]
  /\ body = [r \in Requests |-> "none"] /\ code = [r \in Requests |-> "low"]
  /\ req = [r \in Requests |-> "open"] /\ res = [r \in Requests |-> "open"]
  /\ finished = [r \in Requests |-> FALSE] /\ target = [r \in Requests |-> FALSE]
  /\ gauge = 0 /\ counted = [r \in Requests |-> <<>>]
  /\ span = [r \in Requests |-> NoSpan] /\ streaming = [r \in Requests |-> NoSpan]

\* activeRequests goes up, the race starts and calls the handler.
Receive(r) ==
  /\ fn[r] = "none"
  /\ gauge' = gauge + 1
  /\ fn' = [fn EXCEPT ![r] = "handling"] /\ race' = [race EXCEPT ![r] = "running"]
  /\ span' = [span EXCEPT ![r].status = "unset"]
  /\ UNCHANGED <<koa, bypassed, body, code, req, res, finished, target, counted,
                 streaming>>

-----------------------------------------------------------------------------
(* The function raced. *)

\* Mutant: losing does not show on the span.
EndsUnmarked(r, how, status) ==
  /\ fn' = [fn EXCEPT ![r] = how]
  /\ span' = [span EXCEPT ![r] = [status |-> status, ended |-> TRUE]]
  /\ IF race[r] = "running"
     THEN /\ race' = [race EXCEPT ![r] = "won"]
          /\ koa' = [koa EXCEPT ![r] = IF how = "returned" THEN "respond" ELSE "onerror"]
     ELSE UNCHANGED <<race, koa>>

\* Mutant: a rejection is swallowed.
EndsSilently(r, how, status) ==
  /\ fn' = [fn EXCEPT ![r] = how]
  /\ span' = [span EXCEPT ![r] =
                [status |-> IF race[r] = "lost" THEN "error" ELSE status, ended |-> TRUE]]
  /\ IF race[r] = "running" /\ how = "returned"
     THEN race' = [race EXCEPT ![r] = "won"] /\ koa' = [koa EXCEPT ![r] = "respond"]
     ELSE UNCHANGED <<race, koa>>

\* It ends: the span with it (simpleRacer), and the race is won unless lost.
\* Ended spans are left alone.
Ends(r, how, status) ==
  /\ fn' = [fn EXCEPT ![r] = how]
  /\ span' = [span EXCEPT ![r] =
                [status |-> IF race[r] = "lost" THEN "error" ELSE status, ended |-> TRUE]]
  /\ IF race[r] = "running"
     THEN /\ race' = [race EXCEPT ![r] = "won"]
          /\ koa' = [koa EXCEPT ![r] = IF how = "returned" THEN "respond" ELSE "onerror"]
     ELSE UNCHANGED <<race, koa>>

\* A response which streams on has a span of its own, ended when res closes.
Conclude(r, b, c) ==
  /\ body' = [body EXCEPT ![r] = b] /\ code' = [code EXCEPT ![r] = c]
  /\ IF bypassed[r] \/ b = "stream"
     THEN /\ streaming' = [streaming EXCEPT ![r].status = "unset"]
          /\ Ends(r, "returned", span[r].status)
     ELSE /\ UNCHANGED streaming
          /\ Ends(r, "returned", IF c = "low" THEN "ok" ELSE "error")

\* The target is looked up among the well-known paths, then the routes.
InferTarget(r) == target' = [target EXCEPT ![r] = TRUE]

\* The target is inferred in any case, the outcome of a lost race dropped.  A
\* handler which throws a falsy value is taken for one which returns.
HandlerReturns(r, b, c) ==
  /\ fn[r] = "handling"
  /\ InferTarget(r)
  /\ IF race[r] = "lost"
     THEN Ends(r, "returned", span[r].status) /\ UNCHANGED <<body, code, streaming>>
     ELSE Conclude(r, b, c)
  /\ UNCHANGED <<bypassed, req, res, finished, metricVars>>

\* Annotators are awaited for standard errors only.
HandlerThrows(r, error, c) ==
  /\ fn[r] = "handling"
  /\ InferTarget(r)
  /\ CASE race[r] = "lost" ->
            Ends(r, "returned", span[r].status) /\ UNCHANGED <<body, code, streaming>>
       [] race[r] # "lost" /\ error = "standard" ->
            /\ fn' = [fn EXCEPT ![r] = "annotating"]
            /\ UNCHANGED <<race, koa, body, code, spanVars>>
       [] race[r] # "lost" /\ error = "other" -> Conclude(r, "failure", c)
  /\ UNCHANGED <<bypassed, req, res, finished, metricVars>>

\* The race may have been lost meanwhile: it is not looked at again.
Annotated(r, c) ==
  /\ fn[r] = "annotating"
  /\ Conclude(r, "failure", c)
  /\ UNCHANGED <<bypassed, target, req, res, finished, metricVars>>

\* An annotator, or a propagator, throws: so does the function.
AnnotatorFails(r) ==
  /\ fn[r] = "annotating"
  /\ Ends(r, "rejected", span[r].status)
  /\ UNCHANGED <<bypassed, body, code, target, req, res, finished, metricVars, streaming>>

\* The handler sets ctx.respond to false and writes the response itself.
Bypass(r) ==
  /\ fn[r] = "handling" /\ ~bypassed[r]
  /\ bypassed' = [bypassed EXCEPT ![r] = TRUE]
  /\ UNCHANGED <<fn, race, koa, body, code, target, req, res, finished, metricVars,
                 spanVars>>

-----------------------------------------------------------------------------
(* Koa, and the connection. *)

\* The middleware's promise settled: koa writes the body, or the error unless
\* the connection is gone.
Respond(r) ==
  /\ koa[r] \in {"respond", "onerror"}
  /\ koa' = [koa EXCEPT ![r] = "done"]
  /\ res' = [res EXCEPT ![r] =
               IF @ = "open" /\ req[r] # "aborted" /\ ~(koa[r] = "respond" /\ bypassed[r])
               THEN "written" ELSE @]
  /\ UNCHANGED <<handlerVars, req, finished, metricVars, spanVars>>

\* Who bypassed koa ends the response at any time.
HandlerWrites(r) ==
  /\ bypassed[r] /\ res[r] = "open"
  /\ res' = [res EXCEPT ![r] = "written"]
  /\ UNCHANGED <<handlerVars, koa, req, finished, metricVars, spanVars>>

\* The race is lost, and its promise rejected, when it runs.
Abort(r) ==
  IF race[r] = "running"
  THEN race' = [race EXCEPT ![r] = "lost"] /\ koa' = [koa EXCEPT ![r] = "onerror"]
  ELSE UNCHANGED <<race, koa>>

ReqCloses(r, end) ==
  /\ fn[r] # "none" /\ req[r] = "open"
  /\ req' = [req EXCEPT ![r] = end]
  /\ IF end = "aborted" THEN Abort(r) ELSE UNCHANGED <<race, koa>>
  /\ UNCHANGED <<fn, bypassed, body, code, target, res, finished, metricVars, spanVars>>

Written(r) == res[r] = "written" /\ req[r] # "aborted"

\* Mutant: aborted responses are counted out as any other.
CountOutAlike(r, ok) ==
  /\ gauge' = gauge - 1
  /\ counted' = [counted EXCEPT ![r] = Append(@, [as |-> "duration", target |-> target[r]])]

CountOut(r, ok) ==
  /\ gauge' = gauge - 1
  /\ counted' = [counted EXCEPT ![r] =
                   Append(@, [as |-> IF ok THEN "duration" ELSE "aborted",
                              target |-> target[r]])]

\* Both listeners of res, the second one only if it was added before.
ResCloses(r, ok) ==
  /\ fn[r] # "none" /\ res[r] # "closed" /\ (ok => Written(r))
  /\ res' = [res EXCEPT ![r] = "closed"]
  /\ finished' = [finished EXCEPT ![r] = ok]
  /\ CountOut(r, ok)
  /\ IF ok THEN UNCHANGED <<race, koa>> ELSE Abort(r)
  /\ streaming' = [streaming EXCEPT ![r] =
       IF @.status = "none" THEN @
       ELSE [status |-> IF ok /\ code[r] = "low" THEN "ok" ELSE "error", ended |-> TRUE]]
  /\ UNCHANGED <<fn, bypassed, body, code, target, req, span>>

-----------------------------------------------------------------------------
Codes == {"low", "high"}

HandlerEnds(r) ==
  \/ \E b \in {"data", "stream"}, c \in Codes : HandlerReturns(r, b, c)
  \/ \E error \in {"standard", "other"}, c \in Codes : HandlerThrows(r, error, c)

RequestStep(r) ==
  \/ Receive(r) \/ Bypass(r) \/ HandlerEnds(r) \/ AnnotatorFails(r)
  \/ \E c \in Codes : Annotated(r, c)
  \/ Respond(r) \/ HandlerWrites(r)
  \/ \E end \in {"complete", "aborted"} : ReqCloses(r, end)
  \/ \E ok \in BOOLEAN : ResCloses(r, ok)

RequestNext == \E r \in Requests : RequestStep(r)

RequestSpec == RequestInit /\ [][RequestNext]_requestVars

\* Annotators settle, koa answers, what is written is sent or the connection
\* ends.  Handlers and streams need not end, nor clients leave.
RequestFairness ==
  \A r \in Requests :
    /\ WF_requestVars(AnnotatorFails(r) \/ \E c \in Codes : Annotated(r, c))
    /\ WF_requestVars(Respond(r))
    /\ WF_requestVars((res[r] = "written" \/ req[r] = "aborted") /\ \E ok \in BOOLEAN : ResCloses(r, ok))

FairRequestSpec == RequestSpec /\ RequestFairness

-----------------------------------------------------------------------------
\* Requests received whose response is still open.
Active == {r \in Requests : fn[r] # "none" /\ res[r] # "closed"}

\* Each request is recorded once, when its response closes: with its duration,
\* and under its route unless its handler wrote the response, if that was
\* completed, as aborted otherwise.
Recorded(r) ==
  IF res[r] # "closed" THEN counted[r] = <<>>
  ELSE /\ Len(counted[r]) = 1
       /\ counted[r][1].as = "duration" <=> finished[r]
       /\ finished[r] /\ ~bypassed[r] => counted[r][1].target

\* activeRequests counts the requests with an open response, however they end:
\* it neither leaks nor becomes negative.
CountedOnce == gauge = Cardinality(Active) /\ \A r \in Requests : Recorded(r)

\* The span of a request ends with its handler, annotators included.  It shows
\* an error if the race was lost, whatever came of the handler; else whether the
\* response has a status of 500 or more, unless that is told elsewhere or by
\* none: by the span of a response which streams on, and not at all if an
\* annotator or a propagator threw, as the span ends before the race's rejection
\* would set it (race.ts:441, 453).
OwnSpanTells(r) ==
  /\ span[r].ended <=> fn[r] \in {"returned", "rejected"}
  /\ race[r] = "lost" /\ span[r].ended => span[r].status = "error"
  /\ race[r] = "won" =>
       span[r].status =
         IF fn[r] = "rejected" \/ streaming[r].status # "none" THEN "unset"
         ELSE IF code[r] = "low" THEN "ok" ELSE "error"

\* The span of a streamed response ends with the response: as koa has not
\* answered yet, streaming only starts while it is open.
StreamingEnds(r) ==
  streaming[r].status # "none" /\ res[r] = "closed" /\ ~bypassed[r] =>
    streaming[r].ended /\ (streaming[r].status = "ok" => finished[r])

\* A request's spans tell how it was answered, or abandoned, as far as above.
SpansTellAnswer == \A r \in Requests : OwnSpanTells(r) /\ StreamingEnds(r)

\* A request whose handler is done is answered, or its connection ends, unless
\* its response streams.
Answered ==
  \A r \in Requests :
    (fn[r] \in {"returned", "rejected"} /\ ~bypassed[r] /\ body[r] # "stream")
      ~> res[r] = "closed"

-----------------------------------------------------------------------------
(* Refuted by the code. *)

\* A request which koa answers with an error is one to its span, as the race sets
\* its status when it rejects (race.ts:449-457).  The span has ended by then.
RejectedSpanTells ==
  \A r \in Requests :
    fn[r] = "rejected" /\ koa[r] = "done" => span[r].status = "error"

\* All spans of streamed responses end.  A handler which writes the response
\* itself, and waits for it to be finished, returns after it is closed: the
\* streaming span is started then, and nothing ends it.
AllStreamingEnds ==
  \A r \in Requests :
    streaming[r].status # "none" /\ res[r] = "closed" => streaming[r].ended

\* The handler of a lost race leaves the response alone.  The race is lost while
\* the annotators are awaited.
AbandonedIsSilent ==
  [][\A r \in Requests : race[r] = "lost" => UNCHANGED <<body[r], code[r]>>]_requestVars
=============================================================================
