----------------------------- MODULE Recording -----------------------------
(***************************************************************************)
(* The spans of a recording telemetry (stl-telemetry/src/tracing/          *)
(* recording.ts): tests wait for those which have not ended, and reset the *)
(* records between cases.  All instances derived with `via` share both.    *)
(*                                                                         *)
(* Spans are started and ended, waits begun and records reset in any turn; *)
(* the jobs of ended spans' promises run in the order they are queued.     *)
(***************************************************************************)
EXTENDS Naturals, Sequences, FiniteSets

SpanSeqs == INSTANCE SequencesExt

CONSTANTS
  MaxSpans, \* bounds the spans started
  Waiters,  \* calls of waitForPendingSpans
  MaxResets

ASSUME RecordingAssumption ==
  MaxSpans \in Nat /\ IsFiniteSet(Waiters) /\ MaxResets \in Nat

VARIABLES
  records,  \* spans, numbered as they start: records' order is that of numbers,
  openSpans, \* and so is pending's: the same which have not ended
  lastSpan,
  endedSpans,
  jobs,     \* microtasks: a span to delete from openSpans, a waiter to resume
  waits,    \* the span which each waiter awaits, or how it is
  resets

recordingVars == <<records, openSpans, lastSpan, endedSpans, jobs, waits, resets>>

Idle == 0
Returned == MaxSpans + 1

Delete(s) == [do |-> "delete", span |-> s]
Resume(w) == [do |-> "resume", waiter |-> w]

\* recordingSpan, in startSpan and startActiveSpan.
RecordingSpan ==
  /\ lastSpan < MaxSpans /\ lastSpan' = lastSpan + 1
  /\ records' = records \cup {lastSpan'} /\ openSpans' = openSpans \cup {lastSpan'}
  /\ UNCHANGED <<endedSpans, jobs, waits, resets>>

\* end: the span's promise resolves, once. The deletion was registered when the
\* span was created, before any wait.
End(s) ==
  /\ s <= lastSpan
  /\ endedSpans' = endedSpans \cup {s}
  /\ jobs' = IF s \in endedSpans THEN jobs
             ELSE jobs \o <<Delete(s)>>
                       \o SpanSeqs!SetToSeq({Resume(w) : w \in {v \in Waiters : waits[v] = s}})
  /\ UNCHANGED <<records, openSpans, lastSpan, waits, resets>>

\* firstElement.
First(spans) == CHOOSE s \in spans : \A t \in spans : s <= t

\* Mutant: one span is awaited, whatever started meanwhile.
AwaitOne(w, queue, left) ==
  /\ waits' = [waits EXCEPT ![w] = IF left = {} \/ waits[w] # Idle THEN Returned ELSE First(left)]
  /\ jobs' = IF left # {} /\ First(left) \in endedSpans THEN Append(queue, Resume(w)) ELSE queue

\* The loop of waitForPendingSpans, up to its next await.
AwaitFirst(w, queue, left) ==
  IF left = {}
  THEN waits' = [waits EXCEPT ![w] = Returned] /\ jobs' = queue
  ELSE /\ waits' = [waits EXCEPT ![w] = First(left)]
       /\ jobs' = IF First(left) \in endedSpans THEN Append(queue, Resume(w)) ELSE queue

WaitForPendingSpans(w) ==
  /\ waits[w] = Idle
  /\ AwaitFirst(w, jobs, openSpans)
  /\ UNCHANGED <<records, openSpans, lastSpan, endedSpans, resets>>

\* Mutant: a span which ended stays pending.
KeepPending(s) == openSpans
WithoutSpan(s) == openSpans \ {s}

RunJob ==
  /\ jobs # <<>>
  /\ LET job == Head(jobs)
     IN IF job.do = "delete"
        THEN /\ openSpans' = WithoutSpan(job.span)
             /\ jobs' = Tail(jobs) /\ UNCHANGED waits
        ELSE AwaitFirst(job.waiter, Tail(jobs), openSpans) /\ UNCHANGED openSpans
  /\ UNCHANGED <<records, lastSpan, endedSpans, resets>>

\* reset, of the spans: a wait under way keeps awaiting the span which it was.
ResetSpans ==
  /\ resets < MaxResets /\ resets' = resets + 1
  /\ records' = {} /\ openSpans' = {}
  /\ UNCHANGED <<lastSpan, endedSpans, jobs, waits>>

RecordingInit ==
  /\ records = {} /\ openSpans = {} /\ lastSpan = 0 /\ endedSpans = {}
  /\ jobs = <<>> /\ waits = [w \in Waiters |-> Idle] /\ resets = 0

RecordingNext ==
  \/ RecordingSpan \/ RunJob \/ ResetSpans
  \/ \E s \in 1 .. MaxSpans : End(s)
  \/ \E w \in Waiters : WaitForPendingSpans(w)

RecordingSpec == RecordingInit /\ [][RecordingNext]_recordingVars

\* Node runs its jobs.
RecordingFairness == WF_recordingVars(RunJob)

-----------------------------------------------------------------------------
(* Properties *)

AllEnded(spans) == spans \subseteq endedSpans

\* However many spans start while it waits, and whatever was reset, a wait
\* returns with every recorded span over (waitForPendingSpans).
ReturnsWithNoneOpen ==
  [][\A w \in Waiters :
       waits[w] # Returned /\ waits'[w] = Returned => AllEnded(records')]_recordingVars

\* A wait returns once all spans are over: it neither misses the end of one nor
\* awaits one for ever which was reset or ended before.
WaitReturns ==
  \A w \in Waiters :
    waits[w] \notin {Idle, Returned} /\ [](1 .. lastSpan \subseteq endedSpans)
      ~> waits[w] = Returned

\* A wait is neither too short nor endless.
WaitsForOpenSpans == ReturnsWithNoneOpen /\ WaitReturns
=============================================================================
