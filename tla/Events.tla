------------------------------- MODULE Events -------------------------------
(***************************************************************************)
(* Iterating on events (stl-utils/src/events.ts): yieldEvents, until it is *)
(* stopped, and mapEvents, until one of its mappers calls exit.  Both rely *)
(* on Node's events.on (external): a queue of the events heard, ended by   *)
(* an error once those before were delivered.                              *)
(*                                                                         *)
(* Events are numbered as they are emitted, by a target which need not     *)
(* wait for its consumer.  Mappers may be asynchronous, call exit at any   *)
(* time until they are done, and fail, having called it or not; exit may   *)
(* also be called from elsewhere.                                          *)
(***************************************************************************)
EXTENDS Naturals, Sequences

CONSTANT MaxEvents

VARIABLES
  kind,      \* "map" or "yield"
  throwsAborted, \* throwIfAborted, of yieldEvents
  iteration, \* "unstarted", "waiting" for an event, having "yielded" one, or over:
             \* "returned", "threw" or "left" by its consumer
  listening, \* to the target: `listeners`, or those of events.on
  untilListening, \* stop, of yieldEvents
  emitted,   \* events emitted while listening
  mapping,   \* the events whose mapper is pending or threw, still to forward
  queue,     \* of events.on: [event, size], size being that of `listeners`
  onError,   \* what ends the queue, "none" while it is open
  lastSize,  \* with the value yielded last
  forwarded, \* history: what was queued
  yielded,   \* history: the events yielded
  awaited,   \* history: the events whose mapper returned a promise
  exit,      \* history of the first call: [called, by, after, rivals], that is
             \* the event whose mapper did (0 from elsewhere), how many values
             \* were forwarded before, and which ones may come before its own
  uncaught   \* history: was an error emitted with nobody listening?

eventsVars == <<kind, throwsAborted, iteration, listening, untilListening, emitted, mapping,
                queue, onError, lastSize, forwarded, yielded, awaited, exit, uncaught>>

sourceVars == <<emitted, mapping, awaited, exit>>
targetVars == <<listening, untilListening>>
optsVars == <<kind, throwsAborted>>

IterationOver == iteration \in {"returned", "threw", "left"}

-----------------------------------------------------------------------------
(* events.on *)

Forward(e, size) ==
  IF onError # "none" THEN UNCHANGED <<queue, forwarded>>
  ELSE /\ queue' = Append(queue, [event |-> e, size |-> size])
       /\ forwarded' = Append(forwarded, [event |-> e, size |-> size])

\* Its own listeners are removed with the first error.
EndQueue(why) ==
  IF onError # "none" THEN uncaught' = TRUE /\ UNCHANGED onError
  ELSE onError' = why /\ UNCHANGED uncaught

-----------------------------------------------------------------------------
(* Events *)

\* The events whose mapper is pending.
Pending == {m.event : m \in {m \in mapping : ~m.thrown}}

\* Listeners are removed; exit only counts once.
Exit(e, rivals) ==
  /\ listening' = FALSE
  /\ exit' = IF exit.called THEN exit
             ELSE [called |-> TRUE, by |-> e, after |-> Len(forwarded), rivals |-> rivals]

\* The listener of a mapper: the values of synchronous ones are forwarded at
\* once, with how many listeners are left.
EmitEvent(mode) ==
  /\ listening /\ emitted < MaxEvents
  /\ kind = "yield" => mode = "value"
  /\ emitted' = emitted + 1
  /\ LET e == emitted + 1
         sync == mode \in {"value", "exit"}
         exits == mode \in {"exit", "promiseExit", "throwExit"}
     IN /\ IF exits THEN Exit(e, IF sync THEN {} ELSE Pending) ELSE UNCHANGED <<listening, exit>>
        /\ awaited' = IF mode \in {"promise", "promiseExit"} THEN awaited \cup {e} ELSE awaited
        /\ IF sync THEN Forward(e, IF exits THEN 0 ELSE 1) /\ UNCHANGED mapping
           ELSE /\ mapping' = mapping \cup
                     {[event |-> e, thrown |-> mode \in {"throw", "throwExit"}]}
                /\ UNCHANGED <<queue, forwarded>>
  /\ UNCHANGED <<optsVars, iteration, untilListening, onError, lastSize, yielded, uncaught>>

\* A mapper calls exit after it was awaited.
MapperExits ==
  /\ listening
  /\ \E e \in Pending : Exit(e, Pending)
  /\ UNCHANGED <<optsVars, iteration, untilListening, emitted, mapping, queue, onError, lastSize,
                 forwarded, yielded, awaited, uncaught>>

\* Somebody else does, or the mapper of an event long forwarded.
ExitElsewhere ==
  /\ kind = "map" /\ listening
  /\ Exit(0, Pending)
  /\ UNCHANGED <<optsVars, iteration, untilListening, emitted, mapping, queue, onError, lastSize,
                 forwarded, yielded, awaited, uncaught>>

MapperResolves ==
  \E m \in mapping :
    /\ ~m.thrown /\ mapping' = mapping \ {m}
    /\ Forward(m.event, IF listening THEN 1 ELSE 0)
    /\ UNCHANGED <<optsVars, iteration, targetVars, emitted, onError, lastSize, yielded,
                   awaited, exit, uncaught>>

\* The mapper threw, or its promise rejects.
MapperRejects ==
  \E m \in mapping :
    /\ mapping' = mapping \ {m}
    /\ EndQueue("error")
    /\ UNCHANGED <<optsVars, iteration, targetVars, emitted, queue, lastSize, forwarded,
                   yielded, awaited, exit>>

\* The target's error event. The listener mapEvents adds forwards it.
EmitError ==
  /\ listening /\ (kind = "yield" => onError = "none")
  /\ EndQueue("error")
  /\ UNCHANGED <<optsVars, iteration, targetVars, sourceVars, queue, lastSize, forwarded,
                 yielded>>

\* yieldEvents: one of the until events, its listeners being added for good.
Until ==
  /\ untilListening
  /\ onError' = IF iteration \in {"waiting", "yielded"} /\ onError = "none" THEN "abort" ELSE onError
  /\ UNCHANGED <<optsVars, iteration, targetVars, sourceVars, queue, lastSize, forwarded,
                 yielded, uncaught>>

-----------------------------------------------------------------------------
(* The iteration *)

\* The generator ends: listeners are removed and the queue dropped.
Ends(how) ==
  /\ iteration' = how /\ listening' = FALSE /\ queue' = <<>>
  /\ onError' = IF onError = "none" THEN "closed" ELSE onError

\* Mutant: the loop asks for the listeners left, whichever value it yielded.
ExitedByNow(size) == kind = "map" /\ ~listening

\* There were no listeners left when the value was forwarded.
Exited(size) == kind = "map" /\ size = 0

\* The consumer asks for a value.
Pull ==
  \/ /\ iteration = "unstarted"
     /\ iteration' = "waiting" /\ listening' = TRUE /\ untilListening' = (kind = "yield")
     /\ UNCHANGED <<optsVars, sourceVars, queue, onError, lastSize, forwarded, yielded, uncaught>>
  \/ /\ iteration = "yielded"
     /\ IF Exited(lastSize) THEN Ends("returned")
        ELSE iteration' = "waiting" /\ UNCHANGED <<listening, queue, onError>>
     /\ UNCHANGED <<optsVars, untilListening, sourceVars, lastSize, forwarded, yielded, uncaught>>

Deliver ==
  /\ iteration = "waiting"
  /\ \/ /\ queue # <<>>
        /\ yielded' = Append(yielded, Head(queue).event) /\ lastSize' = Head(queue).size
        /\ iteration' = "yielded" /\ queue' = Tail(queue)
        /\ UNCHANGED <<listening, onError>>
     \/ /\ queue = <<>> /\ onError # "none"
        /\ Ends(IF onError = "error" \/ throwsAborted THEN "threw" ELSE "returned")
        /\ UNCHANGED <<lastSize, yielded>>
  /\ UNCHANGED <<optsVars, untilListening, sourceVars, forwarded, uncaught>>

Leave ==
  /\ iteration = "yielded"
  /\ Ends("left")
  /\ UNCHANGED <<optsVars, untilListening, sourceVars, lastSize, forwarded, yielded, uncaught>>

EventsInit ==
  /\ kind \in {"map", "yield"} /\ throwsAborted \in BOOLEAN
  /\ kind = "map" => ~throwsAborted
  /\ iteration = "unstarted" /\ listening = FALSE /\ untilListening = FALSE
  /\ emitted = 0 /\ mapping = {} /\ queue = <<>> /\ onError = "none" /\ lastSize = 1
  /\ forwarded = <<>> /\ yielded = <<>> /\ uncaught = FALSE
  /\ awaited = {} /\ exit = [called |-> FALSE, by |-> 0, after |-> 0, rivals |-> {}]

Modes == {"value", "exit", "promise", "promiseExit", "throw", "throwExit"}

EventsNext ==
  \/ \E mode \in Modes : EmitEvent(mode)
  \/ MapperExits \/ ExitElsewhere \/ MapperResolves \/ MapperRejects \/ EmitError \/ Until \/ Pull \/ Deliver \/ Leave

EventsSpec == EventsInit /\ [][EventsNext]_eventsVars

\* Mappers settle, and the consumer goes on: it need not start.
EventsFairness ==
  /\ WF_eventsVars(MapperResolves \/ MapperRejects) /\ WF_eventsVars(Deliver)
  /\ WF_eventsVars(iteration = "yielded" /\ (Pull \/ Leave))

-----------------------------------------------------------------------------
(* Properties *)

\* The values due are all which were forwarded before exit was called, even if
\* the consumer asks for them later (events.ts:245), and the next one.
Due ==
  IF exit.called /\ exit.after < Len(forwarded) THEN exit.after + 1 ELSE Len(forwarded)

\* Values are yielded in the order they were forwarded, each event's once, and
\* none which is not due: those of synchronous mappers in the order of their
\* events, whatever asynchronous ones come between.
YieldsInOrder ==
  /\ Len(yielded) <= Due
  /\ \A i \in DOMAIN yielded : yielded[i] = forwarded[i].event
  /\ \A i, j \in DOMAIN yielded : i < j =>
       /\ yielded[i] # yielded[j]
       /\ yielded[i] \notin awaited /\ yielded[j] \notin awaited => yielded[i] < yielded[j]

\* None is lost: an iteration yields all those due before it returns, be it
\* because exit was called or because it was stopped, or throws.
YieldsAll == iteration \in {"returned", "threw"} => Len(yielded) = Due

\* An iteration on mapped events returns with the value of the mapper which
\* called exit, not with one yielded before (events.ts:248), unless that had to
\* be awaited, or failed, and another mapper pending at the time was faster.
ExitIsLast ==
  kind = "map" /\ iteration = "returned" =>
    /\ exit.called /\ yielded # <<>>
    /\ yielded[Len(yielded)] \in {exit.by} \cup exit.rivals

\* An iteration ends once a mapper called exit before it was done, whatever
\* becomes of that mapper and of those which are pending.
EndsAfterExit == exit.by > 0 ~> IterationOver

\* Consumers get all that they are to get, and then the end.
IterationsAreFaithful == [](YieldsInOrder /\ YieldsAll /\ ExitIsLast) /\ EndsAfterExit

-----------------------------------------------------------------------------
(* What the documentation says, refuted by the code. *)

\* "All listeners will be removed from the target when this iterator returns"
\* (events.ts:167). Those of until are not.
UntilRemoved == IterationOver => ~untilListening

\* The loop would be "aborted on the first yielded value instead of the one
\* which called exit" (events.ts:248). It is on the first one after the call: of
\* two pending mappers, the one which did not call exit may be faster.
YieldsExitValue ==
  iteration = "returned" /\ exit.by > 0 => \E i \in DOMAIN yielded : yielded[i] = exit.by

\* It "streams multiple events until the function's provided argument is called"
\* (events.ts:216). Called by anyone but a mapper which is not done, that only
\* removes the listeners: the loop waits for a value which nobody will forward.
EndsOnceExited == exit.called ~> IterationOver

\* No error is emitted on an emitter without listeners, which would throw.
\* Several mappers may fail, or the target err, before the loop ends.
ErrorsHeard == ~uncaught
=============================================================================
