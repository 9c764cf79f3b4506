------------------------------- MODULE Runner -------------------------------
(***************************************************************************)
(* bindablesRunner (stl-bootstrap/src/servers.ts): initializes a set of    *)
(* bindables, runs them until all are unbound or one errs, stops them on   *)
(* SIGTERM and SIGINT, then shuts down.  Bindables move as                 *)
(* BindableContract has it, each run once; Bindable says how.  What the    *)
(* client configures, initializes and shuts down is external.              *)
(***************************************************************************)
CONSTANT Bindables

VARIABLES
  status, listening,  \* of BindableContract
  phase,      \* where the runner is
  found,      \* the bindables initialize returned
  stopping,
  stops,      \* the calls of stop which wait for the bindable to be bound
  runs,       \* the promise of each bindable's run
  handlers,   \* are the signal handlers installed?
  outcome,    \* what the runner's promise settles with
  exited,     \* has the process exited: "no", "130" or "uncaught"?
  signalled   \* history: the phases in which a signal was handled

bindableVars == <<status, listening>>
runnerVars == <<phase, found, handlers, outcome>>
vars == <<bindableVars, runnerVars, stopping, stops, runs, exited, signalled>>

Contract == INSTANCE BindableContract

Init ==
  /\ Contract!Init
  /\ phase = "configuring" /\ found = {} /\ handlers = FALSE
  /\ outcome = "unset"
  /\ stopping = FALSE /\ stops = {}
  /\ runs = [b \in Bindables |-> "none"]
  /\ exited = "no" /\ signalled = {}

Alive == exited = "no"

-----------------------------------------------------------------------------
(* The runner *)

Configure ==
  /\ Alive /\ phase = "configuring"
  /\ \/ /\ phase' = "initializing" /\ handlers' = TRUE
        /\ UNCHANGED outcome
     \/ /\ phase' = "done" /\ outcome' = "configureFailed"
        /\ UNCHANGED handlers
  /\ UNCHANGED <<bindableVars, found, stopping, stops, runs, exited, signalled>>

InitializeFails ==
  /\ Alive /\ phase = "initializing"
  /\ phase' = "cleaning" /\ outcome' = "initializationFailed"
  /\ UNCHANGED <<bindableVars, found, handlers, stopping, stops, runs, exited,
                 signalled>>

\* All bindables start at once.  With none the assertion throws, past the
\* cleanup.
Initialize ==
  /\ Alive /\ phase = "initializing"
  /\ found' \in SUBSET Bindables
  /\ IF found' = {}
     THEN phase' = "done" /\ outcome' = "assertion"
     ELSE phase' = "running" /\ UNCHANGED outcome
  /\ status' = [b \in Bindables |-> IF b \in found' THEN "binding" ELSE status[b]]
  /\ runs' = [b \in Bindables |-> IF b \in found' THEN "waiting" ELSE "none"]
  /\ UNCHANGED <<listening, handlers, stopping, stops, exited, signalled>>

\* Mutant: bindables which are not bound yet are skipped.
StopAllBound ==
  /\ stopping' = TRUE
  /\ stops' = stops \cup {b \in found : status[b] = "bound"}

\* stop of every bindable: one which has no host to wait for is left alone.
StopAll ==
  /\ stopping' = TRUE
  /\ stops' = stops \cup {b \in found : status[b] \in {"binding", "bound"}}

\* Mutant: the runner stops waiting with the first bindable which does.
AnyUnbound ==
  /\ Alive /\ phase = "running" /\ \E b \in found : runs[b] = "resolved"
  /\ phase' = "cleaning" /\ outcome' = "ok"
  /\ UNCHANGED <<bindableVars, found, handlers, stopping, stops, runs, exited,
                 signalled>>

AllUnbound ==
  /\ Alive /\ phase = "running" /\ \A b \in found : runs[b] = "resolved"
  /\ phase' = "cleaning" /\ outcome' = "ok"
  /\ UNCHANGED <<bindableVars, found, handlers, stopping, stops, runs, exited,
                 signalled>>

\* Mutant: the others are left running.
OneErrsAlone ==
  /\ Alive /\ phase = "running" /\ \E b \in found : runs[b] = "rejected"
  /\ phase' = "cleaning" /\ outcome' = "runFailed"
  /\ UNCHANGED <<bindableVars, found, handlers, stopping, stops, runs, exited, signalled>>

OneErrs ==
  /\ Alive /\ phase = "running" /\ \E b \in found : runs[b] = "rejected"
  /\ StopAll
  /\ phase' = "cleaning" /\ outcome' = "runFailed"
  /\ UNCHANGED <<bindableVars, found, handlers, runs, exited, signalled>>

\* cleanup: whether the shutdown hook fails or not, the handlers go.
Cleanup ==
  /\ Alive /\ phase = "cleaning"
  /\ phase' = "done" /\ handlers' = FALSE
  /\ UNCHANGED <<bindableVars, found, outcome, stopping, stops, runs, exited,
                 signalled>>

Sigterm ==
  /\ Alive /\ handlers
  /\ StopAll /\ signalled' = signalled \cup {phase}
  /\ UNCHANGED <<bindableVars, runnerVars, runs, exited>>

Sigint ==
  /\ Alive /\ handlers
  /\ signalled' = signalled \cup {phase}
  /\ IF stopping
     THEN exited' = "130" /\ UNCHANGED <<stopping, stops>>
     ELSE StopAll /\ UNCHANGED exited
  /\ UNCHANGED <<bindableVars, runnerVars, runs>>

-----------------------------------------------------------------------------
(* The bindables *)

Settle(b, how) ==
  runs' = IF runs[b] = "waiting" THEN [runs EXCEPT ![b] = how] ELSE runs

\* A listener of the bound event which throws rejects the run of a bindable
\* which is bound nevertheless.
Bound(b) ==
  /\ Alive /\ status[b] = "binding"
  /\ status' = [status EXCEPT ![b] = "bound"]
  /\ listening' = listening \cup {b}
  /\ Settle(b, "rejected") \/ UNCHANGED runs
  /\ UNCHANGED <<runnerVars, stopping, stops, exited, signalled>>

BindFails(b) ==
  /\ Alive /\ status[b] = "binding"
  /\ status' = [status EXCEPT ![b] = "error"]
  /\ Settle(b, "rejected")
  /\ UNCHANGED <<listening, runnerVars, stopping, stops, exited, signalled>>

StopGoesOn(b) ==
  /\ Alive /\ b \in stops /\ status[b] = "bound"
  /\ status' = [status EXCEPT ![b] = "unbinding"]
  /\ stops' = stops \ {b}
  /\ UNCHANGED <<listening, runnerVars, stopping, runs, exited, signalled>>

Closes(b) ==
  /\ Alive /\ status[b] = "unbinding" /\ b \in listening
  /\ listening' = listening \ {b}
  /\ UNCHANGED <<status, runnerVars, stopping, stops, runs, exited, signalled>>

Unbound(b) ==
  /\ Alive /\ status[b] = "unbinding" /\ b \notin listening
  /\ status' = [status EXCEPT ![b] = "unbound"]
  /\ Settle(b, "resolved")
  /\ UNCHANGED <<listening, runnerVars, stopping, stops, exited, signalled>>

\* Once the run has settled nobody listens for errors any more: emitting one
\* throws out of a tick.
StopFails(b) ==
  /\ Alive /\ status[b] = "unbinding"
  /\ status' = [status EXCEPT ![b] = "error"]
  /\ Settle(b, "rejected")
  /\ exited' = IF runs[b] = "waiting" THEN exited ELSE "uncaught"
  /\ UNCHANGED <<listening, runnerVars, stopping, stops, signalled>>

-----------------------------------------------------------------------------
RunnerStep ==
  \/ Configure \/ Initialize \/ InitializeFails
  \/ AllUnbound \/ OneErrs \/ Cleanup
  \/ Sigterm \/ Sigint

BindableStep(b) ==
  \/ Bound(b) \/ BindFails(b)
  \/ StopGoesOn(b) \/ Closes(b) \/ Unbound(b) \/ StopFails(b)

Next == RunnerStep \/ \E b \in Bindables : BindableStep(b)

Spec == Init /\ [][Next]_vars

\* Promises settle, those of the client and of the bindables too.  Signals
\* need not come.
Fairness ==
  /\ WF_vars(Configure \/ Initialize \/ InitializeFails)
  /\ WF_vars(AllUnbound \/ OneErrs)
  /\ WF_vars(Cleanup)
  /\ \A b \in Bindables :
       /\ WF_vars(Bound(b) \/ BindFails(b))
       /\ WF_vars(StopGoesOn(b))
       /\ WF_vars(Closes(b) \/ Unbound(b) \/ StopFails(b))

FairSpec == Spec /\ Fairness

-----------------------------------------------------------------------------
TypeOK ==
  /\ status \in [Bindables -> Contract!Statuses] /\ listening \subseteq Bindables
  /\ phase \in {"configuring", "initializing", "running", "cleaning", "done"}
  /\ signalled \subseteq {"initializing", "running", "cleaning", "done"}
  /\ found \subseteq Bindables /\ stops \subseteq found
  /\ runs \in [Bindables -> {"none", "waiting", "resolved", "rejected"}]
  /\ stopping \in BOOLEAN /\ handlers \in BOOLEAN
  /\ outcome \in {"unset", "configureFailed", "initializationFailed", "assertion",
                  "ok", "runFailed"}
  /\ exited \in {"no", "130", "uncaught"}

\* The shutdown hook is called "after all bindables are unbound or one
\* errored": a run which ends well leaves nothing listening behind it.
ShutdownComesLast ==
  phase \in {"cleaning", "done"} =>
    /\ outcome = "ok" => \A b \in found : status[b] = "unbound" /\ b \notin listening
    /\ outcome = "runFailed" => \E b \in found : runs[b] = "rejected"

\* Once the run has ended, or a signal came while it ran, no bindable runs on
\* which nobody stops: those which are bound, or will be, have a stop waiting
\* for them, however late they bind.
Ended == phase \in {"cleaning", "done"} /\ outcome # "assertion"

NoneRunsOn ==
  exited = "no" /\ ("running" \in signalled \/ Ended) =>
    \A b \in found : status[b] \in {"binding", "bound"} => b \in stops

\* A signal which comes while bindables run ends the run, whether they were
\* bound or still binding.
StopEndsRun ==
  "running" \in signalled ~> phase = "done" \/ exited # "no"

\* Once a bindable has failed none of the others goes on listening, unless it
\* fails to stop.
FailureStopsOthers ==
  \A b \in Bindables :
    outcome = "runFailed" ~>
      b \notin listening \/ status[b] = "error" \/ exited # "no"

\* Whatever is to end the run does.
RunEnds == StopEndsRun /\ FailureStopsOthers

-----------------------------------------------------------------------------
(* What the documentation says, refuted by the code. *)

\* The runner "adds SIGTERM and SIGINT handlers which will stop the bindables
\* then shutdown".
SignalStops == signalled # {} ~> phase = "done" \/ exited # "no"
=============================================================================
