------------------------------ MODULE Bindable ------------------------------
(***************************************************************************)
(* One Bindable (stl-utils/src/bindable.ts): a server which is started,    *)
(* stopped by concurrent callers, waited for with `run`, and restarted     *)
(* once it is unbound.  Each start is a binding, numbered here; the code   *)
(* has no such number, and what goes wrong does because a continuation of  *)
(* one binding acts on the next.                                           *)
(*                                                                         *)
(* The subclass is external: `bind` opens the server or fails, `onStop`    *)
(* closes it or fails, at any later time.  AppBindable (stl-koa) also      *)
(* calls `unbind` from its server's close event: SelfUnbinds.              *)
(*                                                                         *)
(* As in Race, Node runs the `ticks` of process.nextTick, then the jobs of *)
(* settled promises until none is left, then the next ticks; a new task    *)
(* waits for both.  Calls of `start` and `stop` come in any turn.          *)
(***************************************************************************)
EXTENDS Naturals, Sequences

CONSTANTS
  Callers,      \* calls of `stop`
  MaxBindings,  \* bound on the calls of `start`
  SelfUnbinds   \* does the subclass unbind when its server closes?

ASSUME BindableAssumption == MaxBindings \in Nat /\ SelfUnbinds \in BOOLEAN

Bindings == 1 .. MaxBindings

VARIABLES
  status,
  active,   \* the binding whose promise is activeHost, 0 if undefined
  last,     \* the last binding
  host,     \* each binding's promise: "none", "pending" or "resolved"
  setup,    \* each binding's setup, run by withEmitter
  server,   \* each binding's server: "none", "open" or "closed"
  calls,    \* each stop: where it is and the binding it is about
  onStops,  \* history: how often onStop was called for each binding
  runs,     \* the promise returned by run for each binding
  ticks,    \* queued with process.nextTick: an event to emit, or a binding's
            \* setup
  turn      \* "ticks" or "jobs"

statusVars == <<status, active>>
bindingVars == <<last, host, setup>>
vars == <<statusVars, bindingVars, server, calls, onStops, runs, ticks, turn>>

Init ==
  /\ status = "unbound" /\ active = 0 /\ last = 0
  /\ host = [n \in Bindings |-> "none"]
  /\ setup = [n \in Bindings |-> "none"]
  /\ server = [n \in Bindings |-> "none"]
  /\ calls = [c \in Callers |-> [at |-> "idle", binding |-> 0]]
  /\ onStops = [n \in Bindings |-> 0]
  /\ runs = [n \in Bindings |-> "none"]
  /\ ticks = <<>> /\ turn = "jobs"

QueuedTick(what, n) == [what |-> what, binding |-> n]

\* The jobs which run in this turn; those of `bind` and `onStop` come later.
JobQueued ==
  \/ \E c \in Callers : calls[c].at = "waiting" /\ host[calls[c].binding] = "resolved"
  \/ \E n \in Bindings : setup[n] = "failing"

NextTurn ==
  /\ \/ turn = "ticks" /\ ticks = <<>> /\ turn' = "jobs"
     \/ turn = "jobs" /\ ~JobQueued /\ ticks # <<>> /\ turn' = "ticks"
  /\ UNCHANGED <<statusVars, bindingVars, server, calls, onStops, runs, ticks>>

\* emit: the listeners of every run still waiting hear it.
Emit(event) ==
  runs' = [n \in Bindings |->
             IF runs[n] # "waiting" THEN runs[n]
             ELSE IF event = "unbound" THEN "resolved" ELSE "rejected"]

Unbind ==
  \/ /\ status = "unbound"
     /\ UNCHANGED <<statusVars, ticks>>
  \/ /\ status # "unbound"
     /\ status' = "unbound" /\ active' = 0
     /\ ticks' = Append(ticks, QueuedTick("unbound", 0))

\* What the subclass does, AppBindable's server among others.
Opens(n) == server' = [server EXCEPT ![n] = "open"]
Closes(n) == server' = [server EXCEPT ![n] = "closed"]

-----------------------------------------------------------------------------
(* Starting *)

\* Called in any other status, start throws before it changes anything.
Start(how) ==
  /\ status = "unbound" /\ last < MaxBindings
  /\ last' = last + 1
  /\ status' = "binding" /\ active' = last'
  /\ host' = [host EXCEPT ![last'] = "pending"]
  /\ setup' = [setup EXCEPT ![last'] = "queued"]
  /\ ticks' = Append(ticks, QueuedTick("setup", last'))
  /\ runs' = [runs EXCEPT ![last'] = IF how = "run" THEN "waiting" ELSE "none"]
  /\ UNCHANGED <<server, calls, onStops, turn>>

\* Mutants: bound is announced before the server listens; the host's promise
\* is forgotten.
BindAnnounced(n) ==
  /\ turn = "jobs" /\ setup[n] = "binding"
  /\ host' = [host EXCEPT ![n] = "resolved"]
  /\ status' = "bound" /\ setup' = [setup EXCEPT ![n] = "done"]
  /\ UNCHANGED <<active, last, server, calls, onStops, runs, ticks, turn>>
BindKeepsHost(n) ==
  /\ turn = "jobs" /\ setup[n] = "binding"
  /\ Opens(n)
  /\ status' = "bound" /\ setup' = [setup EXCEPT ![n] = "done"]
  /\ UNCHANGED <<host, active, last, calls, onStops, runs, ticks, turn>>

\* bind resolves: the host is published, then the status, unless it is not the
\* expected one, then the event, whose listeners may throw.
BindSucceeds(n) ==
  /\ turn = "jobs" /\ setup[n] = "binding"
  /\ Opens(n)
  /\ host' = [host EXCEPT ![n] = "resolved"]
  /\ IF status = "binding"
     THEN /\ status' = "bound"
          /\ \E end \in {"done", "failing"} : setup' = [setup EXCEPT ![n] = end]
     ELSE /\ setup' = [setup EXCEPT ![n] = "failing"]
          /\ UNCHANGED status
  /\ UNCHANGED <<active, last, calls, onStops, runs, ticks, turn>>

BindFails(n) ==
  /\ turn = "jobs" /\ setup[n] = "binding"
  /\ status' = "error" /\ active' = 0
  /\ setup' = [setup EXCEPT ![n] = "failing"]
  /\ UNCHANGED <<last, host, server, calls, onStops, runs, ticks, turn>>

\* Mutant: what the setup threw is swallowed.
SetupErrsSilently(n) ==
  /\ turn = "jobs" /\ setup[n] = "failing"
  /\ setup' = [setup EXCEPT ![n] = "failed"]
  /\ UNCHANGED <<statusVars, last, host, server, calls, onStops, runs, ticks, turn>>

\* withEmitter catches what the setup threw and emits it.
SetupErrs(n) ==
  /\ turn = "jobs" /\ setup[n] = "failing"
  /\ setup' = [setup EXCEPT ![n] = "failed"]
  /\ Emit("error")
  /\ UNCHANGED <<statusVars, last, host, server, calls, onStops, ticks, turn>>

-----------------------------------------------------------------------------
(* Stopping *)

At(c, where) == calls[c].at = where

Returned(c) == calls' = [calls EXCEPT ![c].at = "returned"]

Stop(c) ==
  /\ At(c, "idle")
  /\ IF active = 0
     THEN Returned(c)
     ELSE calls' = [calls EXCEPT ![c] = [at |-> "waiting", binding |-> active]]
  /\ UNCHANGED <<statusVars, bindingVars, server, onStops, runs, ticks, turn>>

\* Mutant: the status is not read again after the await.
StopUnchecked(c) ==
  /\ turn = "jobs" /\ At(c, "waiting") /\ host[calls[c].binding] = "resolved"
  /\ status' = "unbinding"
  /\ calls' = [calls EXCEPT ![c].at = "stopping"]
  /\ onStops' = [onStops EXCEPT ![calls[c].binding] = @ + 1]
  /\ UNCHANGED <<active, bindingVars, server, runs, ticks, turn>>

\* The call goes on once the host it awaits is known.
StopGoesOn(c) ==
  /\ turn = "jobs" /\ At(c, "waiting") /\ host[calls[c].binding] = "resolved"
  /\ IF status # "bound"
     THEN Returned(c) /\ UNCHANGED <<status, onStops>>
     ELSE /\ status' = "unbinding"
          /\ calls' = [calls EXCEPT ![c].at = "stopping"]
          /\ onStops' = [onStops EXCEPT ![calls[c].binding] = @ + 1]
  /\ UNCHANGED <<active, bindingVars, server, runs, ticks, turn>>

\* Mutant: nobody listens to the server's close event.
ServerClosesUnheard(n) ==
  /\ turn = "jobs" => ~JobQueued
  /\ turn' = "ticks"
  /\ server[n] = "open"
  /\ SelfUnbinds \/ \E c \in Callers : At(c, "stopping") /\ calls[c].binding = n
  /\ Closes(n)
  /\ UNCHANGED <<statusVars, ticks, bindingVars, calls, onStops, runs>>

\* onStop closes the server, whose close event comes before onStop resolves.
ServerCloses(n) ==
  /\ turn = "jobs" => ~JobQueued
  /\ turn' = "ticks"
  /\ server[n] = "open"
  /\ SelfUnbinds \/ \E c \in Callers : At(c, "stopping") /\ calls[c].binding = n
  /\ Closes(n)
  /\ IF SelfUnbinds THEN Unbind ELSE UNCHANGED <<statusVars, ticks>>
  /\ UNCHANGED <<bindingVars, calls, onStops, runs>>

StopSucceeds(c) ==
  /\ turn = "jobs" /\ At(c, "stopping") /\ server[calls[c].binding] = "closed"
  /\ Unbind
  /\ Returned(c)
  /\ UNCHANGED <<bindingVars, server, onStops, runs, turn>>

StopFails(c) ==
  /\ turn = "jobs" /\ At(c, "stopping")
  /\ status' = "error"
  /\ ticks' = Append(ticks, QueuedTick("error", 0))
  /\ Returned(c)
  /\ UNCHANGED <<active, bindingVars, server, onStops, runs, turn>>

Tick ==
  /\ turn = "ticks" /\ ticks # <<>>
  /\ ticks' = Tail(ticks)
  /\ LET head == Head(ticks) IN
     IF head.what = "setup"
     THEN /\ setup' = [setup EXCEPT ![head.binding] = "binding"]
          /\ UNCHANGED runs
     ELSE Emit(head.what) /\ UNCHANGED setup
  /\ UNCHANGED <<statusVars, last, host, server, calls, onStops, turn>>

-----------------------------------------------------------------------------
Next ==
  \/ \E how \in {"start", "run"} : Start(how)
  \/ \E n \in Bindings : \/ BindSucceeds(n) \/ BindFails(n) \/ SetupErrs(n)
                         \/ ServerCloses(n)
  \/ \E c \in Callers : \/ Stop(c) \/ StopGoesOn(c)
                        \/ StopSucceeds(c) \/ StopFails(c)
  \/ Tick \/ NextTurn

Spec == Init /\ [][Next]_vars

\* Node runs its queues, and the subclass's promises settle: bind does, and
\* onStop closes the server or fails.
Fairness ==
  /\ WF_vars(Tick) /\ WF_vars(NextTurn)
  /\ \A n \in Bindings : /\ WF_vars(BindSucceeds(n) \/ BindFails(n))
                         /\ WF_vars(SetupErrs(n))
  /\ \A c \in Callers : /\ WF_vars(StopGoesOn(c))
                        /\ WF_vars(StopSucceeds(c) \/ StopFails(c))

FairSpec == Spec /\ Fairness

-----------------------------------------------------------------------------
TypeOK ==
  /\ status \in {"unbound", "binding", "bound", "unbinding", "error"}
  /\ active \in {0} \cup Bindings /\ last \in {0} \cup Bindings
  /\ host \in [Bindings -> {"none", "pending", "resolved"}]
  /\ setup \in [Bindings -> {"none", "queued", "binding", "done", "failing", "failed"}]
  /\ server \in [Bindings -> {"none", "open", "closed"}]
  /\ calls \in [Callers -> [at : {"idle", "waiting", "stopping", "returned"},
                            binding : {0} \cup Bindings]]
  /\ onStops \in [Bindings -> Nat]
  /\ runs \in [Bindings -> {"none", "waiting", "resolved", "rejected"}]
  /\ ticks \in Seq([what : {"setup", "unbound", "error"}, binding : {0} \cup Bindings])
  /\ turn \in {"ticks", "jobs"}

\* onStop is called at most once per binding, and only for the current one,
\* once it was bound.
OnStopOncePerBinding ==
  /\ \A n \in Bindings : onStops[n] <= 1
  /\ \A c \in Callers : At(c, "stopping") =>
       calls[c].binding = active /\ host[active] = "resolved"

\* A bindable which listens knows: its host is published and its status is not
\* that of an unbound one.
ListensKnowingly ==
  \A n \in Bindings : server[n] = "open" =>
    /\ n = active /\ host[n] = "resolved"
    /\ status \in {"bound", "unbinding", "error"}

\* However starts, stops and closing servers interleave, the bindable knows what
\* it is bound to.
BindsKnowingly == OnStopOncePerBinding /\ ListensKnowingly

\* A stop which found a binding, even one not bound yet, ends it: its server
\* does not stay open unless onStop failed.
Over(n) == server[n] = "closed" \/ setup[n] = "failed" \/ status = "error"

StopEndsBinding ==
  \A c \in Callers : \A n \in Bindings :
    At(c, "waiting") /\ calls[c].binding = n ~> Over(n)

\* Whoever awaits run hears of the end of the binding.
RunSettles ==
  \A n \in Bindings : runs[n] = "waiting" /\ Over(n) ~> runs[n] # "waiting"

\* Nobody waits in vain.
EndIsHeard == StopEndsBinding /\ RunSettles

\* The bindable keeps its contract, binding after binding.
Contract == INSTANCE BindableContract WITH
  Bindables <- {"bindable"},
  status <- [b \in {"bindable"} |-> status],
  listening <- {b \in {"bindable"} : \E n \in Bindings : server[n] = "open"}

KeepsContract == Contract!Spec

-----------------------------------------------------------------------------
(* What the documentation says, refuted by the code. *)

\* "The returned promise resolves when the bindable is unbound or immediately
\* if it is not currently bound."
StopReturns ==
  \A c \in Callers : At(c, "waiting") ~> At(c, "returned")
StoppedIsUnbound ==
  \A c \in Callers : \A n \in Bindings :
    At(c, "returned") /\ calls[c].binding = n => server[n] # "open" \/ status = "error"

\* "Starts the bindable then waits until it is unbound."
RunWaitsForUnbound ==
  \A n \in Bindings : runs[n] = "resolved" => server[n] = "closed"

\* "The new host is available via the 'bound' event and the host method."
BoundIsAvailable ==
  \A n \in Bindings : server[n] = "open" => active = n
=============================================================================
