------------------------------- MODULE KoaApp -------------------------------
(***************************************************************************)
(* AppBindable (stl-koa/src/server.ts): a Bindable which also unbinds when *)
(* its server closes, whoever closed it.  It is bound once here: the stop  *)
(* of one binding may end the next (BoundIsAvailable of Bindable).         *)
(***************************************************************************)
CONSTANT AppCallers  \* calls of `stop`

VARIABLES
  status, active, last, host, setup, server, calls, onStops, runs, ticks, turn

App == INSTANCE Bindable WITH
  Callers <- AppCallers, MaxBindings <- 1, SelfUnbinds <- TRUE

appVars ==
  <<status, active, last, host, setup, server, calls, onStops, runs, ticks, turn>>

AppSpec == App!Spec

\* Nothing runs which was started, but for a server which may close.
AppRests ==
  ticks = <<>> /\ ~App!JobQueued /\ \A c \in AppCallers : ~App!At(c, "stopping")

\* When an AppBindable's server closes from outside, before, while or after
\* others stop it, the app takes itself for bound no more (server.ts:43); and
\* once nothing runs any more, whoever awaits `run` has heard of the end, and no
\* stop which returned has left the app running.
AppEndIsHeard ==
  /\ server[1] = "closed" => status \in {"unbound", "error"}
  /\ AppRests =>
       /\ App!Over(1) => runs[1] # "waiting"
       /\ \A c \in AppCallers :
            App!At(c, "returned") /\ calls[c].binding = 1 => App!Over(1)
=============================================================================
