---------------------------- MODULE MCBootstrap ----------------------------
(***************************************************************************)
(* For TLC, what a process is started with: the runner of its bindables    *)
(* and the manager of its settings.  They share no state: each behaviour   *)
(* is of one part, the other rests.                                        *)
(***************************************************************************)
EXTENDS MCRunner, Settings

VARIABLE part

PlainKeys == <<"a">>
NestedKeys == <<"c">>

\* Nobody configures a runner which rests: that would be asked for.
RunnerRests ==
  /\ Contract!Init
  /\ phase = "done" /\ found = {} /\ stopping = FALSE /\ stops = {}
  /\ runs = [b \in Bindables |-> "none"]
  /\ handlers = FALSE /\ outcome = "configureFailed" /\ exited = "no" /\ signalled = {}

SettingsRest ==
  /\ content = [e \in Envs |-> CHOOSE env \in Contents : TRUE]
  /\ ref = {} /\ ret = {} /\ reply = {} /\ tried = <<>> /\ valid = {}

BootstrapInit ==
  \/ part = "runner" /\ Init /\ SettingsRest
  \/ part = "settings" /\ RunnerRests /\ SettingsInit

BootstrapNext ==
  /\ part' = part
  /\ \/ part = "runner" /\ Next /\ UNCHANGED settingsVars
     \/ part = "settings" /\ SettingsNext /\ UNCHANGED vars

bootstrapVars == <<part, vars, settingsVars>>

BootstrapSpec == BootstrapInit /\ [][BootstrapNext]_bootstrapVars /\ Fairness
=============================================================================
