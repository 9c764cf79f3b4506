-------------------------- MODULE BindableContract --------------------------
(***************************************************************************)
(* What bindables (stl-utils/src/bindable.ts) promise whoever runs them:   *)
(* each goes through its lifecycle on its own, is listening when it says   *)
(* it is bound, and never says it is unbound while it listens.             *)
(***************************************************************************)
CONSTANT Bindables

VARIABLES
  status,    \* BindableStatus of each
  listening  \* those whose server accepts connections

Statuses == {"unbound", "binding", "bound", "unbinding", "error"}

Init ==
  /\ status = [b \in Bindables |-> "unbound"]
  /\ listening = {}

\* The lifecycle: from -> to.  A binding which failed is over.
Lifecycle ==
  {<<"unbound", "binding">>, <<"binding", "bound">>, <<"binding", "error">>,
   <<"bound", "unbinding">>, <<"unbinding", "unbound">>, <<"unbinding", "error">>}

\* The server opens as the bindable gets bound, and closes as it is unbinding.
Move(b) ==
  LET from == status[b]
      to == status'[b]
      was == b \in listening
      is == b \in listening' IN
  /\ from = to \/ <<from, to>> \in Lifecycle
  /\ ~was /\ is => from = "binding" /\ to = "bound"
  /\ was /\ ~is => from = "unbinding"
  /\ to = "bound" => is
  /\ to = "unbound" => ~is

Next ==
  /\ status' \in [Bindables -> Statuses] /\ listening' \in SUBSET Bindables
  /\ \A b \in Bindables : Move(b)

Spec == Init /\ [][Next]_<<status, listening>>
=============================================================================
