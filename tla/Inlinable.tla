----------------------------- MODULE Inlinable -----------------------------
(***************************************************************************)
(* InlinablePatcher (tools/inlinable/src/inline): replaces the call-sites  *)
(* of inlinable functions by their values.  The sources are instrumented   *)
(* on disk, imported so that each site registers its value, then patched,  *)
(* or restored if a value is missing.  Each stage is a Promise.all over    *)
(* the targets: it fails with the first target which does, and leaves the  *)
(* others' writes and imports in flight.                                   *)
(*                                                                         *)
(* The modules are those which call inlinables.  Node reads and evaluates  *)
(* each at most once per process.                                          *)
(***************************************************************************)
EXTENDS Naturals, Sequences, FiniteSetsExt

CONSTANTS
  Modules,
  Ids,       \* call-sites
  Sites,     \* those of each module
  MaxCalls,  \* bound on the calls of a module's sites
  MaxRounds  \* bound on the calls of patchModules

ASSUME InlinableAssumption ==
  /\ Sites \in [Modules -> SUBSET Ids]
  /\ MaxCalls \in Nat /\ MaxRounds \in Nat

VARIABLES
  suffixed, \* are patched sources written to other files?
  disk,     \* the text of each source file
  out,      \* the suffixed files written
  targets,
  kept,     \* originalSource of each target
  phase, round,
  failing,  \* is this call of patchModules about to fail?
  todo,     \* what the stage's Promise.all waits for
  result,   \* what the last call of patchModules settled with
  writes,   \* in flight
  collects, \* the call for which each target's values are collected, 0 if none:
            \* who has an inlining state, and is in the sentinel
  states,   \* the inlining state of each target
  eval,     \* each module, as Node has it: "no", running with its sites "keyed"
            \* or "plain", "done" or "failed"
  calls,    \* history: the values of each site's calls
  writeFailed \* history

diskVars == <<suffixed, disk, out>>
patcherVars == <<targets, kept, phase, round, failing, todo, result>>
nodeVars == <<collects, states, eval, calls>>
vars == <<diskVars, patcherVars, nodeVars, writes, writeFailed>>

Init ==
  /\ suffixed \in BOOLEAN
  /\ disk = [m \in Modules |-> "original"] /\ out = {}
  /\ targets = {} /\ kept = [m \in Modules |-> "original"]
  /\ phase = "idle" /\ round = 0 /\ failing = FALSE /\ todo = {}
  /\ result = "none"
  /\ writes = {} /\ writeFailed = FALSE
  /\ collects = [m \in Modules |-> 0]
  /\ states = [m \in Modules |-> [i \in Ids |-> "none"]]
  /\ eval = [m \in Modules |-> "no"]
  /\ calls = [m \in Modules |-> [i \in Ids |-> <<>>]]

-----------------------------------------------------------------------------
(* The patcher *)

\* Patched sources import no inlinables any more.
AddModule(m) ==
  /\ phase = "idle" /\ m \notin targets /\ disk[m] # "patched"
  /\ targets' = targets \cup {m}
  /\ kept' = [kept EXCEPT ![m] = disk[m]]
  /\ UNCHANGED <<diskVars, phase, round, failing, todo, result, nodeVars, writes,
                 writeFailed>>

\* forEachTarget, writing to each.
Write(texts, for) ==
  /\ todo' = targets
  /\ writes' = writes \cup {[module |-> m, text |-> texts[m], round |-> for] :
                              m \in targets}

PatchModules ==
  /\ phase = "idle" /\ targets # {} /\ round < MaxRounds
  /\ round' = round + 1 /\ phase' = "instrumenting"
  /\ failing' = FALSE /\ result' = "pending"
  /\ Write([m \in Modules |-> "instrumented"], round')
  /\ UNCHANGED <<diskVars, targets, kept, nodeVars, writeFailed>>

\* finalizeSources, without values and with.
Restore ==
  /\ phase' = "restoring"
  /\ Write(kept, round)
Finalize ==
  /\ phase' = "finalizing"
  /\ Write([m \in Modules |-> "patched"], round)

\* Mutant: nothing is restored.
FailQuietly ==
  /\ phase' = "restoring" /\ failing' = TRUE /\ todo' = {}
  /\ UNCHANGED <<writes, result>>

Fail ==
  /\ failing' = TRUE
  /\ Restore
  /\ UNCHANGED result

\* The collection of all targets starts at once; one which is still collected
\* for an earlier call collides.
Instrumented ==
  /\ phase = "instrumenting" /\ todo = {}
  /\ LET free == {m \in targets : collects[m] = 0} IN
     /\ collects' = [m \in Modules |-> IF m \in free THEN round ELSE collects[m]]
     /\ states' = [m \in Modules |->
                     IF m \in free THEN [i \in Ids |-> "none"] ELSE states[m]]
     /\ IF free = targets
        THEN phase' = "collecting" /\ todo' = targets
             /\ UNCHANGED <<failing, result, writes>>
        ELSE Fail
  /\ UNCHANGED <<diskVars, targets, kept, round, eval, calls, writeFailed>>

Collected ==
  /\ phase = "collecting" /\ todo = {}
  /\ IF suffixed THEN Restore ELSE Finalize
  /\ UNCHANGED <<diskVars, targets, kept, round, failing, result, nodeVars,
                 writeFailed>>

Restored ==
  /\ phase = "restoring" /\ todo = {}
  /\ IF failing
     THEN /\ phase' = "idle" /\ result' = "failed" /\ targets' = {}
          /\ UNCHANGED <<todo, writes>>
     ELSE Finalize /\ UNCHANGED <<result, targets>>
  /\ UNCHANGED <<diskVars, kept, round, failing, nodeVars, writeFailed>>

Finalized ==
  /\ phase = "finalizing" /\ todo = {}
  /\ phase' = "idle" /\ result' = "ok" /\ targets' = {}
  /\ UNCHANGED <<diskVars, kept, round, failing, todo, nodeVars, writes,
                 writeFailed>>

-----------------------------------------------------------------------------
(* Writes *)

Current(w) == w.round = round /\ phase # "idle"

WriteEnds(w) ==
  /\ writes' = writes \ {w}
  /\ IF suffixed /\ w.text = "patched"
     THEN out' = out \cup {w.module} /\ UNCHANGED disk
     ELSE disk' = [disk EXCEPT ![w.module] = w.text] /\ UNCHANGED out
  /\ UNCHANGED suffixed
  /\ todo' = IF Current(w) THEN todo \ {w.module} ELSE todo
  /\ UNCHANGED <<targets, kept, phase, round, failing, result, nodeVars,
                 writeFailed>>

\* What a write which fails leaves on disk is not told apart.  The call fails
\* at once, whatever its stage, and keeps its targets.  At most one fails.
WriteFails(w) ==
  /\ ~writeFailed
  /\ writes' = writes \ {w} /\ writeFailed' = TRUE
  /\ IF Current(w)
     THEN phase' = "idle" /\ result' = "failed" /\ todo' = {}
     ELSE UNCHANGED <<phase, result, todo>>
  /\ UNCHANGED <<diskVars, targets, kept, round, failing, nodeVars>>

-----------------------------------------------------------------------------
(* Collecting: collectInlinedValues and registerInlinable. *)

Evaluate(m) ==
  /\ collects[m] # 0 /\ eval[m] = "no"
  /\ eval' = [eval EXCEPT ![m] = IF disk[m] = "instrumented" THEN "keyed" ELSE "plain"]
  /\ UNCHANGED <<diskVars, patcherVars, collects, states, calls, writes, writeFailed>>

\* Mutant: a second call overwrites the value of the first.
RegisterLast(m, i, value) ==
  /\ eval[m] = "keyed" /\ MapThenSumSet(LAMBDA j : Len(calls[m][j]), Ids) < MaxCalls
  /\ calls' = [calls EXCEPT ![m][i] = Append(@, value)]
  /\ states' = [states EXCEPT ![m][i] = IF value = "json" THEN "value" ELSE "error"]
  /\ UNCHANGED <<diskVars, patcherVars, collects, eval, writes, writeFailed>>

Register(m, i, value) ==
  /\ eval[m] = "keyed" /\ MapThenSumSet(LAMBDA j : Len(calls[m][j]), Ids) < MaxCalls
  /\ calls' = [calls EXCEPT ![m][i] = Append(@, value)]
  /\ states' = [states EXCEPT ![m][i] =
                  IF @ = "none" /\ value = "json" THEN "value" ELSE "error"]
  /\ UNCHANGED <<diskVars, patcherVars, collects, eval, writes, writeFailed>>

Evaluated(m, end) ==
  /\ eval[m] \in {"keyed", "plain"}
  /\ eval' = [eval EXCEPT ![m] = end]
  /\ UNCHANGED <<diskVars, patcherVars, collects, states, calls, writes, writeFailed>>

Complete(m) == eval[m] = "done" /\ \A i \in Sites[m] : states[m][i] = "value"

\* Mutant: a failure is only noticed once all collections have ended.
CollectEndsSettled(m) ==
  /\ collects[m] # 0 /\ eval[m] \in {"done", "failed"}
  /\ collects' = [collects EXCEPT ![m] = 0]
  /\ IF phase = "collecting" /\ \A n \in targets \ {m} : collects[n] = 0
     THEN IF \A n \in targets : Complete(n)
          THEN todo' = {} /\ UNCHANGED <<phase, failing, result, writes>>
          ELSE Fail
     ELSE UNCHANGED <<phase, failing, todo, result, writes>>
  /\ UNCHANGED <<diskVars, targets, kept, round, states, eval, calls, writeFailed>>

CollectEnds(m) ==
  /\ collects[m] # 0 /\ eval[m] \in {"done", "failed"}
  /\ collects' = [collects EXCEPT ![m] = 0]
  /\ IF phase # "collecting" \/ collects[m] # round
     THEN UNCHANGED <<phase, failing, todo, result, writes>>
     ELSE IF Complete(m)
     THEN todo' = todo \ {m} /\ UNCHANGED <<phase, failing, result, writes>>
     ELSE Fail
  /\ UNCHANGED <<diskVars, targets, kept, round, states, eval, calls, writeFailed>>

-----------------------------------------------------------------------------
Next ==
  \/ PatchModules \/ Instrumented \/ Collected \/ Restored \/ Finalized
  \/ \E w \in writes : WriteEnds(w) \/ WriteFails(w)
  \/ \E m \in Modules :
       \/ AddModule(m) \/ Evaluate(m) \/ CollectEnds(m)
       \/ \E i \in Sites[m] : \E value \in {"json", "other"} : Register(m, i, value)
       \/ \E end \in {"done", "failed"} : Evaluated(m, end)

Spec == Init /\ [][Next]_vars

\* Promises settle, writes end or fail.  The evaluation of a module need not
\* end: it may await anything.
Fairness ==
  /\ WF_vars(Instrumented) /\ WF_vars(Collected)
  /\ WF_vars(Restored) /\ WF_vars(Finalized)
  /\ WF_vars(\E w \in writes : WriteEnds(w) \/ WriteFails(w))
  /\ \A m \in Modules : WF_vars(Evaluate(m)) /\ WF_vars(CollectEnds(m))

FairSpec == Spec /\ Fairness

-----------------------------------------------------------------------------
Texts == {"original", "instrumented", "patched"}

TypeOK ==
  /\ suffixed \in BOOLEAN
  /\ disk \in [Modules -> Texts] /\ out \subseteq Modules
  /\ targets \subseteq Modules /\ todo \subseteq targets
  /\ kept \in [Modules -> Texts \ {"patched"}]
  /\ phase \in {"idle", "instrumenting", "collecting", "restoring", "finalizing"}
  /\ round \in Nat /\ failing \in BOOLEAN
  /\ result \in {"none", "pending", "ok", "failed"}
  /\ writes \subseteq [module : Modules, text : Texts, round : 1 .. round]
  /\ collects \in [Modules -> 0 .. round]
  /\ states \in [Modules -> [Ids -> {"none", "value", "error"}]]
  /\ eval \in [Modules -> {"no", "keyed", "plain", "done", "failed"}]
  /\ calls \in [Modules -> [Ids -> Seq({"json", "other"})]]
  /\ writeFailed \in BOOLEAN

\* "Please ensure that each inlinable call-site is called exactly once when the
\* module is imported": a source is not patched, nor about to be, unless each
\* of its sites was, and with a value which is JSON.
OneCallPerSite ==
  \A m \in Modules :
    disk[m] = "patched" \/ m \in out \/ [module |-> m, text |-> "patched", round |-> round] \in writes
      => \A i \in Sites[m] : calls[m][i] = <<"json">>

Patched(m) == IF suffixed THEN disk[m] = kept[m] /\ m \in out ELSE disk[m] = "patched"

\* Unless a write fails, a call of patchModules patches all of its targets, or
\* rejects with all sources as they were, and leaves no write to come.
AllOrNothing ==
  [][phase # "idle" /\ phase' = "idle" /\ ~writeFailed' =>
       /\ writes' = {}
       /\ \/ result' = "ok" /\ \A m \in targets : Patched(m)'
          \/ result' = "failed" /\ \A m \in targets : disk'[m] = "original"]_vars

\* When the evaluation of a target has failed the sources are restored, even if
\* another target's evaluation never ends.
FailureRestores ==
  (phase = "collecting" /\ \E m \in targets : eval[m] = "failed") ~> phase = "idle"

-----------------------------------------------------------------------------
(* Refuted by the code. *)

\* Instrumented sources do not outlive the call which wrote them.
NoInstrumentedLeftOver ==
  phase = "idle" => \A m \in Modules : disk[m] # "instrumented"
=============================================================================
