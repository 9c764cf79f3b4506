-------------------------- MODULE InlinableProofs --------------------------
(***************************************************************************)
(* Proofs about Inlinable, for any modules, call-sites and bounds: a       *)
(* source is only patched when each of its sites was called exactly once,  *)
(* and a call of patchModules patches all of its targets or none.          *)
(***************************************************************************)
EXTENDS Inlinable, TLAPS

\* A module whose evaluation is over and called each site once.
Sure(m) == eval[m] = "done" /\ \A i \in Sites[m] : calls[m][i] = <<"json">>

\* TypeOK by parts.
DiskType ==
  /\ suffixed \in BOOLEAN /\ writeFailed \in BOOLEAN
  /\ disk \in [Modules -> Texts] /\ out \subseteq Modules
PatcherType ==
  /\ targets \subseteq Modules /\ todo \subseteq targets
  /\ kept \in [Modules -> Texts \ {"patched"}]
  /\ phase \in {"idle", "instrumenting", "collecting", "restoring", "finalizing"}
  /\ round \in Nat /\ failing \in BOOLEAN
  /\ result \in {"none", "pending", "ok", "failed"}
WritesType == writes \subseteq [module : Modules, text : Texts, round : 1 .. round]
NodeType ==
  /\ collects \in [Modules -> 0 .. round]
  /\ states \in [Modules -> [Ids -> {"none", "value", "error"}]]
  /\ eval \in [Modules -> {"no", "keyed", "plain", "done", "failed"}]
  /\ calls \in [Modules -> [Ids -> Seq({"json", "other"})]]

LEMMA TypeParts == TypeOK <=> DiskType /\ PatcherType /\ WritesType /\ NodeType
  BY DEF TypeOK, DiskType, PatcherType, WritesType, NodeType

LEMMA TypePartsNext ==
  ASSUME DiskType', PatcherType', WritesType', NodeType'
  PROVE  TypeOK'
  BY DEF TypeOK, DiskType, PatcherType, WritesType, NodeType

\* A module is only evaluated while its values are collected, and its inlining
\* state tells its calls.
CallsInv ==
  \A m \in Modules :
    /\ eval[m] \in {"keyed", "plain"} => collects[m] # 0
    /\ \A i \in Ids :
         /\ eval[m] = "no" => calls[m][i] = <<>>
         /\ eval[m] \in {"no", "keyed"} /\ states[m][i] = "none" => calls[m][i] = <<>>
         /\ states[m][i] = "value" => calls[m][i] = <<"json">>

\* The writes of the current stage are those it waits for.
WritesInv ==
  /\ phase # "idle" => round # 0
  /\ \A w \in writes : Current(w) => w.module \in todo /\ phase # "collecting"
  /\ \A v \in writes : \A w \in writes :
       Current(v) /\ Current(w) /\ v.module = w.module => v = w

\* Past the collection all targets are sure, and so is what is patched.
SureInv ==
  /\ phase = "collecting" => \A m \in targets \ todo : Sure(m)
  /\ phase = "finalizing" \/ (phase = "restoring" /\ ~failing) =>
       \A m \in targets : Sure(m)
  /\ \A w \in writes : w.text = "patched" => Sure(w.module)
  /\ \A m \in Modules : disk[m] = "patched" \/ m \in out => Sure(m)

IInv == TypeOK /\ CallsInv /\ WritesInv /\ SureInv

LEMMA InitIInv == Init => IInv
<1> SUFFICES ASSUME Init PROVE IInv
  OBVIOUS
<1>1. DiskType /\ PatcherType /\ WritesType
  BY DEF Init, DiskType, PatcherType, WritesType, Texts
<1>2. NodeType
  <2>1. calls \in [Modules -> [Ids -> Seq({"json", "other"})]]
    <3>1. <<>> \in Seq({"json", "other"})
      OBVIOUS
    <3> QED
      BY <3>1 DEF Init
  <2>2. states \in [Modules -> [Ids -> {"none", "value", "error"}]]
    BY DEF Init
  <2> QED
    BY <2>1, <2>2 DEF Init, NodeType
<1>3. CallsInv /\ WritesInv /\ SureInv
  BY DEF Init, CallsInv, WritesInv, SureInv
<1> QED
  BY <1>1, <1>2, <1>3, TypeParts DEF IInv

-----------------------------------------------------------------------------
(* The stages of the patcher. *)

\* A stage which starts when no write of the call is left: its writes are those
\* it waits for.
NewWrites == writes' \ writes

StageStarts ==
  /\ round' \in {round, round + 1} /\ round' # 0
  /\ phase' # "collecting" /\ todo' = targets /\ targets' = targets
  /\ \A w \in writes : w.round # round'
  /\ \A w \in NewWrites :
       w \in [module : targets, text : Texts, round : {round'}]
  /\ \A v \in NewWrites : \A w \in NewWrites : v.module = w.module => v = w

LEMMA WriteStarts ==
  ASSUME IInv, StageStarts
  PROVE  WritesType' /\ WritesInv'
<1> USE DEF StageStarts
<1>1. round \in Nat /\ round' \in Nat /\ round <= round' /\ targets \subseteq Modules
  BY DEF IInv, TypeOK
<1>2. ASSUME NEW w \in writes'
      PROVE  w \in [module : Modules, text : Texts, round : 1 .. round']
  <2>1. CASE w \in writes
    <3>1. w \in [module : Modules, text : Texts, round : 1 .. round]
      BY <2>1 DEF IInv, TypeOK
    <3>2. 1 .. round \subseteq 1 .. round'
      BY <1>1
    <3> QED
      BY <3>1, <3>2
  <2>2. CASE w \in NewWrites
    <3>1. w \in [module : targets, text : Texts, round : {round'}]
      BY <2>2
    <3>2. round' \in 1 .. round'
      BY <1>1
    <3> QED
      BY <3>1, <3>2, <1>1
  <2> QED
    BY <2>1, <2>2 DEF NewWrites
<1>3. \A w \in writes' : w.round = round' => w \in NewWrites /\ w.module \in todo'
  BY DEF NewWrites
<1>4. WritesInv'
  BY <1>3 DEF WritesInv, Current
<1> QED
  BY <1>2, <1>4 DEF WritesType

\* Nothing is left of a call's writes when its stage waits for nothing.
LEMMA NoneLeft ==
  ASSUME IInv, phase # "idle", todo = {} \/ phase = "collecting"
  PROVE  \A w \in writes : w.round # round
  BY DEF IInv, WritesInv, Current

\* Patcher steps which change nothing Node has leave it as it is.
LEMMA NodeStays ==
  ASSUME IInv, UNCHANGED nodeVars, round' \in {round, round + 1}
  PROVE  NodeType' /\ CallsInv' /\ \A m \in Modules : Sure(m)' <=> Sure(m)
<1>1. NodeType'
  <2>1. collects' \in [Modules -> 0 .. round']
    BY DEF IInv, TypeOK, nodeVars
  <2> QED
    BY <2>1 DEF IInv, TypeOK, NodeType, nodeVars
<1>2. CallsInv'
  BY DEF IInv, CallsInv, nodeVars
<1> QED
  BY <1>1, <1>2 DEF Sure, nodeVars

LEMMA PatchModulesIInv ==
  ASSUME IInv, PatchModules
  PROVE  IInv'
<1>1. NodeType' /\ CallsInv' /\ \A m \in Modules : Sure(m)' <=> Sure(m)
  BY NodeStays DEF PatchModules
<1>2. WritesType' /\ WritesInv'
  <2>1. round' \in {round, round + 1} /\ round' # 0 /\ phase' # "collecting"
        /\ todo' = targets /\ targets' = targets
    BY DEF PatchModules, Write, IInv, TypeOK
  <2>2. \A w \in writes : w.round # round'
    BY DEF PatchModules, IInv, TypeOK
  <2>3. \A w \in NewWrites : \E m \in targets :
          w = [module |-> m, text |-> "instrumented", round |-> round']
    BY DEF PatchModules, Write, NewWrites, IInv, TypeOK
  <2>4. \A w \in NewWrites :
          w \in [module : targets, text : Texts, round : {round'}]
    BY <2>3 DEF Texts
  <2> QED
    BY <2>1, <2>2, <2>3, <2>4, WriteStarts DEF StageStarts
<1>3. DiskType' /\ PatcherType'
  <2>1. DiskType /\ PatcherType
    BY TypeParts DEF IInv
  <2>2. failing' \in BOOLEAN
    BY Zenon DEF PatchModules
  <2> QED
    BY <2>1, <2>2 DEF PatchModules, Write, DiskType, PatcherType, diskVars
<1>4. SureInv'
  <2>1. \A w \in writes' : w.text = "patched" => w \in writes
    BY DEF PatchModules, Write, IInv, TypeOK
  <2> QED
    BY <1>1, <2>1 DEF PatchModules, IInv, TypeOK, SureInv, diskVars
<1> QED
  BY <1>1, <1>2, <1>3, <1>4, TypePartsNext DEF IInv

\* The end of a stage, or a failed collection, starts the next stage.
LEMMA RestoreIInv ==
  ASSUME IInv, phase # "idle", todo = {} \/ phase = "collecting",
         Restore, failing' \in BOOLEAN, result' = result,
         ~failing' => \A m \in targets : Sure(m),
         UNCHANGED <<diskVars, targets, kept, round, writeFailed>>,
         \A m \in Modules : Sure(m) => Sure(m)'
  PROVE  DiskType' /\ PatcherType' /\ WritesType' /\ WritesInv' /\ SureInv'
<1>1. WritesType' /\ WritesInv'
  <2>1. round' \in {round, round + 1} /\ round' # 0 /\ phase' # "collecting"
        /\ todo' = targets /\ targets' = targets
    BY DEF Restore, Write, IInv, TypeOK, WritesInv
  <2>2. \A w \in writes : w.round # round'
    BY NoneLeft
  <2>3. \A w \in NewWrites : \E m \in targets :
          w = [module |-> m, text |-> kept[m], round |-> round']
    BY DEF Restore, Write, NewWrites
  <2>4. \A w \in NewWrites :
          w \in [module : targets, text : Texts, round : {round'}]
    BY <2>3 DEF IInv, TypeOK
  <2> QED
    BY <2>1, <2>2, <2>3, <2>4, WriteStarts DEF StageStarts
<1>2. DiskType' /\ PatcherType'
  <2>1. DiskType /\ PatcherType
    BY TypeParts DEF IInv
  <2> QED
    BY <2>1 DEF Restore, Write, DiskType, PatcherType, diskVars
<1>3. SureInv'
  <2>1. \A w \in writes' : w.text = "patched" => w \in writes
    BY DEF Restore, Write, IInv, TypeOK
  <2> QED
    BY <2>1 DEF Restore, IInv, TypeOK, SureInv, diskVars
<1> QED
  BY <1>1, <1>2, <1>3

LEMMA FinalizeIInv ==
  ASSUME IInv, phase # "idle", todo = {}, Finalize,
         failing' = failing, result' = result,
         \A m \in targets : Sure(m),
         UNCHANGED <<diskVars, targets, kept, round, nodeVars, writeFailed>>
  PROVE  IInv'
<1>1. WritesType' /\ WritesInv'
  <2>1. round' \in {round, round + 1} /\ round' # 0 /\ phase' # "collecting"
        /\ todo' = targets /\ targets' = targets
    BY DEF Finalize, Write, IInv, TypeOK, WritesInv
  <2>2. \A w \in writes : w.round # round'
    BY NoneLeft
  <2>3. \A w \in NewWrites : \E m \in targets :
          w = [module |-> m, text |-> "patched", round |-> round']
    BY DEF Finalize, Write, NewWrites, IInv, TypeOK
  <2>4. \A w \in NewWrites :
          w \in [module : targets, text : Texts, round : {round'}]
    BY <2>3 DEF Texts
  <2> QED
    BY <2>1, <2>2, <2>3, <2>4, WriteStarts DEF StageStarts
<1>2. DiskType' /\ PatcherType'
  <2>1. DiskType /\ PatcherType
    BY TypeParts DEF IInv
  <2> QED
    BY <2>1 DEF Finalize, Write, DiskType, PatcherType, diskVars
<1>3. NodeType' /\ CallsInv' /\ \A m \in Modules : Sure(m)' <=> Sure(m)
  BY NodeStays
<1>4. SureInv'
  <2>1. \A w \in writes' : w \in writes \/ w.module \in targets
    BY DEF Finalize, Write
  <2>2. targets \subseteq Modules /\ \A w \in writes : w.module \in Modules
    BY DEF IInv, TypeOK
  <2> QED
    BY <1>3, <2>1, <2>2 DEF Finalize, IInv, SureInv, diskVars
<1> QED
  BY <1>1, <1>2, <1>3, <1>4, TypePartsNext DEF IInv

LEMMA InstrumentedIInv ==
  ASSUME IInv, Instrumented
  PROVE  IInv'
<1> DEFINE free == {m \in targets : collects[m] = 0}
<1>1. /\ phase = "instrumenting" /\ todo = {}
      /\ collects' = [m \in Modules |-> IF m \in free THEN round ELSE collects[m]]
      /\ states' = [m \in Modules |->
                      IF m \in free THEN [i \in Ids |-> "none"] ELSE states[m]]
      /\ UNCHANGED <<diskVars, targets, kept, round, eval, calls, writeFailed>>
  BY DEF Instrumented
<1>2. \/ /\ phase' = "collecting" /\ todo' = targets
         /\ UNCHANGED <<failing, result, writes>>
      \/ Fail
  BY DEF Instrumented
<1> HIDE DEF free
<1>3. NodeType'
  <2>1. round \in Nat /\ round \in 0 .. round
    BY DEF IInv, TypeOK
  <2>2. collects' \in [Modules -> 0 .. round']
    BY <1>1, <2>1 DEF IInv, TypeOK
  <2>3. states' \in [Modules -> [Ids -> {"none", "value", "error"}]]
    BY <1>1 DEF IInv, TypeOK
  <2> QED
    BY <1>1, <2>2, <2>3 DEF IInv, TypeOK, NodeType
<1>4. CallsInv'
  <2> SUFFICES ASSUME NEW m \in Modules
               PROVE  /\ eval'[m] \in {"keyed", "plain"} => collects'[m] # 0
                      /\ \A i \in Ids :
                           /\ eval'[m] = "no" => calls'[m][i] = <<>>
                           /\ eval'[m] \in {"no", "keyed"} /\ states'[m][i] = "none"
                                => calls'[m][i] = <<>>
                           /\ states'[m][i] = "value" => calls'[m][i] = <<"json">>
    BY DEF CallsInv
  <2>1. CASE m \in free
    <3>1. collects[m] = 0 /\ eval[m] \notin {"keyed", "plain"}
      BY <2>1 DEF free, IInv, CallsInv
    <3>2. \A i \in Ids : states'[m][i] = "none"
      BY <1>1, <2>1
    <3> QED
      BY <1>1, <3>1, <3>2 DEF IInv, CallsInv
  <2>2. CASE m \notin free
    <3>1. collects'[m] = collects[m] /\ states'[m] = states[m]
      BY <1>1, <2>2
    <3> QED
      BY <1>1, <3>1 DEF IInv, CallsInv
  <2> QED
    BY <2>1, <2>2
<1>5. \A m \in Modules : Sure(m) <=> Sure(m)'
  BY <1>1 DEF Sure
<1>6. DiskType' /\ PatcherType' /\ WritesType' /\ WritesInv' /\ SureInv'
  <2>1. CASE Fail
    <3>1. failing' = TRUE /\ Restore /\ result' = result
      BY <2>1 DEF Fail
    <3>2. failing' \in BOOLEAN
      BY <3>1, Zenon
    <3> QED
      BY <1>1, <1>5, <3>1, <3>2, RestoreIInv
  <2>2. CASE phase' = "collecting" /\ todo' = targets /\ UNCHANGED <<failing, result, writes>>
    <3>1. DiskType /\ PatcherType /\ WritesType
      BY TypeParts DEF IInv
    <3>2. DiskType' /\ PatcherType' /\ WritesType'
      BY <1>1, <2>2, <3>1 DEF DiskType, PatcherType, WritesType, diskVars
    <3>3. WritesInv'
      BY <1>1, <2>2, NoneLeft DEF IInv, WritesInv, Current
    <3>4. SureInv'
      BY <1>1, <1>5, <2>2 DEF IInv, TypeOK, SureInv, diskVars
    <3> QED
      BY <3>2, <3>3, <3>4
  <2> QED
    BY <1>2, <2>1, <2>2
<1> QED
  BY <1>3, <1>4, <1>6, TypePartsNext DEF IInv

LEMMA CollectedIInv ==
  ASSUME IInv, Collected
  PROVE  IInv'
<1>1. \A m \in targets : Sure(m)
  BY DEF Collected, IInv, SureInv
<1>2. CASE Restore
  <2>1. NodeType' /\ CallsInv' /\ \A m \in Modules : Sure(m)' <=> Sure(m)
    BY NodeStays DEF Collected
  <2>2. failing' \in BOOLEAN
    <3>1. failing' = failing
      BY DEF Collected
    <3>2. failing \in BOOLEAN
      BY DEF IInv, TypeOK
    <3> QED
      BY <3>1, <3>2, Zenon
  <2>3. DiskType' /\ PatcherType' /\ WritesType' /\ WritesInv' /\ SureInv'
    BY <1>1, <1>2, <2>1, <2>2, RestoreIInv DEF Collected
  <2> QED
    BY <2>1, <2>3, TypePartsNext DEF IInv
<1>3. CASE Finalize
  BY <1>1, <1>3, FinalizeIInv DEF Collected
<1> QED
  BY <1>2, <1>3 DEF Collected

\* A call which settles.
LEMMA SettlesIInv ==
  ASSUME IInv, phase' = "idle", targets' = {}, todo' = {},
         result' \in {"ok", "failed"},
         UNCHANGED <<diskVars, kept, round, failing, nodeVars, writes, writeFailed>>
  PROVE  IInv'
<1>1. DiskType /\ PatcherType /\ WritesType
  BY TypeParts DEF IInv
<1>2. DiskType' /\ PatcherType' /\ WritesType'
  BY <1>1 DEF DiskType, PatcherType, WritesType, diskVars
<1>3. NodeType' /\ CallsInv' /\ \A m \in Modules : Sure(m)' <=> Sure(m)
  BY NodeStays
<1>4. WritesInv'
  BY DEF WritesInv, Current
<1>5. SureInv'
  BY <1>3 DEF IInv, TypeOK, SureInv, diskVars
<1> QED
  BY <1>2, <1>3, <1>4, <1>5, TypePartsNext DEF IInv

LEMMA RestoredIInv ==
  ASSUME IInv, Restored
  PROVE  IInv'
<1>1. CASE failing
  BY <1>1, SettlesIInv DEF Restored
<1>2. CASE ~failing
  BY <1>2, FinalizeIInv DEF Restored, IInv, SureInv
<1> QED
  BY <1>1, <1>2

LEMMA FinalizedIInv ==
  ASSUME IInv, Finalized
  PROVE  IInv'
  BY SettlesIInv DEF Finalized

-----------------------------------------------------------------------------
(* Targets and writes. *)

LEMMA AddModuleIInv ==
  ASSUME IInv, NEW m \in Modules, AddModule(m)
  PROVE  IInv'
<1>1. DiskType /\ PatcherType /\ WritesType
  BY TypeParts DEF IInv
<1>2. kept' \in [Modules -> Texts \ {"patched"}]
  <2>1. disk[m] \in Texts \ {"patched"}
    BY <1>1 DEF AddModule, DiskType
  <2> QED
    BY <1>1, <2>1 DEF AddModule, PatcherType
<1>3. DiskType' /\ PatcherType' /\ WritesType'
  BY <1>1, <1>2 DEF AddModule, DiskType, PatcherType, WritesType, diskVars
<1>4. NodeType' /\ CallsInv' /\ \A n \in Modules : Sure(n)' <=> Sure(n)
  BY NodeStays DEF AddModule
<1>5. WritesInv'
  BY DEF AddModule, WritesInv, Current
<1>6. SureInv'
  BY <1>4 DEF AddModule, IInv, TypeOK, SureInv, diskVars
<1> QED
  BY <1>3, <1>4, <1>5, <1>6, TypePartsNext DEF IInv

LEMMA WriteEndsIInv ==
  ASSUME IInv, NEW w \in writes, WriteEnds(w)
  PROVE  IInv'
<1>1. DiskType /\ PatcherType /\ WritesType
  BY TypeParts DEF IInv
<1>2. w \in [module : Modules, text : Texts, round : 1 .. round]
  BY <1>1 DEF WritesType
<1>3. todo' = IF Current(w) THEN todo \ {w.module} ELSE todo
  BY DEF WriteEnds
<1>4. \/ out' = out \cup {w.module} /\ w.text = "patched" /\ UNCHANGED disk
      \/ disk' = [disk EXCEPT ![w.module] = w.text] /\ UNCHANGED out
  BY DEF WriteEnds
<1>5. DiskType'
  <2>1. UNCHANGED <<suffixed, writeFailed>>
    BY DEF WriteEnds
  <2> QED
    BY <1>1, <1>2, <1>4, <2>1 DEF DiskType
<1>6. PatcherType' /\ WritesType'
  BY <1>1, <1>3 DEF WriteEnds, PatcherType, WritesType
<1>7. NodeType' /\ CallsInv' /\ \A n \in Modules : Sure(n)' <=> Sure(n)
  BY NodeStays DEF WriteEnds
<1>8. WritesInv'
  <2>1. writes' = writes \ {w} /\ UNCHANGED <<round, phase>>
    BY DEF WriteEnds
  <2>2. ASSUME NEW v \in writes', Current(v)'
        PROVE  v.module \in todo' /\ phase' # "collecting"
    <3>1. v \in writes /\ v # w /\ Current(v)
      BY <2>1, <2>2 DEF Current
    <3>2. v.module \in todo /\ phase # "collecting"
      BY <3>1 DEF IInv, WritesInv
    <3>3. Current(w) => v.module # w.module
      BY <3>1 DEF IInv, WritesInv
    <3> QED
      BY <1>3, <2>1, <3>2, <3>3
  <2> QED
    BY <2>1, <2>2 DEF IInv, WritesInv, Current
<1>9. SureInv'
  <2>1. UNCHANGED <<phase, failing, targets>> /\ writes' \subseteq writes
    BY DEF WriteEnds
  <2>2. phase = "collecting" => todo' = todo
    BY <1>3 DEF IInv, WritesInv
  <2>3. targets \subseteq Modules /\ \A v \in writes : v.module \in Modules
    BY DEF IInv, TypeOK
  <2>4. \A m \in Modules : disk'[m] = "patched" \/ m \in out' => Sure(m)
    <3> SUFFICES ASSUME NEW m \in Modules, disk'[m] = "patched" \/ m \in out'
                 PROVE  Sure(m)
      OBVIOUS
    <3>1. disk[m] = "patched" \/ m \in out \/ (m = w.module /\ w.text = "patched")
      BY <1>1, <1>2, <1>4 DEF DiskType
    <3> QED
      BY <3>1 DEF IInv, SureInv
  <2> QED
    BY <1>7, <2>1, <2>2, <2>3, <2>4 DEF IInv, SureInv
<1> QED
  BY <1>5, <1>6, <1>7, <1>8, <1>9, TypePartsNext DEF IInv

LEMMA WriteFailsIInv ==
  ASSUME IInv, NEW w \in writes, WriteFails(w)
  PROVE  IInv'
<1>1. DiskType /\ PatcherType /\ WritesType
  BY TypeParts DEF IInv
<1>2. writeFailed' \in BOOLEAN
  BY Zenon DEF WriteFails
<1>3. /\ writes' = writes \ {w}
      /\ UNCHANGED <<diskVars, targets, kept, round, failing, nodeVars>>
      /\ \/ phase' = "idle" /\ result' = "failed" /\ todo' = {}
         \/ UNCHANGED <<phase, result, todo>>
  BY DEF WriteFails
<1>4. DiskType' /\ PatcherType' /\ WritesType'
  BY <1>1, <1>2, <1>3 DEF DiskType, PatcherType, WritesType, diskVars
<1>5. NodeType' /\ CallsInv' /\ \A n \in Modules : Sure(n)' <=> Sure(n)
  BY <1>3, NodeStays
<1>6. WritesInv'
  BY <1>3 DEF IInv, WritesInv, Current
<1>7. SureInv'
  <2>1. targets \subseteq Modules /\ \A v \in writes : v.module \in Modules
    BY DEF IInv, TypeOK
  <2> QED
    BY <1>3, <1>5, <2>1 DEF IInv, SureInv, diskVars
<1> QED
  BY <1>4, <1>5, <1>6, <1>7, TypePartsNext DEF IInv

-----------------------------------------------------------------------------
(* Node: evaluations and collections. *)

\* What they do not touch, as long as sure modules remain so.
LEMMA PatcherStays ==
  ASSUME IInv, UNCHANGED <<diskVars, patcherVars, writes, writeFailed>>,
         \A m \in Modules : Sure(m) => Sure(m)'
  PROVE  DiskType' /\ PatcherType' /\ WritesType' /\ WritesInv' /\ SureInv'
<1>1. DiskType /\ PatcherType /\ WritesType
  BY TypeParts DEF IInv
<1>2. DiskType' /\ PatcherType' /\ WritesType'
  BY <1>1 DEF DiskType, PatcherType, WritesType, diskVars, patcherVars
<1>3. WritesInv'
  BY DEF IInv, WritesInv, Current, patcherVars
<1>4. SureInv'
  <2>1. targets \subseteq Modules /\ \A v \in writes : v.module \in Modules
    BY DEF IInv, TypeOK
  <2> QED
    BY <2>1 DEF IInv, SureInv, diskVars, patcherVars
<1> QED
  BY <1>2, <1>3, <1>4

LEMMA EvaluateIInv ==
  ASSUME IInv, NEW m \in Modules, Evaluate(m)
  PROVE  IInv'
<1>1. /\ collects[m] # 0 /\ eval[m] = "no"
      /\ eval' = [eval EXCEPT ![m] = IF disk[m] = "instrumented" THEN "keyed" ELSE "plain"]
      /\ UNCHANGED <<diskVars, patcherVars, collects, states, calls, writes, writeFailed>>
  BY DEF Evaluate
<1>2. NodeType'
  BY <1>1 DEF IInv, TypeOK, NodeType, patcherVars
<1>3. CallsInv'
  BY <1>1 DEF IInv, TypeOK, CallsInv
<1>4. \A n \in Modules : Sure(n) => Sure(n)'
  BY <1>1 DEF IInv, TypeOK, Sure
<1> QED
  BY <1>1, <1>2, <1>3, <1>4, PatcherStays, TypePartsNext DEF IInv

LEMMA RegisterIInv ==
  ASSUME IInv, NEW m \in Modules, NEW i \in Sites[m], NEW value \in {"json", "other"},
         Register(m, i, value)
  PROVE  IInv'
<1>1. /\ eval[m] = "keyed"
      /\ calls' = [calls EXCEPT ![m][i] = Append(@, value)]
      /\ states' = [states EXCEPT ![m][i] =
                      IF @ = "none" /\ value = "json" THEN "value" ELSE "error"]
      /\ UNCHANGED <<diskVars, patcherVars, collects, eval, writes, writeFailed>>
  BY DEF Register
<1>2. i \in Ids
  BY InlinableAssumption
<1>3. /\ calls'[m][i] = Append(calls[m][i], value)
      /\ calls[m][i] \in Seq({"json", "other"})
      /\ \A n \in Modules : \A j \in Ids :
           n # m \/ j # i => calls'[n][j] = calls[n][j] /\ states'[n][j] = states[n][j]
      /\ states'[m][i] = IF states[m][i] = "none" /\ value = "json"
                         THEN "value" ELSE "error"
  BY <1>1, <1>2 DEF IInv, TypeOK
<1>4. NodeType'
  <2>1. Append(calls[m][i], value) \in Seq({"json", "other"})
    BY <1>3
  <2>2. calls' \in [Modules -> [Ids -> Seq({"json", "other"})]]
    BY <1>1, <1>2, <2>1 DEF IInv, TypeOK
  <2>3. states' \in [Modules -> [Ids -> {"none", "value", "error"}]]
    BY <1>1, <1>2 DEF IInv, TypeOK
  <2> QED
    BY <1>1, <2>2, <2>3 DEF IInv, TypeOK, NodeType, patcherVars
<1>5. CallsInv'
  <2>1. states'[m][i] # "none"
    BY <1>3
  <2>2. states'[m][i] = "value" => calls'[m][i] = <<"json">>
    <3> SUFFICES ASSUME states[m][i] = "none", value = "json"
                 PROVE  calls'[m][i] = <<"json">>
      BY <1>3
    <3>1. calls[m][i] = <<>>
      BY <1>1, <1>2 DEF IInv, CallsInv
    <3> QED
      BY <1>3, <3>1
  <2> QED
    BY <1>1, <1>3, <2>1, <2>2 DEF IInv, CallsInv
<1>6. \A n \in Modules : Sure(n) => Sure(n)'
  <2>1. \A n \in Modules : Sites[n] \subseteq Ids
    BY InlinableAssumption
  <2> QED
    BY <1>1, <1>3, <2>1 DEF Sure
<1> QED
  BY <1>1, <1>4, <1>5, <1>6, PatcherStays, TypePartsNext DEF IInv

LEMMA EvaluatedIInv ==
  ASSUME IInv, NEW m \in Modules, NEW end \in {"done", "failed"}, Evaluated(m, end)
  PROVE  IInv'
<1>1. /\ eval[m] \in {"keyed", "plain"}
      /\ eval' = [eval EXCEPT ![m] = end]
      /\ UNCHANGED <<diskVars, patcherVars, collects, states, calls, writes, writeFailed>>
  BY DEF Evaluated
<1>2. NodeType'
  BY <1>1 DEF IInv, TypeOK, NodeType, patcherVars
<1>3. CallsInv'
  BY <1>1 DEF IInv, TypeOK, CallsInv
<1>4. \A n \in Modules : Sure(n) => Sure(n)'
  BY <1>1 DEF IInv, TypeOK, Sure
<1> QED
  BY <1>1, <1>2, <1>3, <1>4, PatcherStays, TypePartsNext DEF IInv

\* A target whose values are complete was called once at each site.
LEMMA CompleteIsSure ==
  ASSUME IInv, NEW m \in Modules, Complete(m)
  PROVE  Sure(m)
<1>1. Sites[m] \subseteq Ids
  BY InlinableAssumption
<1> QED
  BY <1>1 DEF IInv, CallsInv, Complete, Sure

LEMMA CollectEndsIInv ==
  ASSUME IInv, NEW m \in Modules, CollectEnds(m)
  PROVE  IInv'
<1>1. /\ collects[m] # 0 /\ eval[m] \in {"done", "failed"}
      /\ collects' = [collects EXCEPT ![m] = 0]
      /\ UNCHANGED <<diskVars, targets, kept, round, states, eval, calls, writeFailed>>
  BY DEF CollectEnds
<1>2. NodeType'
  BY <1>1 DEF IInv, TypeOK, NodeType
<1>3. CallsInv'
  BY <1>1 DEF IInv, TypeOK, CallsInv
<1>4. \A n \in Modules : Sure(n) => Sure(n)'
  BY <1>1 DEF Sure
<1>5. DiskType /\ PatcherType /\ WritesType
  BY TypeParts DEF IInv
<1>6. DiskType' /\ PatcherType' /\ WritesType' /\ WritesInv' /\ SureInv'
  <2>1. CASE UNCHANGED <<phase, failing, todo, result, writes>>
    BY <1>1, <1>4, <2>1, PatcherStays DEF patcherVars
  <2>2. CASE /\ phase = "collecting" /\ Complete(m) /\ todo' = todo \ {m}
             /\ UNCHANGED <<phase, failing, result, writes>>
    <3>1. Sure(m)
      BY <2>2, CompleteIsSure
    <3>2. DiskType' /\ PatcherType' /\ WritesType'
      BY <1>1, <1>5, <2>2 DEF DiskType, PatcherType, WritesType, diskVars
    <3>3. WritesInv'
      BY <1>1, <2>2 DEF IInv, WritesInv, Current
    <3>4. SureInv'
      <4>1. targets \subseteq Modules /\ \A v \in writes : v.module \in Modules
        BY DEF IInv, TypeOK
      <4> QED
        BY <1>1, <1>4, <2>2, <3>1, <4>1 DEF IInv, SureInv, diskVars
    <3> QED
      BY <3>2, <3>3, <3>4
  <2>3. CASE phase = "collecting" /\ Fail
    <3>1. failing' = TRUE /\ Restore /\ result' = result
      BY <2>3 DEF Fail
    <3>2. failing' \in BOOLEAN
      BY <3>1, Zenon
    <3> QED
      BY <1>1, <1>4, <2>3, <3>1, <3>2, RestoreIInv
  <2> QED
    BY <2>1, <2>2, <2>3 DEF CollectEnds
<1> QED
  BY <1>2, <1>3, <1>6, TypePartsNext DEF IInv

LEMMA StutterIInv ==
  ASSUME IInv, UNCHANGED vars
  PROVE  IInv'
<1>1. NodeType' /\ CallsInv' /\ \A m \in Modules : Sure(m)' <=> Sure(m)
  BY NodeStays DEF vars, patcherVars
<1>2. DiskType' /\ PatcherType' /\ WritesType' /\ WritesInv' /\ SureInv'
  BY <1>1, PatcherStays DEF vars
<1> QED
  BY <1>1, <1>2, TypePartsNext DEF IInv

-----------------------------------------------------------------------------
LEMMA NextIInv ==
  ASSUME IInv, [Next]_vars
  PROVE  IInv'
<1>1. CASE PatchModules
  BY <1>1, PatchModulesIInv
<1>2. CASE Instrumented
  BY <1>2, InstrumentedIInv
<1>3. CASE Collected
  BY <1>3, CollectedIInv
<1>4. CASE Restored
  BY <1>4, RestoredIInv
<1>5. CASE Finalized
  BY <1>5, FinalizedIInv
<1>6. CASE \E w \in writes : WriteEnds(w) \/ WriteFails(w)
  BY <1>6, WriteEndsIInv, WriteFailsIInv
<1>7. CASE \E m \in Modules : AddModule(m)
  BY <1>7, AddModuleIInv
<1>8. CASE \E m \in Modules : Evaluate(m) \/ CollectEnds(m)
  BY <1>8, EvaluateIInv, CollectEndsIInv
<1>9. CASE \E m \in Modules : \E i \in Sites[m] : \E value \in {"json", "other"} :
             Register(m, i, value)
  BY <1>9, RegisterIInv
<1>10. CASE \E m \in Modules : \E end \in {"done", "failed"} : Evaluated(m, end)
  BY <1>10, EvaluatedIInv
<1>11. CASE UNCHANGED vars
  BY <1>11, StutterIInv
<1> QED
  BY <1>1, <1>2, <1>3, <1>4, <1>5, <1>6, <1>7, <1>8, <1>9, <1>10, <1>11 DEF Next

LEMMA Invariance == Spec => []IInv
<1>1. Init => IInv
  BY InitIInv
<1>2. IInv /\ [Next]_vars => IInv'
  BY NextIInv
<1> QED
  BY <1>1, <1>2, PTL DEF Spec

\* All variables keep their types, whatever the interleaving of the patcher's
\* stages, of its writes and of the modules' evaluations.
THEOREM TypeCorrect == Spec => []TypeOK
<1>1. IInv => TypeOK
  BY DEF IInv
<1> QED
  BY <1>1, Invariance, PTL

\* A source is never patched, nor about to be, unless its evaluation called
\* each of its sites exactly once, with a value which is JSON.
THEOREM PatchedOnce == Spec => []OneCallPerSite
<1>1. IInv => OneCallPerSite
  BY DEF IInv, TypeOK, SureInv, Sure, OneCallPerSite
<1> QED
  BY <1>1, Invariance, PTL

-----------------------------------------------------------------------------
(* All or nothing, unless a write fails. *)

\* What the writes of each stage write.
StageText ==
  CASE phase = "instrumenting" -> "instrumented" [] phase = "restoring" -> "original"
    [] phase = "finalizing" -> "patched" [] OTHER -> "none"

\* Every stage waits for its writes, those which ended left its text, and what
\* is restored is the original.
AllInv == ~writeFailed =>
  /\ \A m \in targets : kept[m] = "original"
  /\ \A m \in Modules \ targets : disk[m] # "instrumented"
  /\ phase = "idle" => writes = {} /\ \A m \in targets : disk[m] = "original"
  /\ \A w \in writes : w.module \in todo /\ w.round = round /\ w.text = StageText
  /\ phase = "collecting" => writes = {}
  /\ phase = "restoring" => \A m \in targets \ todo : disk[m] = "original"
  /\ phase = "finalizing" => \A m \in targets \ todo : Patched(m)
  /\ phase = "finalizing" /\ suffixed => \A m \in targets : disk[m] = "original"

\* A stage starts with its writes, after those of the one before.
LEMMA StageAllInv ==
  ASSUME TypeOK, AllInv, writes = {},
         NEW texts \in [Modules -> Texts], NEW r, Write(texts, r), round' = r,
         UNCHANGED <<diskVars, targets, kept, writeFailed>>,
         phase' \in {"instrumenting", "restoring", "finalizing"},
         ~writeFailed => \A m \in targets : texts[m] = StageText',
         ~writeFailed /\ phase' = "finalizing" /\ suffixed =>
           \A m \in targets : disk[m] = "original"
  PROVE  AllInv'
<1> SUFFICES ASSUME ~writeFailed
             PROVE  AllInv'
  BY DEF AllInv
<1>1. /\ todo' = targets /\ targets' = targets
      /\ writes' = {[module |-> m, text |-> texts[m], round |-> r] : m \in targets}
  BY DEF Write
<1>2. \A w \in writes' : w.module \in todo' /\ w.round = round' /\ w.text = StageText'
  BY <1>1
<1> QED
  BY <1>1, <1>2 DEF AllInv, diskVars

LEMMA WriteEndsAllInv ==
  ASSUME IInv, AllInv, NEW w \in writes, WriteEnds(w)
  PROVE  AllInv'
<1> SUFFICES ASSUME ~writeFailed
             PROVE  AllInv'
  BY DEF AllInv, WriteEnds
<1>1. /\ Current(w) /\ w.module \in todo /\ w.text = StageText
      /\ w.module \in targets /\ w.module \in Modules
      /\ phase \in {"instrumenting", "restoring", "finalizing"}
  BY DEF AllInv, Current, IInv, TypeOK
<1>2. /\ writes' = writes \ {w} /\ todo' = todo \ {w.module}
      /\ UNCHANGED <<suffixed, targets, kept, phase, round, writeFailed>>
  BY <1>1 DEF WriteEnds
<1>3. \A v \in writes' : v.module \in todo' /\ v.round = round' /\ v.text = StageText'
  <2>1. \A v \in writes' : v.module # w.module
    BY <1>1, <1>2 DEF IInv, WritesInv, AllInv, Current
  <2> QED
    BY <1>2, <2>1 DEF AllInv, StageText
<1>4. CASE suffixed /\ w.text = "patched"
  <2>1. out' = out \cup {w.module} /\ disk' = disk
    BY <1>4 DEF WriteEnds
  <2>2. phase = "finalizing"
    BY <1>1, <1>4 DEF StageText
  <2>3. \A m \in targets' \ todo' : Patched(m)'
    BY <1>2, <1>4, <2>1, <2>2 DEF AllInv, Patched
  <2> QED
    BY <1>2, <1>3, <2>1, <2>2, <2>3 DEF AllInv
<1>5. CASE ~(suffixed /\ w.text = "patched")
  <2>1. out' = out /\ disk' = [disk EXCEPT ![w.module] = w.text]
    BY <1>5 DEF WriteEnds
  <2>2. /\ disk'[w.module] = w.text
        /\ \A m \in Modules : m # w.module => disk'[m] = disk[m]
    BY <1>1, <2>1 DEF IInv, TypeOK
  <2>3. phase = "restoring" => \A m \in targets' \ todo' : disk'[m] = "original"
    BY <1>1, <1>2, <2>2 DEF AllInv, StageText, IInv, TypeOK
  <2>4. phase = "finalizing" => ~suffixed /\ \A m \in targets' \ todo' : Patched(m)'
    BY <1>1, <1>2, <1>5, <2>2 DEF AllInv, StageText, Patched, IInv, TypeOK
  <2>5. \A m \in Modules \ targets' : disk'[m] # "instrumented"
    BY <1>1, <1>2, <2>2 DEF AllInv
  <2> QED
    BY <1>1, <1>2, <1>3, <2>3, <2>4, <2>5 DEF AllInv
<1> QED
  BY <1>4, <1>5

\* Steps of the modules' evaluation.
LEMMA NodeAllInv ==
  ASSUME AllInv,
         UNCHANGED <<diskVars, targets, kept, phase, round, todo, writes, writeFailed>>
  PROVE  AllInv'
  BY DEF AllInv, StageText, Patched, diskVars

\* The restoration of whatever was written.
LEMMA RestoreAllInv ==
  ASSUME IInv, AllInv, Restore, ~writeFailed => writes = {},
         UNCHANGED <<diskVars, targets, kept, round, writeFailed>>
  PROVE  AllInv'
<1>1. CASE writeFailed
  BY <1>1 DEF AllInv
<1>2. CASE ~writeFailed
  <2>1. kept \in [Modules -> Texts] /\ TypeOK
    BY DEF IInv, TypeOK
  <2>2. phase' = "restoring" /\ Write(kept, round)
    BY DEF Restore
  <2>3. \A m \in targets : kept[m] = StageText'
    BY <1>2, <2>2 DEF AllInv, StageText
  <2> QED
    BY <1>2, <2>1, <2>2, <2>3, StageAllInv
<1> QED
  BY <1>1, <1>2

LEMMA FinalizeAllInv ==
  ASSUME IInv, AllInv, Finalize, ~writeFailed => writes = {},
         ~writeFailed /\ suffixed => \A m \in targets : disk[m] = "original",
         UNCHANGED <<diskVars, targets, kept, round, writeFailed>>
  PROVE  AllInv'
<1>1. CASE writeFailed
  BY <1>1 DEF AllInv
<1>2. CASE ~writeFailed
  <2> DEFINE texts == [m \in Modules |-> "patched"]
  <2>1. texts \in [Modules -> Texts] /\ \A m \in targets : texts[m] = "patched"
    BY DEF Texts, IInv, TypeOK
  <2>2. phase' = "finalizing" /\ Write(texts, round) /\ TypeOK
    BY DEF Finalize, IInv
  <2>3. \A m \in targets : texts[m] = StageText'
    BY <2>1, <2>2 DEF StageText
  <2> HIDE DEF texts
  <2> QED
    BY <1>2, <2>1, <2>2, <2>3, StageAllInv
<1> QED
  BY <1>1, <1>2

LEMMA NextAllInv ==
  ASSUME IInv, AllInv, [Next]_vars
  PROVE  AllInv'
<1> USE DEF diskVars, patcherVars, nodeVars
<1>0. ~writeFailed /\ todo = {} => writes = {}
  BY DEF AllInv
<1>1. CASE PatchModules
  <2> DEFINE texts == [m \in Modules |-> "instrumented"]
  <2>1. CASE writeFailed
    BY <1>1, <2>1 DEF PatchModules, AllInv
  <2>2. CASE ~writeFailed
    <3>1. texts \in [Modules -> Texts] /\ \A m \in targets : texts[m] = "instrumented"
      BY DEF Texts, IInv, TypeOK
    <3>2. phase' = "instrumenting" /\ Write(texts, round') /\ TypeOK /\ writes = {}
      BY <1>1, <2>2 DEF PatchModules, IInv, AllInv
    <3>3. \A m \in targets : texts[m] = StageText'
      BY <3>1, <3>2 DEF StageText
    <3>4. UNCHANGED <<diskVars, targets, kept, writeFailed>>
      BY <1>1 DEF PatchModules
    <3> HIDE DEF texts
    <3> QED
      BY <3>1, <3>2, <3>3, <3>4, StageAllInv
  <2> QED
    BY <2>1, <2>2
<1>2. CASE Instrumented
  <2>1. CASE phase' = "collecting" /\ todo' = targets /\ UNCHANGED <<failing, result, writes>>
    BY <1>0, <1>2, <2>1 DEF Instrumented, AllInv
  <2>2. CASE Fail
    BY <1>0, <1>2, <2>2, RestoreAllInv DEF Instrumented, Fail
  <2> QED
    BY <1>2, <2>1, <2>2 DEF Instrumented
<1>3. CASE Collected
  <2>1. CASE suffixed
    BY <1>0, <1>3, <2>1, RestoreAllInv DEF Collected
  <2>2. CASE ~suffixed
    BY <1>0, <1>3, <2>2, FinalizeAllInv DEF Collected
  <2> QED
    BY <2>1, <2>2
<1>4. CASE Restored
  <2>1. CASE failing
    BY <1>0, <1>4, <2>1 DEF Restored, AllInv
  <2>2. CASE ~failing
    <3>1. ~writeFailed => \A m \in targets : disk[m] = "original"
      BY <1>4 DEF Restored, AllInv
    <3> QED
      BY <1>0, <1>4, <2>2, <3>1, FinalizeAllInv DEF Restored
  <2> QED
    BY <2>1, <2>2
<1>5. CASE Finalized
  <2>1. ~writeFailed => \A m \in targets : disk[m] # "instrumented"
    BY <1>5 DEF Finalized, AllInv, Patched
  <2> QED
    BY <1>0, <1>5, <2>1 DEF Finalized, AllInv
<1>6. ASSUME NEW w \in writes, WriteEnds(w) \/ WriteFails(w)
      PROVE  AllInv'
  BY <1>6, WriteEndsAllInv DEF WriteFails, AllInv
<1>7. ASSUME NEW m \in Modules, AddModule(m)
      PROVE  AllInv'
  <2>1. ~writeFailed => disk[m] = "original"
    BY <1>7 DEF AddModule, AllInv, IInv, TypeOK, Texts
  <2>2. targets' = targets \cup {m} /\ kept' = [kept EXCEPT ![m] = disk[m]]
    BY <1>7 DEF AddModule
  <2>3. ~writeFailed => \A n \in targets' : kept'[n] = "original"
    BY <2>1, <2>2 DEF AllInv, IInv, TypeOK
  <2> QED
    BY <1>7, <2>1, <2>2, <2>3 DEF AddModule, AllInv
<1>8. ASSUME NEW m \in Modules, CollectEnds(m)
      PROVE  AllInv'
  <2>1. CASE Fail /\ phase = "collecting"
    BY <1>8, <2>1, RestoreAllInv DEF CollectEnds, Fail, AllInv
  <2>2. CASE todo' = todo \ {m} /\ phase = "collecting" /\ UNCHANGED <<phase, failing, result, writes>>
    BY <1>8, <2>2 DEF CollectEnds, AllInv
  <2>3. CASE UNCHANGED <<phase, failing, todo, result, writes>>
    BY <1>8, <2>3, NodeAllInv DEF CollectEnds
  <2> QED
    BY <1>8, <2>1, <2>2, <2>3 DEF CollectEnds
<1>9. ASSUME NEW m \in Modules,
             \/ Evaluate(m)
             \/ \E i \in Sites[m] : \E value \in {"json", "other"} : Register(m, i, value)
             \/ \E end \in {"done", "failed"} : Evaluated(m, end)
      PROVE  AllInv'
  BY <1>9, NodeAllInv DEF Evaluate, Register, Evaluated
<1>10. CASE UNCHANGED vars
  BY <1>10, NodeAllInv DEF vars
<1> QED
  BY <1>1, <1>2, <1>3, <1>4, <1>5, <1>6, <1>7, <1>8, <1>9, <1>10 DEF Next

\* A call of patchModules ends where all of its targets have what the last
\* stage left.
EndsWithAll ==
  phase # "idle" /\ phase' = "idle" /\ ~writeFailed' =>
    /\ writes' = {}
    /\ \/ result' = "ok" /\ \A m \in targets : Patched(m)'
       \/ result' = "failed" /\ \A m \in targets : disk'[m] = "original"

LEMMA NextEndsWithAll ==
  ASSUME IInv, AllInv, [Next]_vars
  PROVE  EndsWithAll
<1> SUFFICES ASSUME phase # "idle", phase' = "idle", ~writeFailed'
             PROVE  EndsWithAll
  BY DEF EndsWithAll
<1> USE DEF diskVars, patcherVars, nodeVars
<1>1. CASE Restored /\ failing
  BY <1>1 DEF Restored, AllInv, EndsWithAll
<1>2. CASE Finalized
  BY <1>2 DEF Finalized, AllInv, EndsWithAll, Patched
<1>3. PatchModules \/ Instrumented \/ Collected => phase' # "idle"
  BY DEF PatchModules, Instrumented, Collected, Fail, Restore, Finalize
<1>4. Restored /\ ~failing => phase' # "idle"
  BY DEF Restored, Finalize
<1>5. \A w \in writes : WriteEnds(w) => phase' = phase
  BY DEF WriteEnds
<1>6. \A w \in writes : ~WriteFails(w)
  BY DEF WriteFails
<1>7. \A m \in Modules : AddModule(m) \/ CollectEnds(m) => phase' # "idle"
  BY DEF AddModule, CollectEnds, Fail, Restore
<1>8. \A m \in Modules :
        \/ Evaluate(m)
        \/ \E i \in Sites[m] : \E value \in {"json", "other"} : Register(m, i, value)
        \/ \E end \in {"done", "failed"} : Evaluated(m, end)
        => phase' = phase
  BY DEF Evaluate, Register, Evaluated
<1>9. UNCHANGED vars => phase' = phase
  BY DEF vars
<1> QED
  BY <1>1, <1>2, <1>3, <1>4, <1>5, <1>6, <1>7, <1>8, <1>9 DEF Next

\* Unless a write fails, a call of patchModules patches all of its targets or
\* leaves all as they were (patch.ts:140).
THEOREM AllPatchedOrNone == Spec => AllOrNothing
<1>1. Init => AllInv
  BY DEF Init, AllInv
<1>2. IInv /\ AllInv /\ [Next]_vars => AllInv'
  BY NextAllInv
<1>3. IInv /\ AllInv /\ [Next]_vars
        => [phase # "idle" /\ phase' = "idle" /\ ~writeFailed' =>
              /\ writes' = {}
              /\ \/ result' = "ok" /\ \A m \in targets : Patched(m)'
                 \/ result' = "failed" /\ \A m \in targets : disk'[m] = "original"]_vars
  BY NextEndsWithAll DEF EndsWithAll
<1>4. Spec => []IInv
  BY InitIInv, NextIInv, PTL DEF Spec
<1> QED
  BY <1>1, <1>2, <1>3, <1>4, PTL DEF Spec, AllOrNothing
=============================================================================
