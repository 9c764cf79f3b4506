---------------------------- MODULE UtilsProofs -----------------------------
(***************************************************************************)
(* Proofs about stl-utils. Bindable, for any callers and number of         *)
(* bindings: a bindable knows what it is bound to, and keeps               *)
(* BindableContract, with a subclass which leaves the status alone.        *)
(* Freezable, for any set of names: a frozen object stays as it is unless a *)
(* function bound to it was handed out, or is there. Events: an iteration   *)
(* yields every value, in order. Intensive, for any operations: breaths are *)
(* heard by what runs, and by nothing else. Collections, for any keys,     *)
(* values, iterables and counts: sizes count what is there, and the most   *)
(* common key is the first of those with the highest count.                *)
(***************************************************************************)
EXTENDS Bindable, Freezable, Events, Intensive, Collections,
        SequenceTheorems, FiniteSetTheorems, FunctionTheorems, Induction, TLAPS

-----------------------------------------------------------------------------
(* Bindable *)

\* Only the last binding is ever current.
StatusInv ==
  /\ active \in {0, last}
  /\ status = "unbound" => active = 0
  /\ status \in {"binding", "bound", "unbinding"} => active = last /\ last # 0
  /\ status = "binding" => host[last] = "pending"
  /\ status = "bound" => server[last] = "open"
  /\ status \in {"binding", "bound"} => onStops[last] = 0
  /\ \A n \in Bindings : n > last => onStops[n] = 0

\* It is set up once, while it is binding.
SetupInv ==
  /\ \A n \in Bindings : setup[n] \in {"queued", "binding"} => n = last /\ status = "binding"
  /\ \A i \in 1 .. Len(ticks) :
       ticks[i].what = "setup" => ticks[i].binding = last /\ setup[last] = "queued" /\ last # 0
  /\ \A i, j \in 1 .. Len(ticks) :
       ticks[i].what = "setup" /\ ticks[j].what = "setup" => i = j

\* One stop at a time unbinds it.
CallInv ==
  /\ \A c \in Callers : At(c, "waiting") => calls[c].binding \in 1 .. last
  /\ \A c \in Callers : At(c, "stopping") => status = "unbinding"
  /\ \A c, d \in Callers : At(c, "stopping") /\ At(d, "stopping") => c = d

\* A stop which goes on about a binding which is over does so in the same
\* turn, before the setup of the next one is run: it cannot take that for its
\* own.
StaleInv ==
  \A c \in Callers :
    At(c, "waiting") /\ host[calls[c].binding] = "resolved" /\ calls[c].binding # active
      => /\ turn = "jobs"
         /\ status = "unbound" \/ (status = "binding" /\ setup[last] = "queued")

BindableInv == TypeOK /\ StatusInv /\ SetupInv /\ CallInv /\ StaleInv /\ BindsKnowingly

LEMMA InitBindableInv == Init => BindableInv
<1> SUFFICES ASSUME Init
             PROVE  BindableInv
  OBVIOUS
<1> USE BindableAssumption DEF Init
<1>1. TypeOK
  BY DEF TypeOK, Bindings
<1>2. StatusInv /\ SetupInv
  BY DEF StatusInv, SetupInv, Bindings
<1>3. CallInv /\ StaleInv
  BY DEF CallInv, StaleInv, At
<1>4. BindsKnowingly
  BY DEF BindsKnowingly, OnStopOncePerBinding, ListensKnowingly, At
<1> QED
  BY <1>1, <1>2, <1>3, <1>4 DEF BindableInv

-----------------------------------------------------------------------------
\* A tick appended to the queue, an event's, sets nothing up.
LEMMA AppendSetupInv ==
  ASSUME TypeOK, SetupInv, NEW e \in {"unbound", "error"},
         ticks' = Append(ticks, QueuedTick(e, 0)),
         UNCHANGED <<last, setup>>,
         status # "binding"
  PROVE  SetupInv'
<1>1. \A i \in 1 .. Len(ticks') : ticks'[i].what = "setup" => i \in 1 .. Len(ticks) /\ ticks'[i] = ticks[i]
  BY DEF TypeOK, QueuedTick
<1> QED
  BY <1>1 DEF SetupInv, TypeOK, Bindings

LEMMA StartIInv ==
  ASSUME BindableInv, NEW how \in {"start", "run"}, Start(how)
  PROVE  BindableInv'
<1> USE BindableAssumption DEF BindableInv, Start
<1>1. /\ last' = last + 1 /\ last' \in Bindings /\ active = 0
      /\ status = "unbound" /\ active' = last' /\ status' = "binding"
  BY DEF TypeOK, Bindings, StatusInv
<1>2. TypeOK'
  <2>1. ticks' \in Seq([what : {"setup", "unbound", "error"}, binding : {0} \cup Bindings])
    BY <1>1 DEF TypeOK, QueuedTick
  <2> QED
    BY <1>1, <2>1 DEF TypeOK
<1>3. \A n \in Bindings : server[n] # "open" /\ setup[n] \notin {"queued", "binding"}
  BY <1>1 DEF BindsKnowingly, ListensKnowingly, SetupInv
<1>4. \A c \in Callers : ~At(c, "stopping")
  BY <1>1 DEF CallInv
<1>5. StatusInv'
  BY <1>1 DEF StatusInv, TypeOK, Bindings
<1>6. SetupInv'
  <2>1. \A i \in 1 .. Len(ticks) : ticks[i].what # "setup"
    BY <1>1, <1>3 DEF SetupInv, TypeOK, Bindings
  <2>2. setup' = [setup EXCEPT ![last'] = "queued"] /\ ticks' = Append(ticks, QueuedTick("setup", last'))
    OBVIOUS
  <2>3. \A i \in 1 .. Len(ticks') :
          ticks'[i].what = "setup" => i = Len(ticks) + 1 /\ ticks'[i].binding = last'
    BY <2>1, <2>2 DEF TypeOK, QueuedTick
  <2>4. setup'[last'] = "queued" /\ \A n \in Bindings : n # last' => setup'[n] = setup[n]
    BY <1>1, <2>2 DEF TypeOK
  <2>5. last' # 0
    BY <1>1 DEF Bindings
  <2> QED
    BY <1>1, <1>3, <2>3, <2>4, <2>5 DEF SetupInv
<1>7. CallInv'
  BY <1>1, <1>4 DEF CallInv, At, TypeOK
<1>8. StaleInv'
  <2>1. \A c \in Callers : At(c, "waiting") => calls[c].binding \in Bindings /\ calls[c].binding # last'
    BY <1>1 DEF CallInv, TypeOK, Bindings
  <2>2. \A n \in Bindings : n # last' => host'[n] = host[n]
    BY DEF TypeOK
  <2>3. setup'[last'] = "queued"
    BY <1>1 DEF TypeOK
  <2> QED
    BY <1>1, <2>1, <2>2, <2>3 DEF StaleInv, At, Bindings
<1>9. BindsKnowingly'
  BY <1>1, <1>3, <1>4 DEF BindsKnowingly, OnStopOncePerBinding, ListensKnowingly, At
<1> QED
  BY <1>2, <1>5, <1>6, <1>7, <1>8, <1>9

LEMMA BindSucceedsIInv ==
  ASSUME BindableInv, NEW n \in Bindings, BindSucceeds(n)
  PROVE  BindableInv'
<1> USE DEF BindableInv, BindSucceeds, Opens
<1>1. /\ n = last /\ status = "binding" /\ active = last /\ host[last] = "pending"
      /\ onStops[last] = 0
  BY DEF SetupInv, StatusInv
<1>2. /\ status' = "bound" /\ host' = [host EXCEPT ![n] = "resolved"]
      /\ server' = [server EXCEPT ![n] = "open"]
      /\ setup' \in {[setup EXCEPT ![n] = "done"], [setup EXCEPT ![n] = "failing"]}
      /\ UNCHANGED <<active, last, calls, onStops, runs, ticks, turn>>
  BY <1>1
<1>3. setup'[n] \notin {"queued", "binding"} /\ \A m \in Bindings : m # n => setup'[m] = setup[m]
  BY <1>2 DEF TypeOK
<1>4. TypeOK'
  <2>1. setup' \in [Bindings -> {"none", "queued", "binding", "done", "failing", "failed"}]
    BY <1>2 DEF TypeOK
  <2>2. /\ host' \in [Bindings -> {"none", "pending", "resolved"}]
        /\ server' \in [Bindings -> {"none", "open", "closed"}]
    BY <1>2 DEF TypeOK
  <2> QED
    BY <1>2, <2>1, <2>2 DEF TypeOK
<1>5. StatusInv'
  BY <1>1, <1>2 DEF StatusInv, TypeOK
<1>6. SetupInv'
  <2>1. setup[last] # "queued"
    BY <1>1
  <2> QED
    BY <1>1, <1>2, <1>3, <2>1 DEF SetupInv
<1>7. CallInv'
  BY <1>1, <1>2 DEF CallInv, At
<1>8. StaleInv'
  <2>1. \A c \in Callers : At(c, "waiting") /\ calls[c].binding # active => host[calls[c].binding] # "resolved"
    BY <1>1 DEF StaleInv
  <2>2. \A c \in Callers : At(c, "waiting") => calls[c].binding \in Bindings
    BY DEF CallInv, TypeOK, Bindings
  <2> QED
    BY <1>1, <1>2, <2>1, <2>2 DEF StaleInv, At, TypeOK
<1>9. BindsKnowingly'
  <2>1. \A m \in Bindings : server[m] # "open"
    BY <1>1 DEF BindsKnowingly, ListensKnowingly
  <2>2. \A c \in Callers : ~At(c, "stopping")
    BY <1>1 DEF CallInv
  <2>3. OnStopOncePerBinding'
    BY <1>2, <2>2 DEF BindsKnowingly, OnStopOncePerBinding, At
  <2>4. ListensKnowingly'
    BY <1>1, <1>2, <2>1 DEF ListensKnowingly, TypeOK
  <2> QED
    BY <2>3, <2>4 DEF BindsKnowingly
<1> QED
  BY <1>4, <1>5, <1>6, <1>7, <1>8, <1>9

LEMMA BindFailsIInv ==
  ASSUME BindableInv, NEW n \in Bindings, BindFails(n)
  PROVE  BindableInv'
<1> USE DEF BindableInv, BindFails
<1>1. /\ n = last /\ status = "binding" /\ active = last /\ host[last] = "pending"
  BY DEF SetupInv, StatusInv
<1>2. setup'[n] = "failing" /\ \A m \in Bindings : m # n => setup'[m] = setup[m]
  BY DEF TypeOK
<1>3. TypeOK'
  BY DEF TypeOK
<1>4. StatusInv' /\ CallInv'
  BY <1>1 DEF StatusInv, CallInv, At
<1>5. SetupInv'
  BY <1>1, <1>2 DEF SetupInv
<1>6. StaleInv'
  <2>1. \A c \in Callers : At(c, "waiting") => host[calls[c].binding] # "resolved"
    BY <1>1 DEF StaleInv
  <2> QED
    BY <2>1 DEF StaleInv, At
<1>7. BindsKnowingly'
  BY <1>1 DEF BindsKnowingly, OnStopOncePerBinding, ListensKnowingly, At, CallInv
<1> QED
  BY <1>3, <1>4, <1>5, <1>6, <1>7

LEMMA SetupErrsIInv ==
  ASSUME BindableInv, NEW n \in Bindings, SetupErrs(n)
  PROVE  BindableInv'
<1> USE DEF BindableInv, SetupErrs, statusVars, Emit
<1>1. setup'[n] = "failed" /\ \A m \in Bindings : m # n => setup'[m] = setup[m]
  BY DEF TypeOK
<1>2. TypeOK'
  BY DEF TypeOK
<1>3. StatusInv' /\ CallInv'
  BY DEF StatusInv, CallInv, At
<1>4. SetupInv'
  BY <1>1 DEF SetupInv
<1>5. StaleInv'
  BY <1>1 DEF StaleInv, At
<1>6. BindsKnowingly'
  BY DEF BindsKnowingly, OnStopOncePerBinding, ListensKnowingly, At
<1> QED
  BY <1>2, <1>3, <1>4, <1>5, <1>6

-----------------------------------------------------------------------------
LEMMA CallMoves ==
  ASSUME TypeOK, NEW c \in Callers, NEW where \in {"returned", "stopping"},
         calls' = [calls EXCEPT ![c].at = where]
  PROVE  /\ calls' \in [Callers -> [at : {"idle", "waiting", "stopping", "returned"},
                                 binding : {0} \cup Bindings]]
         /\ \A d \in Callers : d # c => calls'[d] = calls[d]
         /\ calls'[c].at = where /\ calls'[c].binding = calls[c].binding
<1> DEFINE moved == [calls[c] EXCEPT !.at = where]
<1>1. calls[c] \in [at : {"idle", "waiting", "stopping", "returned"}, binding : {0} \cup Bindings]
  BY DEF TypeOK
<1>2. /\ moved \in [at : {"idle", "waiting", "stopping", "returned"}, binding : {0} \cup Bindings]
      /\ moved.at = where /\ moved.binding = calls[c].binding
  BY <1>1
<1>3. calls' = [calls EXCEPT ![c] = moved]
  OBVIOUS
<1> HIDE DEF moved
<1> QED
  BY <1>2, <1>3 DEF TypeOK

LEMMA StopIInv ==
  ASSUME BindableInv, NEW c \in Callers, Stop(c)
  PROVE  BindableInv'
<1> USE DEF BindableInv, Stop, Returned, statusVars, bindingVars
<1>1. /\ calls' \in [Callers -> [at : {"idle", "waiting", "stopping", "returned"},
                               binding : {0} \cup Bindings]]
      /\ \A d \in Callers : d # c => calls'[d] = calls[d]
      /\ calls'[c].at = "returned"
           \/ (calls'[c].at = "waiting" /\ calls'[c].binding = active /\ active # 0)
  <2>1. CASE active = 0
    <3>1. calls' = [calls EXCEPT ![c].at = "returned"]
      BY <2>1
    <3> QED
      BY <3>1, CallMoves
  <2>2. CASE active # 0
    <3> DEFINE waits == [at |-> "waiting", binding |-> active]
    <3>1. calls' = [calls EXCEPT ![c] = waits]
      BY <2>2
    <3>2. waits \in [at : {"idle", "waiting", "stopping", "returned"}, binding : {0} \cup Bindings]
      BY DEF TypeOK
    <3>3. waits.at = "waiting" /\ waits.binding = active
      OBVIOUS
    <3> HIDE DEF waits
    <3> QED
      BY <2>2, <3>1, <3>2, <3>3 DEF TypeOK
  <2> QED
    BY <2>1, <2>2
<1>2. TypeOK'
  BY <1>1 DEF TypeOK
<1>3. StatusInv' /\ SetupInv'
  BY DEF StatusInv, SetupInv
<1>4. CallInv'
  <2>1. active # 0 => active \in 1 .. last
    BY BindableAssumption DEF StatusInv, TypeOK, Bindings
  <2> QED
    BY <1>1, <2>1 DEF CallInv, At
<1>5. StaleInv'
  BY <1>1 DEF StaleInv, At
<1>6. BindsKnowingly'
  BY <1>1 DEF BindsKnowingly, OnStopOncePerBinding, ListensKnowingly, At
<1> QED
  BY <1>2, <1>3, <1>4, <1>5, <1>6

LEMMA StopGoesOnIInv ==
  ASSUME BindableInv, NEW c \in Callers, StopGoesOn(c)
  PROVE  BindableInv'
<1> USE DEF BindableInv, StopGoesOn, Returned, bindingVars
<1>1. CASE status # "bound"
  <2>1. /\ calls' \in [Callers -> [at : {"idle", "waiting", "stopping", "returned"},
                                 binding : {0} \cup Bindings]]
        /\ \A d \in Callers : d # c => calls'[d] = calls[d]
        /\ calls'[c].at = "returned"
    BY <1>1, CallMoves
  <2>2. TypeOK'
    BY <1>1, <2>1 DEF TypeOK
  <2>3. StatusInv' /\ SetupInv'
    BY <1>1 DEF StatusInv, SetupInv
  <2>4. CallInv' /\ StaleInv'
    BY <1>1, <2>1 DEF CallInv, StaleInv, At
  <2>5. BindsKnowingly'
    BY <1>1, <2>1 DEF BindsKnowingly, OnStopOncePerBinding, ListensKnowingly, At
  <2> QED
    BY <2>2, <2>3, <2>4, <2>5
<1>2. CASE status = "bound"
  <2>1. /\ calls[c].binding = active /\ active = last /\ last \in Bindings
        /\ onStops[last] = 0 /\ host[last] = "resolved"
    BY <1>2, BindableAssumption DEF StaleInv, StatusInv, TypeOK
  <2>2. /\ status' = "unbinding" /\ onStops' = [onStops EXCEPT ![last] = @ + 1]
        /\ calls' = [calls EXCEPT ![c].at = "stopping"]
    BY <1>2, <2>1
  <2>3. /\ calls' \in [Callers -> [at : {"idle", "waiting", "stopping", "returned"},
                                 binding : {0} \cup Bindings]]
        /\ \A d \in Callers : d # c => calls'[d] = calls[d]
        /\ calls'[c].at = "stopping" /\ calls'[c].binding = last
    BY <2>1, <2>2, CallMoves
  <2>4. /\ onStops' \in [Bindings -> Nat] /\ onStops'[last] = 1
        /\ \A n \in Bindings : n # last => onStops'[n] = onStops[n]
    BY <2>1, <2>2 DEF TypeOK
  <2>5. TypeOK'
    BY <2>2, <2>3, <2>4 DEF TypeOK
  <2>6. StatusInv'
    BY <2>1, <2>2, <2>4 DEF StatusInv, Bindings, TypeOK
  <2>7. SetupInv'
    BY <1>2, <2>2 DEF SetupInv
  <2>8. \A d \in Callers : ~At(d, "stopping")
    BY <1>2 DEF CallInv
  <2>9. CallInv' /\ StaleInv'
    BY <1>2, <2>2, <2>3, <2>8 DEF CallInv, StaleInv, At
  <2>10. BindsKnowingly'
    BY <1>2, <2>1, <2>2, <2>3, <2>4, <2>8
       DEF BindsKnowingly, OnStopOncePerBinding, ListensKnowingly, At
  <2> QED
    BY <2>5, <2>6, <2>7, <2>9, <2>10
<1> QED
  BY <1>1, <1>2

\* The server only closes for the stop which unbinds it, in a turn of its own.
LEMMA ServerClosesIInv ==
  ASSUME BindableInv, ~SelfUnbinds, NEW n \in Bindings, ServerCloses(n)
  PROVE  BindableInv'
<1> USE DEF BindableInv, ServerCloses, Closes, statusVars, bindingVars
<1>1. status = "unbinding" /\ UNCHANGED <<status, active, ticks>>
  BY DEF CallInv
<1>2. TypeOK'
  BY <1>1 DEF TypeOK
<1>3. StatusInv' /\ SetupInv' /\ CallInv'
  BY <1>1 DEF StatusInv, SetupInv, CallInv, At
<1>4. StaleInv'
  BY <1>1 DEF StaleInv, At
<1>5. BindsKnowingly'
  BY <1>1 DEF BindsKnowingly, OnStopOncePerBinding, ListensKnowingly, At, TypeOK
<1> QED
  BY <1>2, <1>3, <1>4, <1>5

LEMMA StopSucceedsIInv ==
  ASSUME BindableInv, NEW c \in Callers, StopSucceeds(c)
  PROVE  BindableInv'
<1> USE DEF BindableInv, StopSucceeds, Returned, bindingVars
<1>1. status = "unbinding" /\ calls[c].binding = active /\ server[active] = "closed"
  BY DEF CallInv, BindsKnowingly, OnStopOncePerBinding
<1>2. status' = "unbound" /\ active' = 0 /\ ticks' = Append(ticks, QueuedTick("unbound", 0))
  BY <1>1 DEF Unbind
<1>3. /\ calls' \in [Callers -> [at : {"idle", "waiting", "stopping", "returned"},
                               binding : {0} \cup Bindings]]
      /\ \A d \in Callers : d # c => calls'[d] = calls[d]
      /\ calls'[c].at = "returned"
  BY CallMoves
<1>4. TypeOK'
  <2>1. ticks' \in Seq([what : {"setup", "unbound", "error"}, binding : {0} \cup Bindings])
    BY <1>2 DEF TypeOK, QueuedTick
  <2> QED
    BY <1>2, <1>3, <2>1 DEF TypeOK
<1>5. StatusInv'
  BY <1>2 DEF StatusInv
<1>6. SetupInv'
  BY <1>1, <1>2, AppendSetupInv
<1>7. CallInv'
  BY <1>1, <1>2, <1>3 DEF CallInv, At
<1>8. StaleInv'
  BY <1>2, <1>3 DEF StaleInv, At
<1>9. BindsKnowingly'
  <2>1. \A n \in Bindings : server[n] # "open"
    BY <1>1 DEF BindsKnowingly, ListensKnowingly
  <2>2. \A d \in Callers : d # c => ~At(d, "stopping")
    BY DEF CallInv
  <2> QED
    BY <1>3, <2>1, <2>2 DEF BindsKnowingly, OnStopOncePerBinding, ListensKnowingly, At
<1> QED
  BY <1>4, <1>5, <1>6, <1>7, <1>8, <1>9

LEMMA StopFailsIInv ==
  ASSUME BindableInv, NEW c \in Callers, StopFails(c)
  PROVE  BindableInv'
<1> USE DEF BindableInv, StopFails, Returned, bindingVars
<1>1. status = "unbinding" /\ active = last
  BY DEF CallInv, StatusInv
<1>2. /\ calls' \in [Callers -> [at : {"idle", "waiting", "stopping", "returned"},
                               binding : {0} \cup Bindings]]
      /\ \A d \in Callers : d # c => calls'[d] = calls[d]
      /\ calls'[c].at = "returned"
  BY CallMoves
<1>3. TypeOK'
  <2>1. ticks' \in Seq([what : {"setup", "unbound", "error"}, binding : {0} \cup Bindings])
    BY DEF TypeOK, QueuedTick
  <2> QED
    BY <1>2, <2>1 DEF TypeOK
<1>4. StatusInv'
  BY <1>1 DEF StatusInv
<1>5. SetupInv'
  BY <1>1, AppendSetupInv
<1>6. CallInv' /\ StaleInv'
  BY <1>1, <1>2 DEF CallInv, StaleInv, At
<1>7. BindsKnowingly'
  <2>1. \A d \in Callers : d # c => ~At(d, "stopping")
    BY DEF CallInv
  <2> QED
    BY <1>2, <2>1 DEF BindsKnowingly, OnStopOncePerBinding, ListensKnowingly, At
<1> QED
  BY <1>3, <1>4, <1>5, <1>6, <1>7

-----------------------------------------------------------------------------
\* A tick finds no stop which is about a binding which is over.
LEMMA TickIInv ==
  ASSUME BindableInv, Tick
  PROVE  BindableInv'
<1> USE DEF BindableInv, Tick, statusVars
<1> DEFINE Queued == [what : {"setup", "unbound", "error"}, binding : {0} \cup Bindings]
<1>0. ticks \in Seq(Queued) /\ ticks # <<>> /\ ticks' = Tail(ticks)
  BY DEF TypeOK
<1>1. /\ ticks' \in Seq(Queued)
      /\ Len(ticks') = Len(ticks) - 1
      /\ \A i \in 1 .. Len(ticks') : ticks'[i] = ticks[i + 1] /\ i + 1 \in 1 .. Len(ticks)
      /\ 1 \in 1 .. Len(ticks) /\ Head(ticks) = ticks[1] /\ Len(ticks) \in Nat
      /\ Head(ticks).what \in {"setup", "unbound", "error"}
  <2> HIDE DEF Queued
  <2>1. Len(ticks) \in Nat /\ Len(ticks) # 0 /\ ticks' \in Seq(Queued)
    BY <1>0, EmptySeq, HeadTailProperties
  <2>2. Head(ticks) = ticks[1] /\ 1 \in 1 .. Len(ticks) /\ ticks[1] \in Queued
    BY <1>0, <2>1
  <2>3. Len(ticks') = Len(ticks) - 1
    BY <1>0, <2>1
  <2>4. \A i \in 1 .. Len(ticks') : ticks'[i] = ticks[i + 1] /\ i + 1 \in 1 .. Len(ticks)
    BY <1>0, <2>1
  <2> QED
    BY <2>1, <2>2, <2>3, <2>4 DEF Queued
<1>2. UNCHANGED <<status, active, last, host, server, calls, onStops, turn>>
  OBVIOUS
<1>3. BindsKnowingly' /\ CallInv'
  BY <1>2 DEF BindsKnowingly, OnStopOncePerBinding, ListensKnowingly, CallInv, At
<1>4. StatusInv'
  BY <1>2 DEF StatusInv
<1>5. StaleInv'
  BY <1>2 DEF StaleInv, At
<1>6. CASE Head(ticks).what = "setup"
  <2>1. Head(ticks).binding = last /\ setup[last] = "queued" /\ last \in Bindings
    BY <1>1, <1>6 DEF SetupInv, TypeOK
  <2>2. setup' = [setup EXCEPT ![last] = "binding"] /\ runs' = runs
    BY <1>6, <2>1
  <2>3. TypeOK'
    BY <1>1, <1>2, <2>2 DEF TypeOK
  <2>4. status = "binding"
    BY <2>1 DEF SetupInv
  <2>5. \A i \in 1 .. Len(ticks') : ticks'[i].what # "setup"
    BY <1>1, <1>6 DEF SetupInv
  <2>6. SetupInv'
    BY <1>2, <2>2, <2>4, <2>5 DEF SetupInv, TypeOK
  <2> QED
    BY <1>3, <1>4, <1>5, <2>3, <2>6
<1>7. CASE Head(ticks).what # "setup"
  <2>1. Emit(Head(ticks).what) /\ setup' = setup
    BY <1>7
  <2>2. TypeOK'
    BY <1>1, <1>2, <2>1 DEF TypeOK, Emit
  <2>3. SetupInv'
    BY <1>1, <1>2, <2>1 DEF SetupInv
  <2> QED
    BY <1>3, <1>4, <1>5, <2>2, <2>3
<1> QED
  BY <1>6, <1>7

LEMMA NextTurnIInv ==
  ASSUME BindableInv, NextTurn
  PROVE  BindableInv'
<1> USE DEF BindableInv, NextTurn, statusVars, bindingVars
<1>1. TypeOK'
  BY DEF TypeOK
<1>2. StatusInv' /\ SetupInv' /\ CallInv'
  BY DEF StatusInv, SetupInv, CallInv, At
<1>3. StaleInv'
  BY DEF StaleInv, JobQueued, At
<1>4. BindsKnowingly'
  BY DEF BindsKnowingly, OnStopOncePerBinding, ListensKnowingly, At
<1> QED
  BY <1>1, <1>2, <1>3, <1>4

LEMMA NextBindableInv ==
  ASSUME ~SelfUnbinds, BindableInv, [Next]_vars
  PROVE  BindableInv'
<1>1. ASSUME NEW how \in {"start", "run"}, Start(how)
      PROVE  BindableInv'
  BY <1>1, StartIInv
<1>2. ASSUME NEW n \in Bindings,
             BindSucceeds(n) \/ BindFails(n) \/ SetupErrs(n) \/ ServerCloses(n)
      PROVE  BindableInv'
  BY <1>2, BindSucceedsIInv, BindFailsIInv, SetupErrsIInv, ServerClosesIInv
<1>3. ASSUME NEW c \in Callers,
             Stop(c) \/ StopGoesOn(c) \/ StopSucceeds(c) \/ StopFails(c)
      PROVE  BindableInv'
  BY <1>3, StopIInv, StopGoesOnIInv, StopSucceedsIInv, StopFailsIInv
<1>4. CASE Tick \/ NextTurn
  BY <1>4, TickIInv, NextTurnIInv
<1>5. CASE UNCHANGED vars
  <2> USE <1>5 DEF vars, statusVars, bindingVars, BindableInv
  <2>1. TypeOK' /\ StatusInv' /\ SetupInv' /\ CallInv' /\ StaleInv'
    BY DEF TypeOK, StatusInv, SetupInv, CallInv, StaleInv, At
  <2>2. BindsKnowingly'
    BY DEF BindsKnowingly, OnStopOncePerBinding, ListensKnowingly, At
  <2> QED
    BY <2>1, <2>2
<1> QED
  BY <1>1, <1>2, <1>3, <1>4, <1>5 DEF Next

\* The inductive invariant holds.
THEOREM BindableInvariance ==
  ASSUME ~SelfUnbinds
  PROVE  Spec => []BindableInv
<1>1. BindableInv /\ [Next]_vars => BindableInv'
  BY NextBindableInv
<1> QED
  BY <1>1, InitBindableInv, PTL DEF Spec

\* onStop is called once per binding, for the current one, and what listens is
\* known (bindable.ts:177, 188).
THEOREM BindableKnows ==
  ASSUME ~SelfUnbinds
  PROVE  Spec => []BindsKnowingly
<1>1. BindableInv => BindsKnowingly
  BY DEF BindableInv
<1> QED
  BY <1>1, BindableInvariance, PTL

-----------------------------------------------------------------------------
Listens == \E n \in Bindings : server[n] = "open"

\* What the contract asks of steps: only onStop's server closes, only a binding one opens.
Moves ==
  /\ status = status' \/ <<status, status'>> \in Contract!Lifecycle
  /\ ~Listens /\ Listens' => status = "binding" /\ status' = "bound"
  /\ Listens /\ ~Listens' => status = "unbinding"

LEMMA NextMoves ==
  ASSUME ~SelfUnbinds, BindableInv, [Next]_vars
  PROVE  Moves
<1> USE DEF Moves, Listens, Contract!Lifecycle, statusVars, bindingVars
<1>1. ASSUME NEW how \in {"start", "run"}, Start(how)
      PROVE  Moves
  BY <1>1 DEF Start
<1>2. ASSUME NEW n \in Bindings, BindSucceeds(n)
      PROVE  Moves
  BY <1>2 DEF BindSucceeds, Opens, BindableInv, SetupInv, TypeOK
<1>3. ASSUME NEW n \in Bindings, BindFails(n) \/ SetupErrs(n)
      PROVE  Moves
  BY <1>3 DEF BindFails, SetupErrs, BindableInv, SetupInv
<1>4. ASSUME NEW n \in Bindings, ServerCloses(n)
      PROVE  Moves
  BY <1>4 DEF ServerCloses, Closes, BindableInv, CallInv, TypeOK
<1>5. ASSUME NEW c \in Callers, Stop(c) \/ StopGoesOn(c)
      PROVE  Moves
  BY <1>5 DEF Stop, StopGoesOn
<1>6. ASSUME NEW c \in Callers, StopSucceeds(c) \/ StopFails(c)
      PROVE  Moves
  BY <1>6 DEF StopSucceeds, StopFails, Unbind, BindableInv, CallInv
<1>7. CASE Tick \/ NextTurn
  BY <1>7 DEF Tick, NextTurn
<1>8. CASE UNCHANGED vars
  BY <1>8 DEF vars
<1> QED
  BY <1>1, <1>2, <1>3, <1>4, <1>5, <1>6, <1>7, <1>8 DEF Next

\* Binding after binding, the bindable is listening exactly when its status
\* says so (BindableContract).
THEOREM BindableKeepsContract ==
  ASSUME ~SelfUnbinds
  PROVE  Spec => KeepsContract
<1>1. Init => Contract!Init
  BY DEF Init, Contract!Init
<1>2. BindableInv /\ BindableInv' /\ [Next]_vars
        => [Contract!Next]_<<[b \in {"bindable"} |-> status],
                             {b \in {"bindable"} : \E n \in Bindings : server[n] = "open"}>>
  <2> SUFFICES ASSUME BindableInv, BindableInv', [Next]_vars
               PROVE  Contract!Next
    OBVIOUS
  <2>1. Moves
    BY NextMoves
  <2>2. (status' = "bound" => Listens') /\ (status' = "unbound" => ~Listens')
    BY DEF BindableInv, TypeOK, StatusInv, BindsKnowingly, ListensKnowingly, Listens
  <2>3. \A b \in {"bindable"} : Contract!Move(b)
    BY <2>1, <2>2 DEF Moves, Listens, Contract!Move
  <2>4. status' \in Contract!Statuses
    BY DEF BindableInv, TypeOK, Contract!Statuses
  <2> QED
    BY <2>3, <2>4 DEF Contract!Next
<1> QED
  BY <1>1, <1>2, BindableInvariance, PTL DEF Spec, KeepsContract, Contract!Spec

-----------------------------------------------------------------------------
(* Freezable *)

\* A function bound to the object got out, or may do by its descriptor.
Excused ==
  \/ "bound" \in asFrozen.held
  \/ \E p \in Names : asFrozen.obj[p] = "bound"

\* Else whoever calls what was handed out goes through the traps: no function
\* which does not is held, and none can be got from an object which stays.
FrozenInv == frozen /\ ~Excused => obj = asFrozen.obj /\ "bound" \notin held

LEMMA FrozenInvFrozenStays == FrozenInv => FrozenStays
  BY DEF FrozenInv, FrozenStays, Excused

\* Whoever writes through a trap finds the object open.
LEMMA SetTrapOpen ==
  ASSUME NEW p, NEW slot, SetTrap(p, slot)
  PROVE  ~frozen
  BY DEF SetTrap

LEMMA GetFrozenInv ==
  ASSUME FrozenInv, NEW p \in Names, GetTrap(p)
  PROVE  FrozenInv'
<1> SUFFICES ASSUME frozen', ~Excused'
             PROVE  obj' = asFrozen'.obj /\ "bound" \notin held'
  BY DEF FrozenInv
<1>1. frozen /\ ~Excused /\ allow' = allow /\ asFrozen' = asFrozen
  BY DEF GetTrap, Excused
<1>2. obj = asFrozen.obj /\ "bound" \notin held
  BY <1>1 DEF FrozenInv
<1>3. obj' = obj
  BY <1>1, SetTrapOpen DEF GetTrap
<1>4. obj[p] # "bound"
  BY <1>1, <1>2 DEF Excused
<1>5. "bound" \notin held'
  BY <1>2, <1>4 DEF GetTrap
<1> QED
  BY <1>1, <1>2, <1>3, <1>5

LEMMA DescriptorFrozenInv ==
  ASSUME FrozenInv, NEW p \in Names, GetDescriptor(p)
  PROVE  FrozenInv'
<1> SUFFICES ASSUME frozen', ~Excused'
             PROVE  obj' = asFrozen'.obj /\ "bound" \notin held'
  BY DEF FrozenInv
<1>1. frozen /\ ~Excused /\ obj' = obj /\ asFrozen' = asFrozen
  BY DEF GetDescriptor, Excused
<1>2. obj = asFrozen.obj /\ "bound" \notin held /\ obj[p] # "bound"
  BY <1>1 DEF FrozenInv, Excused
<1>3. "bound" \notin held'
  BY <1>2 DEF GetDescriptor
<1> QED
  BY <1>1, <1>2, <1>3

LEMMA ChangeFrozenInv ==
  ASSUME FrozenInv, Change
  PROVE  FrozenInv'
<1>1. ~frozen
  BY SetTrapOpen DEF Change, DeleteProperty, DefineProperty
<1> QED
  BY <1>1 DEF FrozenInv, Change

LEMMA CallFrozenInv ==
  ASSUME FrozenInv, NEW f \in Functions, Call(f)
  PROVE  FrozenInv'
<1> SUFFICES ASSUME frozen', ~Excused'
             PROVE  obj' = asFrozen'.obj /\ "bound" \notin held'
  BY DEF FrozenInv
<1>1. frozen /\ ~Excused /\ asFrozen' = asFrozen /\ held' = held
  BY DEF Call, Excused
<1>2. obj = asFrozen.obj /\ "bound" \notin held
  BY <1>1 DEF FrozenInv
<1>3. f # "bound"
  BY <1>2 DEF Call
<1>4. FALSE
  BY <1>1, <1>3, SetTrapOpen DEF Call
<1> QED
  BY <1>4

\* onFreeze is done before the object is compared to what it became.
LEMMA FreezeFrozenInv ==
  ASSUME Freeze
  PROVE  FrozenInv'
  BY DEF Freeze, FrozenInv, Excused

LEMMA NextFrozenInv == FrozenInv /\ [FreezableNext]_freezableVars => FrozenInv'
<1> SUFFICES ASSUME FrozenInv, [FreezableNext]_freezableVars
             PROVE  FrozenInv'
  OBVIOUS
<1>1. CASE FreezableNext
  BY <1>1, GetFrozenInv, DescriptorFrozenInv, ChangeFrozenInv, CallFrozenInv, FreezeFrozenInv DEF FreezableNext
<1>2. CASE UNCHANGED freezableVars
  BY <1>2 DEF freezableVars, FrozenInv, Excused
<1> QED
  BY <1>1, <1>2

\* A frozen object stays what onFreeze made of it, by its traps (objects.ts:65),
\* unless clients got a function bound to it or find one in it.
THEOREM FrozenObjectStays == FreezableSpec => []FrozenStays
<1>1. FreezableInit => FrozenInv
  BY DEF FreezableInit, FrozenInv
<1> QED
  BY <1>1, NextFrozenInv, FrozenInvFrozenStays, PTL DEF FreezableSpec

-----------------------------------------------------------------------------
(* Events *)

QueuedEvent == [event : Nat, size : {0, 1}]

EventsType ==
  /\ kind \in {"map", "yield"}
  /\ iteration \in {"unstarted", "waiting", "yielded", "returned", "threw", "left"}
  /\ emitted \in Nat /\ lastSize \in {0, 1}
  /\ mapping \subseteq [event : Nat, thrown : BOOLEAN]
  /\ queue \in Seq(QueuedEvent)
  /\ forwarded \in Seq(QueuedEvent)
  /\ yielded \in Seq(Nat)

\* What was forwarded was yielded, or is queued until the iteration is over.
QueueInv ==
  /\ Len(yielded) + Len(queue) <= Len(forwarded)
  /\ \A i \in 1 .. Len(yielded) : yielded[i] = forwarded[i].event
  /\ ~IterationOver =>
       /\ Len(yielded) + Len(queue) = Len(forwarded)
       /\ \A i \in 1 .. Len(queue) : queue[i] = forwarded[Len(yielded) + i]
  /\ IterationOver => onError # "none"

\* Listeners run out with the value yielded latest, if at all: the iteration is
\* over then, once its consumer asks for another.
SizeInv ==
  /\ yielded = <<>> => lastSize = 1
  /\ yielded # <<>> => lastSize = forwarded[Len(yielded)].size
  /\ \A i \in 1 .. Len(yielded) : i < Len(yielded) => forwarded[i].size = 1
  /\ iteration = "unstarted" => yielded = <<>>
  /\ iteration = "waiting" => lastSize = 1
  /\ iteration = "returned" \/ iteration = "threw" =>
       lastSize = 0 \/ Len(yielded) = Len(forwarded)

\* Only mappers exit.
KindInv ==
  kind = "yield" =>
    /\ mapping = {} /\ \A i \in 1 .. Len(forwarded) : forwarded[i].size = 1

EventsInv == EventsType /\ QueueInv /\ SizeInv /\ KindInv

LEMMA InitEventsInv == EventsInit => EventsInv
  BY DEF EventsInit, EventsInv, EventsType, QueueInv, SizeInv, KindInv, IterationOver,
         QueuedEvent

\* An event is queued as it is forwarded, unless the queue has ended.
LEMMA ForwardEventsInv ==
  ASSUME EventsInv, NEW e \in Nat, NEW sz \in {0, 1}, Forward(e, sz),
         kind = "yield" => sz = 1,
         UNCHANGED <<kind, iteration, onError, lastSize, yielded>>,
         emitted' \in Nat, mapping' \subseteq [event : Nat, thrown : BOOLEAN],
         kind = "yield" => mapping' = {}
  PROVE  EventsInv'
<1> DEFINE new == [event |-> e, size |-> sz]
<1>0. IterationOver' <=> IterationOver
  BY DEF IterationOver
<1>1. CASE UNCHANGED <<queue, forwarded>>
  BY <1>0, <1>1 DEF EventsInv, EventsType, QueueInv, SizeInv, KindInv
<1>2. CASE /\ onError = "none" /\ queue' = Append(queue, new)
           /\ forwarded' = Append(forwarded, new)
  <2>0. new \in QueuedEvent /\ new.size = sz
    BY DEF QueuedEvent
  <2>1. EventsType'
    BY <1>2, <2>0 DEF EventsInv, EventsType
  <2>2. /\ Len(forwarded') = Len(forwarded) + 1 /\ forwarded'[Len(forwarded) + 1] = new
        /\ \A i \in 1 .. Len(forwarded) : forwarded'[i] = forwarded[i]
        /\ Len(queue') = Len(queue) + 1 /\ queue'[Len(queue) + 1] = new
        /\ \A i \in 1 .. Len(queue) : queue'[i] = queue[i]
        /\ Len(queue) \in Nat /\ Len(forwarded) \in Nat /\ Len(yielded) \in Nat
    BY <1>2, <2>0 DEF EventsInv, EventsType
  <2>3. ~IterationOver /\ Len(yielded) + Len(queue) = Len(forwarded)
    BY <1>2 DEF EventsInv, QueueInv
  <2>4. QueueInv'
    <3>1. \A i \in 1 .. Len(yielded) : yielded'[i] = forwarded'[i].event
      BY <2>2, <2>3, SMTT(30) DEF EventsInv, QueueInv
    <3>2. \A i \in 1 .. Len(queue') : queue'[i] = forwarded'[Len(yielded) + i]
      <4> SUFFICES ASSUME NEW i \in 1 .. Len(queue')
                   PROVE  queue'[i] = forwarded'[Len(yielded) + i]
        OBVIOUS
      <4>1. CASE i = Len(queue) + 1
        BY <2>2, <2>3, <4>1
      <4>2. CASE i # Len(queue) + 1
        <5>0. i \in 1 .. Len(queue) + 1
          BY <2>2
        <5>1. i \in 1 .. Len(queue) /\ Len(yielded) + i \in 1 .. Len(forwarded)
          BY <2>2, <2>3, <4>2, <5>0
        <5>2. queue[i] = forwarded[Len(yielded) + i]
          BY <2>3, <5>1 DEF EventsInv, QueueInv
        <5> QED
          BY <2>2, <5>1, <5>2
      <4> QED
        BY <4>1, <4>2
    <3>3. /\ Len(yielded') + Len(queue') = Len(forwarded') /\ ~IterationOver'
          /\ yielded' = yielded
      <4>0. Len(queue) \in Nat /\ Len(yielded) \in Nat /\ Len(yielded) + Len(queue) = Len(forwarded)
        BY <2>2, <2>3
      <4>1. Len(yielded) + (Len(queue) + 1) = Len(forwarded) + 1
        BY <4>0
      <4> QED
        BY <1>0, <2>2, <2>3, <4>1
    <3> QED
      BY <3>1, <3>2, <3>3 DEF QueueInv
  <2>5. SizeInv'
    <3>1. /\ UNCHANGED <<yielded, lastSize, iteration>>
          /\ iteration \notin {"returned", "threw"}
      BY <1>2, <2>3 DEF IterationOver
    <3>2. \A i \in 1 .. Len(yielded) : forwarded'[i] = forwarded[i]
      BY <2>2, <2>3, SMTT(30)
    <3>3. yielded # <<>> => Len(yielded) \in 1 .. Len(yielded)
      BY DEF EventsInv, EventsType
    <3> QED
      BY <3>1, <3>2, <3>3 DEF EventsInv, SizeInv
  <2>6. KindInv'
    BY <2>0, <2>2 DEF EventsInv, KindInv
  <2> QED
    BY <2>1, <2>4, <2>5, <2>6 DEF EventsInv
<1> QED
  BY <1>1, <1>2 DEF Forward

LEMMA SourceEventsInv ==
  ASSUME EventsInv,
         \/ \E mode \in Modes : EmitEvent(mode)
         \/ MapperExits \/ ExitElsewhere \/ MapperResolves \/ MapperRejects \/ EmitError \/ Until
  PROVE  EventsInv'
<1> USE DEF EventsInv, EventsType
<1>1. ASSUME NEW mode \in Modes, EmitEvent(mode)
      PROVE  EventsInv'
  <2> DEFINE exits == mode \in {"exit", "promiseExit", "throwExit"}
  <2>0. /\ emitted' = emitted + 1 /\ emitted + 1 \in Nat
        /\ kind = "yield" => mode = "value"
        /\ UNCHANGED <<kind, iteration, onError, lastSize, yielded>>
    BY <1>1 DEF EmitEvent, optsVars
  <2>1. CASE /\ mode \in {"value", "exit"} /\ UNCHANGED mapping
             /\ Forward(emitted + 1, IF exits THEN 0 ELSE 1)
    <3>1. (IF exits THEN 0 ELSE 1) \in {0, 1}
          /\ (kind = "yield" => (IF exits THEN 0 ELSE 1) = 1)
      BY <2>0
    <3>2. kind = "yield" => mapping' = {}
      BY <2>1 DEF KindInv
    <3> QED
      BY <2>0, <2>1, <3>1, <3>2, ForwardEventsInv
  <2>2. CASE /\ mode \notin {"value", "exit"} /\ UNCHANGED <<queue, forwarded>>
             /\ mapping' = mapping \cup {[event |-> emitted + 1, thrown |-> mode \in {"throw", "throwExit"}]}
    <3>1. [event |-> emitted + 1, thrown |-> mode \in {"throw", "throwExit"}]
            \in [event : Nat, thrown : BOOLEAN]
      BY <2>0
    <3>2. mapping' \subseteq [event : Nat, thrown : BOOLEAN] /\ kind # "yield"
      BY <2>0, <2>2, <3>1
    <3> QED
      BY <2>0, <2>2, <3>2 DEF QueueInv, SizeInv, KindInv, IterationOver
  <2> QED
    BY <1>1, <2>1, <2>2 DEF EmitEvent
<1>2. CASE MapperResolves
  <2> PICK m \in mapping :
        /\ mapping' = mapping \ {m} /\ Forward(m.event, IF listening THEN 1 ELSE 0)
        /\ UNCHANGED <<kind, iteration, emitted, onError, lastSize, yielded>>
    BY <1>2 DEF MapperResolves, optsVars
  <2>1. kind = "yield" => FALSE
    BY DEF KindInv
  <2> QED
    BY <2>1, ForwardEventsInv
<1>3. CASE MapperRejects
  <2> PICK m \in mapping :
        /\ mapping' = mapping \ {m} /\ EndQueue("error")
        /\ UNCHANGED <<kind, iteration, emitted, queue, lastSize, forwarded, yielded>>
    BY <1>3 DEF MapperRejects, optsVars
  <2>1. onError # "none" => onError' # "none"
    BY DEF EndQueue
  <2> QED
    BY <2>1 DEF QueueInv, SizeInv, KindInv, IterationOver
<1>4. CASE EmitError
  <2>1. onError # "none" => onError' # "none"
    BY <1>4 DEF EmitError, EndQueue
  <2> QED
    BY <1>4, <2>1 DEF EmitError, optsVars, sourceVars, QueueInv, SizeInv, KindInv,
                      IterationOver
<1>5. CASE Until
  <2>1. onError # "none" => onError' # "none"
    BY <1>5 DEF Until
  <2> QED
    BY <1>5, <2>1 DEF Until, optsVars, sourceVars, QueueInv, SizeInv, KindInv,
                      IterationOver
<1>6. CASE MapperExits \/ ExitElsewhere
  BY <1>6 DEF MapperExits, ExitElsewhere, optsVars, QueueInv, SizeInv, KindInv, IterationOver
<1> QED
  BY <1>1, <1>2, <1>3, <1>4, <1>5, <1>6

\* The iteration ends once all is yielded, listeners ran out or it is left.
LEMMA EndsEventsInv ==
  ASSUME EventsInv, NEW how \in {"returned", "threw", "left"}, Ends(how),
         how \in {"returned", "threw"} => lastSize = 0 \/ Len(yielded) = Len(forwarded),
         UNCHANGED <<kind, emitted, mapping, lastSize, forwarded, yielded>>
  PROVE  EventsInv'
<1> USE DEF EventsInv, EventsType
<1>1. iteration' = how /\ queue' = <<>> /\ onError' # "none"
  BY DEF Ends
<1>2. EventsType'
  BY <1>1
<1>3. Len(yielded) <= Len(forwarded) /\ Len(queue') = 0
  BY <1>1 DEF QueueInv
<1>4. QueueInv'
  <2>1. IterationOver'
    BY <1>1 DEF IterationOver
  <2>2. \A i \in 1 .. Len(yielded) : yielded[i] = forwarded[i].event
    BY DEF QueueInv
  <2>3. Len(yielded') + Len(queue') <= Len(forwarded')
    BY <1>3
  <2> QED
    BY <1>1, <2>1, <2>2, <2>3 DEF QueueInv
<1>5. SizeInv' /\ KindInv'
  BY <1>1 DEF SizeInv, KindInv
<1> QED
  BY <1>2, <1>4, <1>5

LEMMA IterationEventsInv ==
  ASSUME EventsInv, Pull \/ Deliver \/ Leave
  PROVE  EventsInv'
<1> USE DEF EventsInv, EventsType
<1>1. CASE /\ iteration \in {"unstarted", "yielded"} /\ iteration' = "waiting"
           /\ ~ (iteration = "yielded" /\ Exited(lastSize))
           /\ UNCHANGED <<kind, emitted, mapping, queue, onError, lastSize, forwarded, yielded>>
  <2>1. lastSize = 1
    <3>1. CASE kind = "yield"
      BY <1>1, <3>1 DEF SizeInv, KindInv, QueueInv
    <3>2. CASE kind = "map"
      BY <1>1, <3>2 DEF SizeInv, Exited
    <3> QED
      BY <3>1, <3>2
  <2> QED
    BY <1>1, <2>1 DEF QueueInv, SizeInv, KindInv, IterationOver
<1>2. CASE /\ iteration = "yielded" /\ Exited(lastSize) /\ Ends("returned")
           /\ UNCHANGED <<kind, emitted, mapping, lastSize, forwarded, yielded>>
  BY <1>2, EndsEventsInv DEF Exited
<1>3. CASE /\ iteration = "waiting" /\ queue # <<>>
           /\ yielded' = Append(yielded, Head(queue).event) /\ lastSize' = Head(queue).size
           /\ iteration' = "yielded" /\ queue' = Tail(queue)
           /\ UNCHANGED <<kind, emitted, mapping, onError, forwarded>>
  <2> DEFINE n == Len(yielded) + 1
  <2>1. /\ Head(queue) = queue[1] /\ queue[1] = forwarded[n] /\ n \in 1 .. Len(forwarded)
        /\ Len(yielded) \in Nat /\ Len(queue) \in Nat /\ Len(queue) > 0
        /\ n + Len(queue) = Len(forwarded) + 1
    <3>1. ~IterationOver /\ queue # <<>> /\ queue \in Seq(QueuedEvent)
          /\ Len(yielded) \in Nat /\ Len(queue) \in Nat
      BY <1>3 DEF IterationOver
    <3>2. Len(queue) > 0 /\ Head(queue) = queue[1]
      BY <3>1
    <3>3. /\ Len(yielded) + Len(queue) = Len(forwarded)
          /\ \A i \in 1 .. Len(queue) : queue[i] = forwarded[Len(yielded) + i]
      BY <3>1 DEF QueueInv
    <3> QED
      BY <3>1, <3>2, <3>3
  <2>2. /\ forwarded[n] \in QueuedEvent /\ forwarded[n].event \in Nat
        /\ forwarded[n].size \in {0, 1}
    <3>1. forwarded[n] \in QueuedEvent
      BY <2>1
    <3> QED
      BY <3>1 DEF QueuedEvent
  <2>3. /\ Len(yielded') = n /\ yielded'[n] = forwarded[n].event
        /\ \A i \in 1 .. Len(yielded) : yielded'[i] = yielded[i]
    BY <1>3, <2>1, <2>2
  <2>4. /\ Len(queue') = Len(queue) - 1
        /\ \A i \in 1 .. Len(queue') : queue'[i] = queue[i + 1]
    BY <1>3, <2>1
  <2>5. EventsType'
    BY <1>3, <2>1, <2>2
  <2>6. QueueInv'
    BY <1>3, <2>1, <2>3, <2>4 DEF QueueInv, IterationOver
  <2>7. SizeInv'
    <3>1. \A i \in 1 .. Len(yielded) : forwarded[i].size = 1
      BY <1>3, <2>1 DEF SizeInv
    <3>2. lastSize' = forwarded'[Len(yielded')].size
      BY <1>3, <2>1, <2>3
    <3>3. yielded' # <<>>
      BY <2>1, <2>3
    <3>4. \A i \in 1 .. Len(yielded') : i < Len(yielded') => forwarded'[i].size = 1
      BY <1>3, <2>1, <2>3, <3>1
    <3> QED
      BY <1>3, <3>2, <3>3, <3>4 DEF SizeInv
  <2>8. KindInv'
    BY <1>3 DEF KindInv
  <2> QED
    BY <2>5, <2>6, <2>7, <2>8
<1>4. CASE /\ iteration = "waiting" /\ queue = <<>>
           /\ Ends(IF onError = "error" \/ throwsAborted THEN "threw" ELSE "returned")
           /\ UNCHANGED <<kind, emitted, mapping, lastSize, forwarded, yielded>>
  <2>1. Len(yielded) = Len(forwarded)
    BY <1>4 DEF QueueInv, IterationOver
  <2> QED
    BY <1>4, <2>1, EndsEventsInv
<1>5. CASE Leave
  BY <1>5, EndsEventsInv DEF Leave, optsVars, sourceVars
<1> QED
  BY <1>1, <1>2, <1>3, <1>4, <1>5 DEF Pull, Deliver, optsVars, sourceVars

\* Each event is forwarded at most once, after which no mapper is left of it;
\* those of synchronous mappers in the order they were emitted.
OriginInv ==
  /\ awaited \subseteq 1 .. emitted
  /\ \A m \in mapping : m.event \in 1 .. emitted /\ (~m.thrown => m.event \in awaited)
  /\ \A m, n \in mapping : m.event = n.event => m = n
  /\ \A i \in 1 .. Len(forwarded) :
       /\ forwarded[i].event \in 1 .. emitted
       /\ \A m \in mapping : forwarded[i].event # m.event
  /\ \A i, j \in 1 .. Len(forwarded) : i < j =>
       /\ forwarded[i].event # forwarded[j].event
       /\ forwarded[i].event \notin awaited /\ forwarded[j].event \notin awaited
            => forwarded[i].event < forwarded[j].event

\* Listeners are there from the start until exit is called: values are forwarded
\* with none left from then on, the first by the mapper which called it or one
\* which was pending at the time.
ExitInv ==
  /\ listening \in BOOLEAN /\ exit.called \in BOOLEAN /\ exit.after \in Nat
  /\ exit.called => ~listening /\ exit.after <= Len(forwarded) /\ iteration # "unstarted"
  /\ iteration = "unstarted" => mapping = {} /\ ~listening
  /\ ~exit.called /\ iteration \in {"waiting", "yielded"} => listening
  /\ \A i \in 1 .. Len(forwarded) :
       forwarded[i].size = IF exit.called /\ i > exit.after THEN 0 ELSE 1

ExitedByInv ==
  exit.called =>
    /\ exit.after < Len(forwarded) =>
         forwarded[exit.after + 1].event \in {exit.by} \cup exit.rivals
    /\ exit.after = Len(forwarded) /\ onError = "none" =>
         \A m \in mapping : ~m.thrown => m.event \in {exit.by} \cup exit.rivals

\* Only iterations on named events are stopped.
StopInv ==
  kind = "map" =>
    /\ onError \in {"none", "error", "closed"} /\ ~untilListening
    /\ onError = "closed" => IterationOver
    /\ iteration = "returned" => lastSize = 0

HistoryInv == OriginInv /\ ExitInv /\ ExitedByInv /\ StopInv

LEMMA InitHistoryInv == EventsInit => HistoryInv
<1> SUFFICES ASSUME EventsInit
             PROVE  HistoryInv
  OBVIOUS
<1>1. /\ exit = [called |-> FALSE, by |-> 0, after |-> 0, rivals |-> {}] /\ listening = FALSE
      /\ iteration = "unstarted" /\ mapping = {} /\ awaited = {} /\ Len(forwarded) = 0
      /\ onError = "none" /\ untilListening = FALSE
  BY DEF EventsInit
<1>2. exit.called = FALSE /\ exit.after = 0
  BY <1>1
<1>0. 1 .. Len(forwarded) = {} /\ Len(forwarded) \in Nat /\ 0 \in Nat
  BY <1>1
<1>3. OriginInv
  BY <1>0, <1>1 DEF OriginInv
<1>5. /\ listening \in BOOLEAN /\ exit.called \in BOOLEAN /\ exit.after \in Nat /\ ~exit.called
  BY <1>1, <1>2
<1>6. ExitInv
  BY <1>0, <1>1, <1>5 DEF ExitInv
<1>4. ExitedByInv /\ StopInv
  BY <1>1, <1>2 DEF ExitedByInv, StopInv, IterationOver
<1> QED
  BY <1>3, <1>4, <1>6 DEF HistoryInv

\* The history of exit begins with the first call.
LEMMA CalledExitInv ==
  ASSUME ExitInv, NEW e, NEW rivals, listening, Len(forwarded) \in Nat, listening' = FALSE,
         exit' = [called |-> TRUE, by |-> e, after |-> Len(forwarded), rivals |-> rivals],
         UNCHANGED <<iteration, forwarded>>
  PROVE  ExitInv'
<1>1. exit'.called = TRUE /\ exit'.after = Len(forwarded)
  OBVIOUS
<1>2. ~exit.called /\ iteration # "unstarted"
      /\ \A i \in 1 .. Len(forwarded) : forwarded[i].size = 1
  BY DEF ExitInv
<1>3. \A i \in 1 .. Len(forwarded) : ~ (i > Len(forwarded))
  OBVIOUS
<1>4. \A i \in 1 .. Len(forwarded') :
        forwarded'[i].size = IF exit'.called /\ i > exit'.after THEN 0 ELSE 1
  BY <1>1, <1>2, <1>3
<1>5. exit'.called \in BOOLEAN /\ exit'.after \in Nat /\ exit'.after <= Len(forwarded')
  BY <1>1
<1> QED
  BY <1>1, <1>2, <1>4, <1>5 DEF ExitInv

\* A value is forwarded while the queue is open, and so the iteration goes on.
LEMMA ForwardOrigin ==
  ASSUME EventsInv, OriginInv, NEW e \in Nat, NEW sz \in {0, 1}, Forward(e, sz),
         emitted' \in Nat, emitted <= emitted', e \in 1 .. emitted',
         awaited \subseteq awaited', awaited' \subseteq 1 .. emitted',
         \A x \in awaited' : x \in awaited \/ x > emitted,
         mapping' \subseteq mapping, \A m \in mapping' : m.event # e,
         e > emitted \/ (e \in awaited /\ \E m \in mapping : m.event = e)
  PROVE  OriginInv'
<1> DEFINE new == [event |-> e, size |-> sz]
<1>0. emitted \in Nat /\ forwarded \in Seq(QueuedEvent) /\ new \in QueuedEvent
  BY DEF EventsInv, EventsType, QueuedEvent
<1>1. /\ \A m \in mapping : m.event \in 1 .. emitted /\ (~m.thrown => m.event \in awaited)
      /\ \A m, n \in mapping : m.event = n.event => m = n
      /\ \A i \in 1 .. Len(forwarded) :
           /\ forwarded[i].event \in 1 .. emitted
           /\ \A m \in mapping : forwarded[i].event # m.event
      /\ \A i, j \in 1 .. Len(forwarded) : i < j =>
           /\ forwarded[i].event # forwarded[j].event
           /\ forwarded[i].event \notin awaited /\ forwarded[j].event \notin awaited
                => forwarded[i].event < forwarded[j].event
  BY DEF OriginInv
<1>2. \A m \in mapping' : m.event \in 1 .. emitted' /\ (~m.thrown => m.event \in awaited')
  BY <1>0, <1>1
<1>3. \A m, n \in mapping' : m.event = n.event => m = n
  BY <1>1
<1>4. CASE forwarded' = forwarded
  <2>1. \A i \in 1 .. Len(forwarded) :
           /\ forwarded[i].event \in 1 .. emitted'
           /\ forwarded[i].event \notin awaited' => forwarded[i].event \notin awaited
           /\ \A m \in mapping' : forwarded[i].event # m.event
    BY <1>0, <1>1
  <2>2. \A i, j \in 1 .. Len(forwarded) : i < j =>
           /\ forwarded[i].event # forwarded[j].event
           /\ forwarded[i].event \notin awaited' /\ forwarded[j].event \notin awaited'
                => forwarded[i].event < forwarded[j].event
    BY <1>1
  <2> QED
    BY <1>2, <1>3, <1>4, <2>1, <2>2 DEF OriginInv
<1>5. CASE forwarded' = Append(forwarded, new)
  <2>1. /\ Len(forwarded') = Len(forwarded) + 1 /\ forwarded'[Len(forwarded) + 1] = new
        /\ \A i \in 1 .. Len(forwarded) : forwarded'[i] = forwarded[i]
        /\ Len(forwarded) \in Nat
    BY <1>0, <1>5
  <2>2. \A i \in 1 .. Len(forwarded) :
          /\ forwarded[i].event # e /\ (e \notin awaited' => forwarded[i].event < e)
    BY <1>0, <1>1
  <2>3. ASSUME NEW i \in 1 .. Len(forwarded')
        PROVE  /\ forwarded'[i].event \in 1 .. emitted'
               /\ \A m \in mapping' : forwarded'[i].event # m.event
    <3>1. CASE i = Len(forwarded) + 1
      BY <2>1, <3>1
    <3>2. CASE i # Len(forwarded) + 1
      <4>1. i \in 1 .. Len(forwarded) /\ forwarded'[i] = forwarded[i]
        BY <2>1, <3>2
      <4> QED
        BY <1>0, <1>1, <4>1
    <3> QED
      BY <3>1, <3>2
  <2>4. ASSUME NEW i \in 1 .. Len(forwarded'), NEW j \in 1 .. Len(forwarded'), i < j
        PROVE  /\ forwarded'[i].event # forwarded'[j].event
               /\ forwarded'[i].event \notin awaited' /\ forwarded'[j].event \notin awaited'
                    => forwarded'[i].event < forwarded'[j].event
    <3>1. i \in 1 .. Len(forwarded) /\ forwarded'[i] = forwarded[i]
      BY <2>1, <2>4
    <3>2. CASE j = Len(forwarded) + 1
      <4>1. forwarded'[j].event = e
        BY <2>1, <3>2
      <4> QED
        BY <2>2, <3>1, <4>1
    <3>3. CASE j # Len(forwarded) + 1
      <4>1. j \in 1 .. Len(forwarded) /\ forwarded'[j] = forwarded[j]
        BY <2>1, <3>3
      <4> QED
        BY <1>1, <2>4, <3>1, <4>1
    <3> QED
      BY <3>2, <3>3
  <2> QED
    BY <1>2, <1>3, <2>3, <2>4 DEF OriginInv
<1> QED
  BY <1>4, <1>5 DEF Forward

\* What it is forwarded with tells whether exit was called.
LEMMA ForwardExit ==
  ASSUME EventsInv, ExitInv, ExitedByInv, StopInv, NEW e \in Nat, NEW sz \in {0, 1},
         Forward(e, sz), UNCHANGED <<kind, untilListening, iteration, onError, lastSize>>,
         mapping' \subseteq mapping, iteration # "unstarted",
         \/ UNCHANGED <<listening, exit>> /\ sz = (IF listening THEN 1 ELSE 0)
              /\ (exit.called => \E m \in mapping : ~m.thrown /\ m.event = e)
         \/ /\ sz = 0 /\ listening /\ listening' = FALSE
            /\ exit'.called = TRUE /\ exit'.by = e /\ exit'.after = Len(forwarded)
  PROVE  ExitInv' /\ ExitedByInv' /\ StopInv'
<1> DEFINE new == [event |-> e, size |-> sz]
<1>0. forwarded \in Seq(QueuedEvent) /\ new \in QueuedEvent
  BY DEF EventsInv, EventsType, QueuedEvent
<1>1. /\ listening \in BOOLEAN /\ exit.called \in BOOLEAN /\ exit.after \in Nat
      /\ exit.called => ~listening /\ exit.after <= Len(forwarded)
      /\ ~exit.called /\ iteration \in {"waiting", "yielded"} => listening
      /\ \A i \in 1 .. Len(forwarded) :
           forwarded[i].size = IF exit.called /\ i > exit.after THEN 0 ELSE 1
  BY DEF ExitInv
<1>2. StopInv'
  BY DEF StopInv, IterationOver
<1>3. /\ listening' \in BOOLEAN /\ exit'.called \in BOOLEAN /\ exit'.after \in Nat
      /\ exit'.called => ~listening' /\ exit'.after <= Len(forwarded)
      /\ ~exit'.called /\ iteration' \in {"waiting", "yielded"} => listening'
      /\ \A i \in 1 .. Len(forwarded) :
           forwarded[i].size = IF exit'.called /\ i > exit'.after THEN 0 ELSE 1
  <2>1. CASE UNCHANGED <<listening, exit>>
    BY <1>1, <2>1
  <2>2. CASE /\ listening /\ listening' = FALSE /\ exit'.called = TRUE
             /\ exit'.after = Len(forwarded)
    <3>1. Len(forwarded) \in Nat /\ ~exit.called
      BY <1>0, <1>1, <2>2
    <3>2. \A i \in 1 .. Len(forwarded) : ~ (i > Len(forwarded)) /\ forwarded[i].size = 1
      BY <1>1, <3>1
    <3>3. \A i \in 1 .. Len(forwarded) : ~ (i > exit'.after) /\ forwarded[i].size = 1
      BY <2>2, <3>2
    <3>4. /\ listening' \in BOOLEAN /\ exit'.called \in BOOLEAN /\ exit'.after \in Nat
          /\ exit'.called /\ ~listening' /\ exit'.after <= Len(forwarded)
      <4>1. listening' \in BOOLEAN /\ exit'.called \in BOOLEAN /\ exit'.called /\ ~listening'
        BY <2>2, Zenon
      <4>2. exit'.after \in Nat /\ exit'.after <= Len(forwarded)
        BY <2>2, <3>1
      <4> QED
        BY <4>1, <4>2
    <3>5. \A i \in 1 .. Len(forwarded) :
             forwarded[i].size = IF exit'.called /\ i > exit'.after THEN 0 ELSE 1
      BY <3>3
    <3> QED
      BY <3>4, <3>5
  <2> QED
    BY <2>1, <2>2
<1>4. CASE onError # "none" /\ forwarded' = forwarded
  <2>1. ExitInv'
    BY <1>3, <1>4 DEF ExitInv
  <2>2. ExitedByInv'
    BY <1>0, <1>4 DEF ExitedByInv
  <2> QED
    BY <1>2, <2>1, <2>2
<1>5. CASE onError = "none" /\ forwarded' = Append(forwarded, new)
  <2>1. /\ Len(forwarded') = Len(forwarded) + 1 /\ forwarded'[Len(forwarded) + 1] = new
        /\ \A i \in 1 .. Len(forwarded) : forwarded'[i] = forwarded[i]
        /\ Len(forwarded) \in Nat
    BY <1>0, <1>5
  <2>2. iteration \in {"waiting", "yielded"}
    BY <1>5 DEF EventsInv, EventsType, QueueInv, IterationOver
  <2>3. sz = IF exit'.called /\ Len(forwarded) + 1 > exit'.after THEN 0 ELSE 1
    BY <1>1, <2>1, <2>2
  <2>4. ASSUME NEW i \in 1 .. Len(forwarded')
        PROVE  forwarded'[i].size = IF exit'.called /\ i > exit'.after THEN 0 ELSE 1
    <3>1. CASE i = Len(forwarded) + 1
      BY <2>1, <2>3, <3>1
    <3>2. CASE i # Len(forwarded) + 1
      <4>1. i \in 1 .. Len(forwarded) /\ forwarded'[i] = forwarded[i]
        BY <2>1, <3>2
      <4> QED
        BY <1>3, <4>1
    <3> QED
      BY <3>1, <3>2
  <2>5. exit'.called => exit'.after <= Len(forwarded')
    BY <1>3, <2>1
  <2>6. ExitInv'
    BY <1>3, <2>2, <2>4, <2>5 DEF ExitInv
  <2>7. ASSUME exit'.called
        PROVE  forwarded'[exit'.after + 1].event \in {exit'.by} \cup exit'.rivals
    <3>1. CASE exit'.after = Len(forwarded) /\ exit'.by = e
      BY <2>1, <3>1
    <3>2. CASE UNCHANGED exit /\ exit.after = Len(forwarded)
      <4>1. e \in {exit.by} \cup exit.rivals
        BY <1>1, <1>5, <2>7, <3>2 DEF ExitedByInv
      <4> QED
        BY <2>1, <3>2, <4>1
    <3>3. CASE UNCHANGED exit /\ exit.after # Len(forwarded)
      <4>1. exit.after < Len(forwarded) /\ exit.after + 1 \in 1 .. Len(forwarded)
        BY <1>1, <2>1, <2>7, <3>3
      <4>2. forwarded[exit.after + 1].event \in {exit.by} \cup exit.rivals
        BY <2>7, <3>3, <4>1 DEF ExitedByInv
      <4> QED
        BY <2>1, <3>3, <4>1, <4>2
    <3> QED
      BY <3>1, <3>2, <3>3
  <2>8. exit'.called => exit'.after # Len(forwarded')
    BY <1>3, <2>1
  <2>9. ExitedByInv'
    BY <2>7, <2>8 DEF ExitedByInv
  <2> QED
    BY <1>2, <2>6, <2>9
<1> QED
  BY <1>4, <1>5 DEF Forward

\* Mappers do not call exit before they are called.
LEMMA EmitHistoryInv ==
  ASSUME EventsInv, HistoryInv, NEW mode \in Modes, EmitEvent(mode)
  PROVE  HistoryInv'
<1> DEFINE e == emitted + 1
           exits == mode \in {"exit", "promiseExit", "throwExit"}
           new == [event |-> e, thrown |-> mode \in {"throw", "throwExit"}]
<1>0. /\ listening /\ emitted' = e /\ e \in Nat /\ emitted \in Nat /\ iteration # "unstarted"
      /\ ~exit.called
      /\ UNCHANGED <<kind, untilListening, iteration, onError, lastSize>>
  BY DEF EmitEvent, EventsInv, EventsType, HistoryInv, ExitInv, optsVars
<1>1. /\ IF exits THEN Exit(e, IF mode \in {"value", "exit"} THEN {} ELSE Pending)
         ELSE UNCHANGED <<listening, exit>>
      /\ awaited' = IF mode \in {"promise", "promiseExit"} THEN awaited \cup {e} ELSE awaited
      /\ IF mode \in {"value", "exit"} THEN Forward(e, IF exits THEN 0 ELSE 1) /\ UNCHANGED mapping
         ELSE mapping' = mapping \cup {new} /\ UNCHANGED <<queue, forwarded>>
  BY DEF EmitEvent
<1>2. /\ awaited \subseteq 1 .. emitted
      /\ \A m \in mapping : m.event \in 1 .. emitted
  BY DEF HistoryInv, OriginInv
<1>3. CASE mode \in {"value", "exit"}
  <2>0. /\ Forward(e, IF exits THEN 0 ELSE 1) /\ UNCHANGED <<mapping, awaited>>
        /\ (IF exits THEN 0 ELSE 1) \in {0, 1}
        /\ \/ UNCHANGED <<listening, exit>> /\ ~exits
           \/ /\ exits /\ listening' = FALSE
              /\ exit'.called = TRUE /\ exit'.by = e /\ exit'.after = Len(forwarded)
    <3>1. UNCHANGED <<mapping, awaited>> /\ Forward(e, IF exits THEN 0 ELSE 1)
      BY <1>1, <1>3
    <3>2. CASE exits
      <4>1. Exit(e, {})
        BY <1>1, <1>3, <3>2
      <4>2. /\ listening' = FALSE
            /\ exit' = [called |-> TRUE, by |-> e, after |-> Len(forwarded), rivals |-> {}]
        BY <1>0, <4>1 DEF Exit
      <4> QED
        BY <3>1, <3>2, <4>2
    <3>3. CASE ~exits
      BY <1>1, <3>1, <3>3
    <3> QED
      BY <3>2, <3>3
  <2>1. OriginInv'
    <3>1. /\ emitted <= e /\ e \in 1 .. e /\ awaited \subseteq 1 .. e /\ e > emitted
          /\ \A m \in mapping : m.event # e
      BY <1>0, <1>2
    <3> HIDE DEF e, exits
    <3> QED
      BY <1>0, <2>0, <3>1, ForwardOrigin DEF HistoryInv
  <2>2. ExitInv' /\ ExitedByInv' /\ StopInv'
    <3> HIDE DEF e, exits
    <3> QED
      BY <1>0, <2>0, ForwardExit DEF HistoryInv
  <2> QED
    BY <2>1, <2>2 DEF HistoryInv
<1>4. CASE mode \notin {"value", "exit"}
  <2>0. mapping' = mapping \cup {new} /\ forwarded' = forwarded
    BY <1>1, <1>4
  <2>1. OriginInv'
    <3>1. /\ \A m \in mapping : m.event \in 1 .. emitted /\ (~m.thrown => m.event \in awaited)
          /\ \A m, n \in mapping : m.event = n.event => m = n
          /\ \A i \in 1 .. Len(forwarded) :
               /\ forwarded[i].event \in 1 .. emitted
               /\ \A m \in mapping : forwarded[i].event # m.event
          /\ \A i, j \in 1 .. Len(forwarded) : i < j =>
               /\ forwarded[i].event # forwarded[j].event
               /\ forwarded[i].event \notin awaited /\ forwarded[j].event \notin awaited
                    => forwarded[i].event < forwarded[j].event
      BY DEF HistoryInv, OriginInv
    <3>2. /\ new.event = e /\ (~new.thrown => e \in awaited') /\ e > emitted
          /\ awaited \subseteq awaited' /\ awaited' \subseteq 1 .. emitted'
      <4>1. new.event = e /\ new.thrown = (mode \in {"throw", "throwExit"})
        OBVIOUS
      <4>2. ~ (mode \in {"throw", "throwExit"}) => mode \in {"promise", "promiseExit"}
        BY <1>4 DEF Modes
      <4>3. awaited' = awaited \/ awaited' = awaited \cup {e}
        BY <1>1
      <4>4. ~new.thrown => e \in awaited'
        BY <1>1, <4>1, <4>2
      <4>5. e > emitted /\ e \in 1 .. e /\ awaited \subseteq 1 .. e
        BY <1>0, <1>2
      <4> QED
        BY <1>0, <4>1, <4>3, <4>4, <4>5
    <3> HIDE DEF new, e
    <3>3. \A m \in mapping' : m.event \in 1 .. emitted' /\ (~m.thrown => m.event \in awaited')
      BY <1>0, <2>0, <3>1, <3>2 DEF e
    <3>4. \A m, n \in mapping' : m.event = n.event => m = n
      BY <1>0, <2>0, <3>1, <3>2
    <3>5. \A i \in 1 .. Len(forwarded) :
            /\ forwarded[i].event \in 1 .. emitted'
            /\ forwarded[i].event \notin awaited' => forwarded[i].event \notin awaited
            /\ \A m \in mapping' : forwarded[i].event # m.event
      BY <1>0, <2>0, <3>1, <3>2 DEF e
    <3>6. \A i, j \in 1 .. Len(forwarded) : i < j =>
            /\ forwarded[i].event # forwarded[j].event
            /\ forwarded[i].event \notin awaited' /\ forwarded[j].event \notin awaited'
                 => forwarded[i].event < forwarded[j].event
      BY <3>1, <3>5
    <3> QED
      BY <2>0, <3>2, <3>3, <3>4, <3>5, <3>6 DEF OriginInv
  <2>2. StopInv'
    BY <1>0 DEF HistoryInv, StopInv, IterationOver
  <2>3. CASE ~exits
    <3>1. UNCHANGED <<listening, exit>>
      BY <1>1, <2>3
    <3>2. ExitInv' /\ ExitedByInv'
      BY <1>0, <2>0, <3>1 DEF HistoryInv, ExitInv, ExitedByInv
    <3> QED
      BY <2>1, <2>2, <3>2 DEF HistoryInv
  <2>4. CASE exits
    <3>1. listening' = FALSE /\ exit' = [called |-> TRUE, by |-> e, after |-> Len(forwarded), rivals |-> Pending]
      BY <1>0, <1>1, <1>4, <2>4 DEF Exit
    <3>2. Len(forwarded) \in Nat
      BY DEF EventsInv, EventsType
    <3>3. ExitInv'
      BY <1>0, <2>0, <3>1, <3>2, CalledExitInv DEF HistoryInv
    <3>4. \A m \in mapping' : ~m.thrown => m.event \in {e} \cup Pending
      BY <2>0 DEF Pending
    <3>5. ExitedByInv'
      BY <2>0, <3>1, <3>2, <3>4 DEF ExitedByInv
    <3> QED
      BY <2>1, <2>2, <3>3, <3>5 DEF HistoryInv
  <2> QED
    BY <2>3, <2>4
<1> QED
  BY <1>3, <1>4

LEMMA MapperHistoryInv ==
  ASSUME EventsInv, HistoryInv,
         MapperExits \/ ExitElsewhere \/ MapperResolves \/ MapperRejects
  PROVE  HistoryInv'
<1>0. forwarded \in Seq(QueuedEvent) /\ Len(forwarded) \in Nat
      /\ mapping \subseteq [event : Nat, thrown : BOOLEAN]
  BY DEF EventsInv, EventsType
<1>1. CASE MapperExits \/ ExitElsewhere
  <2>1. PICK e : Exit(e, Pending)
    BY <1>1 DEF MapperExits, ExitElsewhere
  <2>2. /\ listening /\ UNCHANGED <<kind, iteration, untilListening, emitted, mapping, onError, lastSize,
                         forwarded, awaited>>
    BY <1>1 DEF MapperExits, ExitElsewhere, optsVars
  <2>3. ~exit.called /\ iteration # "unstarted"
    BY <2>2 DEF HistoryInv, ExitInv
  <2>4. listening' = FALSE /\ exit' = [called |-> TRUE, by |-> e, after |-> Len(forwarded), rivals |-> Pending]
    BY <2>1, <2>3 DEF Exit
  <2>5. ExitInv'
    BY <1>0, <2>2, <2>4, CalledExitInv DEF HistoryInv
  <2>6. \A m \in mapping : ~m.thrown => m.event \in {e} \cup Pending
    BY DEF Pending
  <2>7. ExitedByInv'
    BY <1>0, <2>2, <2>4, <2>6 DEF ExitedByInv
  <2>8. OriginInv' /\ StopInv'
    BY <2>2 DEF HistoryInv, OriginInv, StopInv, IterationOver
  <2> QED
    BY <2>5, <2>7, <2>8 DEF HistoryInv
<1>2. CASE MapperResolves
  <2>1. PICK m \in mapping :
          /\ ~m.thrown /\ mapping' = mapping \ {m}
          /\ Forward(m.event, IF listening THEN 1 ELSE 0)
          /\ UNCHANGED <<kind, iteration, listening, untilListening, emitted, onError, lastSize,
                         awaited, exit>>
    BY <1>2 DEF MapperResolves, optsVars, targetVars
  <2>2. m.event \in Nat /\ m.event \in 1 .. emitted /\ m.event \in awaited
        /\ iteration # "unstarted" /\ emitted \in Nat /\ awaited \subseteq 1 .. emitted
    BY <1>0, <2>1 DEF HistoryInv, OriginInv, ExitInv, EventsInv, EventsType
  <2>3. \A n \in mapping' : n.event # m.event
    BY <2>1 DEF HistoryInv, OriginInv
  <2>4. (IF listening THEN 1 ELSE 0) \in {0, 1} /\ mapping' \subseteq mapping
    BY <2>1
  <2>5. OriginInv'
    <3>1. /\ emitted' \in Nat /\ emitted <= emitted' /\ m.event \in 1 .. emitted'
          /\ awaited \subseteq awaited' /\ awaited' \subseteq 1 .. emitted'
          /\ \A x \in awaited' : x \in awaited \/ x > emitted
      BY <2>1, <2>2
    <3>2. \E n \in mapping : n.event = m.event
      OBVIOUS
    <3> QED
      BY <2>1, <2>2, <2>3, <2>4, <3>1, <3>2, ForwardOrigin DEF HistoryInv
  <2>6. ExitInv' /\ ExitedByInv' /\ StopInv'
    BY <2>1, <2>2, <2>4, ForwardExit DEF HistoryInv
  <2> QED
    BY <2>5, <2>6 DEF HistoryInv
<1>3. CASE MapperRejects
  <2>1. /\ mapping' \subseteq mapping
        /\ UNCHANGED <<kind, iteration, listening, untilListening, emitted, lastSize, forwarded,
                       awaited, exit>>
        /\ onError' = onError \/ (onError = "none" /\ onError' = "error")
    BY <1>3 DEF MapperRejects, EndQueue, optsVars, targetVars
  <2>2. OriginInv'
    BY <2>1 DEF HistoryInv, OriginInv
  <2>3. ExitInv' /\ ExitedByInv'
    BY <2>1 DEF HistoryInv, ExitInv, ExitedByInv
  <2>4. StopInv'
    BY <2>1 DEF HistoryInv, StopInv, IterationOver
  <2> QED
    BY <2>2, <2>3, <2>4 DEF HistoryInv
<1> QED
  BY <1>1, <1>2, <1>3

\* The loop and what ends the queue leave the history alone.
LEMMA LoopHistoryInv ==
  ASSUME EventsInv, EventsInv', HistoryInv, EmitError \/ Until \/ Pull \/ Deliver \/ Leave
  PROVE  HistoryInv'
<1>0. UNCHANGED <<kind, emitted, mapping, awaited, exit, forwarded>>
  BY DEF EmitError, Until, Pull, Deliver, Leave, optsVars, sourceVars
<1>1. OriginInv'
  BY <1>0 DEF HistoryInv, OriginInv
<1>2. ExitedByInv'
  <2>1. onError' = "none" => onError = "none"
    BY DEF EmitError, Until, Pull, Deliver, Leave, EndQueue, Ends
  <2> QED
    BY <1>0, <2>1 DEF HistoryInv, ExitedByInv
<1>3. CASE (EmitError \/ Until) /\ UNCHANGED <<iteration, listening, untilListening, lastSize>>
  <2>1. kind = "map" => onError' = onError \/ (onError = "none" /\ onError' = "error")
    BY <1>3 DEF EmitError, Until, EndQueue, HistoryInv, StopInv
  <2>2. StopInv'
    BY <1>0, <1>3, <2>1 DEF HistoryInv, StopInv, IterationOver
  <2>3. ExitInv'
    BY <1>0, <1>3 DEF HistoryInv, ExitInv
  <2> QED
    BY <1>1, <1>2, <2>2, <2>3 DEF HistoryInv
<1>4. CASE Pull /\ iteration = "unstarted"
  <2>1. /\ iteration' = "waiting" /\ listening' = TRUE /\ untilListening' = (kind = "yield")
        /\ UNCHANGED <<onError, lastSize>>
    BY <1>4 DEF Pull
  <2>2. ~exit.called
    BY <1>4 DEF HistoryInv, ExitInv
  <2>3. ExitInv'
    <3>1. /\ exit.called \in BOOLEAN /\ exit.after \in Nat
          /\ \A i \in 1 .. Len(forwarded) :
               forwarded[i].size = IF exit.called /\ i > exit.after THEN 0 ELSE 1
      BY DEF HistoryInv, ExitInv
    <3>2. /\ UNCHANGED <<exit, forwarded>> /\ iteration' # "unstarted"
          /\ listening' \in BOOLEAN /\ listening' /\ ~exit'.called
      BY <1>0, <2>1, <2>2
    <3>3. /\ exit'.called \in BOOLEAN /\ exit'.after \in Nat
          /\ \A i \in 1 .. Len(forwarded') :
               forwarded'[i].size = IF exit'.called /\ i > exit'.after THEN 0 ELSE 1
      BY <3>1, <3>2
    <3> QED
      BY <2>1, <3>2, <3>3, SMTT(30) DEF ExitInv
  <2>4. StopInv'
    <3>1. kind = "map" => ~untilListening'
      <4>1. kind = "map" => ~ (kind = "yield")
        OBVIOUS
      <4> QED
        BY <2>1, <4>1, Zenon
    <3>2. /\ kind' = kind /\ onError' = onError /\ iteration' = "waiting" /\ iteration = "unstarted"
      BY <1>0, <1>4, <2>1
    <3> QED
      BY <3>1, <3>2 DEF HistoryInv, StopInv, IterationOver
  <2> QED
    BY <1>1, <1>2, <2>3, <2>4 DEF HistoryInv
<1>5. CASE /\ iteration \in {"waiting", "yielded"} /\ iteration' \in {"waiting", "yielded"}
           /\ UNCHANGED <<listening, untilListening, onError>>
  BY <1>0, <1>1, <1>2, <1>5 DEF HistoryInv, ExitInv, StopInv, IterationOver
<1>6. ASSUME NEW how \in {"returned", "threw", "left"}, Ends(how), iteration \in {"waiting", "yielded"},
             kind = "map" /\ how = "returned" => lastSize = 0,
             UNCHANGED <<untilListening, lastSize>>
      PROVE  HistoryInv'
  <2>1. /\ iteration' = how /\ listening' = FALSE
        /\ onError' = IF onError = "none" THEN "closed" ELSE onError
    BY <1>6 DEF Ends
  <2>2. ExitInv'
    BY <1>0, <1>6, <2>1 DEF HistoryInv, ExitInv
  <2>3. StopInv'
    BY <1>0, <1>6, <2>1 DEF HistoryInv, StopInv, IterationOver
  <2> QED
    BY <1>1, <1>2, <2>2, <2>3 DEF HistoryInv
<1>7. CASE Pull /\ iteration = "yielded" /\ Exited(lastSize)
  <2>1. Ends("returned") /\ lastSize = 0 /\ UNCHANGED <<untilListening, lastSize>>
    BY <1>7 DEF Pull, Exited
  <2> QED
    BY <1>6, <1>7, <2>1
<1>8. CASE Pull /\ iteration = "yielded" /\ ~Exited(lastSize)
  BY <1>5, <1>8 DEF Pull
<1>9. CASE Deliver /\ queue # <<>>
  BY <1>5, <1>9 DEF Deliver
<1>10. CASE Deliver /\ queue = <<>>
  <2>1. /\ iteration = "waiting" /\ onError # "none"
        /\ Ends(IF onError = "error" \/ throwsAborted THEN "threw" ELSE "returned")
        /\ UNCHANGED <<untilListening, lastSize>>
    BY <1>10 DEF Deliver
  <2>2. kind = "map" => onError = "error"
    BY <2>1 DEF HistoryInv, StopInv, IterationOver
  <2> QED
    BY <1>6, <2>1, <2>2
<1>11. CASE Leave
  BY <1>6, <1>11 DEF Leave
<1>12. CASE EmitError \/ Until
  BY <1>3, <1>12 DEF EmitError, Until, targetVars
<1> QED
  BY <1>4, <1>7, <1>8, <1>9, <1>10, <1>11, <1>12 DEF Pull

LEMMA EventsInvariance == EventsSpec => [](EventsInv /\ HistoryInv)
<1>1. EventsInv /\ UNCHANGED eventsVars => EventsInv'
  BY DEF EventsInv, EventsType, QueueInv, SizeInv, KindInv, IterationOver, eventsVars
<1>2. HistoryInv /\ UNCHANGED eventsVars => HistoryInv'
  BY DEF HistoryInv, OriginInv, ExitInv, ExitedByInv, StopInv, IterationOver, eventsVars
<1>3. EventsInv /\ [EventsNext]_eventsVars => EventsInv'
  BY <1>1, SourceEventsInv, IterationEventsInv DEF EventsNext
<1>4. EventsInv /\ HistoryInv /\ [EventsNext]_eventsVars => HistoryInv'
  BY <1>2, <1>3, EmitHistoryInv, MapperHistoryInv, LoopHistoryInv DEF EventsNext
<1> QED
  BY <1>3, <1>4, InitEventsInv, InitHistoryInv, PTL DEF EventsSpec

\* No more is yielded than the first value after exit was called, at which the
\* loop finds no listener left.
LEMMA DueProperties ==
  ASSUME EventsInv, HistoryInv
  PROVE  /\ Due \in Nat /\ Len(yielded) <= Due
         /\ lastSize = 0 => /\ Due = Len(yielded) /\ exit.called /\ yielded # <<>>
                            /\ Len(yielded) = exit.after + 1 /\ exit.after < Len(forwarded)
         /\ Len(yielded) = Len(forwarded) => Due = Len(yielded)
<1>1. /\ Len(forwarded) \in Nat /\ Len(yielded) \in Nat /\ Len(yielded) <= Len(forwarded)
      /\ yielded = <<>> => Len(yielded) = 0
      /\ yielded # <<>> => Len(yielded) \in 1 .. Len(forwarded)
  <2>1. yielded \in Seq(Nat) /\ forwarded \in Seq(QueuedEvent) /\ queue \in Seq(QueuedEvent)
    BY DEF EventsInv, EventsType
  <2>2. Len(yielded) + Len(queue) <= Len(forwarded)
    BY DEF EventsInv, QueueInv
  <2> QED
    BY <2>1, <2>2
<1>2. /\ exit.called \in BOOLEAN /\ exit.after \in Nat
      /\ exit.called => exit.after <= Len(forwarded)
      /\ \A i \in 1 .. Len(forwarded) :
           forwarded[i].size = IF exit.called /\ i > exit.after THEN 0 ELSE 1
  BY DEF HistoryInv, ExitInv
<1>3. /\ yielded = <<>> => lastSize = 1
      /\ yielded # <<>> => lastSize = forwarded[Len(yielded)].size
      /\ \A i \in 1 .. Len(yielded) : i < Len(yielded) => forwarded[i].size = 1
  BY DEF EventsInv, SizeInv
<1>4. exit.called => Len(yielded) <= exit.after + 1
  <2> SUFFICES ASSUME exit.called, Len(yielded) > exit.after + 1
               PROVE  FALSE
    BY <1>1, <1>2
  <2> DEFINE i == exit.after + 1
  <2>1. i \in 1 .. Len(yielded) /\ i \in 1 .. Len(forwarded) /\ i < Len(yielded) /\ i > exit.after
    BY <1>1, <1>2
  <2> QED
    BY <1>2, <1>3, <2>1
<1>5. lastSize = 0 => /\ exit.called /\ yielded # <<>>
                      /\ Len(yielded) = exit.after + 1 /\ exit.after < Len(forwarded)
  BY <1>1, <1>2, <1>3, <1>4
<1> QED
  BY <1>1, <1>2, <1>4, <1>5 DEF Due

\* However events, mappers, errors, the calls of exit and the consumer
\* interleave, values are yielded in the order their mappers gave them, the
\* events of synchronous mappers in theirs, each once, and none but those which
\* were forwarded before exit was called and the next one.
THEOREM ValuesComeInOrder == EventsSpec => []YieldsInOrder
<1>1. ASSUME EventsInv, HistoryInv
      PROVE  YieldsInOrder
  <2>1. /\ Len(yielded) \in Nat /\ Len(forwarded) \in Nat /\ Len(yielded) <= Len(forwarded)
        /\ DOMAIN yielded = 1 .. Len(yielded)
    <3>1. yielded \in Seq(Nat) /\ forwarded \in Seq(QueuedEvent) /\ queue \in Seq(QueuedEvent)
      BY <1>1 DEF EventsInv, EventsType
    <3>2. Len(yielded) + Len(queue) <= Len(forwarded)
      BY <1>1 DEF EventsInv, QueueInv
    <3> QED
      BY <3>1, <3>2
  <2>2. \A i \in 1 .. Len(yielded) : i \in 1 .. Len(forwarded) /\ yielded[i] = forwarded[i].event
    BY <1>1, <2>1 DEF EventsInv, QueueInv
  <2>3. \A i, j \in 1 .. Len(forwarded) : i < j =>
          /\ forwarded[i].event # forwarded[j].event
          /\ forwarded[i].event \notin awaited /\ forwarded[j].event \notin awaited
               => forwarded[i].event < forwarded[j].event
    BY <1>1 DEF HistoryInv, OriginInv
  <2>4. Len(yielded) <= Due
    BY <1>1, DueProperties
  <2>5. \A i, j \in 1 .. Len(yielded) : i < j =>
          /\ yielded[i] # yielded[j]
          /\ yielded[i] \notin awaited /\ yielded[j] \notin awaited => yielded[i] < yielded[j]
    BY <2>2, <2>3
  <2> QED
    BY <2>1, <2>2, <2>4, <2>5 DEF YieldsInOrder
<1> QED
  BY <1>1, EventsInvariance, PTL

\* An iteration which returns, or throws, has yielded all that is due, and one on
\* mapped events returns with the value of the mapper which called exit, unless
\* that one was pending, or threw, and another pending one came first.
THEOREM NoValueIsLost == EventsSpec => [](YieldsAll /\ ExitIsLast)
<1>1. ASSUME EventsInv, HistoryInv
      PROVE  YieldsAll /\ ExitIsLast
  <2>1. YieldsAll
    BY <1>1, DueProperties DEF YieldsAll, EventsInv, SizeInv
  <2>2. ASSUME kind = "map", iteration = "returned"
        PROVE  /\ exit.called /\ yielded # <<>>
               /\ yielded[Len(yielded)] \in {exit.by} \cup exit.rivals
    <3>1. lastSize = 0
      BY <1>1, <2>2 DEF HistoryInv, StopInv
    <3>2. /\ exit.called /\ yielded # <<>>
          /\ Len(yielded) = exit.after + 1 /\ exit.after < Len(forwarded)
      BY <1>1, <3>1, DueProperties
    <3>3. exit.after \in Nat /\ exit.after + 1 \in 1 .. Len(yielded)
      BY <1>1, <3>2 DEF HistoryInv, ExitInv
    <3>4. yielded[exit.after + 1] = forwarded[exit.after + 1].event
      BY <1>1, <3>3 DEF EventsInv, QueueInv
    <3> QED
      BY <1>1, <3>2, <3>4 DEF HistoryInv, ExitedByInv
  <2> QED
    BY <2>1, <2>2 DEF ExitIsLast
<1> QED
  BY <1>1, EventsInvariance, PTL

-----------------------------------------------------------------------------
(* Intensive *)

Frames == [op : Ops, at : {"entering", "body", "leaving"}, next : Nat \ {0}]

IntensiveType ==
  /\ started \subseteq Ops /\ ended \subseteq started
  /\ onStart \subseteq Ops \X Ops /\ forwards \subseteq Ops \X Ops
  /\ stacks \in [Ops -> Seq(Frames)]
  /\ current \in Ops \cup {Nobody} /\ yielding \in BOOLEAN

\* A frame is of an operation which started and, unless it leaves, has not
\* ended.  The one below forwards its breaths to it, or will once it starts.
Sits(stack, i) ==
  LET frame == stack[i] IN
  /\ frame.op \in started
  /\ frame.at # "leaving" => frame.op \notin ended
  /\ i < Len(stack) => frame.at = "body"
  /\ i > 1 /\ frame.at = "body" => <<stack[i - 1].op, frame.op>> \in forwards
  /\ i > 1 /\ frame.at = "entering" => <<stack[i - 1].op, frame.op>> \in onStart

\* A root runs at the bottom of its own stack.
Stacked(root) ==
  /\ stacks[root] # <<>> => stacks[root][1].op = root /\ stacks[root][1].at = "body"
  /\ \A i \in 1 .. Len(stacks[root]) : Sits(stacks[root], i)

\* Operations are run or embedded once.
UniqueInv ==
  \A root1, root2 \in Ops :
    \A i \in 1 .. Len(stacks[root1]), j \in 1 .. Len(stacks[root2]) :
      stacks[root1][i].op = stacks[root2][j].op => root1 = root2 /\ i = j

\* Breaths are forwarded to what runs.
ForwardsInv == \A l \in forwards : l[2] \in started \ ended

IntensiveInv ==
  IntensiveType /\ (\A root \in Ops : Stacked(root)) /\ UniqueInv /\ ForwardsInv

-----------------------------------------------------------------------------
(* Who hears a breath, as far as n operations away. *)

Heard(H, op) ==
  [n \in Nat |-> IF n = 0 THEN {op}
                 ELSE H[n - 1] \cup {f[2] : f \in {g \in forwards : g[1] \in H[n - 1]}}]

LEMMA HearingExists ==
  ASSUME IntensiveType, NEW op \in Ops
  PROVE  \E H : H = Heard(H, op)
<1> DEFINE S == SUBSET Ops
           base == {op}
           step == [n \in Nat |-> [x \in S |->
                      x \cup {f[2] : f \in {g \in forwards : g[1] \in x}}]]
<1>1. base \in S /\ step \in [Nat -> [S -> S]]
  BY DEF IntensiveType
<1>2. PICK H \in [Nat -> S] : Follows(H, base, step)
  <2> HIDE DEF S, step, base
  <2> QED
    BY <1>1, Iterates
<1>3. ASSUME NEW n \in Nat, n # 0
      PROVE  H[n] = H[n - 1] \cup {f[2] : f \in {g \in forwards : g[1] \in H[n - 1]}}
  <2>1. n - 1 \in Nat /\ (n - 1) + 1 = n /\ H[n - 1] \in S
    BY <1>3
  <2>2. H[n] = step[n - 1][H[n - 1]]
    <3> HIDE DEF S, step, base
    <3>1. H[(n - 1) + 1] = step[n - 1][H[n - 1]]
      BY <1>2, <2>1 DEF Follows
    <3> QED
      BY <2>1, <3>1
  <2> QED
    BY <2>1, <2>2
<1>4. H = Heard(H, op)
  <2>1. H[0] = {op}
    BY <1>2 DEF Follows
  <2> QED
    BY <1>3, <2>1 DEF Heard
<1> QED
  BY <1>4

\* The hearing of an operation, as HearBreathsOf computes it.
Hearing(op) == CHOOSE H : H = Heard(H, op)

LEMMA HearingProperties ==
  ASSUME IntensiveType, NEW op \in Ops
  PROVE  /\ HearBreathsOf(op) = Hearing(op)[Cardinality(Ops)]
         /\ Hearing(op)[0] = {op}
         /\ \A n \in Nat : Hearing(op)[n + 1] = Hearing(op)[n] \cup
              {f[2] : f \in {g \in forwards : g[1] \in Hearing(op)[n]}}
<1>1. Hearing(op) = Heard(Hearing(op), op)
  BY HearingExists DEF Hearing
<1>2. HearBreathsOf(op) = Hearing(op)[Cardinality(Ops)]
  BY DEF HearBreathsOf, Hearing, Heard
<1>3. Hearing(op)[0] = {op}
  BY <1>1 DEF Heard
<1>4. ASSUME NEW n \in Nat
      PROVE  Hearing(op)[n + 1] = Hearing(op)[n] \cup
               {f[2] : f \in {g \in forwards : g[1] \in Hearing(op)[n]}}
  <2>1. n + 1 \in Nat /\ n + 1 # 0 /\ (n + 1) - 1 = n
    OBVIOUS
  <2> QED
    BY <1>1, <2>1 DEF Heard
<1> QED
  BY <1>2, <1>3, <1>4

\* Those further away are heard too.
LEMMA HearingGrows ==
  ASSUME IntensiveType, NEW op \in Ops, NEW m \in Nat, NEW n \in Nat, m <= n
  PROVE  Hearing(op)[m] \subseteq Hearing(op)[n]
<1> DEFINE Bad == {k \in Nat : m <= k /\ ~(Hearing(op)[m] \subseteq Hearing(op)[k])}
<1>1. SUFFICES ASSUME Bad # {}
               PROVE  FALSE
  OBVIOUS
<1>2. PICK k \in Bad : \A j \in Bad : k <= j
  <2>1. Bad \subseteq Nat
    OBVIOUS
  <2> HIDE DEF Bad
  <2> QED
    BY <1>1, <2>1, SmallestOf
<1>3. k # m /\ k - 1 \in Nat /\ m <= k - 1 /\ (k - 1) + 1 = k
  BY <1>2
<1>4. k - 1 \notin Bad
  BY <1>2, <1>3
<1>5. Hearing(op)[m] \subseteq Hearing(op)[k - 1]
  BY <1>3, <1>4
<1>6. Hearing(op)[k - 1] \subseteq Hearing(op)[(k - 1) + 1]
  BY <1>3, HearingProperties
<1> QED
  BY <1>2, <1>3, <1>5, <1>6

\* Breaths come from the operation itself, or through a listener.
LEMMA HeardThroughListeners ==
  ASSUME IntensiveType, NEW op \in Ops, NEW n \in Nat, NEW x \in Hearing(op)[n], x # op
  PROVE  \E l \in forwards : l[2] = x
<1> DEFINE Bad == {k \in Nat : x \in Hearing(op)[k]}
<1>1. PICK k \in Bad : \A j \in Bad : k <= j
  <2>1. Bad \subseteq Nat /\ Bad # {}
    OBVIOUS
  <2> HIDE DEF Bad
  <2> QED
    BY <2>1, SmallestOf
<1>2. k # 0
  BY <1>1, HearingProperties
<1>3. k - 1 \in Nat /\ (k - 1) + 1 = k /\ x \notin Hearing(op)[k - 1]
  BY <1>1, <1>2
<1>4. Hearing(op)[(k - 1) + 1] = Hearing(op)[k - 1] \cup
        {f[2] : f \in {g \in forwards : g[1] \in Hearing(op)[k - 1]}}
  BY <1>3, HearingProperties
<1> QED
  BY <1>1, <1>3, <1>4

\* Up a stack, each operation is one step further away.
LEMMA StackIsHeard ==
  ASSUME IntensiveInv, NEW root \in Ops, NEW i \in 1 .. Len(stacks[root]),
         stacks[root][i].at = "body"
  PROVE  stacks[root][i].op \in Hearing(root)[i - 1]
<1> DEFINE stack == stacks[root]
           Bad == {j \in Nat : j \in 1 .. Len(stack) /\ stack[j].at = "body"
                                /\ stack[j].op \notin Hearing(root)[j - 1]}
<1>1. SUFFICES ASSUME Bad # {}
               PROVE  FALSE
  <2>1. i \in Nat
    OBVIOUS
  <2> QED
    BY <2>1
<1>2. PICK k \in Bad : \A j \in Bad : k <= j
  <2>1. Bad \subseteq Nat
    OBVIOUS
  <2> HIDE DEF Bad
  <2> QED
    BY <1>1, <2>1, SmallestOf
<1>3. IntensiveType /\ Stacked(root) /\ Len(stack) \in Nat /\ k \in 1 .. Len(stack)
  BY <1>2 DEF IntensiveInv, IntensiveType
<1>4. k # 1
  <2>1. CASE k = 1
    <3>1. stack # <<>>
      BY <1>3, <2>1
    <3>2. stack[1].op = root
      BY <1>3, <3>1 DEF Stacked
    <3>3. root \in Hearing(root)[0]
      BY <1>3, HearingProperties
    <3> QED
      BY <1>2, <2>1, <3>2, <3>3
  <2> QED
    BY <2>1
<1>5. k - 1 \in 1 .. Len(stack) /\ k - 1 < Len(stack) /\ k > 1
  BY <1>3, <1>4
<1>6. stack[k - 1].at = "body" /\ <<stack[k - 1].op, stack[k].op>> \in forwards
  BY <1>2, <1>3, <1>5 DEF Stacked, Sits
<1>7. stack[k - 1].op \in Hearing(root)[(k - 1) - 1]
  BY <1>2, <1>5, <1>6
<1>8. stack[k].op \in Hearing(root)[((k - 1) - 1) + 1]
  <2>1. (k - 1) - 1 \in Nat
    BY <1>5
  <2> DEFINE l == <<stack[k - 1].op, stack[k].op>>
  <2>2. l \in forwards /\ l[1] = stack[k - 1].op /\ l[2] = stack[k].op
    BY <1>6
  <2>3. l[2] \in {f[2] : f \in {g \in forwards : g[1] \in Hearing(root)[(k - 1) - 1]}}
    <3> HIDE DEF l
    <3> QED
      BY <1>7, <2>2
  <2>4. Hearing(root)[((k - 1) - 1) + 1] = Hearing(root)[(k - 1) - 1] \cup
          {f[2] : f \in {g \in forwards : g[1] \in Hearing(root)[(k - 1) - 1]}}
    BY <1>3, <2>1, HearingProperties
  <2> QED
    BY <2>2, <2>3, <2>4
<1>9. ((k - 1) - 1) + 1 = k - 1
  BY <1>5
<1> QED
  BY <1>2, <1>8, <1>9

\* Operations are on a stack once, so that all are within reach.
LEMMA StackIsShort ==
  ASSUME IntensiveInv, NEW root \in Ops
  PROVE  Len(stacks[root]) <= Cardinality(Ops) /\ Cardinality(Ops) \in Nat
<1> DEFINE stack == stacks[root]
           f == [i \in 1 .. Len(stack) |-> stack[i].op]
<1>1. IntensiveType /\ Len(stack) \in Nat /\ stack \in Seq(Frames)
  BY DEF IntensiveInv, IntensiveType
<1>2. f \in [1 .. Len(stack) -> Ops]
  <2>1. \A i \in 1 .. Len(stack) : stack[i] \in Frames
    BY <1>1
  <2>2. \A frame \in Frames : frame.op \in Ops
    BY DEF Frames
  <2> QED
    BY <2>1, <2>2
<1>3. \A i, j \in 1 .. Len(stack) : f[i] = f[j] => i = j
  BY DEF IntensiveInv, UniqueInv
<1>4. f \in Injection(1 .. Len(stack), Ops)
  <2> HIDE DEF f
  <2> QED
    BY <1>2, <1>3, Fun_IsInj
<1>5. Cardinality(1 .. Len(stack)) <= Cardinality(Ops)
  <2> HIDE DEF f
  <2> QED
    BY <1>4, FS_Injection, IntensiveAssumption
<1>6. Cardinality(1 .. Len(stack)) = Len(stack)
  BY <1>1, FS_Interval
<1>7. Cardinality(Ops) \in Nat
  BY FS_CardinalityType, IntensiveAssumption
<1> QED
  BY <1>5, <1>6, <1>7

LEMMA InvImpliesBreathsAreHeard == IntensiveInv => BreathsAreHeard
<1> SUFFICES ASSUME IntensiveInv, NEW root \in Ops, stacks[root] # <<>>
             PROVE  /\ Running(root) \subseteq HearBreathsOf(root)
                    /\ \A op \in HearBreathsOf(root) \ {root} : op \in started \ ended
  BY DEF BreathsAreHeard
<1>1. HearBreathsOf(root) = Hearing(root)[Cardinality(Ops)] /\ Cardinality(Ops) \in Nat
  BY HearingProperties, StackIsShort DEF IntensiveInv
<1>2. ASSUME NEW i \in DOMAIN stacks[root], stacks[root][i].at = "body"
      PROVE  stacks[root][i].op \in HearBreathsOf(root)
  <2>1. i \in 1 .. Len(stacks[root]) /\ i - 1 \in Nat /\ i - 1 <= Cardinality(Ops)
    <3>1. stacks[root] \in Seq(Frames)
      BY DEF IntensiveInv, IntensiveType
    <3>2. i \in 1 .. Len(stacks[root]) /\ Len(stacks[root]) \in Nat
      BY <1>2, <3>1
    <3>3. Len(stacks[root]) <= Cardinality(Ops)
      BY StackIsShort
    <3> QED
      BY <1>1, <3>2, <3>3
  <2>2. stacks[root][i].op \in Hearing(root)[i - 1]
    BY <1>2, <2>1, StackIsHeard
  <2>3. Hearing(root)[i - 1] \subseteq Hearing(root)[Cardinality(Ops)]
    BY <1>1, <2>1, HearingGrows DEF IntensiveInv
  <2> QED
    BY <1>1, <2>2, <2>3
<1>3. ASSUME NEW op \in HearBreathsOf(root) \ {root}
      PROVE  op \in started \ ended
  <2>1. \E l \in forwards : l[2] = op
    BY <1>1, <1>3, HeardThroughListeners DEF IntensiveInv
  <2> QED
    BY <2>1 DEF IntensiveInv, ForwardsInv
<1> QED
  BY <1>2, <1>3 DEF Running

-----------------------------------------------------------------------------
(* Stacks, as they are cut and as they grow. *)

\* Nothing is forgotten of an operation which goes on.
Keeps(op) ==
  /\ op \in ended' => op \in ended
  /\ \A l \in forwards : l[2] = op => l \in forwards'
  /\ \A l \in onStart : l[2] = op => l \in onStart'

\* A frame which stays where it was still sits there.
LEMMA KeptFrame ==
  ASSUME NEW root \in Ops, Stacked(root), NEW i \in 1 .. Len(stacks[root]),
         started \subseteq started', Keeps(stacks[root][i].op),
         stacks'[root][i] = stacks[root][i],
         i > 1 => stacks'[root][i - 1].op = stacks[root][i - 1].op,
         i < Len(stacks'[root]) => i < Len(stacks[root]) \/ stacks[root][i].at = "body"
  PROVE  Sits(stacks[root], i)'
<1> DEFINE l == <<stacks[root][i - 1].op, stacks[root][i].op>>
<1>1. Sits(stacks[root], i)
  BY DEF Stacked
<1>2. l[2] = stacks[root][i].op
  OBVIOUS
<1>3. (l \in forwards => l \in forwards') /\ (l \in onStart => l \in onStart')
  BY <1>2 DEF Keeps
<1> QED
  BY <1>1, <1>3 DEF Sits, Keeps

\* A stack which stays as it was.
LEMMA KeptStack ==
  ASSUME IntensiveInv, NEW root \in Ops, started \subseteq started',
         stacks'[root] = stacks[root],
         \A i \in 1 .. Len(stacks[root]) : Keeps(stacks[root][i].op)
  PROVE  Stacked(root)'
<1>1. Stacked(root)
  BY DEF IntensiveInv
<1>2. \A i \in 1 .. Len(stacks[root]) : Sits(stacks[root], i)'
  BY <1>1, KeptFrame
<1> QED
  BY <1>1, <1>2 DEF Stacked

\* Stacks which lose frames hold each operation once, as they did.
LEMMA ShrunkUnique ==
  ASSUME UniqueInv,
         \A r \in Ops : \A i \in 1 .. Len(stacks'[r]) :
           i \in 1 .. Len(stacks[r]) /\ stacks'[r][i].op = stacks[r][i].op
  PROVE  UniqueInv'
  BY DEF UniqueInv

\* A stack is cut at a frame, whose operation goes on.
LEMMA CutInv ==
  ASSUME IntensiveInv, NEW root \in Ops, NEW k \in 1 .. Len(stacks[root]), NEW frame \in Frames,
         frame.op = stacks[root][k].op, frame.at # "entering", k = 1 => frame.at = "body",
         stacks' = [stacks EXCEPT ![root] = Append(SubSeq(stacks[root], 1, k - 1), frame)],
         started' = started,
         \A r \in Ops : \A i \in 1 .. Len(stacks[r]) :
           r # root \/ i < k => Keeps(stacks[r][i].op),
         frame.at = "body" => frame.op \notin ended',
         k > 1 /\ frame.at = "body" => <<stacks[root][k - 1].op, frame.op>> \in forwards'
  PROVE  stacks' \in [Ops -> Seq(Frames)] /\ (\A r \in Ops : Stacked(r)') /\ UniqueInv'
<1> DEFINE stack == stacks[root]
           cut == Append(SubSeq(stack, 1, k - 1), frame)
<1>1. stacks \in [Ops -> Seq(Frames)] /\ stack \in Seq(Frames) /\ Stacked(root)
  BY DEF IntensiveInv, IntensiveType
<1>2. /\ Len(stack) \in Nat /\ k \in Nat /\ SubSeq(stack, 1, k - 1) \in Seq(Frames)
      /\ Len(SubSeq(stack, 1, k - 1)) = k - 1
      /\ \A i \in 1 .. k - 1 : SubSeq(stack, 1, k - 1)[i] = stack[i]
  BY <1>1
<1>3. /\ cut \in Seq(Frames) /\ Len(cut) = k /\ cut[k] = frame
      /\ \A i \in 1 .. k - 1 : cut[i] = stack[i]
  BY <1>2
<1>4. stacks'[root] = cut /\ \A r \in Ops : r # root => stacks'[r] = stacks[r]
  BY <1>1
<1>5. stacks' \in [Ops -> Seq(Frames)]
  <2> HIDE DEF cut
  <2> QED
    BY <1>1, <1>3
<1> HIDE DEF cut
<1>6. UniqueInv'
  <2>1. ASSUME NEW r \in Ops, NEW i \in 1 .. Len(stacks'[r])
        PROVE  i \in 1 .. Len(stacks[r]) /\ stacks'[r][i].op = stacks[r][i].op
    <3>1. CASE r # root
      BY <1>4, <2>1, <3>1
    <3>2. CASE r = root
      <4>1. i \in 1 .. k /\ i \in 1 .. Len(stack) /\ (i = k \/ i \in 1 .. k - 1)
        BY <1>2, <1>3, <1>4, <3>2
      <4> QED
        BY <1>3, <1>4, <3>2, <4>1
    <3> QED
      BY <3>1, <3>2
  <2> QED
    BY <2>1, ShrunkUnique DEF IntensiveInv
<1>7. ASSUME NEW r \in Ops, r # root
      PROVE  Stacked(r)'
  <2>1. \A i \in 1 .. Len(stacks[r]) : Keeps(stacks[r][i].op)
    BY <1>7
  <2> QED
    BY <1>4, <1>7, <2>1, KeptStack
<1>8. Stacked(root)'
  <2>1. Len(cut) = k /\ cut # <<>>
    BY <1>2, <1>3
  <2>2. cut[1].op = root /\ cut[1].at = "body"
    <3>1. stack # <<>> /\ stack[1].op = root /\ stack[1].at = "body"
      BY <1>1, <1>2 DEF Stacked
    <3> QED
      BY <1>2, <1>3, <3>1
  <2>3. ASSUME NEW i \in 1 .. k - 1
        PROVE  Sits(stacks[root], i)'
    <3>1. i \in 1 .. Len(stack) /\ i < k /\ i < Len(stack)
      BY <1>2
    <3>2. Keeps(stack[i].op)
      BY <3>1
    <3>3. stacks'[root][i] = stack[i]
      BY <1>3, <1>4
    <3>4. i > 1 => stacks'[root][i - 1].op = stack[i - 1].op
      BY <1>2, <1>3, <1>4
    <3> QED
      BY <1>1, <3>1, <3>2, <3>3, <3>4, KeptFrame
  <2>4. Sits(stacks[root], k)'
    <3>1. k > 1 => cut[k - 1] = stack[k - 1]
      BY <1>2, <1>3, SMTT(40)
    <3>2. frame.op \in started
      BY <1>1 DEF Stacked, Sits
    <3>3. stacks'[root][k] = frame /\ Len(stacks'[root]) = k /\ ~ (k < k)
          /\ (k > 1 => stacks'[root][k - 1] = stack[k - 1])
      BY <1>2, <1>3, <1>4, <3>1
    <3>4. frame.at = "body" \/ frame.at = "leaving"
      BY DEF Frames
    <3> QED
      BY <3>2, <3>3, <3>4 DEF Sits
  <2>5. \A i \in 1 .. k : Sits(stacks[root], i)'
    <3>1. \A i \in 1 .. k : i = k \/ i \in 1 .. k - 1
      BY <1>2
    <3> QED
      BY <2>3, <2>4, <3>1
  <2> QED
    BY <1>4, <2>1, <2>2, <2>5 DEF Stacked
<1> QED
  BY <1>5, <1>6, <1>7, <1>8

\* A stack is over.
LEMMA EmptiedInv ==
  ASSUME IntensiveInv, NEW root \in Ops, started' = started,
         stacks' = [stacks EXCEPT ![root] = <<>>],
         \A r \in Ops : \A i \in 1 .. Len(stacks[r]) : r # root => Keeps(stacks[r][i].op)
  PROVE  stacks' \in [Ops -> Seq(Frames)] /\ (\A r \in Ops : Stacked(r)') /\ UniqueInv'
<1>1. stacks \in [Ops -> Seq(Frames)]
  BY DEF IntensiveInv, IntensiveType
<1>2. stacks'[root] = <<>> /\ \A r \in Ops : r # root => stacks'[r] = stacks[r]
  BY <1>1
<1>3. stacks' \in [Ops -> Seq(Frames)]
  BY <1>1
<1>4. UniqueInv'
  BY <1>2, ShrunkUnique DEF IntensiveInv
<1>5. ASSUME NEW r \in Ops, r # root
      PROVE  Stacked(r)'
  BY <1>2, <1>5, KeptStack
<1>6. Stacked(root)'
  BY <1>2 DEF Stacked
<1> QED
  BY <1>3, <1>4, <1>5, <1>6

\* An operation is run or embedded for the first time.
LEMMA PushedInv ==
  ASSUME IntensiveInv, NEW root \in Ops, NEW frame \in Frames,
         frame.op \notin started, started' = started \cup {frame.op}, ended' = ended,
         stacks' = [stacks EXCEPT ![root] = Append(@, frame)],
         forwards \subseteq forwards', onStart \subseteq onStart',
         stacks[root] = <<>> => frame.op = root /\ frame.at = "body",
         stacks[root] # <<>> =>
           LET top == stacks[root][Len(stacks[root])]
           IN /\ top.at = "body" /\ frame.at = "entering"
              /\ <<top.op, frame.op>> \in onStart'
  PROVE  stacks' \in [Ops -> Seq(Frames)] /\ (\A r \in Ops : Stacked(r)') /\ UniqueInv'
<1> DEFINE stack == stacks[root]
           grown == Append(stack, frame)
           n == Len(stack)
<1>1. stacks \in [Ops -> Seq(Frames)] /\ stack \in Seq(Frames) /\ Stacked(root) /\ n \in Nat
  BY DEF IntensiveInv, IntensiveType
<1>2. /\ grown \in Seq(Frames) /\ Len(grown) = n + 1 /\ grown[n + 1] = frame
      /\ \A i \in 1 .. n : grown[i] = stack[i]
  BY <1>1
<1>3. stacks'[root] = grown /\ \A r \in Ops : r # root => stacks'[r] = stacks[r]
  BY <1>1
<1>4. stacks' \in [Ops -> Seq(Frames)]
  <2> HIDE DEF grown
  <2> QED
    BY <1>1, <1>2
<1> HIDE DEF grown
<1>5. \A op : Keeps(op)
  BY DEF Keeps
<1>6. ASSUME NEW r \in Ops, NEW i \in 1 .. Len(stacks'[r])
      PROVE  \/ i \in 1 .. Len(stacks[r]) /\ stacks'[r][i] = stacks[r][i]
             \/ r = root /\ i = n + 1 /\ stacks'[r][i] = frame
  <2>1. CASE r # root
    BY <1>3, <1>6, <2>1
  <2>2. CASE r = root
    <3>1. i \in 1 .. n + 1 /\ (i = n + 1 \/ i \in 1 .. n)
      BY <1>1, <1>2, <1>3, <2>2
    <3> QED
      BY <1>2, <1>3, <2>2, <3>1
  <2> QED
    BY <2>1, <2>2
<1>7. UniqueInv'
  <2>1. \A r \in Ops : \A i \in 1 .. Len(stacks[r]) : stacks[r][i].op # frame.op
    BY DEF IntensiveInv, Stacked, Sits
  <2>2. ASSUME NEW r1 \in Ops, NEW r2 \in Ops,
               NEW i \in 1 .. Len(stacks'[r1]), NEW j \in 1 .. Len(stacks'[r2]),
               stacks'[r1][i].op = stacks'[r2][j].op
        PROVE  r1 = r2 /\ i = j
    <3>1. CASE i \in 1 .. Len(stacks[r1]) /\ stacks'[r1][i] = stacks[r1][i]
      <4>1. j \in 1 .. Len(stacks[r2]) /\ stacks'[r2][j] = stacks[r2][j]
        BY <1>6, <2>1, <2>2, <3>1
      <4> QED
        BY <2>2, <3>1, <4>1 DEF IntensiveInv, UniqueInv
    <3>2. CASE r1 = root /\ i = n + 1 /\ stacks'[r1][i] = frame
      BY <1>6, <2>1, <2>2, <3>2
    <3> QED
      BY <1>6, <3>1, <3>2
  <2> QED
    BY <2>2 DEF UniqueInv
<1>8. ASSUME NEW r \in Ops, r # root
      PROVE  Stacked(r)'
  BY <1>3, <1>5, <1>8, KeptStack
<1>9. Stacked(root)'
  <2>1. n > 0 => stack # <<>> /\ stack[n].at = "body"
    BY <1>1
  <2>2. ASSUME NEW i \in 1 .. n
        PROVE  Sits(stacks[root], i)'
    <3>1. stacks'[root][i] = stack[i]
      BY <1>2, <1>3
    <3>2. i > 1 => stacks'[root][i - 1].op = stack[i - 1].op
      BY <1>1, <1>2, <1>3
    <3>3. i < n \/ stack[i].at = "body"
      BY <1>1, <2>1
    <3> QED
      BY <1>1, <1>5, <3>1, <3>2, <3>3, KeptFrame
  <2>0. PICK m \in Nat : m = n + 1
    BY <1>1
  <2>3. Sits(stacks[root], m)'
    <3>1. n > 0 => grown[n] = stack[n] /\ <<stack[n].op, frame.op>> \in onStart'
                   /\ frame.at = "entering"
      BY <1>1, <1>2, <2>1, SMTT(30)
    <3>2. frame.op \in started' /\ frame.op \notin ended'
      BY DEF IntensiveInv, IntensiveType
    <3>3. grown[n + 1] = frame /\ Len(grown) = n + 1 /\ (n + 1) - 1 = n
      BY <1>1, <1>2
    <3>4. m > 1 => n > 0 /\ stacks'[root][m - 1] = stack[n]
      BY <1>1, <1>3, <2>0, <3>1, <3>3
    <3>5. stacks'[root][m] = frame /\ ~ (m < Len(stacks'[root]))
      BY <1>1, <1>3, <2>0, <3>3
    <3> QED
      BY <3>1, <3>2, <3>4, <3>5 DEF Sits
  <2>4. grown # <<>> /\ grown[1].op = root /\ grown[1].at = "body"
    <3>0. Len(grown) # 0
      BY <1>1, <1>2
    <3>1. CASE n = 0
      <4>1. stack = <<>> /\ grown[1] = frame
        BY <1>1, <1>2, <3>1
      <4> QED
        BY <3>0, <4>1
    <3>2. CASE n # 0
      <4>1. stack # <<>> /\ grown[1] = stack[1]
        BY <1>1, <1>2, <3>2
      <4> QED
        BY <1>1, <3>0, <4>1 DEF Stacked
    <3> QED
      BY <3>1, <3>2
  <2>5. \A i \in 1 .. m : Sits(stacks[root], i)'
    <3>1. \A i \in 1 .. m : i = m \/ i \in 1 .. n
      BY <1>1, <2>0
    <3> QED
      BY <2>2, <2>3, <3>1
  <2> QED
    BY <1>2, <1>3, <2>0, <2>4, <2>5 DEF Stacked
<1> QED
  BY <1>4, <1>7, <1>8, <1>9

-----------------------------------------------------------------------------
(* The steps *)

LEMMA InitIntensiveInv == IntensiveInit => IntensiveInv
<1> SUFFICES ASSUME IntensiveInit
             PROVE  IntensiveInv
  OBVIOUS
<1>1. \A r \in Ops : stacks[r] = <<>> /\ stacks[r] \in Seq(Frames)
  BY DEF IntensiveInit
<1>2. IntensiveType
  BY <1>1 DEF IntensiveInit, IntensiveType
<1>3. UniqueInv /\ \A r \in Ops : Stacked(r)
  BY <1>1 DEF UniqueInv, Stacked
<1> QED
  BY <1>2, <1>3 DEF IntensiveInv, IntensiveInit, ForwardsInv

LEMMA RunInv ==
  ASSUME IntensiveInv, NEW op \in Ops, Run(op)
  PROVE  IntensiveInv'
<1> DEFINE frame == Frame(op, "body")
<1>1. frame \in Frames /\ frame.op = op /\ frame.at = "body"
  BY DEF Frame, Frames
<1>2. stacks[op] = <<>>
  <2>1. stacks[op] \in Seq(Frames) /\ Stacked(op) /\ op \notin started
    BY DEF IntensiveInv, IntensiveType, Run
  <2>2. CASE stacks[op] # <<>>
    <3>1. 1 \in 1 .. Len(stacks[op]) /\ stacks[op][1].op = op
      BY <2>1, <2>2 DEF Stacked
    <3> QED
      BY <2>1, <3>1 DEF Stacked, Sits
  <2> QED
    BY <2>2
<1>3. stacks' = [stacks EXCEPT ![op] = Append(@, frame)]
  <2>1. Append(stacks[op], frame) = <<frame>>
    BY <1>1, <1>2
  <2> QED
    BY <2>1 DEF Run
<1>4. op \notin started /\ started' = started \cup {op} /\ UNCHANGED <<ended, onStart, yielding>>
      /\ forwards' = forwards \cup {l \in onStart : l[2] = op} /\ current' = op
  BY DEF Run
<1>5. stacks' \in [Ops -> Seq(Frames)] /\ (\A r \in Ops : Stacked(r)') /\ UniqueInv'
  <2> HIDE DEF frame
  <2> QED
    BY <1>1, <1>2, <1>3, <1>4, PushedInv
<1>6. IntensiveType'
  BY <1>4, <1>5 DEF IntensiveInv, IntensiveType
<1>7. ForwardsInv'
  BY <1>4 DEF IntensiveInv, IntensiveType, ForwardsInv
<1> QED
  BY <1>5, <1>6, <1>7 DEF IntensiveInv

\* Only the root which executes changes.
LEMMA SwitchInv ==
  ASSUME IntensiveInv, UNCHANGED <<started, ended, onStart, forwards, stacks>>,
         current' \in Ops \cup {Nobody}, yielding' \in BOOLEAN
  PROVE  IntensiveInv'
  BY DEF IntensiveInv, IntensiveType, Stacked, Sits, UniqueInv, ForwardsInv

LEMMA MoreThanOne ==
  ASSUME NEW n, n \in Nat, n >= 1, n # 1
  PROVE  n > 1 /\ n - 1 \in 1 .. n /\ n - 1 < n /\ (n - 1) - 1 \in Nat
  OBVIOUS

\* The innermost frame, as the iterator is asked for its next value.
LEMMA InnermostFrame ==
  ASSUME IntensiveInv, NEW at, Innermost(at)
  PROVE  /\ current \in Ops /\ stacks[current] \in Seq(Frames)
         /\ Len(stacks[current]) \in Nat /\ Len(stacks[current]) >= 1
         /\ Top(stacks[current]) = stacks[current][Len(stacks[current])]
         /\ Top(stacks[current]) \in Frames /\ Top(stacks[current]).at = at
         /\ Top(stacks[current]).op \in started
         /\ at # "leaving" => Top(stacks[current]).op \notin ended
         /\ Len(stacks[current]) = 1 => at = "body"
         /\ Len(stacks[current]) > 1 =>
              LET below == stacks[current][Len(stacks[current]) - 1].op
              IN /\ at = "body" => <<below, Top(stacks[current]).op>> \in forwards
                 /\ at = "entering" => <<below, Top(stacks[current]).op>> \in onStart
         /\ \A r \in Ops : \A i \in 1 .. Len(stacks[r]) :
              r # current \/ i < Len(stacks[current]) =>
                stacks[r][i].op # Top(stacks[current]).op
<1> DEFINE stack == stacks[current]
           n == Len(stack)
<1>1. current \in Ops /\ stack \in Seq(Frames) /\ stack # <<>> /\ Stacked(current)
      /\ Top(stack) = stack[n] /\ Top(stack).at = at
  BY DEF IntensiveInv, IntensiveType, Innermost, Top
<1>2. n \in Nat /\ n >= 1 /\ stack[n] \in Frames /\ Sits(stack, n)
  BY <1>1 DEF Stacked
<1>3. n = 1 => at = "body"
  BY <1>1 DEF Stacked
<1>4. \A r \in Ops : \A i \in 1 .. Len(stacks[r]) :
        r # current \/ i < n => stacks[r][i].op # stack[n].op
  BY <1>1, <1>2 DEF IntensiveInv, UniqueInv
<1>5. n > 1 =>
        /\ at = "body" => <<stack[n - 1].op, stack[n].op>> \in forwards
        /\ at = "entering" => <<stack[n - 1].op, stack[n].op>> \in onStart
  BY <1>1, <1>2 DEF Sits
<1>6. stack[n].op \in started /\ (at # "leaving" => stack[n].op \notin ended)
  BY <1>1, <1>2 DEF Sits
<1> QED
  BY <1>1, <1>2, <1>3, <1>4, <1>5, <1>6

\* The innermost frame moves on: it is as if the stack was cut there.
LEMMA GoesCuts ==
  ASSUME IntensiveInv, NEW at, Innermost(at), NEW frame, Goes(frame)
  PROVE  stacks' = [stacks EXCEPT ![current] =
           Append(SubSeq(stacks[current], 1, Len(stacks[current]) - 1), frame)]
  BY DEF Goes, Seqs!Front

LEMMA StartsInv ==
  ASSUME IntensiveInv, Starts
  PROVE  IntensiveInv'
<1> DEFINE top == Top(stacks[current])
           frame == [top EXCEPT !.at = "body"]
           n == Len(stacks[current])
<1>1. Innermost("entering")
  BY DEF Starts
<1>2. /\ forwards' = forwards \cup {l \in onStart : l[2] = top.op}
      /\ onStart' = {l \in onStart : l[2] # top.op}
      /\ Goes(frame) /\ UNCHANGED <<started, ended, failed, current, yielding>>
  BY DEF Starts
<1>3. top \in Frames /\ top.op \in started /\ top.op \notin ended /\ current \in Ops
      /\ n \in Nat /\ n >= 1 /\ top.op = stacks[current][n].op
  BY <1>1, InnermostFrame
<1>4. frame \in Frames /\ frame.op = top.op /\ frame.at = "body"
  BY <1>3 DEF Frames
<1>5. n # 1 /\ <<stacks[current][n - 1].op, top.op>> \in onStart
  <2>1. n # 1
    BY <1>1, InnermostFrame
  <2>2. n > 1
    BY <1>3, <2>1, MoreThanOne
  <2> QED
    BY <1>1, <2>1, <2>2, InnermostFrame
<1>6. \A r \in Ops : \A i \in 1 .. Len(stacks[r]) :
        r # current \/ i < n => Keeps(stacks[r][i].op)
  <2>1. \A op : op # top.op => Keeps(op)
    BY <1>2 DEF Keeps
  <2> QED
    BY <1>1, <2>1, InnermostFrame
<1>7. <<stacks[current][n - 1].op, frame.op>> \in forwards'
  <2> DEFINE l == <<stacks[current][n - 1].op, top.op>>
  <2>1. l \in onStart /\ l[2] = top.op
    BY <1>5
  <2> QED
    BY <1>2, <1>4, <2>1
<1>8. stacks' = [stacks EXCEPT ![current] = Append(SubSeq(stacks[current], 1, n - 1), frame)]
  BY <1>1, <1>2, GoesCuts
<1>9. stacks' \in [Ops -> Seq(Frames)] /\ (\A r \in Ops : Stacked(r)') /\ UniqueInv'
  <2>1. n \in 1 .. Len(stacks[current])
    BY <1>3
  <2> HIDE DEF frame, top, n
  <2> QED
    BY <1>2, <1>3, <1>4, <1>5, <1>6, <1>7, <1>8, <2>1, CutInv, ZenonT(60)
<1>10. IntensiveType'
  BY <1>2, <1>9 DEF IntensiveInv, IntensiveType
<1>11. ForwardsInv'
  BY <1>2, <1>3 DEF IntensiveInv, ForwardsInv
<1> QED
  BY <1>9, <1>10, <1>11 DEF IntensiveInv

LEMMA WorksInv ==
  ASSUME IntensiveInv, Works
  PROVE  IntensiveInv'
<1> DEFINE top == Top(stacks[current])
           frame == [top EXCEPT !.next = @ + 1]
           n == Len(stacks[current])
<1>1. Innermost("body")
  BY DEF Works
<1>2. /\ Goes(frame) /\ UNCHANGED <<started, ended, failed, onStart, forwards, current>>
      /\ yielding' = TRUE
  BY DEF Works
<1>3. top \in Frames /\ top.at = "body" /\ top.op \notin ended /\ current \in Ops
      /\ n \in Nat /\ n >= 1 /\ top.op = stacks[current][n].op
      /\ (n > 1 => <<stacks[current][n - 1].op, top.op>> \in forwards)
  BY <1>1, InnermostFrame
<1>4. frame \in Frames /\ frame.op = top.op /\ frame.at = "body"
  BY <1>3 DEF Frames
<1>5. \A op : Keeps(op)
  BY <1>2 DEF Keeps
<1>6. stacks' = [stacks EXCEPT ![current] = Append(SubSeq(stacks[current], 1, n - 1), frame)]
  BY <1>1, <1>2, GoesCuts
<1>7. stacks' \in [Ops -> Seq(Frames)] /\ (\A r \in Ops : Stacked(r)') /\ UniqueInv'
  <2>1. n \in 1 .. Len(stacks[current])
    BY <1>3
  <2> HIDE DEF frame, top, n
  <2> QED
    BY <1>2, <1>3, <1>4, <1>5, <1>6, <2>1, CutInv
<1>8. IntensiveType' /\ ForwardsInv'
  BY <1>2, <1>7 DEF IntensiveInv, IntensiveType, ForwardsInv
<1> QED
  BY <1>7, <1>8 DEF IntensiveInv

LEMMA FirstFrames ==
  ASSUME NEW stack \in Seq(Frames), NEW n \in 1 .. Len(stack)
  PROVE  /\ SubSeq(stack, 1, n) \in Seq(Frames) /\ Len(SubSeq(stack, 1, n)) = n
         /\ \A i \in 1 .. n : SubSeq(stack, 1, n)[i] = stack[i]
         /\ SubSeq(stack, 1, n) # <<>>
         /\ SubSeq(SubSeq(stack, 1, n), 1, n - 1) = SubSeq(stack, 1, n - 1)
  OBVIOUS

LEMMA LeavesInv ==
  ASSUME IntensiveInv, Leaves
  PROVE  IntensiveInv'
<1> DEFINE stack == stacks[current]
           n == Len(stack)
           below == stack[n - 1]
           frame == [below EXCEPT !.next = @ + 1]
<1>1. Innermost("leaving") /\ UNCHANGED <<started, ended, failed, onStart, forwards, current, yielding>>
      /\ stacks' = [stacks EXCEPT ![current] = Below(@)]
  BY DEF Leaves
<1>2. current \in Ops /\ stack \in Seq(Frames) /\ n \in Nat /\ n >= 1 /\ Stacked(current)
  BY <1>1, InnermostFrame DEF IntensiveInv
<1>3. n # 1
  BY <1>1, InnermostFrame
<1>3a. n - 1 \in 1 .. n /\ n - 1 < n
  BY <1>2, <1>3, MoreThanOne
<1>3b. below \in Frames
  BY <1>2, <1>3a
<1>3c. Sits(stack, n - 1)
  BY <1>2, <1>3a DEF Stacked
<1>4. below.at = "body" /\ below.op \notin ended
      /\ (n - 1 > 1 => <<stack[(n - 1) - 1].op, below.op>> \in forwards)
  BY <1>3a, <1>3c DEF Sits
<1>5. frame \in Frames /\ frame.op = below.op /\ frame.at = "body"
  BY <1>3b, <1>4 DEF Frames
<1>6. Below(stack) = Append(SubSeq(stack, 1, (n - 1) - 1), frame)
  <2> DEFINE rest == SubSeq(stack, 1, n - 1)
  <2>1. rest \in Seq(Frames) /\ Len(rest) = n - 1 /\ rest # <<>> /\ rest[n - 1] = below
    <3>1. n - 1 \in 1 .. n - 1
      BY <1>3a
    <3> QED
      BY <1>2, <1>3a, <3>1, FirstFrames
  <2>2. SubSeq(rest, 1, (n - 1) - 1) = SubSeq(stack, 1, (n - 1) - 1)
    BY <1>2, <1>3a, FirstFrames
  <2>3. Below(stack) = Append(SubSeq(rest, 1, Len(rest) - 1), [rest[Len(rest)] EXCEPT !.next = @ + 1])
    BY <2>1 DEF Below, Top, Seqs!Front
  <2> QED
    BY <2>1, <2>2, <2>3
<1>7. \A op : Keeps(op)
  BY <1>1 DEF Keeps
<1>8. stacks' \in [Ops -> Seq(Frames)] /\ (\A r \in Ops : Stacked(r)') /\ UniqueInv'
  <2> HIDE DEF frame, below
  <2>1. stacks' = [stacks EXCEPT ![current] = Append(SubSeq(stack, 1, (n - 1) - 1), frame)]
    BY <1>1, <1>6
  <2>2. frame.op = stack[n - 1].op
    BY <1>5 DEF below
  <2> QED
    BY <1>1, <1>2, <1>3a, <1>4, <1>5, <1>7, <2>1, <2>2, CutInv DEF below
<1>9. IntensiveType' /\ ForwardsInv'
  BY <1>1, <1>8 DEF IntensiveInv, IntensiveType, ForwardsInv
<1> QED
  BY <1>8, <1>9 DEF IntensiveInv

\* An error unwinds the stack down to a generator which catches it.
LEMMA ThrowInv ==
  ASSUME IntensiveInv, Innermost("body"), NEW n \in Nat, n <= Len(stacks[current]), ThrowAt(n),
         UNCHANGED <<started, yielding>>, onStart \subseteq onStart', onStart' \subseteq Ops \X Ops
  PROVE  IntensiveInv'
<1> DEFINE stack == stacks[current]
           catcher == {i \in 1 .. n : stack[i].op \in Catching}
           at == IF catcher = {} THEN 0 ELSE CHOOSE i \in catcher : \A j \in catcher : j <= i
           through == {stack[i].op : i \in at + 1 .. Len(stack)}
<1>1. /\ ended' = ended \cup through /\ forwards' = {l \in forwards : l[2] \notin through}
      /\ stacks' = [stacks EXCEPT ![current] =
           IF at = 0 THEN <<>>
           ELSE Append(SubSeq(stack, 1, at - 1), [stack[at] EXCEPT !.next = @ + 1])]
      /\ current' = IF at = 0 THEN Nobody ELSE current
  BY DEF ThrowAt, StopForwarding
<1>2. at = 0 \/ at \in 1 .. n
  <2>1. CASE catcher = {}
    BY <2>1
  <2>2. CASE catcher # {}
    <3>1. \E i \in catcher : \A j \in catcher : j <= i
      <4>1. catcher \subseteq 1 .. n
        OBVIOUS
      <4> HIDE DEF catcher
      <4> QED
        BY <2>2, <4>1, LargestOf
    <3>2. at \in catcher
      <4> HIDE DEF catcher
      <4> QED
        BY <2>2, <3>1
    <3> QED
      BY <3>2
  <2> QED
    BY <2>1, <2>2
<1>3. current \in Ops /\ stack \in Seq(Frames) /\ Len(stack) \in Nat /\ Len(stack) >= 1
      /\ stack[Len(stack)].at = "body" /\ Stacked(current)
  BY InnermostFrame DEF IntensiveInv
<1> HIDE DEF at
<1>4. at \in Nat /\ at <= Len(stack) /\ (at # 0 => at \in 1 .. Len(stack))
  BY <1>2, <1>3
<1>5. through \subseteq started
  <2>1. \A i \in at + 1 .. Len(stack) : i \in 1 .. Len(stack)
    BY <1>3, <1>4
  <2> QED
    BY <1>3, <2>1 DEF Stacked, Sits
<1>6. \A r \in Ops : \A i \in 1 .. Len(stacks[r]) :
        r # current \/ i <= at => stacks[r][i].op \notin through
  <2>1. ASSUME NEW r \in Ops, NEW i \in 1 .. Len(stacks[r]), r # current \/ i <= at,
               NEW j \in at + 1 .. Len(stack), stacks[r][i].op = stack[j].op
        PROVE  FALSE
    <3>1. j \in 1 .. Len(stack) /\ j > at /\ j \in Int
      BY <1>3, <1>4
    <3>2. r = current /\ i = j
      BY <1>3, <2>1, <3>1 DEF IntensiveInv, UniqueInv
    <3> QED
      BY <1>4, <2>1, <3>1, <3>2
  <2> QED
    BY <2>1
<1>7. \A op : op \notin through => Keeps(op)
  BY <1>1 DEF Keeps
<1>8. stacks' \in [Ops -> Seq(Frames)] /\ (\A r \in Ops : Stacked(r)') /\ UniqueInv'
  <2> HIDE DEF through
  <2>1. CASE at = 0
    <3>1. stacks' = [stacks EXCEPT ![current] = <<>>]
      BY <1>1, <2>1
    <3>2. \A r \in Ops : \A i \in 1 .. Len(stacks[r]) : r # current => Keeps(stacks[r][i].op)
      BY <1>6, <1>7
    <3> QED
      BY <1>3, <3>1, <3>2, EmptiedInv
  <2>2. CASE at # 0
    <3> DEFINE caught == stack[at]
               frame == [caught EXCEPT !.next = @ + 1]
    <3>1. at \in 1 .. Len(stack) /\ caught \in Frames /\ Sits(stack, at)
      BY <1>3, <1>4, <2>2 DEF Stacked
    <3>2. caught.at = "body"
      <4>1. CASE at = Len(stack)
        BY <1>3, <4>1
      <4>2. CASE at # Len(stack)
        <5>1. at < Len(stack)
          BY <1>3, <1>4, <4>2
        <5> QED
          BY <3>1, <5>1 DEF Sits
      <4> QED
        BY <4>1, <4>2
    <3>3. caught.op \notin ended /\ (at > 1 => <<stack[at - 1].op, caught.op>> \in forwards)
      BY <3>1, <3>2 DEF Sits
    <3>4. caught.op \notin through
      BY <1>3, <1>4, <1>6, <3>1
    <3>5. frame \in Frames /\ frame.op = caught.op /\ frame.at = "body"
      BY <3>1, <3>2 DEF Frames
    <3>6. frame.op \notin ended'
      BY <1>1, <3>3, <3>4, <3>5
    <3>7. at > 1 => <<stack[at - 1].op, frame.op>> \in forwards'
      <4> DEFINE l == <<stack[at - 1].op, caught.op>>
      <4>1. l[2] \notin through
        BY <3>4
      <4> QED
        BY <1>1, <3>3, <3>5, <4>1
    <3>8. stacks' = [stacks EXCEPT ![current] = Append(SubSeq(stack, 1, at - 1), frame)]
      BY <1>1, <2>2
    <3>9. \A r \in Ops : \A i \in 1 .. Len(stacks[r]) :
            r # current \/ i < at => Keeps(stacks[r][i].op)
      <4>1. \A r \in Ops : \A i \in 1 .. Len(stacks[r]) : i < at => i <= at
        BY <1>4
      <4> QED
        BY <1>6, <1>7, <4>1
    <3> HIDE DEF frame
    <3>10. frame.op = stack[at].op
      BY <3>5
    <3> HIDE DEF caught
    <3> QED
      BY <1>3, <3>1, <3>5, <3>6, <3>7, <3>8, <3>9, <3>10, CutInv
  <2> QED
    BY <2>1, <2>2
<1>9. IntensiveType'
  <2>1. ended' \subseteq started' /\ forwards' \subseteq Ops \X Ops
    BY <1>1, <1>5 DEF IntensiveInv, IntensiveType
  <2>2. current' \in Ops \cup {Nobody}
    BY <1>1, <1>3
  <2> QED
    BY <1>8, <2>1, <2>2 DEF IntensiveInv, IntensiveType
<1>10. ForwardsInv'
  BY <1>1 DEF IntensiveInv, ForwardsInv
<1> QED
  BY <1>8, <1>9, <1>10 DEF IntensiveInv

LEMMA FailsInv ==
  ASSUME IntensiveInv, Fails
  PROVE  IntensiveInv'
<1>1. Innermost("body") /\ ThrowAt(Len(stacks[current]) - 1)
      /\ UNCHANGED <<started, onStart, yielding>>
  BY DEF Fails
<1>2. Len(stacks[current]) \in Nat /\ Len(stacks[current]) >= 1
  BY <1>1, InnermostFrame
<1>3. Len(stacks[current]) - 1 \in Nat /\ Len(stacks[current]) - 1 <= Len(stacks[current])
  BY <1>2
<1> QED
  BY <1>1, <1>3, ThrowInv DEF IntensiveInv, IntensiveType

LEMMA EmbedsInv ==
  ASSUME IntensiveInv, Embeds
  PROVE  IntensiveInv'
<1> DEFINE stack == stacks[current]
           top == Top(stack)
           inner == Programs[top.op][top.next]
           frame == Frame(inner, "entering")
<1>1. Innermost("body")
  BY DEF Embeds
<1>2. /\ top.next <= Len(Programs[top.op]) /\ inner # Work
      /\ onStart' = onStart \cup {<<top.op, inner>>}
      /\ IF inner \in started
         THEN ThrowAt(Len(stack)) /\ UNCHANGED <<started, yielding>>
         ELSE /\ started' = started \cup {inner} /\ yielding' = TRUE
              /\ stacks' = [stacks EXCEPT ![current] = Append(@, frame)]
              /\ UNCHANGED <<ended, failed, forwards, current>>
  BY DEF Embeds
<1>3. current \in Ops /\ Len(stack) \in Nat /\ Len(stack) >= 1 /\ top = stack[Len(stack)]
      /\ top \in Frames /\ top.at = "body"
  BY <1>1, InnermostFrame
<1>4a. top.op \in Ops
  BY <1>3 DEF Frames
<1>4. inner \in Ops
  <2>1. top.op \in Ops /\ top.next \in Nat \ {0}
    BY <1>3 DEF Frames
  <2>2. Programs[top.op] \in Seq(Ops \cup {Work})
    BY <2>1, IntensiveAssumption
  <2> QED
    BY <1>2, <2>1, <2>2
<1>5. CASE inner \in started
  <2> HIDE DEF inner, top, stack
  <2>0. onStart' = onStart \cup {<<top.op, inner>>} /\ onStart \subseteq Ops \X Ops
    BY <1>2 DEF IntensiveInv, IntensiveType
  <2>1. onStart \subseteq onStart' /\ onStart' \subseteq Ops \X Ops
    BY <1>4, <1>4a, <2>0
  <2>2. Len(stack) <= Len(stack) /\ ThrowAt(Len(stack)) /\ UNCHANGED <<started, yielding>>
    <3>1. ThrowAt(Len(stack)) /\ UNCHANGED <<started, yielding>>
      BY <1>2, <1>5
    <3>2. Len(stack) <= Len(stack)
      BY <1>3
    <3> QED
      BY <3>1, <3>2
  <2> QED
    BY <1>1, <1>3, <2>1, <2>2, ThrowInv DEF stack
<1>6. CASE inner \notin started
  <2>1. frame \in Frames /\ frame.op = inner /\ frame.at = "entering"
    BY <1>4 DEF Frame, Frames
  <2>2. stack # <<>>
    BY <1>3
  <2>3. stacks' \in [Ops -> Seq(Frames)] /\ (\A r \in Ops : Stacked(r)') /\ UniqueInv'
    <3>1. <<top.op, frame.op>> \in onStart'
      BY <1>2, <2>1
    <3>2. stack[Len(stack)].at = "body" /\ <<stack[Len(stack)].op, frame.op>> \in onStart'
      BY <1>3, <3>1
    <3>3. frame.op \notin started /\ started' = started \cup {frame.op}
          /\ UNCHANGED <<ended, forwards>> /\ onStart \subseteq onStart'
          /\ stacks' = [stacks EXCEPT ![current] = Append(@, frame)]
      BY <1>2, <1>6, <2>1
    <3> HIDE DEF frame, top
    <3> QED
      BY <1>3, <2>1, <2>2, <3>2, <3>3, PushedInv
  <2>4. IntensiveType'
    <3>1. started' \subseteq Ops /\ ended' \subseteq started' /\ onStart' \subseteq Ops \X Ops
          /\ forwards' \subseteq Ops \X Ops
      BY <1>2, <1>4, <1>4a, <1>6 DEF IntensiveInv, IntensiveType
    <3> QED
      BY <1>2, <1>3, <1>6, <2>3, <3>1 DEF IntensiveType
  <2>5. ForwardsInv'
    BY <1>2, <1>6 DEF IntensiveInv, ForwardsInv
  <2> QED
    BY <2>3, <2>4, <2>5 DEF IntensiveInv
<1> QED
  BY <1>5, <1>6

LEMMA ProgramEndsInv ==
  ASSUME IntensiveInv, ProgramEnds
  PROVE  IntensiveInv'
<1> DEFINE stack == stacks[current]
           n == Len(stack)
           top == Top(stack)
           frame == [top EXCEPT !.at = "leaving"]
<1>1. Innermost("body")
  BY DEF ProgramEnds
<1>2. /\ ended' = ended \cup {top.op}
      /\ forwards' = {l \in forwards : l[2] \notin {top.op}}
      /\ IF n = 1
         THEN /\ stacks' = [stacks EXCEPT ![current] = <<>>]
              /\ current' = Nobody /\ UNCHANGED yielding
         ELSE Goes(frame) /\ yielding' = TRUE /\ UNCHANGED current
      /\ UNCHANGED <<started, onStart>>
  BY DEF ProgramEnds, StopForwarding
<1>3. current \in Ops /\ n \in Nat /\ n >= 1 /\ top \in Frames /\ top.op = stack[n].op
      /\ top.op \in started
  BY <1>1, InnermostFrame
<1>4. \A r \in Ops : \A i \in 1 .. Len(stacks[r]) :
        r # current \/ i < n => Keeps(stacks[r][i].op)
  <2>1. \A op : op # top.op => Keeps(op)
    BY <1>2 DEF Keeps
  <2> QED
    BY <1>1, <2>1, InnermostFrame
<1>5. stacks' \in [Ops -> Seq(Frames)] /\ (\A r \in Ops : Stacked(r)') /\ UniqueInv'
  <2>1. CASE n = 1
    BY <1>2, <1>3, <1>4, <2>1, EmptiedInv
  <2>2. CASE n # 1
    <3>1. stacks' = [stacks EXCEPT ![current] = Append(SubSeq(stack, 1, n - 1), frame)]
      BY <1>1, <1>2, <2>2, GoesCuts
    <3>2. frame \in Frames /\ frame.op = top.op /\ frame.at = "leaving"
      BY <1>3 DEF Frames
    <3>3. n \in 1 .. Len(stacks[current])
      BY <1>3
    <3> HIDE DEF frame, top, n
    <3> QED
      BY <1>2, <1>3, <1>4, <2>2, <3>1, <3>2, <3>3, CutInv
  <2> QED
    BY <2>1, <2>2
<1>6. IntensiveType'
  <2>1. ended' \subseteq started' /\ forwards' \subseteq Ops \X Ops
    BY <1>2, <1>3 DEF IntensiveInv, IntensiveType
  <2>2. current' \in Ops \cup {Nobody} /\ yielding' \in BOOLEAN
    BY <1>2, <1>3 DEF IntensiveInv, IntensiveType
  <2> QED
    BY <1>2, <1>5, <2>1, <2>2 DEF IntensiveInv, IntensiveType
<1>7. ForwardsInv'
  BY <1>2 DEF IntensiveInv, ForwardsInv
<1> QED
  BY <1>5, <1>6, <1>7 DEF IntensiveInv

LEMMA NextIntensiveInv ==
  ASSUME IntensiveInv, [IntensiveNext]_intensiveVars
  PROVE  IntensiveInv'
<1>1. CASE \E op \in Ops : Run(op)
  BY <1>1, RunInv
<1>2. CASE \E op \in Ops : Resume(op)
  BY <1>2, SwitchInv DEF Resume, IntensiveInv, IntensiveType
<1>3. CASE GoOn
  BY <1>3, SwitchInv DEF GoOn, IntensiveInv, IntensiveType
<1>4. CASE Starts
  BY <1>4, StartsInv
<1>5. CASE Works
  BY <1>5, WorksInv
<1>6. CASE Embeds
  BY <1>6, EmbedsInv
<1>7. CASE Fails
  BY <1>7, FailsInv
<1>8. CASE ProgramEnds
  BY <1>8, ProgramEndsInv
<1>9. CASE Leaves
  BY <1>9, LeavesInv
<1>10. CASE UNCHANGED intensiveVars
  BY <1>10, SwitchInv DEF intensiveVars, IntensiveInv, IntensiveType
<1> QED
  BY <1>1, <1>2, <1>3, <1>4, <1>5, <1>6, <1>7, <1>8, <1>9, <1>10 DEF IntensiveNext

\* Whatever runs, embeds and fails, breaths are heard by what runs, and by
\* nothing else (listeners added by embed, intensive.ts).
THEOREM BreathsReachWhatRuns == IntensiveSpec => []BreathsAreHeard
<1>1. IntensiveInv /\ [IntensiveNext]_intensiveVars => IntensiveInv'
  BY NextIntensiveInv
<1> QED
  BY <1>1, InitIntensiveInv, InvImpliesBreathsAreHeard, PTL DEF IntensiveSpec

-----------------------------------------------------------------------------
(* Collections *)

\* Entries of S, a key having one at most.
EntriesOf(S) == {entries \in Seq(S) : \A i, j \in DOMAIN entries :
                                        entries[i].key = entries[j].key => i = j}

\* Where the entry of a key is.
LEMMA IndexIsOfKey ==
  ASSUME NEW entries, NEW key, HasKey(entries, key)
  PROVE  /\ IndexOf(entries, key) \in DOMAIN entries
         /\ entries[IndexOf(entries, key)].key = key
  BY DEF HasKey, IndexOf

LEMMA IndexIsUnique ==
  ASSUME NEW S, NEW entries \in EntriesOf(S), NEW i \in DOMAIN entries
  PROVE  HasKey(entries, entries[i].key) /\ IndexOf(entries, entries[i].key) = i
<1>1. HasKey(entries, entries[i].key)
  BY DEF HasKey
<1> DEFINE j == IndexOf(entries, entries[i].key)
<1>2. j \in DOMAIN entries /\ entries[j].key = entries[i].key
  BY <1>1, IndexIsOfKey
<1> HIDE DEF j
<1>3. j = i
  BY <1>2 DEF EntriesOf
<1> QED
  BY <1>1, <1>3 DEF j

\* What is cut is gone, all else keeps its order.
LEMMA CutOf ==
  ASSUME NEW S, NEW s \in Seq(S), NEW i \in 1 .. Len(s)
  PROVE  /\ EntrySeqs!RemoveAt(s, i) \in Seq(S)
         /\ Len(EntrySeqs!RemoveAt(s, i)) = Len(s) - 1
         /\ \A k \in 1 .. Len(s) - 1 :
              EntrySeqs!RemoveAt(s, i)[k] = IF k < i THEN s[k] ELSE s[k + 1]
<1> DEFINE before == SubSeq(s, 1, i - 1)
           after == SubSeq(s, i + 1, Len(s))
<1>1. Len(s) \in Nat /\ i \in Nat
  OBVIOUS
<1>2. /\ before \in Seq(S) /\ Len(before) = i - 1
      /\ \A k \in 1 .. i - 1 : before[k] = s[k]
  OBVIOUS
<1>3. /\ after \in Seq(S) /\ Len(after) = Len(s) - i
      /\ \A k \in 1 .. Len(s) - i : after[k] = s[i + k]
  OBVIOUS
<1>4. EntrySeqs!RemoveAt(s, i) = before \o after
  BY DEF EntrySeqs!RemoveAt
<1> HIDE DEF before, after
<1>5. /\ before \o after \in Seq(S) /\ Len(before \o after) = Len(s) - 1
      /\ \A k \in 1 .. Len(s) - 1 :
           (before \o after)[k] = IF k <= i - 1 THEN before[k] ELSE after[k - (i - 1)]
  <2>1. before \o after \in Seq(S) /\ Len(before \o after) = Len(before) + Len(after)
    BY <1>2, <1>3, ConcatProperties
  <2>2. \A k \in 1 .. Len(before) + Len(after) :
          (before \o after)[k] = IF k <= Len(before) THEN before[k] ELSE after[k - Len(before)]
    BY <1>2, <1>3, ConcatProperties
  <2>3. Len(before) + Len(after) = Len(s) - 1
    BY <1>1, <1>2, <1>3
  <2> QED
    BY <1>2, <2>1, <2>2, <2>3
<1>6. ASSUME NEW k \in 1 .. Len(s) - 1
      PROVE  (before \o after)[k] = IF k < i THEN s[k] ELSE s[k + 1]
  <2>1. CASE k < i
    <3>1. k \in 1 .. i - 1
      BY <1>1, <2>1
    <3> QED
      BY <1>1, <1>2, <1>5, <2>1, <3>1
  <2>2. CASE ~ (k < i)
    <3>1. k - (i - 1) \in 1 .. Len(s) - i /\ i + (k - (i - 1)) = k + 1 /\ ~ (k <= i - 1)
      BY <1>1, <2>2
    <3> QED
      BY <1>3, <1>5, <2>2, <3>1
  <2> QED
    BY <2>1, <2>2
<1> QED
  BY <1>4, <1>5, <1>6

\* Deleting a key.
LEMMA DeletedKey ==
  ASSUME NEW S, NEW entries \in EntriesOf(S), NEW key
  PROVE  LET rest == DeleteKey(entries, key)
             at == IndexOf(entries, key)
         IN /\ rest \in EntriesOf(S)
            /\ ~HasKey(rest, key)
            /\ \A k : k # key => (HasKey(rest, k) <=> HasKey(entries, k))
            /\ ~HasKey(entries, key) => rest = entries
            /\ HasKey(entries, key) =>
                 /\ at \in 1 .. Len(entries) /\ Len(rest) = Len(entries) - 1
                 /\ \A i \in 1 .. Len(rest) : rest[i] = IF i < at THEN entries[i] ELSE entries[i + 1]
<1> DEFINE rest == DeleteKey(entries, key)
           at == IndexOf(entries, key)
           N == Len(entries)
<1>0. entries \in Seq(S) /\ N \in Nat /\ DOMAIN entries = 1 .. N
      /\ \A i, j \in 1 .. N : entries[i].key = entries[j].key => i = j
  BY DEF EntriesOf
<1>1. CASE ~HasKey(entries, key)
  BY <1>1 DEF DeleteKey
<1>2. CASE HasKey(entries, key)
  <2>1. at \in 1 .. N /\ entries[at].key = key
    BY <1>0, <1>2, IndexIsOfKey
  <2>2. rest = EntrySeqs!RemoveAt(entries, at)
    BY <1>2 DEF DeleteKey
  <2> HIDE DEF rest, at, N
  <2>3. /\ rest \in Seq(S) /\ Len(rest) = N - 1 /\ DOMAIN rest = 1 .. N - 1
        /\ \A i \in 1 .. N - 1 : rest[i] = IF i < at THEN entries[i] ELSE entries[i + 1]
    <3>1. /\ rest \in Seq(S) /\ Len(rest) = N - 1
          /\ \A i \in 1 .. N - 1 : rest[i] = IF i < at THEN entries[i] ELSE entries[i + 1]
      BY <1>0, <2>1, <2>2, CutOf DEF N
    <3> QED
      BY <3>1
  <2> DEFINE was(i) == IF i < at THEN i ELSE i + 1
  <2>4. \A i \in 1 .. N - 1 : was(i) \in 1 .. N /\ was(i) # at /\ rest[i] = entries[was(i)]
    BY <1>0, <2>1, <2>3
  <2>5. \A i, j \in 1 .. N - 1 : was(i) = was(j) => i = j
    BY <1>0, <2>1
  <2>6. \A j \in 1 .. N : j # at => \E i \in 1 .. N - 1 : j = was(i)
    <3> SUFFICES ASSUME NEW j \in 1 .. N, j # at
                 PROVE  \E i \in 1 .. N - 1 : j = was(i)
      OBVIOUS
    <3>1. CASE j < at
      <4>1. j \in 1 .. N - 1 /\ j = was(j)
        BY <1>0, <2>1, <3>1
      <4> QED
        BY <4>1
    <3>2. CASE j > at
      <4>1. j - 1 \in 1 .. N - 1 /\ j = was(j - 1)
        BY <1>0, <2>1, <3>2
      <4> QED
        BY <4>1
    <3> QED
      BY <1>0, <2>1, <3>1, <3>2
  <2> HIDE DEF was
  <2>7. rest \in EntriesOf(S)
    <3>1. ASSUME NEW i \in 1 .. N - 1, NEW j \in 1 .. N - 1, rest[i].key = rest[j].key
          PROVE  i = j
      BY <1>0, <2>4, <2>5, <3>1
    <3> QED
      BY <2>3, <3>1 DEF EntriesOf
  <2>8. ~HasKey(rest, key)
    BY <1>0, <2>1, <2>3, <2>4 DEF HasKey
  <2>9. ASSUME NEW k, k # key
        PROVE  HasKey(rest, k) <=> HasKey(entries, k)
    <3>1. HasKey(rest, k) => HasKey(entries, k)
      BY <1>0, <2>3, <2>4 DEF HasKey
    <3>2. ASSUME HasKey(entries, k)
          PROVE  HasKey(rest, k)
      <4>1. PICK j \in 1 .. N : entries[j].key = k
        BY <1>0, <3>2 DEF HasKey
      <4>2. j # at
        BY <2>1, <2>9, <4>1
      <4>3. PICK i \in 1 .. N - 1 : j = was(i)
        BY <2>6, <4>2
      <4>4. i \in DOMAIN rest /\ rest[i].key = k
        BY <2>3, <2>4, <4>1, <4>3
      <4> QED
        BY <4>4 DEF HasKey
    <3> QED
      BY <3>1, <3>2
  <2> QED
    BY <1>2, <2>1, <2>3, <2>7, <2>8, <2>9 DEF rest, at, N
<1> QED
  BY <1>1, <1>2

\* Putting an entry: in place of that of its key, or last.
LEMMA PutEntry ==
  ASSUME NEW S, NEW entries \in EntriesOf(S), NEW e \in S
  PROVE  LET then == Put(entries, e)
             at == IndexOf(entries, e.key)
         IN /\ then \in EntriesOf(S)
            /\ HasKey(then, e.key)
            /\ \A k : k # e.key => (HasKey(then, k) <=> HasKey(entries, k))
            /\ HasKey(entries, e.key) =>
                 /\ at \in 1 .. Len(entries) /\ Len(then) = Len(entries)
                 /\ then[at] = e /\ entries[at].key = e.key
                 /\ \A i \in 1 .. Len(entries) : i # at => then[i] = entries[i]
                 /\ \A i \in 1 .. Len(entries) : then[i].key = entries[i].key
            /\ ~HasKey(entries, e.key) =>
                 /\ Len(then) = Len(entries) + 1 /\ then[Len(entries) + 1] = e
                 /\ \A i \in 1 .. Len(entries) : then[i] = entries[i]
<1> DEFINE then == Put(entries, e)
           at == IndexOf(entries, e.key)
           N == Len(entries)
<1>0. entries \in Seq(S) /\ N \in Nat /\ DOMAIN entries = 1 .. N
      /\ \A i, j \in 1 .. N : entries[i].key = entries[j].key => i = j
  BY DEF EntriesOf
<1>1. CASE HasKey(entries, e.key)
  <2>1. at \in 1 .. N /\ entries[at].key = e.key
    BY <1>0, <1>1, IndexIsOfKey
  <2>2. then = [entries EXCEPT ![at] = e]
    BY <1>1 DEF Put
  <2> HIDE DEF then, at, N
  <2>3. /\ then \in Seq(S) /\ Len(then) = N /\ DOMAIN then = 1 .. N
        /\ then[at] = e /\ \A i \in 1 .. N : i # at => then[i] = entries[i]
    BY <1>0, <2>1, <2>2 DEF N
  <2>4. \A i \in 1 .. N : then[i].key = entries[i].key
    BY <2>1, <2>3
  <2>5. then \in EntriesOf(S)
    BY <1>0, <2>3, <2>4 DEF EntriesOf
  <2>6. \A k : HasKey(then, k) <=> HasKey(entries, k)
    BY <1>0, <2>3, <2>4 DEF HasKey
  <2> QED
    BY <1>1, <2>1, <2>3, <2>4, <2>5, <2>6 DEF then, at, N
<1>2. CASE ~HasKey(entries, e.key)
  <2>1. then = Append(entries, e)
    BY <1>2 DEF Put
  <2> HIDE DEF then, at
  <2>2. /\ then \in Seq(S) /\ Len(then) = N + 1 /\ DOMAIN then = 1 .. N + 1
        /\ then[N + 1] = e /\ \A i \in 1 .. N : then[i] = entries[i]
    BY <1>0, <2>1
  <2>3. \A i \in 1 .. N : entries[i].key # e.key
    BY <1>0, <1>2 DEF HasKey
  <2>4. \A i \in 1 .. N + 1 : i = N + 1 \/ i \in 1 .. N
    BY <1>0
  <2>5. N + 1 \in 1 .. N + 1 /\ \A i \in 1 .. N : i \in 1 .. N + 1
    BY <1>0
  <2>6. then \in EntriesOf(S)
    <3>1. ASSUME NEW i \in 1 .. N + 1, NEW j \in 1 .. N + 1, then[i].key = then[j].key
          PROVE  i = j
      BY <1>0, <2>2, <2>3, <2>4, <3>1
    <3> QED
      BY <2>2, <3>1 DEF EntriesOf
  <2>7. HasKey(then, e.key)
    BY <2>2, <2>5 DEF HasKey
  <2>8. \A k : k # e.key => (HasKey(then, k) <=> HasKey(entries, k))
    BY <1>0, <2>2, <2>4, <2>5 DEF HasKey
  <2> QED
    BY <1>2, <2>2, <2>6, <2>7, <2>8 DEF then, N
<1> QED
  BY <1>1, <1>2

\* The sum over entries of what each weighs.
Weights(entries, wt) == [i \in DOMAIN entries |-> wt[entries[i]]]
SumOf(entries, wt) == SumTo(Weights(entries, wt), Len(entries))

LEMMA SumIsTyped ==
  ASSUME NEW S, NEW wt \in [S -> Int], NEW entries \in Seq(S)
  PROVE  /\ DOMAIN Weights(entries, wt) = 1 .. Len(entries)
         /\ \A i \in 1 .. Len(entries) : Weights(entries, wt)[i] = wt[entries[i]]
                                         /\ wt[entries[i]] \in Int
         /\ \A i \in DOMAIN Weights(entries, wt) : Weights(entries, wt)[i] \in Int
         /\ SumOf(entries, wt) \in Int
<1> DEFINE f == Weights(entries, wt)
<1>1. /\ DOMAIN f = 1 .. Len(entries)
      /\ \A i \in 1 .. Len(entries) : f[i] = wt[entries[i]] /\ wt[entries[i]] \in Int
  <2>1. \A i \in 1 .. Len(entries) : entries[i] \in S
    OBVIOUS
  <2> QED
    BY <2>1 DEF Weights
<1>2. \A i \in DOMAIN f : f[i] \in Int
  <2> HIDE DEF f
  <2> QED
    BY <1>1
<1>3. SumOf(entries, wt) \in Int
  <2>1. SumOf(entries, wt) = SumTo(f, Len(entries))
    BY DEF SumOf
  <2> DEFINE N == Len(entries)
  <2>2. N \in Nat
    OBVIOUS
  <2> HIDE DEF f, N
  <2>3. SumTo(f, N) \in Int
    BY <1>2, <2>2, SumSteps
  <2> QED
    BY <2>1, <2>3 DEF N
<1> QED
  BY <1>1, <1>2, <1>3

LEMMA SumOfPut ==
  ASSUME NEW S, NEW wt \in [S -> Int], NEW entries \in EntriesOf(S), NEW e \in S
  PROVE  SumOf(Put(entries, e), wt) = SumOf(entries, wt) + wt[e]
           - (IF HasKey(entries, e.key) THEN wt[EntryOf(entries, e.key)] ELSE 0)
<1> DEFINE then == Put(entries, e)
           at == IndexOf(entries, e.key)
           N == Len(entries)
           f == Weights(entries, wt)
           g == Weights(then, wt)
<1>0. entries \in Seq(S) /\ N \in Nat
  BY DEF EntriesOf
<1>1. then \in Seq(S)
  BY PutEntry DEF EntriesOf
<1>2. /\ DOMAIN f = 1 .. N /\ DOMAIN g = 1 .. Len(then)
      /\ \A i \in 1 .. N : f[i] = wt[entries[i]] /\ wt[entries[i]] \in Int
      /\ \A i \in 1 .. Len(then) : g[i] = wt[then[i]] /\ wt[then[i]] \in Int
      /\ \A i \in DOMAIN f : f[i] \in Int
      /\ \A i \in DOMAIN g : g[i] \in Int
  <2> HIDE DEF then
  <2> QED
    BY <1>0, <1>1, SumIsTyped
<1>3. SumOf(entries, wt) = SumTo(f, N) /\ SumOf(then, wt) = SumTo(g, Len(then))
      /\ EntryOf(entries, e.key) = entries[at]
  BY DEF SumOf, EntryOf
<1>4. CASE HasKey(entries, e.key)
  <2>1. /\ at \in 1 .. N /\ Len(then) = N /\ then[at] = e
        /\ \A i \in 1 .. N : i # at => then[i] = entries[i]
    BY <1>4, PutEntry
  <2> HIDE DEF then, at, N, f, g
  <2>2. DOMAIN g = 1 .. N /\ g[at] = wt[e] /\ f[at] = wt[entries[at]]
        /\ \A i \in 1 .. N : i # at => g[i] = f[i]
    BY <1>2, <2>1
  <2>3. \A i \in 1 .. N : f[i] \in Int /\ g[i] \in Int
    BY <1>2, <2>2
  <2>4. SumTo(g, N) = SumTo(f, N) + g[at] - f[at]
    <3>1. N \in Nat /\ at \in 1 .. N /\ DOMAIN f = 1 .. N /\ DOMAIN g = 1 .. N
      BY <1>0, <1>2, <2>1, <2>2 DEF N
    <3>2. \A k \in 1 .. N : k # at => g[k] = f[k]
      BY <2>2
    <3> QED
      BY <2>3, <3>1, <3>2, SumOfChanged
  <2> QED
    BY <1>3, <1>4, <2>1, <2>2, <2>4 DEF then, at, N, f, g
<1>5. CASE ~HasKey(entries, e.key)
  <2>1. /\ Len(then) = N + 1 /\ then[N + 1] = e
        /\ \A i \in 1 .. N : then[i] = entries[i]
    BY <1>5, PutEntry
  <2> HIDE DEF then, at, N, f, g
  <2>2. /\ N \in Nat /\ N + 1 \in Nat \ {0} /\ N + 1 \in 1 .. N + 1 /\ (N + 1) - 1 = N
        /\ \A i \in 1 .. N : i \in 1 .. N + 1
    BY <1>0 DEF N
  <2>3. \A i \in 1 .. N : i \in DOMAIN f /\ i \in DOMAIN g /\ f[i] = g[i]
    BY <1>2, <2>1, <2>2
  <2>4. SumTo(f, N) = SumTo(g, N)
    BY <1>2, <2>2, <2>3, SameSums, SMTT(40)
  <2>5. SumTo(g, N + 1) = SumTo(g, N) + g[N + 1] /\ SumTo(g, N) \in Int
    BY <1>2, <2>1, <2>2, SumSteps
  <2>6. g[N + 1] = wt[e] /\ g[N + 1] \in Int
    BY <1>2, <2>1, <2>2
  <2> QED
    BY <1>3, <1>5, <2>1, <2>4, <2>5, <2>6 DEF then
<1> QED
  BY <1>4, <1>5

LEMMA SumOfDelete ==
  ASSUME NEW S, NEW wt \in [S -> Int], NEW entries \in EntriesOf(S), NEW key
  PROVE  SumOf(DeleteKey(entries, key), wt) = SumOf(entries, wt)
           - (IF HasKey(entries, key) THEN wt[EntryOf(entries, key)] ELSE 0)
<1> DEFINE rest == DeleteKey(entries, key)
           at == IndexOf(entries, key)
           N == Len(entries)
           f == Weights(entries, wt)
           g == Weights(rest, wt)
<1>0. entries \in Seq(S) /\ N \in Nat
  BY DEF EntriesOf
<1>1. rest \in Seq(S)
  BY DeletedKey DEF EntriesOf
<1>2. /\ DOMAIN f = 1 .. N /\ DOMAIN g = 1 .. Len(rest)
      /\ \A i \in 1 .. N : f[i] = wt[entries[i]] /\ wt[entries[i]] \in Int
      /\ \A i \in 1 .. Len(rest) : g[i] = wt[rest[i]] /\ wt[rest[i]] \in Int
      /\ SumOf(entries, wt) \in Int
  <2> HIDE DEF rest
  <2> QED
    BY <1>0, <1>1, SumIsTyped
<1>3. SumOf(entries, wt) = SumTo(f, N) /\ SumOf(rest, wt) = SumTo(g, Len(rest))
      /\ EntryOf(entries, key) = entries[at]
  BY DEF SumOf, EntryOf
<1>4. CASE HasKey(entries, key)
  <2>1. /\ at \in 1 .. N /\ Len(rest) = N - 1
        /\ \A i \in 1 .. N - 1 : rest[i] = IF i < at THEN entries[i] ELSE entries[i + 1]
    BY <1>4, DeletedKey
  <2> HIDE DEF rest, at, N, f, g
  <2>2. N \in Nat /\ DOMAIN g = 1 .. N - 1 /\ f[at] = wt[entries[at]]
    BY <1>0, <1>2, <2>1 DEF N
  <2>3. \A i \in 1 .. N - 1 : i \in 1 .. N /\ i + 1 \in 1 .. N
    BY <2>2
  <2>4. ASSUME NEW i \in 1 .. N - 1
        PROVE  g[i] = IF i < at THEN f[i] ELSE f[i + 1]
    <3>1. g[i] = wt[rest[i]] /\ i \in 1 .. N /\ i + 1 \in 1 .. N
      BY <1>2, <2>1, <2>3
    <3>2. f[i] = wt[entries[i]] /\ f[i + 1] = wt[entries[i + 1]]
      BY <1>2, <3>1
    <3>3. rest[i] = IF i < at THEN entries[i] ELSE entries[i + 1]
      BY <2>1
    <3> QED
      BY <3>1, <3>2, <3>3
  <2>5. \A i \in 1 .. N : f[i] \in Int
    BY <1>2
  <2>6. SumTo(g, N - 1) = SumTo(f, N) - f[at]
    <3>1. N \in Nat /\ at \in 1 .. N /\ DOMAIN f = 1 .. N /\ DOMAIN g = 1 .. N - 1
      BY <1>2, <2>1, <2>2
    <3> QED
      BY <2>4, <2>5, <3>1, SumOfCut
  <2> QED
    BY <1>3, <1>4, <2>1, <2>2, <2>6 DEF rest, at, N, f, g
<1>5. CASE ~HasKey(entries, key)
  BY <1>2, <1>5, DeletedKey
<1> QED
  BY <1>4, <1>5

-----------------------------------------------------------------------------
(* Multimaps *)

MapEntry == [key : MapKeys, vals : Seq(Values)]
Lengths == [e \in MapEntry |-> Len(e.vals)]

MapInv ==
  /\ data \in EntriesOf(MapEntry) /\ size \in Int /\ broken \in BOOLEAN
  /\ ~broken => size = SumOf(data, Lengths)

\* Values are added one by one.
AddedFrom(W, col, vals) ==
  [n \in 0 .. Len(vals) |-> IF n = 0 THEN col ELSE AddValue(W[n - 1], vals[n])]
Adding(col, vals) == CHOOSE W : W = AddedFrom(W, col, vals)

LEMMA AddIsLast ==
  ASSUME NEW col, NEW vals
  PROVE  AddValues(col, vals) = Adding(col, vals)[Len(vals)]
  BY DEF AddValues, Adding, AddedFrom

LEMMA AddedValues ==
  ASSUME NEW col \in Seq(Values), NEW vals \in Seq(Values)
  PROVE  AddValues(col, vals) \in Seq(Values)
<1> DEFINE N == Len(vals)
           Cols == Seq(Values)
           step == [n \in 1 .. N |-> [c \in Cols |-> AddValue(c, vals[n])]]
           W == Adding(col, vals)
<1>0. N \in Nat /\ (\A n \in 1 .. N : vals[n] \in Values) /\ col \in Cols
  OBVIOUS
<1>1. \A c \in Cols, v \in Values : AddValue(c, v) \in Cols
  BY DEF AddValue
<1>2. step \in [1 .. N -> [Cols -> Cols]]
  <2> HIDE DEF N, Cols
  <2> QED
    BY <1>0, <1>1
<1>3. PICK V \in [0 .. N -> Cols] : FollowsTo(V, N, col, step)
  <2> HIDE DEF step, N, Cols
  <2> QED
    BY <1>0, <1>2, IteratesTo
<1>4. ASSUME NEW n \in 1 .. N
      PROVE  V[n] = AddValue(V[n - 1], vals[n])
  <2>1. n - 1 \in 0 .. N /\ V[n - 1] \in Cols
    <3>1. n - 1 \in 0 .. N
      BY <1>0
    <3> HIDE DEF Cols, N, step
    <3> QED
      BY <1>3, <3>1
  <2>2. V[n] = step[n][V[n - 1]]
    <3> HIDE DEF Cols, N, step
    <3> QED
      BY <1>3 DEF FollowsTo
  <2> HIDE DEF Cols, N
  <2> QED
    BY <2>1, <2>2
<1>5. V = AddedFrom(V, col, vals)
  <2>1. V[0] = col
    BY <1>3 DEF FollowsTo
  <2>2. \A n \in 0 .. N : n # 0 => n \in 1 .. N
    BY <1>0
  <2> HIDE DEF Cols, step
  <2> QED
    BY <1>3, <1>4, <2>1, <2>2 DEF AddedFrom
<1>6. W = AddedFrom(W, col, vals)
  BY <1>5 DEF Adding
<1> HIDE DEF W, step
<1>7. W[0] = col /\ \A n \in 1 .. N : W[n] = AddValue(W[n - 1], vals[n])
  BY <1>0, <1>6 DEF AddedFrom
<1> DEFINE Bad == {n \in 0 .. N : W[n] \notin Cols}
<1>8. SUFFICES ASSUME Bad # {}
               PROVE  FALSE
  BY <1>0, AddIsLast DEF W
<1>9. PICK n \in Bad : \A m \in Bad : n <= m
  <2>1. Bad \subseteq Nat
    BY <1>0
  <2> HIDE DEF Bad
  <2> QED
    BY <1>8, <2>1, SmallestOf
<1>10. n \in 1 .. N /\ n - 1 \in 0 .. N /\ n - 1 \notin Bad
  BY <1>0, <1>7, <1>9
<1> HIDE DEF Cols
<1> QED
  BY <1>0, <1>1, <1>7, <1>9, <1>10

\* What a key has.
LEMMA GetIsTyped ==
  ASSUME data \in EntriesOf(MapEntry), NEW key
  PROVE  /\ Get(key) \in Seq(Values)
         /\ HasKey(data, key) => EntryOf(data, key) \in MapEntry
                                 /\ Get(key) = EntryOf(data, key).vals
         /\ ~HasKey(data, key) => Get(key) = <<>>
<1>1. CASE HasKey(data, key)
  <2>1. EntryOf(data, key) \in MapEntry
    <3>1. data \in Seq(MapEntry)
      BY DEF EntriesOf
    <3>2. IndexOf(data, key) \in DOMAIN data
      BY <1>1, IndexIsOfKey
    <3> QED
      BY <3>1, <3>2 DEF EntryOf
  <2> QED
    BY <1>1, <2>1 DEF Get, MapEntry
<1>2. CASE ~HasKey(data, key)
  BY <1>2 DEF Get
<1> QED
  BY <1>1, <1>2

LEMMA LengthsAreTyped ==
  /\ Lengths \in [MapEntry -> Int]
  /\ \A e \in MapEntry : Lengths[e] = Len(e.vals) /\ Len(e.vals) \in Nat
<1>1. \A e \in MapEntry : Len(e.vals) \in Nat
  BY DEF MapEntry
<1> QED
  BY <1>1 DEF Lengths

LEMMA AddAllInv ==
  ASSUME MapInv, NEW key \in MapKeys, NEW vals \in Iterables, NEW throws \in BOOLEAN,
         AddAll(key, vals, throws)
  PROVE  MapInv'
<1> DEFINE col == Get(key)
           all == AddValues(col, vals)
           e == [key |-> key, vals |-> all]
<1>1. vals \in Seq(Values)
  BY CollectionsAssumption
<1>2. col \in Seq(Values) /\ all \in Seq(Values)
  <2>1. col \in Seq(Values)
    BY GetIsTyped DEF MapInv
  <2> HIDE DEF col
  <2> QED
    BY <1>1, <2>1, AddedValues
<1>3. e \in MapEntry
  BY <1>2 DEF MapEntry
<1>4. data' = Put(data, e) /\ size' = (IF throws THEN size ELSE size + (Len(all) - Len(col)))
      /\ broken' = (broken \/ throws)
  BY DEF AddAll, Added
<1>5. Put(data, e) \in EntriesOf(MapEntry)
  <2> HIDE DEF e
  <2> QED
    BY <1>3, PutEntry DEF MapInv
<1>6. SumOf(data', Lengths) = SumOf(data, Lengths) + Len(all) - Len(col)
  <2>1. SumOf(Put(data, e), Lengths) = SumOf(data, Lengths) + Lengths[e]
          - (IF HasKey(data, e.key) THEN Lengths[EntryOf(data, e.key)] ELSE 0)
    <3> HIDE DEF e
    <3> QED
      BY <1>3, LengthsAreTyped, SumOfPut DEF MapInv
  <2>2. Lengths[e] = Len(all) /\ e.key = key
    BY <1>3, LengthsAreTyped
  <2>3. (IF HasKey(data, key) THEN Lengths[EntryOf(data, key)] ELSE 0) = Len(col)
    <3>1. CASE HasKey(data, key)
      BY <3>1, GetIsTyped, LengthsAreTyped DEF MapInv
    <3>2. CASE ~HasKey(data, key)
      BY <3>2, GetIsTyped DEF MapInv
    <3> QED
      BY <3>1, <3>2
  <2> HIDE DEF e, col, all
  <2> QED
    BY <1>4, <2>1, <2>2, <2>3
<1>7. Len(all) \in Nat /\ Len(col) \in Nat /\ SumOf(data, Lengths) \in Int
  <2>1. data \in Seq(MapEntry)
    BY DEF MapInv, EntriesOf
  <2>2. SumOf(data, Lengths) \in Int
    BY <2>1, LengthsAreTyped, SumIsTyped
  <2> HIDE DEF all, col
  <2>3. Len(all) \in Nat /\ Len(col) \in Nat
    BY <1>2
  <2> QED
    BY <2>2, <2>3
<1> HIDE DEF all, col, e
<1> QED
  BY <1>4, <1>5, <1>6, <1>7 DEF MapInv

LEMMA DeleteOfInv ==
  ASSUME MapInv, NEW key \in MapKeys, DeleteOf(key)
  PROVE  MapInv'
<1>1. data' = DeleteKey(data, key) /\ size' = size - Len(Get(key)) /\ broken' = broken
  BY DEF DeleteOf
<1>2. data \in EntriesOf(MapEntry) /\ data \in Seq(MapEntry)
  BY DEF MapInv, EntriesOf
<1>3. DeleteKey(data, key) \in EntriesOf(MapEntry)
  BY <1>2, DeletedKey
<1>4. SumOf(data', Lengths) = SumOf(data, Lengths)
        - (IF HasKey(data, key) THEN Lengths[EntryOf(data, key)] ELSE 0)
  BY <1>1, <1>2, LengthsAreTyped, SumOfDelete
<1>5. (IF HasKey(data, key) THEN Lengths[EntryOf(data, key)] ELSE 0) = Len(Get(key))
  <2>1. CASE HasKey(data, key)
    BY <1>2, <2>1, GetIsTyped, LengthsAreTyped
  <2>2. CASE ~HasKey(data, key)
    BY <1>2, <2>2, GetIsTyped
  <2> QED
    BY <2>1, <2>2
<1>6. Len(Get(key)) \in Nat /\ SumOf(data, Lengths) \in Int
  BY <1>2, GetIsTyped, LengthsAreTyped, SumIsTyped
<1> QED
  BY <1>1, <1>3, <1>4, <1>5, <1>6 DEF MapInv

LEMMA NoEntries ==
  ASSUME NEW S
  PROVE  <<>> \in EntriesOf(S)
<1>1. <<>> \in Seq(S) /\ \A i \in DOMAIN <<>> : FALSE
  OBVIOUS
<1> QED
  BY <1>1 DEF EntriesOf

LEMMA NothingSums ==
  ASSUME NEW wt
  PROVE  SumOf(<<>>, wt) = 0
<1>1. Len(<<>>) = 0 /\ \A i \in DOMAIN Weights(<<>>, wt) : Weights(<<>>, wt)[i] \in Int
  BY DEF Weights
<1> QED
  BY <1>1, SumSteps DEF SumOf

-----------------------------------------------------------------------------
(* Multisets *)

SetEntry == [key : MapKeys, count : Nat \ {0}]
CountWeights == [e \in SetEntry |-> e.count]

Multisets ==
  {ms \in [counts : EntriesOf(SetEntry), total : Int] : ms.total = SumOf(ms.counts, CountWeights)}

\* The entries of now which were already entries are in the order they had, and
\* the others come after them.
InOrder(now, old) ==
  \A i, j \in DOMAIN now, b \in DOMAIN old :
    i < j /\ old[b].key = now[j].key => \E a \in DOMAIN old : a < b /\ old[a].key = now[i].key

\* The same keys in the same places.
SameKeys(now, old) == Len(now) = Len(old) /\ \A i \in 1 .. Len(old) : now[i].key = old[i].key

\* Entries are ordered as their counts last became positive.
PositivesInv ==
  /\ \A k \in MapKeys : HasKey(counts, k) <=> positive[k] > 0
  /\ \A i, j \in DOMAIN counts : i < j => positive[counts[i].key] <= positive[counts[j].key]

MultisetInv ==
  /\ Multiset \in Multisets
  /\ steps \in Nat /\ positive \in [MapKeys -> Nat]
  /\ \A k \in MapKeys : positive[k] <= steps
  /\ PositivesInv

LEMMA WeightsAreTyped ==
  /\ CountWeights \in [SetEntry -> Int]
  /\ \A e \in SetEntry : CountWeights[e] = e.count /\ e.count \in Nat /\ e.count > 0
                         /\ e.key \in MapKeys
<1>1. \A e \in SetEntry : e.count \in Nat /\ e.count > 0 /\ e.key \in MapKeys
  BY DEF SetEntry
<1> QED
  BY <1>1 DEF CountWeights

\* A key has a count if it has an entry.
LEMMA CountIsTyped ==
  ASSUME NEW entries \in EntriesOf(SetEntry), NEW key
  PROVE  /\ CountOf(entries, key) \in Nat
         /\ HasKey(entries, key) <=> CountOf(entries, key) > 0
         /\ HasKey(entries, key) => /\ EntryOf(entries, key) \in SetEntry
                                    /\ CountOf(entries, key) = EntryOf(entries, key).count
<1>1. CASE HasKey(entries, key)
  <2>1. entries \in Seq(SetEntry) /\ IndexOf(entries, key) \in DOMAIN entries
    BY <1>1, IndexIsOfKey DEF EntriesOf
  <2>2. EntryOf(entries, key) \in SetEntry
    BY <2>1 DEF EntryOf
  <2> QED
    BY <1>1, <2>2, WeightsAreTyped DEF CountOf
<1>2. CASE ~HasKey(entries, key)
  BY <1>2 DEF CountOf
<1> QED
  BY <1>1, <1>2

\* What keeps its keys in their places is in order.
LEMMA SameKeysInOrder ==
  ASSUME NEW S, NEW old \in Seq(S), NEW T, NEW now \in EntriesOf(T), SameKeys(now, old)
  PROVE  InOrder(now, old)
<1>1. now \in Seq(T) /\ DOMAIN now = 1 .. Len(old) /\ DOMAIN old = 1 .. Len(old)
      /\ \A i, j \in 1 .. Len(old) : now[i].key = now[j].key => i = j
  <2>1. now \in Seq(T) /\ Len(now) = Len(old)
        /\ \A i, j \in DOMAIN now : now[i].key = now[j].key => i = j
    BY DEF EntriesOf, SameKeys
  <2>2. DOMAIN now = 1 .. Len(old) /\ DOMAIN old = 1 .. Len(old)
    BY <2>1
  <2> QED
    BY <2>1, <2>2
<1> SUFFICES ASSUME NEW i \in DOMAIN now, NEW j \in DOMAIN now, NEW b \in DOMAIN old,
                    i < j, old[b].key = now[j].key
             PROVE  \E a \in DOMAIN old : a < b /\ old[a].key = now[i].key
  BY Zenon DEF InOrder
<1>2. i \in 1 .. Len(old) /\ j \in 1 .. Len(old) /\ b \in 1 .. Len(old)
  BY <1>1
<1>3. b = j
  <2>1. now[b].key = now[j].key
    BY <1>2 DEF SameKeys
  <2> QED
    BY <1>1, <1>2, <2>1
<1>4. old[i].key = now[i].key
  BY <1>2 DEF SameKeys
<1> QED
  BY <1>1, <1>2, <1>3, <1>4

\* add keeps the multiset a multiset, and its entries in order; a key which has
\* some stays in its place when more are added.
LEMMA AddedCount ==
  ASSUME NEW ms \in Multisets, NEW key \in MapKeys, NEW count \in Int
  PROVE  /\ Add(ms, key, count) \in Multisets
         /\ InOrder(Add(ms, key, count).counts, ms.counts)
         /\ HasKey(ms.counts, key) /\ count > 0 =>
              SameKeys(Add(ms, key, count).counts, ms.counts)
<1> DEFINE old == ms.counts
           prev == CountOf(old, key)
           next == IF prev + count < 0 THEN 0 ELSE prev + count
           e == [key |-> key, count |-> next]
           then == Add(ms, key, count)
<1>1. /\ old \in EntriesOf(SetEntry) /\ old \in Seq(SetEntry)
      /\ ms.total = SumOf(old, CountWeights) /\ ms.total \in Int
  BY DEF Multisets, EntriesOf
<1>2. /\ prev \in Nat /\ (HasKey(old, key) <=> prev > 0)
      /\ HasKey(old, key) => EntryOf(old, key) \in SetEntry /\ prev = EntryOf(old, key).count
  <2> HIDE DEF old
  <2> QED
    BY <1>1, CountIsTyped
<1>3. next \in Nat
  BY <1>2
<1>4. then = [counts |-> IF next > 0 THEN Put(old, e) ELSE DeleteKey(old, key),
              total |-> ms.total + next - prev]
  BY DEF Add
<1>5. prev = IF HasKey(old, key) THEN CountWeights[EntryOf(old, key)] ELSE 0
  <2> HIDE DEF old, prev
  <2> QED
    BY <1>2, WeightsAreTyped
<1>6. HasKey(old, key) /\ count > 0 => next > 0
  BY <1>2
<1>7. ms.total + next - prev \in Int
  BY <1>1, <1>2, <1>3
<1> HIDE DEF old, prev, next, then
<1>8. CASE next > 0
  <2>1. e \in SetEntry /\ e.key = key /\ CountWeights[e] = next
    <3>1. e \in SetEntry
      BY <1>3, <1>8 DEF SetEntry
    <3> QED
      BY <3>1, WeightsAreTyped
  <2>2. then.counts = Put(old, e) /\ then.total = ms.total + next - prev
        /\ then \in [counts : {Put(old, e)}, total : Int]
    BY <1>4, <1>7, <1>8
  <2> HIDE DEF e
  <2>3. SumOf(Put(old, e), CountWeights) = SumOf(old, CountWeights) + next - prev
    BY <1>1, <1>5, <2>1, WeightsAreTyped, SumOfPut
  <2>4. Put(old, e) \in EntriesOf(SetEntry)
    BY <1>1, <2>1, PutEntry
  <2>5. then \in Multisets
    BY <1>1, <2>2, <2>3, <2>4 DEF Multisets
  <2> DEFINE now == Put(old, e)
  <2>6. CASE HasKey(old, key)
    <3>1. SameKeys(now, old)
      BY <1>1, <2>1, <2>6, PutEntry DEF SameKeys
    <3>2. InOrder(now, old)
      <4> HIDE DEF now
      <4>1. now \in EntriesOf(SetEntry)
        BY <2>4 DEF now
      <4> QED
        BY <1>1, <3>1, <4>1, SameKeysInOrder
    <3> QED
      BY <2>2, <2>5, <3>1, <3>2 DEF old, then
  <2>7. CASE ~HasKey(old, key)
    <3>1. /\ Len(now) = Len(old) + 1 /\ now[Len(old) + 1] = e
          /\ \A i \in 1 .. Len(old) : now[i] = old[i]
          /\ now \in Seq(SetEntry)
      BY <1>1, <2>1, <2>4, <2>7, PutEntry DEF EntriesOf
    <3>2. Len(old) \in Nat /\ DOMAIN old = 1 .. Len(old) /\ DOMAIN now = 1 .. Len(old) + 1
      BY <1>1, <3>1
    <3> HIDE DEF now
    <3>3. ASSUME NEW i \in 1 .. Len(old) + 1, NEW j \in 1 .. Len(old) + 1, i < j,
                 NEW b \in 1 .. Len(old), old[b].key = now[j].key
          PROVE  \E a \in 1 .. Len(old) : a < b /\ old[a].key = now[i].key
      <4>1. j # Len(old) + 1
        BY <2>1, <2>7, <3>1, <3>2, <3>3 DEF HasKey
      <4>2. j \in 1 .. Len(old) /\ i \in 1 .. Len(old)
        BY <3>2, <3>3, <4>1
      <4>3. old[b].key = old[j].key /\ now[i] = old[i]
        BY <3>1, <3>3, <4>2
      <4>4. b = j
        BY <1>1, <3>2, <4>2, <4>3 DEF EntriesOf
      <4> QED
        BY <3>3, <4>2, <4>3, <4>4
    <3>4. InOrder(now, old)
      <4> SUFFICES ASSUME NEW i \in DOMAIN now, NEW j \in DOMAIN now, NEW b \in DOMAIN old,
                          i < j, old[b].key = now[j].key
                   PROVE  \E a \in DOMAIN old : a < b /\ old[a].key = now[i].key
        BY Zenon DEF InOrder
      <4>1. i \in 1 .. Len(old) + 1 /\ j \in 1 .. Len(old) + 1 /\ b \in 1 .. Len(old)
        BY <3>2
      <4>2. \E a \in 1 .. Len(old) : a < b /\ old[a].key = now[i].key
        BY <3>3, <4>1
      <4> QED
        BY <3>2, <4>2
    <3> QED
      BY <2>2, <2>5, <2>7, <3>4 DEF old, then, now
  <2> QED
    BY <2>6, <2>7
<1>9. CASE ~ (next > 0)
  <2> DEFINE now == DeleteKey(old, key)
             at == IndexOf(old, key)
  <2>1. next = 0
    BY <1>3, <1>9
  <2>2. then.counts = now /\ then.total = ms.total + next - prev
        /\ then \in [counts : {now}, total : Int]
    BY <1>4, <1>7, <1>9
  <2>3. SumOf(now, CountWeights) = SumOf(old, CountWeights) - prev
    BY <1>1, <1>5, WeightsAreTyped, SumOfDelete
  <2>4. /\ now \in EntriesOf(SetEntry)
        /\ ~HasKey(old, key) => now = old
        /\ HasKey(old, key) =>
             /\ at \in 1 .. Len(old) /\ Len(now) = Len(old) - 1
             /\ \A i \in 1 .. Len(now) : now[i] = IF i < at THEN old[i] ELSE old[i + 1]
    BY <1>1, DeletedKey
  <2> HIDE DEF now, at
  <2>5. then \in Multisets
    BY <1>1, <1>2, <2>1, <2>2, <2>3, <2>4 DEF Multisets
  <2>6. CASE ~HasKey(old, key)
    <3>1. SameKeys(now, old)
      BY <2>4, <2>6 DEF SameKeys
    <3>2. InOrder(now, old)
      BY <1>1, <2>4, <3>1, SameKeysInOrder
    <3> QED
      BY <2>2, <2>5, <2>6, <3>2 DEF old, then
  <2>7. CASE HasKey(old, key)
    <3>1. /\ Len(old) \in Nat /\ DOMAIN old = 1 .. Len(old) /\ DOMAIN now = 1 .. Len(old) - 1
          /\ at \in 1 .. Len(old)
      BY <1>1, <2>4, <2>7 DEF EntriesOf
    <3> DEFINE was(i) == IF i < at THEN i ELSE i + 1
    <3>2. \A i \in 1 .. Len(old) - 1 : was(i) \in 1 .. Len(old) /\ now[i] = old[was(i)]
      BY <2>4, <2>7, <3>1
    <3>3. \A i, j \in 1 .. Len(old) - 1 : i < j => was(i) < was(j)
      BY <3>1
    <3> HIDE DEF was
    <3>4. ASSUME NEW i \in 1 .. Len(old) - 1, NEW j \in 1 .. Len(old) - 1, i < j,
                 NEW b \in 1 .. Len(old), old[b].key = now[j].key
          PROVE  \E a \in 1 .. Len(old) : a < b /\ old[a].key = now[i].key
      <4>1. old[b].key = old[was(j)].key
        BY <3>2, <3>4
      <4>2. b = was(j)
        BY <1>1, <3>1, <3>2, <4>1 DEF EntriesOf
      <4>3. was(i) \in 1 .. Len(old) /\ was(i) < b /\ old[was(i)].key = now[i].key
        BY <3>2, <3>3, <3>4, <4>2
      <4> QED
        BY <4>3
    <3>5. InOrder(now, old)
      <4> SUFFICES ASSUME NEW i \in DOMAIN now, NEW j \in DOMAIN now, NEW b \in DOMAIN old,
                          i < j, old[b].key = now[j].key
                   PROVE  \E a \in DOMAIN old : a < b /\ old[a].key = now[i].key
        BY Zenon DEF InOrder
      <4>1. i \in 1 .. Len(old) - 1 /\ j \in 1 .. Len(old) - 1 /\ b \in 1 .. Len(old)
        BY <3>1
      <4>2. \E a \in 1 .. Len(old) : a < b /\ old[a].key = now[i].key
        BY <3>4, <4>1
      <4> QED
        BY <3>1, <4>2
    <3> QED
      BY <1>6, <1>9, <2>2, <2>5, <3>5 DEF old, then
  <2> QED
    BY <2>6, <2>7
<1> QED
  BY <1>8, <1>9

\* A multiset which becomes another one whose entries are in order.
LEMMA BecomesInv ==
  ASSUME MultisetInv, NEW ms \in Multisets, InOrder(ms.counts, counts), Becomes(ms)
  PROVE  MultisetInv'
<1> DEFINE now == ms.counts
<1>1. /\ now \in EntriesOf(SetEntry) /\ now \in Seq(SetEntry)
      /\ counts' = now /\ total' = ms.total
      /\ ms \in [counts : EntriesOf(SetEntry), total : Int]
  BY DEF Becomes, Multisets, EntriesOf
<1>2. steps \in Nat /\ steps' = steps + 1
  BY DEF Becomes, Step, MultisetInv
<1>3. /\ counts \in EntriesOf(SetEntry) /\ positive \in [MapKeys -> Nat]
      /\ \A k \in MapKeys : positive[k] \in Nat /\ positive[k] <= steps
  BY DEF MultisetInv, Multisets, Multiset
<1>4. Multiset' \in Multisets
  <2>1. Multiset' = ms
    BY <1>1 DEF Multiset
  <2> QED
    BY <2>1
<1>5. \A k \in MapKeys :
        positive'[k] = IF ~HasKey(now, k) THEN 0
                       ELSE IF ~HasKey(counts, k) THEN steps + 1 ELSE positive[k]
  <2> SUFFICES ASSUME NEW k \in MapKeys
               PROVE  positive'[k] = IF ~HasKey(now, k) THEN 0
                                     ELSE IF ~HasKey(counts, k) THEN steps + 1 ELSE positive[k]
    OBVIOUS
  <2>1. positive'[k] = IF CountOf(now, k) = 0 THEN 0
                       ELSE IF positive[k] = 0 THEN steps + 1 ELSE positive[k]
    BY <1>2 DEF Becomes
  <2>2. HasKey(now, k) <=> CountOf(now, k) # 0
    BY <1>1, CountIsTyped
  <2>3. HasKey(counts, k) <=> positive[k] # 0
    BY <1>3 DEF MultisetInv, PositivesInv
  <2> QED
    BY <2>1, <2>2, <2>3
<1>6. \A k \in MapKeys : HasKey(counts, k) => positive[k] > 0
  BY DEF MultisetInv, PositivesInv
<1> HIDE DEF now
<1>7. positive' \in [MapKeys -> Nat]
  <2>1. positive' = [k \in MapKeys |-> positive'[k]]
    BY DEF Becomes
  <2>2. \A k \in MapKeys : positive'[k] \in Nat
    BY <1>2, <1>3, <1>5
  <2> QED
    BY <2>1, <2>2
<1>8. /\ \A k \in MapKeys : positive'[k] <= steps + 1
      /\ \A k \in MapKeys : HasKey(now, k) <=> positive'[k] > 0
  BY <1>2, <1>3, <1>5, <1>6
<1>9. ASSUME NEW i \in DOMAIN now, NEW j \in DOMAIN now, i < j
      PROVE  positive'[now[i].key] <= positive'[now[j].key]
  <2>1. /\ now[i].key \in MapKeys /\ HasKey(now, now[i].key)
        /\ now[j].key \in MapKeys /\ HasKey(now, now[j].key)
    <3>1. now[i] \in SetEntry /\ now[j] \in SetEntry
      BY <1>1
    <3> QED
      BY <3>1, WeightsAreTyped DEF HasKey
  <2>2. CASE HasKey(counts, now[j].key)
    <3>1. PICK b \in DOMAIN counts : counts[b].key = now[j].key
      BY <2>2 DEF HasKey
    <3>2. PICK a \in DOMAIN counts : a < b /\ counts[a].key = now[i].key
      BY <1>9, <3>1 DEF InOrder, now
    <3>3. positive[counts[a].key] <= positive[counts[b].key]
      BY <3>1, <3>2 DEF MultisetInv, PositivesInv
    <3>4. HasKey(counts, now[i].key)
      BY <3>2 DEF HasKey
    <3> QED
      BY <1>5, <2>1, <2>2, <3>1, <3>2, <3>3, <3>4
  <2>3. CASE ~HasKey(counts, now[j].key)
    <3>1. positive'[now[j].key] = steps + 1
      BY <1>5, <2>1, <2>3
    <3> QED
      BY <1>8, <2>1, <3>1
  <2> QED
    BY <2>2, <2>3
<1>10. PositivesInv'
  BY <1>1, <1>8, <1>9 DEF PositivesInv
<1> QED
  BY <1>2, <1>4, <1>7, <1>8, <1>10 DEF MultisetInv

-----------------------------------------------------------------------------
\* Adding a multiset to itself: each of its entries in turn.
DoubledFrom(W, ms) ==
  [n \in 0 .. Len(ms.counts) |->
     IF n = 0 THEN ms ELSE Add(W[n - 1], ms.counts[n].key, ms.counts[n].count)]
Doubling(ms) == CHOOSE W : W = DoubledFrom(W, ms)

LEMMA Doubled ==
  ASSUME NEW ms \in Multisets
  PROVE  /\ Doubling(ms)[Len(ms.counts)] \in Multisets
         /\ InOrder(Doubling(ms)[Len(ms.counts)].counts, ms.counts)
<1> DEFINE N == Len(ms.counts)
           Like == {other \in Multisets : SameKeys(other.counts, ms.counts)}
           keyAt(n) == ms.counts[n].key
           countAt(n) == ms.counts[n].count
           step == [n \in 1 .. N |-> [other \in Like |-> Add(other, keyAt(n), countAt(n))]]
           W == Doubling(ms)
<1>1. /\ ms.counts \in EntriesOf(SetEntry) /\ ms.counts \in Seq(SetEntry) /\ N \in Nat
      /\ DOMAIN ms.counts = 1 .. N
  BY DEF Multisets, EntriesOf
<1>2. \A n \in 1 .. N : keyAt(n) \in MapKeys /\ countAt(n) \in Int /\ countAt(n) > 0
  <2>1. \A n \in 1 .. N : ms.counts[n] \in SetEntry
    BY <1>1
  <2> QED
    BY <2>1, WeightsAreTyped
<1>3. ASSUME NEW n \in 1 .. N, NEW other \in Like
      PROVE  Add(other, keyAt(n), countAt(n)) \in Like
  <2>1. other \in Multisets /\ SameKeys(other.counts, ms.counts)
    BY <1>3
  <2>2. HasKey(other.counts, keyAt(n))
    <3>1. other.counts \in Seq(SetEntry)
      BY <2>1 DEF Multisets, EntriesOf
    <3>2. n \in DOMAIN other.counts /\ other.counts[n].key = keyAt(n)
      BY <2>1, <3>1 DEF SameKeys
    <3> QED
      BY <3>2 DEF HasKey
  <2>3. Add(other, keyAt(n), countAt(n)) \in Multisets
        /\ SameKeys(Add(other, keyAt(n), countAt(n)).counts, other.counts)
    <3> HIDE DEF keyAt, countAt
    <3> QED
      BY <1>2, <2>1, <2>2, AddedCount
  <2> HIDE DEF keyAt, countAt
  <2>4. SameKeys(Add(other, keyAt(n), countAt(n)).counts, ms.counts)
    BY <2>1, <2>3 DEF SameKeys
  <2> QED
    BY <2>3, <2>4
<1>4. ms \in Like
  BY DEF SameKeys
<1> HIDE DEF Like
<1>5. step \in [1 .. N -> [Like -> Like]]
  <2> HIDE DEF N, keyAt, countAt
  <2> QED
    BY <1>3
<1>6. PICK V \in [0 .. N -> Like] : FollowsTo(V, N, ms, step)
  <2> HIDE DEF step, N
  <2> QED
    BY <1>1, <1>4, <1>5, IteratesTo
<1>7. ASSUME NEW n \in 1 .. N
      PROVE  V[n] = Add(V[n - 1], keyAt(n), countAt(n))
  <2>1. n - 1 \in 0 .. N /\ V[n - 1] \in Like
    <3>1. n - 1 \in 0 .. N
      BY <1>1
    <3> HIDE DEF N, step
    <3> QED
      BY <1>6, <3>1
  <2>2. V[n] = step[n][V[n - 1]]
    <3> HIDE DEF N, step
    <3> QED
      BY <1>6 DEF FollowsTo
  <2> HIDE DEF N, keyAt, countAt
  <2> QED
    BY <2>1, <2>2
<1>8. V = DoubledFrom(V, ms)
  <2>1. V[0] = ms
    BY <1>6 DEF FollowsTo
  <2>2. \A n \in 0 .. N : n # 0 => n \in 1 .. N
    BY <1>1
  <2>3. \A n \in 0 .. N :
          V[n] = IF n = 0 THEN ms ELSE Add(V[n - 1], ms.counts[n].key, ms.counts[n].count)
    BY <1>7, <2>1, <2>2
  <2> HIDE DEF step
  <2> QED
    BY <1>6, <2>3 DEF DoubledFrom
<1>9. W = DoubledFrom(W, ms)
  BY <1>8 DEF Doubling
<1> HIDE DEF W, step
<1>10. W[0] = ms /\ \A n \in 1 .. N : W[n] = Add(W[n - 1], keyAt(n), countAt(n))
  <2>1. \A n \in 0 .. N :
          W[n] = IF n = 0 THEN ms ELSE Add(W[n - 1], ms.counts[n].key, ms.counts[n].count)
    BY <1>9, Zenon DEF DoubledFrom
  <2>2. 0 \in 0 .. N /\ \A n \in 1 .. N : n \in 0 .. N /\ n # 0
    BY <1>1
  <2> HIDE DEF N
  <2> QED
    BY <2>1, <2>2
<1> HIDE DEF N, keyAt, countAt
<1> DEFINE Bad == {n \in 0 .. N : W[n] \notin Like}
<1>11. Bad = {}
  <2> SUFFICES ASSUME Bad # {}
               PROVE  FALSE
    OBVIOUS
  <2>1. PICK n \in Bad : \A m \in Bad : n <= m
    <3>1. Bad \subseteq Nat
      BY <1>1
    <3> HIDE DEF Bad
    <3> QED
      BY <3>1, SmallestOf
  <2>2. n \in 1 .. N /\ n - 1 \in 0 .. N /\ n - 1 \notin Bad
    BY <1>1, <1>4, <1>10, <2>1
  <2> QED
    BY <1>3, <1>10, <2>1, <2>2
<1>12. W[N] \in Like
  BY <1>1, <1>11
<1>13. W[N] \in Multisets /\ SameKeys(W[N].counts, ms.counts)
  BY <1>12 DEF Like
<1>14. InOrder(W[N].counts, ms.counts)
  <2>1. W[N].counts \in EntriesOf(SetEntry)
    BY <1>13 DEF Multisets
  <2> QED
    BY <1>1, <1>13, <2>1, SameKeysInOrder
<1> QED
  BY <1>13, <1>14 DEF W, N

\* The first of the highest counts.
LEMMA HighestCount ==
  ASSUME NEW n \in Nat \ {0}, NEW f, \A i \in 1 .. n : f[i] \in Nat
  PROVE  \E i \in 1 .. n : /\ \A j \in 1 .. n : f[j] <= f[i]
                           /\ \A k \in 1 .. n : (\A j \in 1 .. n : f[j] <= f[k]) => i <= k
<1> DEFINE Highest(m, i) == \A j \in 1 .. m : f[j] <= f[i]
           Bad == {m \in 1 .. n : \A i \in 1 .. m : ~Highest(m, i)}
<1>1. Bad = {}
  <2> SUFFICES ASSUME Bad # {}
               PROVE  FALSE
    OBVIOUS
  <2>1. PICK m \in Bad : \A k \in Bad : m <= k
    <3>1. Bad \subseteq Nat
      OBVIOUS
    <3> HIDE DEF Bad
    <3> QED
      BY <3>1, SmallestOf
  <2>2. m # 1
    <3>1. Highest(1, 1)
      OBVIOUS
    <3> QED
      BY <2>1, <3>1
  <2>3. m - 1 \in 1 .. n /\ m \in 1 .. n /\ m - 1 \notin Bad
    <3>1. m \in 1 .. n /\ m - 1 \in 1 .. n /\ ~ (m <= m - 1)
      BY <2>1, <2>2
    <3> HIDE DEF Bad
    <3> QED
      BY <2>1, <3>1
  <2>4. PICK i \in 1 .. m - 1 : Highest(m - 1, i)
    BY <2>3
  <2>5. i \in 1 .. m /\ i \in 1 .. n /\ f[i] \in Nat /\ f[m] \in Nat
        /\ \A j \in 1 .. m : j = m \/ j \in 1 .. m - 1
    BY <2>3, <2>4
  <2>6. CASE f[m] <= f[i]
    <3>1. Highest(m, i)
      BY <2>4, <2>5, <2>6
    <3> QED
      BY <2>1, <2>5, <3>1
  <2>7. CASE ~ (f[m] <= f[i])
    <3>1. \A j \in 1 .. m : f[j] \in Nat
      BY <2>3
    <3>2. Highest(m, m)
      <4> SUFFICES ASSUME NEW j \in 1 .. m
                   PROVE  f[j] <= f[m]
        OBVIOUS
      <4>1. CASE j = m
        BY <2>5, <4>1
      <4>2. CASE j \in 1 .. m - 1
        <5>1. f[j] <= f[i] /\ f[j] \in Nat
          BY <2>4, <3>1, <4>2
        <5> QED
          BY <2>5, <2>7, <5>1
      <4> QED
        BY <2>5, <4>1, <4>2
    <3>3. m \in 1 .. m
      BY <2>3
    <3> QED
      BY <2>1, <3>2, <3>3
  <2> QED
    BY <2>6, <2>7
<1> DEFINE Best == {i \in 1 .. n : Highest(n, i)}
<1>2. Best # {} /\ Best \subseteq Nat
  BY <1>1
<1>3. PICK i \in Best : \A k \in Best : i <= k
  <2> HIDE DEF Best
  <2> QED
    BY <1>2, SmallestOf
<1> QED
  BY <1>3

\* The most common key is the first of those with the highest count.
LEMMA MostCommonIsFirst ==
  ASSUME MultisetInv
  PROVE  OrderedByLastAddition
<1> DEFINE N == Len(counts)
           best == {i \in DOMAIN counts : \A j \in DOMAIN counts :
                      counts[j].count <= counts[i].count}
<1>1. /\ counts \in EntriesOf(SetEntry) /\ counts \in Seq(SetEntry)
      /\ N \in Nat /\ DOMAIN counts = 1 .. N
  BY DEF MultisetInv, Multisets, Multiset, EntriesOf
<1>2. \A i \in 1 .. N : counts[i].count \in Nat /\ counts[i].count > 0
                        /\ counts[i].key \in MapKeys
  <2>1. \A i \in 1 .. N : counts[i] \in SetEntry
    BY <1>1
  <2> QED
    BY <2>1, WeightsAreTyped
<1>3. ASSUME NEW i \in 1 .. N
      PROVE  CountOf(counts, counts[i].key) = counts[i].count /\ HasKey(counts, counts[i].key)
  BY <1>1, IndexIsUnique DEF CountOf, EntryOf
<1>4. ASSUME counts # <<>>, NEW k \in MapKeys
      PROVE  \/ CountOf(counts, k) < CountOf(counts, MostCommon)
             \/ /\ CountOf(counts, k) = CountOf(counts, MostCommon)
                /\ positive[MostCommon] <= positive[k]
  <2> DEFINE f == [i \in 1 .. N |-> counts[i].count]
  <2>1. N \in Nat \ {0} /\ \A i \in 1 .. N : f[i] = counts[i].count /\ f[i] \in Nat
    BY <1>1, <1>2, <1>4
  <2>2. PICK i \in 1 .. N : /\ \A j \in 1 .. N : f[j] <= f[i]
                            /\ \A m \in 1 .. N : (\A j \in 1 .. N : f[j] <= f[m]) => i <= m
    <3> HIDE DEF f, N
    <3> QED
      BY <2>1, HighestCount
  <2>3. i \in best /\ (\A m \in best : i <= m) /\ best \subseteq 1 .. N
    BY <1>1, <2>1, <2>2
  <2>4. MostCommon = counts[i].key
    <3>1. \A m \in best : (\A j \in best : m <= j) => m = i
      <4> HIDE DEF best, N
      <4>1. \A m \in best : m \in Nat /\ i \in Nat
        BY <1>1, <2>3
      <4> QED
        BY <2>3, <4>1
    <3>2. (CHOOSE m \in best : \A j \in best : m <= j) = i
      <4> HIDE DEF best
      <4> QED
        BY <2>3, <3>1
    <3>3. MostCommon = counts[CHOOSE m \in best : \A j \in best : m <= j].key
      BY DEF MostCommon
    <3> HIDE DEF best
    <3> QED
      BY <3>2, <3>3
  <2>5. CountOf(counts, MostCommon) = counts[i].count /\ counts[i].count > 0
        /\ counts[i].count \in Nat
    BY <1>2, <1>3, <2>2, <2>4
  <2>6. CASE HasKey(counts, k)
    <3>1. PICK j \in 1 .. N : counts[j].key = k
      BY <1>1, <2>6 DEF HasKey
    <3>2. CountOf(counts, k) = counts[j].count /\ counts[j].count \in Nat
          /\ counts[j].count <= counts[i].count
      BY <1>2, <1>3, <2>1, <2>2, <3>1
    <3>3. CASE counts[j].count < counts[i].count
      BY <2>5, <3>2, <3>3
    <3>4. CASE counts[j].count = counts[i].count
      <4>1. j \in best /\ i <= j
        BY <1>1, <2>3, <3>4
      <4>2. positive[counts[i].key] <= positive[counts[j].key]
        <5>1. CASE i = j
          BY <1>2, <5>1 DEF MultisetInv
        <5>2. CASE i # j
          <6>1. i < j
            BY <1>1, <4>1, <5>2
          <6> QED
            BY <1>1, <6>1 DEF MultisetInv, PositivesInv
        <5> QED
          BY <5>1, <5>2
      <4> QED
        BY <2>4, <2>5, <3>1, <3>2, <3>4, <4>2
    <3> QED
      BY <3>2, <2>5, <3>3, <3>4
  <2>7. CASE ~HasKey(counts, k)
    <3>1. CountOf(counts, k) = 0
      BY <2>7 DEF CountOf
    <3> QED
      BY <2>5, <3>1
  <2> QED
    BY <2>6, <2>7
<1> QED
  BY <1>4 DEF OrderedByLastAddition, MultisetInv, PositivesInv

-----------------------------------------------------------------------------
CollectionsInv == MapInv /\ MultisetInv

LEMMA CollectionsStep ==
  ASSUME CollectionsInv, [CollectionsNext]_collectionsVars
  PROVE  CollectionsInv'
<1>1. MapInv /\ MultisetInv
  BY DEF CollectionsInv
<1>2. Multiset \in Multisets /\ counts \in EntriesOf(SetEntry)
  BY <1>1 DEF MultisetInv, Multisets, Multiset
<1>3. ASSUME Step, UNCHANGED setVars
      PROVE  MultisetInv'
  <2>1. steps \in Nat /\ steps' = steps + 1
    BY <1>1, <1>3 DEF Step, MultisetInv
  <2>2. \A k \in MapKeys : positive[k] <= steps + 1
    <3>1. \A k \in MapKeys : positive[k] \in Nat /\ positive[k] <= steps
      BY <1>1 DEF MultisetInv
    <3> QED
      BY <2>1, <3>1
  <2> QED
    BY <1>1, <1>3, <2>1, <2>2 DEF MultisetInv, PositivesInv, Multiset, setVars
<1>4. UNCHANGED mapVars => MapInv'
  BY <1>1 DEF MapInv, mapVars
<1>5. ASSUME NEW key \in MapKeys, NEW vals \in Iterables, NEW throws \in BOOLEAN,
             AddAll(key, vals, throws)
      PROVE  CollectionsInv'
  <2>1. Step /\ UNCHANGED setVars
    BY <1>5 DEF AddAll
  <2> QED
    BY <1>1, <1>3, <1>5, <2>1, AddAllInv DEF CollectionsInv
<1>6. ASSUME NEW key \in MapKeys, DeleteOf(key)
      PROVE  CollectionsInv'
  <2>1. Step /\ UNCHANGED setVars
    BY <1>6 DEF DeleteOf
  <2> QED
    BY <1>1, <1>3, <1>6, <2>1, DeleteOfInv DEF CollectionsInv
<1>7. CASE Clear
  <2>1. Step /\ UNCHANGED setVars /\ data' = <<>> /\ size' = 0 /\ broken' = FALSE
    BY <1>7 DEF Clear
  <2>2. <<>> \in EntriesOf(MapEntry) /\ SumOf(<<>>, Lengths) = 0
    <3>1. <<>> \in EntriesOf(MapEntry)
      BY NoEntries, Zenon
    <3>2. SumOf(<<>>, Lengths) = 0
      BY NothingSums, Zenon
    <3> QED
      BY <3>1, <3>2
  <2>3. MapInv'
    <3>1. data' \in EntriesOf(MapEntry) /\ SumOf(data', Lengths) = 0
      BY <2>1, <2>2, Zenon
    <3>2. size' \in Int /\ broken' \in BOOLEAN /\ size' = 0
      <4>1. size' = 0 /\ broken' = FALSE
        BY <2>1, Zenon
      <4>2. size' \in Int
        BY <4>1, SMT
      <4>3. broken' \in BOOLEAN
        BY <4>1, Zenon
      <4> QED
        BY <4>1, <4>2, <4>3
    <3> QED
      BY <3>1, <3>2 DEF MapInv
  <2> QED
    BY <1>3, <2>1, <2>3 DEF CollectionsInv
<1>8. ASSUME NEW key \in MapKeys, NEW count \in Counts, AddCount(key, count)
      PROVE  CollectionsInv'
  <2> DEFINE ms == Add(Multiset, key, count)
  <2>1. count \in Int
    BY CollectionsAssumption
  <2>2. ms \in Multisets /\ InOrder(ms.counts, Multiset.counts)
    BY <1>2, <2>1, AddedCount
  <2>3. Multiset.counts = counts
    BY DEF Multiset
  <2>4. Becomes(ms)
    BY <1>8 DEF AddCount
  <2> HIDE DEF ms
  <2>5. MultisetInv' /\ UNCHANGED mapVars
    <3>1. InOrder(ms.counts, counts)
      BY <2>2, <2>3
    <3>2. UNCHANGED mapVars
      BY <2>4 DEF Becomes
    <3> QED
      BY <1>1, <2>2, <2>4, <3>1, <3>2, BecomesInv
  <2> QED
    BY <1>4, <2>5 DEF CollectionsInv
<1>9. CASE AddItself
  <2> DEFINE ms == Doubling(Multiset)[Len(Multiset.counts)]
  <2>1. ms \in Multisets /\ InOrder(ms.counts, Multiset.counts)
    BY <1>2, Doubled
  <2>2. Multiset.counts = counts
    BY DEF Multiset
  <2>3. Becomes(ms)
    BY <1>9, <2>2 DEF AddItself, Doubling, DoubledFrom
  <2> HIDE DEF ms
  <2>4. MultisetInv' /\ UNCHANGED mapVars
    <3>1. InOrder(ms.counts, counts)
      BY <2>1, <2>2
    <3>2. UNCHANGED mapVars
      BY <2>3 DEF Becomes
    <3> QED
      BY <1>1, <2>1, <2>3, <3>1, <3>2, BecomesInv
  <2> QED
    BY <1>4, <2>4 DEF CollectionsInv
<1>10. CASE ClearCounts
  <2> DEFINE ms == [counts |-> <<>>, total |-> 0]
  <2>1. /\ ms.counts = <<>> /\ ms.total = 0
        /\ <<>> \in EntriesOf(SetEntry) /\ SumOf(<<>>, CountWeights) = 0
    BY NoEntries, NothingSums
  <2>2. ms \in Multisets
    BY <2>1 DEF Multisets
  <2>3. InOrder(ms.counts, counts)
    BY <2>1 DEF InOrder
  <2>4. Becomes(ms)
    BY <1>10 DEF ClearCounts
  <2> HIDE DEF ms
  <2>5. MultisetInv' /\ UNCHANGED mapVars
    <3>1. UNCHANGED mapVars
      BY <2>4 DEF Becomes
    <3> QED
      BY <1>1, <2>2, <2>3, <2>4, <3>1, BecomesInv
  <2> QED
    BY <1>4, <2>5 DEF CollectionsInv
<1>11. CASE UNCHANGED collectionsVars
  <2>1. MapInv'
    BY <1>4, <1>11 DEF collectionsVars
  <2>2. MultisetInv'
    BY <1>1, <1>11 DEF MultisetInv, PositivesInv, Multiset, setVars, collectionsVars
  <2> QED
    BY <2>1, <2>2 DEF CollectionsInv
<1> QED
  BY <1>5, <1>6, <1>7, <1>8, <1>9, <1>10, <1>11 DEF CollectionsNext

\* Sizes are those of what was added and not removed, keys come in the order in
\* which they last got a count, and the most common one is the first of those
\* with the highest, for any keys, values, iterables and counts.
THEOREM CollectionsAreRight == CollectionsSpec => []CollectionsHold
<1>1. ASSUME CollectionsInit
      PROVE  CollectionsInv
  <2>1. /\ data = <<>> /\ size = 0 /\ broken = FALSE
        /\ counts = <<>> /\ total = 0 /\ steps = 0
        /\ positive = [k \in MapKeys |-> 0]
    BY <1>1 DEF CollectionsInit
  <2>2. /\ <<>> \in EntriesOf(SetEntry) /\ <<>> \in EntriesOf(MapEntry)
        /\ SumOf(<<>>, CountWeights) = 0 /\ SumOf(<<>>, Lengths) = 0
    <3>1. <<>> \in EntriesOf(SetEntry) /\ <<>> \in EntriesOf(MapEntry)
      BY NoEntries, Zenon
    <3>2. SumOf(<<>>, CountWeights) = 0 /\ SumOf(<<>>, Lengths) = 0
      BY NothingSums, Zenon
    <3> QED
      BY <3>1, <3>2
  <2>3. MapInv
    <3>1. data \in EntriesOf(MapEntry) /\ SumOf(data, Lengths) = 0
      BY <2>1, <2>2, Zenon
    <3>2. size \in Int /\ broken \in BOOLEAN /\ size = 0
      <4>1. size = 0 /\ broken = FALSE
        BY <2>1, Zenon
      <4>2. size \in Int
        BY <4>1, SMT
      <4>3. broken \in BOOLEAN
        BY <4>1, Zenon
      <4> QED
        BY <4>1, <4>2, <4>3
    <3> QED
      BY <3>1, <3>2 DEF MapInv
  <2>4. Multiset \in Multisets
    BY <2>1, <2>2 DEF Multisets, Multiset
  <2>5. MultisetInv
    BY <2>1, <2>4 DEF MultisetInv, PositivesInv, HasKey
  <2> QED
    BY <2>3, <2>5 DEF CollectionsInv
<1>2. CollectionsInv => CollectionsHold
  <2> SUFFICES ASSUME CollectionsInv
               PROVE  CollectionsHold
    OBVIOUS
  <2>1. /\ data \in Seq(MapEntry) /\ counts \in Seq(SetEntry)
        /\ total = SumOf(counts, CountWeights)
        /\ ~broken => size = SumOf(data, Lengths)
    BY DEF CollectionsInv, MapInv, MultisetInv, Multisets, Multiset, EntriesOf
  <2>2. Weights(data, Lengths) = [i \in DOMAIN data |-> Len(data[i].vals)]
    <3>1. \A i \in DOMAIN data : data[i] \in MapEntry
      BY <2>1
    <3> QED
      BY <3>1, LengthsAreTyped DEF Weights
  <2>3. Weights(counts, CountWeights) = [i \in DOMAIN counts |-> counts[i].count]
    <3>1. \A i \in DOMAIN counts : counts[i] \in SetEntry
      BY <2>1
    <3> QED
      BY <3>1, WeightsAreTyped DEF Weights
  <2>4. SizesCount
    BY <2>1, <2>2, <2>3 DEF SizesCount, SumOf
  <2> QED
    BY <2>4, MostCommonIsFirst DEF CollectionsInv, CollectionsHold
<1>3. CollectionsInv /\ [CollectionsNext]_collectionsVars => CollectionsInv'
  BY CollectionsStep
<1> QED
  BY <1>1, <1>2, <1>3, PTL DEF CollectionsSpec
=============================================================================
