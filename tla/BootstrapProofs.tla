-------------------------- MODULE BootstrapProofs ---------------------------
(***************************************************************************)
(* Proofs about what a process is started with. Runner, for any number of  *)
(* bindables and signals; Settings, for any keys and environments.         *)
(***************************************************************************)
EXTENDS Runner, Settings, Induction, TLAPS

-----------------------------------------------------------------------------
(* The runner *)

\* Before the bindables are known none has moved, and before the runner is
\* configured it handles no signal.
NotFoundInv ==
  /\ phase = "configuring" => ~handlers
  /\ phase \in {"configuring", "initializing"} => found = {}
  /\ \A b \in Bindables \ found : status[b] = "unbound" /\ runs[b] = "none"

\* A server is open when its bindable is bound, and closed before it is and
\* after it was; a run resolves once its bindable is unbound for good.
BindableInv ==
  \A b \in Bindables :
    /\ status[b] \in {"unbound", "binding"} => b \notin listening
    /\ status[b] = "bound" => b \in listening
    /\ runs[b] = "resolved" => status[b] = "unbound"

\* The runner's outcome is known when it leaves its bindables, and why.
OutcomeInv ==
  /\ phase \in {"configuring", "initializing", "running"} => outcome = "unset"
  /\ outcome = "ok" => \A b \in found : runs[b] = "resolved"
  /\ outcome = "runFailed" => \E b \in found : runs[b] = "rejected"

RunnerInv == TypeOK /\ NotFoundInv /\ BindableInv /\ OutcomeInv

LEMMA InitRunnerInv == Init => RunnerInv
  BY DEF Init, RunnerInv, TypeOK, NotFoundInv, BindableInv, OutcomeInv,
         Contract!Init, Contract!Statuses

\* What a step of the runner itself leaves alone, or does when it initializes.
LEMMA RunnerStepIInv ==
  ASSUME RunnerInv, RunnerStep
  PROVE  RunnerInv'
<1> USE DEF RunnerInv, TypeOK, NotFoundInv, BindableInv, OutcomeInv,
            bindableVars, runnerVars, Contract!Statuses
<1>1. CASE Configure
  <2>1. CASE phase' = "initializing" /\ handlers' = TRUE /\ UNCHANGED outcome
    <3>1. TypeOK' /\ NotFoundInv' /\ BindableInv'
      BY <1>1, <2>1 DEF Configure
    <3>2. OutcomeInv'
      BY <1>1, <2>1 DEF Configure
    <3> QED
      BY <3>1, <3>2
  <2>2. CASE phase' = "done" /\ outcome' = "configureFailed" /\ UNCHANGED handlers
    <3>1. TypeOK' /\ NotFoundInv' /\ BindableInv'
      BY <1>1, <2>2 DEF Configure
    <3>2. OutcomeInv'
      BY <1>1, <2>2 DEF Configure
    <3> QED
      BY <3>1, <3>2
  <2> QED
    BY <1>1, <2>1, <2>2 DEF Configure
<1>2. CASE Initialize
  <2>1. \A b \in Bindables : status[b] = "unbound" /\ b \notin listening
    BY <1>2 DEF Initialize
  <2>2. TypeOK'
    BY <1>2 DEF Initialize
  <2>3. NotFoundInv'
    BY <1>2, <2>1 DEF Initialize
  <2>4. BindableInv'
    BY <1>2, <2>1 DEF Initialize
  <2>5. OutcomeInv'
    BY <1>2 DEF Initialize
  <2> QED
    BY <2>2, <2>3, <2>4, <2>5
<1>3. CASE InitializeFails
  BY <1>3 DEF InitializeFails
<1>4. CASE AllUnbound
  BY <1>4 DEF AllUnbound
<1>5. CASE OneErrs
  BY <1>5 DEF OneErrs, StopAll
<1>6. CASE Cleanup
  BY <1>6 DEF Cleanup
<1>7. CASE Sigterm
  BY <1>7 DEF Sigterm, StopAll
<1>8. CASE Sigint
  BY <1>8 DEF Sigint, StopAll
<1> QED
  BY <1>1, <1>2, <1>3, <1>4, <1>5, <1>6, <1>7, <1>8 DEF RunnerStep

\* What settling a run changes: only a run which waits.
LEMMA SettleChanges ==
  ASSUME TypeOK, NEW b \in Bindables, NEW how \in {"resolved", "rejected"},
         Settle(b, how)
  PROVE  /\ runs' \in [Bindables -> {"none", "waiting", "resolved", "rejected"}]
         /\ \A a \in Bindables : a # b => runs'[a] = runs[a]
         /\ runs[b] # "waiting" => runs'[b] = runs[b]
         /\ runs[b] = "waiting" => runs'[b] = how
  BY DEF Settle, TypeOK

\* A bindable moves on its own.
LEMMA BindableStepIInv ==
  ASSUME RunnerInv, NEW b \in Bindables, BindableStep(b)
  PROVE  RunnerInv'
<1> USE DEF RunnerInv, TypeOK, NotFoundInv, BindableInv, OutcomeInv,
            bindableVars, runnerVars, Contract!Statuses
<1>0. b \in found
  BY DEF BindableStep, Bound, BindFails, StopGoesOn, Closes, Unbound, StopFails
<1>1. CASE Bound(b)
  <2>1. CASE Settle(b, "rejected")
    BY <1>0, <1>1, <2>1, SettleChanges DEF Bound
  <2>2. CASE UNCHANGED runs
    BY <1>0, <1>1, <2>2 DEF Bound
  <2> QED
    BY <1>1, <2>1, <2>2 DEF Bound
<1>2. CASE BindFails(b)
  BY <1>0, <1>2, SettleChanges DEF BindFails
<1>3. CASE StopGoesOn(b)
  BY <1>0, <1>3 DEF StopGoesOn
<1>4. CASE Closes(b)
  BY <1>0, <1>4 DEF Closes
<1>5. CASE Unbound(b)
  BY <1>0, <1>5, SettleChanges DEF Unbound
<1>6. CASE StopFails(b)
  BY <1>0, <1>6, SettleChanges DEF StopFails
<1> QED
  BY <1>1, <1>2, <1>3, <1>4, <1>5, <1>6 DEF BindableStep

LEMMA Invariance == Spec => []RunnerInv
<1>1. RunnerInv /\ UNCHANGED vars => RunnerInv'
  BY DEF RunnerInv, TypeOK, NotFoundInv, BindableInv, OutcomeInv, vars,
         bindableVars, runnerVars
<1>2. RunnerInv /\ [Next]_vars => RunnerInv'
  BY <1>1, RunnerStepIInv, BindableStepIInv DEF Next
<1> QED
  BY InitRunnerInv, <1>2, PTL DEF Spec

-----------------------------------------------------------------------------
\* The runner and its bindables stay well formed.
THEOREM TypeCorrect == Spec => []TypeOK
<1>1. RunnerInv => TypeOK
  BY DEF RunnerInv
<1> QED
  BY <1>1, Invariance, PTL

\* The shutdown hook comes after all bindables are unbound, or one errored.
THEOREM ShutdownIsLast == Spec => []ShutdownComesLast
<1>1. RunnerInv => ShutdownComesLast
  BY DEF RunnerInv, TypeOK, BindableInv, OutcomeInv, ShutdownComesLast
<1> QED
  BY <1>1, Invariance, PTL

\* Whoever may still be bound when the run was to end has a stop waiting for it.
Stopped(b) == status[b] \in {"binding", "bound"} => b \in stops
StopInv ==
  /\ phase \in {"configuring", "initializing"} => "running" \notin signalled
  /\ phase \in {"cleaning", "done"} => outcome # "unset"
  /\ outcome \in {"configureFailed", "initializationFailed"} => found = {}
  /\ exited = "no" /\ ("running" \in signalled \/ outcome = "runFailed") =>
       \A b \in found : Stopped(b)

LEMMA StopAllStops ==
  ASSUME StopAll, UNCHANGED <<found, status>>
  PROVE  \A b \in found' : Stopped(b)'
  BY DEF StopAll, Stopped

LEMMA StopInvariance == Spec => []StopInv
<1> USE DEF RunnerInv, TypeOK, NotFoundInv, OutcomeInv, StopInv, bindableVars, runnerVars
<1>1. Init => StopInv
  BY DEF Init
<1>2. ASSUME RunnerInv, StopInv, RunnerStep
      PROVE  StopInv'
  <2>1. CASE Configure
    BY <1>2, <2>1 DEF Configure, Stopped
  <2>2. CASE Initialize
    <3>1. outcome = "unset" /\ "running" \notin signalled /\ outcome' # "runFailed"
      BY <1>2, <2>2 DEF Initialize
    <3> QED
      BY <2>2, <3>1 DEF Initialize
  <2>3. CASE InitializeFails
    BY <1>2, <2>3 DEF InitializeFails, Stopped
  <2>4. CASE AllUnbound
    BY <1>2, <2>4 DEF AllUnbound, Stopped
  <2>5. CASE OneErrs
    BY <1>2, <2>5, StopAllStops DEF OneErrs
  <2>6. CASE Cleanup
    BY <1>2, <2>6 DEF Cleanup, Stopped
  <2>7. CASE Sigterm
    BY <1>2, <2>7, StopAllStops DEF Sigterm
  <2>8. CASE Sigint
    <3>1. CASE stopping
      BY <1>2, <2>8, <3>1 DEF Sigint
    <3>2. CASE ~stopping
      BY <1>2, <2>8, <3>2, StopAllStops DEF Sigint
    <3> QED
      BY <3>1, <3>2
  <2> QED
    BY <1>2, <2>1, <2>2, <2>3, <2>4, <2>5, <2>6, <2>7, <2>8 DEF RunnerStep
<1>3. ASSUME RunnerInv, StopInv, NEW b \in Bindables, BindableStep(b)
      PROVE  StopInv'
  <2>1. UNCHANGED <<phase, found, outcome, signalled>> /\ (exited' = "no" => exited = "no")
    BY <1>3 DEF BindableStep, Bound, BindFails, StopGoesOn, Closes, Unbound, StopFails, Alive
  <2>2. \A a \in found : Stopped(a) => Stopped(a)'
    BY <1>3 DEF BindableStep, Bound, BindFails, StopGoesOn, Closes, Unbound, StopFails, Stopped
  <2> QED
    BY <1>3, <2>1, <2>2
<1>4. StopInv /\ UNCHANGED vars => StopInv'
  BY DEF vars, Stopped
<1>5. RunnerInv /\ StopInv /\ [Next]_vars => StopInv'
  BY <1>2, <1>3, <1>4 DEF Next
<1> QED
  BY <1>1, <1>5, Invariance, PTL DEF Spec

\* Whatever the order of signals and failures, no bindable runs on, or comes to
\* be bound, once the run has ended or a signal came while it ran, without a
\* stop which waits for it.
THEOREM NobodyRunsOn == Spec => []NoneRunsOn
<1>1. ASSUME RunnerInv, StopInv
      PROVE  NoneRunsOn
  <2> USE DEF Stopped
  <2>1. CASE "running" \in signalled \/ outcome = "runFailed"
    BY <1>1, <2>1 DEF StopInv, NoneRunsOn
  <2>2. ASSUME outcome = "ok"
        PROVE  \A b \in found : status[b] = "unbound"
    BY <1>1, <2>2 DEF RunnerInv, TypeOK, BindableInv, OutcomeInv
  <2>3. outcome \in {"configureFailed", "initializationFailed"} => found = {}
    BY <1>1 DEF StopInv
  <2>4. phase \in {"cleaning", "done"} => outcome # "unset"
    BY <1>1 DEF StopInv
  <2>5. outcome \in {"unset", "configureFailed", "initializationFailed", "assertion", "ok", "runFailed"}
    BY <1>1 DEF RunnerInv, TypeOK
  <2> QED
    BY <2>1, <2>2, <2>3, <2>4, <2>5 DEF NoneRunsOn, Ended
<1> QED
  BY <1>1, Invariance, StopInvariance, PTL

-----------------------------------------------------------------------------
(* Settings *)

Keys == KeySeqs!ToSet(Plain \o Nested)
Sources3 == {"unset", "good", "bad"}

\* What a walk past the first n keys found.
WalkedRight(read, env, keys, n) ==
  LET walked == {keys[i] : i \in 1 .. n}
  IN /\ read.missing \in Seq(Keys) /\ read.errors \in Seq(Keys)
     /\ KeySeqs!ToSet(read.missing) = {k \in walked : Resource(env, k) = "missing"}
     /\ KeySeqs!ToSet(read.errors) = {k \in walked : Resource(env, k) = "throws"}
     /\ ToldInOrder(read.missing, SubSeq(keys, 1, n))
     /\ ToldInOrder(read.errors, SubSeq(keys, 1, n))

Reads == [values : SUBSET Keys, missing : Seq(Keys), errors : Seq(Keys)]

WalkedFrom(W, env, keys) ==
  [n \in 0 .. Len(keys) |-> IF n = 0 THEN Unread ELSE WalkPast(env, W[n - 1], keys[n])]

Walking(env, keys) == CHOOSE W : W = WalkedFrom(W, env, keys)

LEMMA WalkIsLast ==
  ASSUME NEW env, NEW keys
  PROVE  Walk(env, keys) = Walking(env, keys)[Len(keys)]
  BY DEF Walk, Walking, WalkedFrom

LEMMA ResourceIsOne ==
  ASSUME NEW env, NEW key, env[key] \in Sources3
  PROVE  /\ Resource(env, key) \in {"missing", "undefined", "throws", "read"}
         /\ Resource(env, key) = "missing" <=> key \in Required /\ env[key] = "unset"
         /\ Resource(env, key) = "throws" <=> env[key] = "bad"
  BY DEF Resource, Sources3

LEMMA WalkPastIsTyped ==
  ASSUME NEW env \in Contents, NEW key \in Keys, NEW read \in Reads
  PROVE  /\ WalkPast(env, read, key) \in Reads
         /\ WalkPast(env, read, key).missing =
              IF Resource(env, key) = "missing" THEN Append(read.missing, key) ELSE read.missing
         /\ WalkPast(env, read, key).errors =
              IF Resource(env, key) = "throws" THEN Append(read.errors, key) ELSE read.errors
<1> DEFINE w == WalkPast(env, read, key)
<1>1. Resource(env, key) \in {"missing", "undefined", "throws", "read"}
  BY ResourceIsOne DEF Contents, Keys, Sources3
<1>2. /\ read.values \in SUBSET Keys /\ read.missing \in Seq(Keys) /\ read.errors \in Seq(Keys)
      /\ Append(read.missing, key) \in Seq(Keys) /\ Append(read.errors, key) \in Seq(Keys)
  BY DEF Reads
<1>3. CASE Resource(env, key) = "missing"
  <2>1. w = [read EXCEPT !.missing = Append(@, key)]
    BY <1>3 DEF WalkPast
  <2> QED
    BY <1>2, <1>3, <2>1 DEF Reads
<1>4. CASE Resource(env, key) = "throws"
  <2>1. w = [read EXCEPT !.errors = Append(@, key)]
    BY <1>4 DEF WalkPast
  <2> QED
    BY <1>2, <1>4, <2>1 DEF Reads
<1>5. CASE Resource(env, key) = "read"
  <2>1. w = [read EXCEPT !.values = @ \cup {key}]
    BY <1>5 DEF WalkPast
  <2> QED
    BY <1>2, <1>5, <2>1 DEF Reads
<1>6. CASE Resource(env, key) = "undefined"
  BY <1>2, <1>6 DEF WalkPast
<1> QED
  BY <1>1, <1>3, <1>4, <1>5, <1>6

LEMMA ToldBefore ==
  ASSUME NEW told, NEW keys, ToldInOrder(told, keys),
         NEW i \in DOMAIN told, NEW j \in DOMAIN told, i < j
  PROVE  \E a \in DOMAIN keys : \E b \in DOMAIN keys :
           a < b /\ told[i] = keys[a] /\ told[j] = keys[b]
  BY DEF ToldInOrder

\* What was told in order stays so when the next key is told.
LEMMA NextIsTold ==
  ASSUME NEW K, NEW told \in Seq(K), NEW keys \in Seq(K), NEW n \in 1 .. Len(keys),
         ToldInOrder(told, SubSeq(keys, 1, n - 1)),
         KeySeqs!ToSet(told) \subseteq {keys[i] : i \in 1 .. n - 1}
  PROVE  /\ ToldInOrder(told, SubSeq(keys, 1, n))
         /\ ToldInOrder(Append(told, keys[n]), SubSeq(keys, 1, n))
         /\ KeySeqs!ToSet(Append(told, keys[n])) = KeySeqs!ToSet(told) \cup {keys[n]}
<1> DEFINE was == SubSeq(keys, 1, n - 1)
           now == SubSeq(keys, 1, n)
           next == Append(told, keys[n])
<1>1. Len(keys) \in Nat /\ n \in Nat /\ n >= 1 /\ n <= Len(keys)
      /\ Len(told) \in Nat /\ DOMAIN told = 1 .. Len(told)
  OBVIOUS
<1>2. /\ DOMAIN was = 1 .. n - 1 /\ DOMAIN now = 1 .. n
      /\ \A i \in 1 .. n - 1 : was[i] = keys[i]
      /\ \A i \in 1 .. n : now[i] = keys[i]
  BY <1>1
<1>3. /\ Len(next) = Len(told) + 1 /\ DOMAIN next = 1 .. Len(told) + 1
      /\ \A i \in 1 .. Len(told) : next[i] = told[i]
      /\ next[Len(told) + 1] = keys[n]
  BY <1>1
<1>4. KeySeqs!ToSet(told) = {told[i] : i \in 1 .. Len(told)}
      /\ KeySeqs!ToSet(next) = {next[i] : i \in 1 .. Len(told) + 1}
  BY <1>1, <1>3 DEF KeySeqs!ToSet
<1>0. ToldInOrder(told, was)
  OBVIOUS
<1> HIDE DEF was, now, next
<1>5. ASSUME NEW i \in 1 .. Len(told), NEW j \in 1 .. Len(told), i < j
      PROVE  \E a \in DOMAIN now : \E b \in DOMAIN now :
               a < b /\ told[i] = now[a] /\ told[j] = now[b]
  <2>1. i \in DOMAIN told /\ j \in DOMAIN told
    BY <1>1, <1>5
  <2>2. PICK a \in DOMAIN was : \E b \in DOMAIN was :
               a < b /\ told[i] = was[a] /\ told[j] = was[b]
    BY <1>0, <1>5, <2>1, ToldBefore
  <2>3. PICK b \in DOMAIN was : a < b /\ told[i] = was[a] /\ told[j] = was[b]
    BY <2>2
  <2>4. /\ a \in DOMAIN now /\ b \in DOMAIN now
        /\ was[a] = now[a] /\ was[b] = now[b]
    BY <1>1, <1>2
  <2> QED
    BY <2>3, <2>4
<1>6. ASSUME NEW i \in 1 .. Len(told)
      PROVE  \E a \in DOMAIN now : \E b \in DOMAIN now :
               a < b /\ told[i] = now[a] /\ keys[n] = now[b]
  <2>1. PICK a \in 1 .. n - 1 : told[i] = keys[a]
    BY <1>4, <1>6
  <2>2. a \in DOMAIN now /\ n \in DOMAIN now /\ a < n
        /\ now[a] = keys[a] /\ now[n] = keys[n]
    BY <1>1, <1>2
  <2> QED
    BY <2>1, <2>2
<1>7. ToldInOrder(told, now)
  <2> SUFFICES ASSUME NEW i \in DOMAIN told, NEW j \in DOMAIN told, i < j
               PROVE  \E a, b \in DOMAIN now : a < b /\ told[i] = now[a] /\ told[j] = now[b]
    BY DEF ToldInOrder
  <2>1. i \in 1 .. Len(told) /\ j \in 1 .. Len(told)
    BY <1>1
  <2> QED
    BY <1>5, <2>1
<1>8. ToldInOrder(next, now)
  <2> SUFFICES ASSUME NEW i \in DOMAIN next, NEW j \in DOMAIN next, i < j
               PROVE  \E a, b \in DOMAIN now : a < b /\ next[i] = now[a] /\ next[j] = now[b]
    BY DEF ToldInOrder
  <2>1. i \in 1 .. Len(told) /\ next[i] = told[i]
    BY <1>1, <1>3
  <2>2. CASE j \in 1 .. Len(told)
    <3>1. next[j] = told[j]
      BY <1>3, <2>2
    <3> QED
      BY <1>5, <2>1, <2>2, <3>1
  <2>3. CASE j = Len(told) + 1
    <3>1. next[j] = keys[n]
      BY <1>3, <2>3
    <3> QED
      BY <1>6, <2>1, <3>1
  <2> QED
    BY <1>1, <1>3, <2>2, <2>3
<1>10. KeySeqs!ToSet(next) = KeySeqs!ToSet(told) \cup {keys[n]}
  <2>1. ASSUME NEW k \in KeySeqs!ToSet(next)
        PROVE  k \in KeySeqs!ToSet(told) \cup {keys[n]}
    <3>1. PICK i \in 1 .. Len(told) + 1 : k = next[i]
      BY <1>4, <2>1
    <3>2. CASE i \in 1 .. Len(told)
      BY <1>3, <1>4, <3>1, <3>2
    <3>3. CASE i = Len(told) + 1
      BY <1>3, <3>1, <3>3
    <3> QED
      BY <1>1, <3>2, <3>3
  <2>2. ASSUME NEW i \in 1 .. Len(told)
        PROVE  told[i] \in KeySeqs!ToSet(next)
    BY <1>1, <1>3, <1>4, <2>2
  <2>3. keys[n] \in KeySeqs!ToSet(next)
    BY <1>1, <1>3, <1>4
  <2> QED
    BY <1>4, <2>1, <2>2, <2>3
<1> QED
  BY <1>7, <1>8, <1>10 DEF now, next

LEMMA WalkingExists ==
  ASSUME NEW env \in Contents, NEW keys \in Seq(Keys)
  PROVE  \E W : W = WalkedFrom(W, env, keys)
<1> DEFINE n == Len(keys)
           step == [m \in 1 .. n |-> [read \in Reads |-> WalkPast(env, read, keys[m])]]
<1>0. n \in Nat /\ \A m \in 1 .. n : keys[m] \in Keys
  OBVIOUS
<1>1. Unread \in Reads
  BY DEF Unread, Reads
<1>2. step \in [1 .. n -> [Reads -> Reads]]
  BY <1>0, WalkPastIsTyped
<1>3. PICK W \in [0 .. n -> Reads] : FollowsTo(W, n, Unread, step)
  <2> HIDE DEF step, n
  <2> QED
    BY <1>0, <1>1, <1>2, IteratesTo
<1>4. ASSUME NEW m \in 0 .. n, m # 0
      PROVE  W[m] = WalkPast(env, W[m - 1], keys[m])
  <2>1. m \in 1 .. n /\ m - 1 \in 0 .. n /\ W[m - 1] \in Reads
    <3> HIDE DEF step
    <3>1. m \in 1 .. n /\ m - 1 \in 0 .. n
      BY <1>0, <1>4
    <3> QED
      BY <1>3, <3>1
  <2>2. W[m] = step[m][W[m - 1]]
    <3> HIDE DEF step
    <3> QED
      BY <1>3, <2>1 DEF FollowsTo
  <2> QED
    BY <2>1, <2>2
<1> QED
  BY <1>3, <1>4 DEF WalkedFrom, FollowsTo

LEMMA WalkIsRight ==
  ASSUME NEW env \in Contents, NEW keys \in Seq(Keys)
  PROVE  Walk(env, keys) \in Reads /\ WalkedRight(Walk(env, keys), env, keys, Len(keys))
<1> DEFINE W == Walking(env, keys)
           Right(n) == W[n] \in Reads /\ WalkedRight(W[n], env, keys, n)
           Bad == {n \in 0 .. Len(keys) : ~Right(n)}
<1>0. Len(keys) \in Nat
  OBVIOUS
<1>1. W = WalkedFrom(W, env, keys)
  BY WalkingExists DEF Walking
<1>2. W[0] = Unread
  BY <1>0, <1>1 DEF WalkedFrom
<1>3. \A n \in 1 .. Len(keys) : W[n] = WalkPast(env, W[n - 1], keys[n])
  BY <1>0, <1>1 DEF WalkedFrom
<1> HIDE DEF W
<1>4. Right(0)
  <2>1. Unread.missing = <<>> /\ Unread.errors = <<>> /\ Unread \in Reads
    BY DEF Unread, Reads
  <2>2. KeySeqs!ToSet(<<>>) = {}
    BY DEF KeySeqs!ToSet
  <2>3. ToldInOrder(<<>>, SubSeq(keys, 1, 0))
    BY DEF ToldInOrder
  <2>4. {keys[i] : i \in 1 .. 0} = {}
    OBVIOUS
  <2> QED
    BY <1>2, <2>1, <2>2, <2>3, <2>4 DEF WalkedRight, Reads
<1>5. SUFFICES ASSUME Bad # {}
               PROVE  FALSE
  BY <1>0, WalkIsLast DEF W
<1>6. PICK n \in Bad : \A m \in Bad : n <= m
  <2>1. Bad \subseteq Nat
    BY <1>0
  <2> HIDE DEF Bad
  <2> QED
    BY <1>5, <2>1, SmallestOf
<1>7. n # 0 /\ n \in 1 .. Len(keys) /\ Right(n - 1) /\ keys[n] \in Keys
  BY <1>4, <1>6
<1>8. Right(n)
  <2> DEFINE read == W[n - 1]
             key == keys[n]
             was == {keys[i] : i \in 1 .. n - 1}
             now == {keys[i] : i \in 1 .. n}
  <2>1. read \in Reads /\ WalkedRight(read, env, keys, n - 1) /\ key \in Keys
    BY <1>7
  <2>2. W[n] = WalkPast(env, read, key)
    BY <1>3, <1>7
  <2>3. /\ W[n] \in Reads
        /\ W[n].missing = IF Resource(env, key) = "missing" THEN Append(read.missing, key)
                          ELSE read.missing
        /\ W[n].errors = IF Resource(env, key) = "throws" THEN Append(read.errors, key)
                         ELSE read.errors
    BY <2>1, <2>2, WalkPastIsTyped
  <2>4. now = was \cup {key}
    <3>1. 1 .. n = (1 .. n - 1) \cup {n}
      BY <1>7
    <3> QED
      BY <3>1
  <2>5. /\ read.missing \in Seq(Keys) /\ read.errors \in Seq(Keys)
        /\ KeySeqs!ToSet(read.missing) = {k \in was : Resource(env, k) = "missing"}
        /\ KeySeqs!ToSet(read.errors) = {k \in was : Resource(env, k) = "throws"}
        /\ ToldInOrder(read.missing, SubSeq(keys, 1, n - 1))
        /\ ToldInOrder(read.errors, SubSeq(keys, 1, n - 1))
    BY <2>1 DEF WalkedRight
  <2>6. /\ ToldInOrder(read.missing, SubSeq(keys, 1, n))
        /\ ToldInOrder(Append(read.missing, key), SubSeq(keys, 1, n))
        /\ KeySeqs!ToSet(Append(read.missing, key)) = KeySeqs!ToSet(read.missing) \cup {key}
    <3> DEFINE told == read.missing
    <3>1. /\ told \in Seq(Keys) /\ ToldInOrder(told, SubSeq(keys, 1, n - 1))
          /\ KeySeqs!ToSet(told) \subseteq {keys[i] : i \in 1 .. n - 1}
      BY <2>5
    <3>2. n \in 1 .. Len(keys)
      BY <1>7
    <3> HIDE DEF told, read, was
    <3>3. /\ ToldInOrder(told, SubSeq(keys, 1, n))
          /\ ToldInOrder(Append(told, keys[n]), SubSeq(keys, 1, n))
          /\ KeySeqs!ToSet(Append(told, keys[n])) = KeySeqs!ToSet(told) \cup {keys[n]}
      BY <3>1, <3>2, NextIsTold
    <3> QED
      BY <3>3 DEF told
  <2>7. /\ ToldInOrder(read.errors, SubSeq(keys, 1, n))
        /\ ToldInOrder(Append(read.errors, key), SubSeq(keys, 1, n))
        /\ KeySeqs!ToSet(Append(read.errors, key)) = KeySeqs!ToSet(read.errors) \cup {key}
    <3> DEFINE told == read.errors
    <3>1. /\ told \in Seq(Keys) /\ ToldInOrder(told, SubSeq(keys, 1, n - 1))
          /\ KeySeqs!ToSet(told) \subseteq {keys[i] : i \in 1 .. n - 1}
      BY <2>5
    <3>2. n \in 1 .. Len(keys)
      BY <1>7
    <3> HIDE DEF told, read, was
    <3>3. /\ ToldInOrder(told, SubSeq(keys, 1, n))
          /\ ToldInOrder(Append(told, keys[n]), SubSeq(keys, 1, n))
          /\ KeySeqs!ToSet(Append(told, keys[n])) = KeySeqs!ToSet(told) \cup {keys[n]}
      BY <3>1, <3>2, NextIsTold
    <3> QED
      BY <3>3 DEF told
  <2> HIDE DEF read, key, was
  <2>8. /\ ToldInOrder(W[n].missing, SubSeq(keys, 1, n))
        /\ ToldInOrder(W[n].errors, SubSeq(keys, 1, n))
    BY <2>3, <2>6, <2>7
  <2>9. KeySeqs!ToSet(W[n].missing) = {k \in now : Resource(env, k) = "missing"}
    BY <2>3, <2>4, <2>5, <2>6
  <2>10. KeySeqs!ToSet(W[n].errors) = {k \in now : Resource(env, k) = "throws"}
    BY <2>3, <2>4, <2>5, <2>7
  <2>11. W[n].missing \in Seq(Keys) /\ W[n].errors \in Seq(Keys)
    BY <2>3 DEF Reads
  <2> QED
    BY <2>3, <2>8, <2>9, <2>10, <2>11 DEF WalkedRight
<1> QED
  BY <1>6, <1>8

LEMMA NoneTold ==
  ASSUME NEW K, NEW told \in Seq(K)
  PROVE  told # <<>> <=> KeySeqs!ToSet(told) # {}
<1>1. Len(told) \in Nat /\ DOMAIN told = 1 .. Len(told)
  OBVIOUS
<1>2. CASE told = <<>>
  BY <1>2 DEF KeySeqs!ToSet
<1>3. CASE told # <<>>
  <2>1. 1 \in DOMAIN told
    BY <1>1, <1>3
  <2> QED
    BY <1>3, <2>1 DEF KeySeqs!ToSet
<1> QED
  BY <1>2, <1>3

LEMMA KeysOfBoth ==
  /\ Plain \in Seq(Keys) /\ Nested \in Seq(Keys) /\ Group \notin Keys
  /\ KeySeqs!ToSet(Plain) \subseteq Keys /\ KeySeqs!ToSet(Nested) \subseteq Keys
  /\ KeySeqs!ToSet(Plain) = {Plain[i] : i \in 1 .. Len(Plain)}
  /\ KeySeqs!ToSet(Nested) = {Nested[i] : i \in 1 .. Len(Nested)}
<1>1. Plain \in Seq(KeySeqs!ToSet(Plain)) /\ Nested \in Seq(KeySeqs!ToSet(Nested))
      /\ Group \notin Keys
  BY SettingsAssumption DEF Keys
<1> DEFINE P == KeySeqs!ToSet(Plain)
           N == KeySeqs!ToSet(Nested)
<1>2. Plain \in Seq(P) /\ Nested \in Seq(N)
  BY <1>1
<1>3. P = {Plain[i] : i \in DOMAIN Plain} /\ N = {Nested[i] : i \in DOMAIN Nested}
      /\ Keys = {(Plain \o Nested)[i] : i \in DOMAIN (Plain \o Nested)}
  BY DEF KeySeqs!ToSet, Keys
<1> HIDE DEF P, N
<1> DEFINE all == Plain \o Nested
<1>4. /\ Len(Plain) \in Nat /\ Len(Nested) \in Nat
      /\ DOMAIN Plain = 1 .. Len(Plain) /\ DOMAIN Nested = 1 .. Len(Nested)
      /\ DOMAIN all = 1 .. Len(Plain) + Len(Nested)
      /\ \A i \in 1 .. Len(Plain) : all[i] = Plain[i]
      /\ \A i \in 1 .. Len(Nested) : all[Len(Plain) + i] = Nested[i]
  <2>1. Plain \in Seq(P \cup N) /\ Nested \in Seq(P \cup N)
    BY <1>2
  <2> QED
    BY <2>1
<1>5. Keys = {all[i] : i \in DOMAIN all}
  BY <1>3
<1> HIDE DEF all
<1>6. P \subseteq Keys
  <2>1. ASSUME NEW i \in 1 .. Len(Plain)
        PROVE  i \in DOMAIN all /\ all[i] = Plain[i]
    BY <1>4
  <2> QED
    BY <1>3, <1>4, <1>5, <2>1
<1>7. N \subseteq Keys
  <2>1. ASSUME NEW i \in 1 .. Len(Nested)
        PROVE  Len(Plain) + i \in DOMAIN all /\ all[Len(Plain) + i] = Nested[i]
    BY <1>4
  <2> QED
    BY <1>3, <1>4, <1>5, <2>1
<1>8. Plain \in Seq(Keys) /\ Nested \in Seq(Keys)
  BY <1>2, <1>6, <1>7
<1> QED
  BY <1>1, <1>3, <1>4, <1>6, <1>7, <1>8 DEF P, N

\* Reading an environment finds every issue.
LEMMA ReadFindsIssues ==
  ASSUME NEW env \in Contents
  PROVE  LET Missing(k) == k \in Required /\ env[k] = "unset"
             Throws(k) == env[k] = "bad"
         IN /\ KeySeqs!ToSet(Read(env).missing) = {k \in KeySeqs!ToSet(Plain) : Missing(k)}
            /\ KeySeqs!ToSet(Read(env).errors) =
                 {k \in KeySeqs!ToSet(Plain) : Throws(k)}
                   \cup {k \in {Group} :
                          Throws(k) \/ \E n \in KeySeqs!ToSet(Nested) : Throws(n) \/ Missing(n)}
            /\ ToldInOrder(Read(env).missing, Plain)
            /\ ToldInOrder(Read(env).errors, Append(Plain, Group))
<1> DEFINE Missing(k) == k \in Required /\ env[k] = "unset"
           Throws(k) == env[k] = "bad"
           P == KeySeqs!ToSet(Plain)
           N == KeySeqs!ToSet(Nested)
           outer == Walk(env, Plain)
           inner == Walk(env, Nested)
           read == Read(env)
           wrong == HasIssues(inner) \/ Throws(Group)
<1>1. /\ outer \in Reads /\ WalkedRight(outer, env, Plain, Len(Plain))
      /\ inner \in Reads /\ WalkedRight(inner, env, Nested, Len(Nested))
  BY KeysOfBoth, WalkIsRight
<1>2. /\ P = {Plain[i] : i \in 1 .. Len(Plain)} /\ N = {Nested[i] : i \in 1 .. Len(Nested)}
      /\ P \subseteq Keys /\ N \subseteq Keys
  BY KeysOfBoth
<1>3. \A k \in Keys : /\ Resource(env, k) = "missing" <=> Missing(k)
                      /\ Resource(env, k) = "throws" <=> Throws(k)
  <2> SUFFICES ASSUME NEW k \in Keys
               PROVE  /\ Resource(env, k) = "missing" <=> Missing(k)
                      /\ Resource(env, k) = "throws" <=> Throws(k)
    OBVIOUS
  <2>1. env[k] \in Sources3
    BY DEF Contents, Keys, Sources3
  <2> QED
    BY <2>1, ResourceIsOne
<1>4. SubSeq(Plain, 1, Len(Plain)) = Plain
  BY KeysOfBoth
<1>5. /\ KeySeqs!ToSet(outer.missing) = {k \in P : Missing(k)}
      /\ KeySeqs!ToSet(outer.errors) = {k \in P : Throws(k)}
      /\ ToldInOrder(outer.missing, Plain) /\ ToldInOrder(outer.errors, Plain)
      /\ outer.errors \in Seq(Keys)
  <2> HIDE DEF P, outer
  <2>1. /\ KeySeqs!ToSet(outer.missing) = {k \in P : Resource(env, k) = "missing"}
        /\ KeySeqs!ToSet(outer.errors) = {k \in P : Resource(env, k) = "throws"}
    BY <1>1, <1>2 DEF WalkedRight
  <2> QED
    BY <1>1, <1>2, <1>3, <1>4, <2>1 DEF WalkedRight
<1>6. HasIssues(inner) <=> \E n \in N : Throws(n) \/ Missing(n)
  <2> HIDE DEF N, inner
  <2>1. /\ KeySeqs!ToSet(inner.missing) = {k \in N : Resource(env, k) = "missing"}
        /\ KeySeqs!ToSet(inner.errors) = {k \in N : Resource(env, k) = "throws"}
        /\ inner.missing \in Seq(Keys) /\ inner.errors \in Seq(Keys)
    BY <1>1, <1>2 DEF WalkedRight
  <2>2. /\ inner.missing # <<>> <=> \E k \in N : Missing(k)
        /\ inner.errors # <<>> <=> \E k \in N : Throws(k)
    <3>1. inner.missing # <<>> <=> KeySeqs!ToSet(inner.missing) # {}
      BY <2>1, NoneTold
    <3>2. inner.errors # <<>> <=> KeySeqs!ToSet(inner.errors) # {}
      BY <2>1, NoneTold
    <3> QED
      BY <1>2, <1>3, <2>1, <3>1, <3>2
  <2> QED
    BY <2>2 DEF HasIssues
<1>7. read.missing = outer.missing
      /\ read.errors = IF wrong THEN Append(outer.errors, Group) ELSE outer.errors
  <2>1. read = IF wrong THEN [outer EXCEPT !.errors = Append(@, Group)]
               ELSE [outer EXCEPT !.values = @ \cup inner.values \cup {Group}]
    BY DEF Read
  <2> HIDE DEF read, outer, inner, wrong
  <2> QED
    BY <1>1, <2>1 DEF Reads
<1>8. /\ ToldInOrder(outer.errors, Append(Plain, Group))
      /\ ToldInOrder(Append(outer.errors, Group), Append(Plain, Group))
      /\ KeySeqs!ToSet(Append(outer.errors, Group)) = KeySeqs!ToSet(outer.errors) \cup {Group}
  <2> DEFINE told == outer.errors
             keys == Append(Plain, Group)
             n == Len(Plain) + 1
             K == Keys \cup {Group}
  <2>1. /\ Plain \in Seq(K) /\ told \in Seq(K) /\ keys \in Seq(K) /\ n \in 1 .. Len(keys)
        /\ keys[n] = Group /\ SubSeq(keys, 1, n - 1) = Plain /\ SubSeq(keys, 1, n) = keys
        /\ \A i \in 1 .. n - 1 : keys[i] = Plain[i]
        /\ n - 1 = Len(Plain)
    <3>1. Plain \in Seq(K) /\ told \in Seq(K) /\ Group \in K
      BY <1>5, KeysOfBoth
    <3> HIDE DEF K, told
    <3>2. keys \in Seq(K) /\ Len(keys) = n /\ Len(Plain) \in Nat
      BY <3>1
    <3>3. SubSeq(keys, 1, n - 1) = Plain
      BY <3>1, <3>2
    <3>4. SubSeq(keys, 1, n) = keys
      BY <3>1, <3>2
    <3> QED
      BY <3>1, <3>2, <3>3, <3>4
  <2>2. KeySeqs!ToSet(told) \subseteq {keys[i] : i \in 1 .. n - 1}
    <3>1. KeySeqs!ToSet(told) \subseteq {Plain[i] : i \in 1 .. Len(Plain)}
      BY <1>2, <1>5
    <3> HIDE DEF told, keys, n
    <3> QED
      BY <2>1, <3>1
  <2>3. ToldInOrder(told, SubSeq(keys, 1, n - 1))
    BY <1>5, <2>1
  <2> HIDE DEF told, keys, n, K
  <2>4. /\ ToldInOrder(told, SubSeq(keys, 1, n))
        /\ ToldInOrder(Append(told, keys[n]), SubSeq(keys, 1, n))
        /\ KeySeqs!ToSet(Append(told, keys[n])) = KeySeqs!ToSet(told) \cup {keys[n]}
    BY <2>1, <2>2, <2>3, NextIsTold
  <2> QED
    BY <2>1, <2>4 DEF told, keys
<1>9. {k \in {Group} : Throws(k) \/ \E n \in N : Throws(n) \/ Missing(n)}
        = IF wrong THEN {Group} ELSE {}
  BY <1>6
<1> HIDE DEF read, outer, inner, P, N
<1>10. KeySeqs!ToSet(read.errors) =
         {k \in P : Throws(k)} \cup (IF wrong THEN {Group} ELSE {})
  BY <1>5, <1>7, <1>8
<1>11. ToldInOrder(read.errors, Append(Plain, Group)) /\ ToldInOrder(read.missing, Plain)
       /\ KeySeqs!ToSet(read.missing) = {k \in P : Missing(k)}
  BY <1>5, <1>7, <1>8
<1> QED
  BY <1>9, <1>10, <1>11 DEF read, P, N

-----------------------------------------------------------------------------
(* The manager *)

\* What was made last is of the last valid environment; the reference is that
\* environment, or one tried since.
SettingsInv ==
  /\ content \in [Envs -> Contents]
  /\ tried \in Seq(Envs)
  /\ \A r \in reply : r.env \in Envs
  /\ (valid = {} /\ ret = {}) \/ \E e \in Envs : valid = {[env |-> e, value |-> ret]}
  /\ \A e \in ref, v \in valid : v.env # e => tried # <<>> /\ tried[Len(tried)] = e
  /\ ReturnsLastValid /\ TellsEveryIssue

LEMMA CallInv ==
  ASSUME SettingsInv, NEW env \in Envs, Call(env)
  PROVE  SettingsInv'
<1> DEFINE read == Read(content[env])
           made == Transform(content[env], read)
           next == Append(tried, env)
<1>1. /\ content' = content /\ ref' = {env}
      /\ \/ /\ reply' = {[env |-> env, throws |-> TRUE, missing |-> read.missing,
                           errors |-> read.errors]}
            /\ tried' = next /\ UNCHANGED <<ret, valid>>
         \/ /\ ret' = made /\ reply' = {[env |-> env, throws |-> FALSE, value |-> made]}
            /\ tried' = next /\ valid' = {[env |-> env, value |-> made]}
         \/ /\ ~MustRead(env) /\ reply' = {[env |-> env, throws |-> FALSE, value |-> ret]}
            /\ UNCHANGED <<ret, tried, valid>>
  BY DEF Call
<1>2. /\ content \in [Envs -> Contents] /\ content[env] \in Contents /\ tried \in Seq(Envs)
      /\ (valid = {} /\ ret = {}) \/ \E e \in Envs : valid = {[env |-> e, value |-> ret]}
      /\ \A e \in ref, v \in valid : v.env # e => tried # <<>> /\ tried[Len(tried)] = e
  BY DEF SettingsInv
<1>3. next \in Seq(Envs) /\ next # <<>> /\ next[Len(next)] = env
  BY <1>2
<1> HIDE DEF made, next
<1>4. CASE /\ reply' = {[env |-> env, throws |-> TRUE, missing |-> read.missing,
                         errors |-> read.errors]}
           /\ tried' = next /\ UNCHANGED <<ret, valid>>
  <2>1. Returned' = {}
    BY <1>4 DEF Returned
  <2>2. ReturnsLastValid'
    BY <2>1 DEF ReturnsLastValid
  <2>3. TellsEveryIssue'
    <3>1. \A r \in Thrown' : r.env = env /\ r.missing = read.missing /\ r.errors = read.errors
      BY <1>4 DEF Thrown
    <3>2. content'[env] = content[env]
      BY <1>1
    <3> QED
      BY <1>2, <3>1, <3>2, ReadFindsIssues DEF TellsEveryIssue
  <2>4. \A r \in reply' : r.env \in Envs
    BY <1>4
  <2> QED
    BY <1>1, <1>2, <1>3, <1>4, <2>2, <2>3, <2>4 DEF SettingsInv
<1>5. CASE /\ ret' = made /\ reply' = {[env |-> env, throws |-> FALSE, value |-> made]}
           /\ tried' = next /\ valid' = {[env |-> env, value |-> made]}
  <2>1. Thrown' = {} /\ \A r \in Returned' : r.env = env /\ r.value = made
    BY <1>5 DEF Thrown, Returned
  <2>2. {v.value : v \in valid'} = {made} /\ \A v \in valid' : v.env = env
    BY <1>5
  <2>3. ReturnsLastValid' /\ TellsEveryIssue'
    BY <2>1, <2>2 DEF ReturnsLastValid, TellsEveryIssue
  <2>4. \A r \in reply' : r.env \in Envs
    BY <1>5
  <2>5. \A e \in ref', v \in valid' : v.env # e => tried' # <<>> /\ tried'[Len(tried')] = e
    BY <1>1, <2>2
  <2>6. \E e \in Envs : valid' = {[env |-> e, value |-> ret']}
    BY <1>5
  <2> QED
    BY <1>1, <1>2, <1>3, <1>5, <2>3, <2>4, <2>5, <2>6 DEF SettingsInv
<1>6. CASE /\ ~MustRead(env) /\ reply' = {[env |-> env, throws |-> FALSE, value |-> ret]}
           /\ UNCHANGED <<ret, tried, valid>>
  <2>1. env \in ref /\ ret # {}
    BY <1>6 DEF MustRead
  <2>2. PICK e \in Envs : valid = {[env |-> e, value |-> ret]}
    BY <1>2, <2>1
  <2>3. Thrown' = {} /\ \A r \in Returned' : r.env = env /\ r.value = ret
    BY <1>6 DEF Thrown, Returned
  <2>4. {v.value : v \in valid'} = {ret} /\ \A v \in valid' : v.env # env => tried'[Len(tried')] = env
    BY <1>2, <1>6, <2>1, <2>2
  <2>5. ReturnsLastValid' /\ TellsEveryIssue'
    BY <2>3, <2>4 DEF ReturnsLastValid, TellsEveryIssue
  <2>6. \A r \in reply' : r.env \in Envs
    BY <1>6
  <2>7. \A f \in ref', v \in valid' : v.env # f => tried' # <<>> /\ tried'[Len(tried')] = f
    BY <1>1, <1>2, <1>6, <2>1
  <2> QED
    BY <1>1, <1>2, <1>6, <2>5, <2>6, <2>7 DEF SettingsInv
<1> QED
  BY <1>1, <1>4, <1>5, <1>6

LEMMA NextSettingsInv ==
  ASSUME SettingsInv, [SettingsNext]_settingsVars
  PROVE  SettingsInv'
<1>1. ASSUME NEW env \in Envs, Call(env)
      PROVE  SettingsInv'
  BY <1>1, CallInv
<1>2. ASSUME NEW env \in Envs, Change(env)
      PROVE  SettingsInv'
  <2>1. content' \in [Envs -> Contents]
    <3>1. PICK key \in DOMAIN content[env], source \in {"unset", "good", "bad"} :
            content' = [content EXCEPT ![env][key] = source]
      BY <1>2 DEF Change
    <3>2. content'[env] \in Contents
      BY <1>2 DEF Change
    <3>3. content \in [Envs -> Contents]
      BY DEF SettingsInv
    <3>4. content' = [content EXCEPT ![env] = content'[env]]
      BY <3>1, <3>3
    <3> QED
      BY <3>2, <3>3, <3>4
  <2>2. reply' = {} /\ UNCHANGED <<ref, ret, tried, valid>>
    BY <1>2 DEF Change
  <2>3. ReturnsLastValid' /\ TellsEveryIssue'
    BY <2>2 DEF ReturnsLastValid, TellsEveryIssue, Returned, Thrown
  <2> QED
    BY <2>1, <2>2, <2>3 DEF SettingsInv
<1>3. CASE UNCHANGED settingsVars
  <2>1. UNCHANGED <<content, ref, ret, reply, valid, tried>>
    BY <1>3 DEF settingsVars
  <2>2. ReturnsLastValid' /\ TellsEveryIssue'
    <3>1. Returned' = Returned /\ Thrown' = Thrown
      BY <2>1 DEF Returned, Thrown
    <3>2. ReturnsLastValid'
      BY <2>1, <3>1 DEF ReturnsLastValid, SettingsInv
    <3>3. TellsEveryIssue'
      <4>1. TellsEveryIssue
        BY DEF SettingsInv
      <4> QED
        BY <2>1, <3>1, <4>1 DEF TellsEveryIssue
    <3> QED
      BY <3>2, <3>3
  <2>3. /\ content' \in [Envs -> Contents] /\ tried' \in Seq(Envs)
        /\ \A r \in reply' : r.env \in Envs
        /\ (valid' = {} /\ ret' = {}) \/ \E e \in Envs : valid' = {[env |-> e, value |-> ret']}
    BY <2>1 DEF SettingsInv
  <2>4. \A e \in ref', v \in valid' : v.env # e => tried' # <<>> /\ tried'[Len(tried')] = e
    BY <2>1 DEF SettingsInv
  <2> QED
    BY <2>2, <2>3, <2>4 DEF SettingsInv
<1> QED
  BY <1>1, <1>2, <1>3 DEF SettingsNext

\* For any settings, nested and required, and any environments, which may change
\* in place: whatever a call returns was made of the last valid environment, and
\* what it throws tells of every issue, in order (common.ts:249).
THEOREM ManagerTellsOfEnv == SettingsSpec => []TellsOfEnv
<1>1. SettingsInit => SettingsInv
  BY DEF SettingsInit, SettingsInv, ReturnsLastValid, TellsEveryIssue, Returned, Thrown
<1>2. SettingsInv /\ [SettingsNext]_settingsVars => SettingsInv'
  BY NextSettingsInv
<1>3. SettingsInv => TellsOfEnv
  BY DEF SettingsInv, TellsOfEnv
<1> QED
  BY <1>1, <1>2, <1>3, PTL DEF SettingsSpec
=============================================================================
