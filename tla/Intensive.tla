----------------------------- MODULE Intensive -----------------------------
(***************************************************************************)
(* Intensive operations (stl-utils/src/intensive.ts): generators which     *)
(* yield so that who runs them may breathe, and which embed others. The    *)
(* breaths of an operation are forwarded to those it embeds, from their    *)
(* start to their end.                                                     *)
(*                                                                         *)
(* Several operations may run at once: one goes on while another breathes. *)
(***************************************************************************)
EXTENDS Naturals, Sequences, FiniteSets

Seqs == INSTANCE SequencesExt

CONSTANTS
  Ops,
  Programs, \* each one's generator: the operations it embeds in turn, Work for
            \* a yield of its own
  Catching  \* those whose generators catch the errors of what they embed

Work == "work"
Nobody == "nobody"

ASSUME IntensiveAssumption ==
  /\ IsFiniteSet(Ops) /\ {Work, Nobody} \cap Ops = {}
  /\ Programs \in [Ops -> Seq(Ops \cup {Work})] /\ Catching \subseteq Ops

VARIABLES
  started,  \* the operations whose `started` is set
  ended,    \* history: those which emitted end
  failed,   \* history: with an error
  onStart,  \* <<outer, inner>>: listeners added by embed, of inner's start
  forwards, \* <<outer, inner>>: forwardBreath is among outer's listeners
  stacks,   \* of each root, its frames, the innermost last: the operation, its
            \* next item, and whether it is "entering", in its "body" or
            \* "leaving"
  current,  \* the root which is executing, Nobody while all breathe
  yielding  \* has it yielded to the loop of run?

intensiveVars == <<started, ended, failed, onStart, forwards, stacks, current, yielding>>

Frame(op, at) == [op |-> op, at |-> at, next |-> 1]
Top(stack) == stack[Len(stack)]

\* Who hears a breath of op, through up to n operations.
HearBreathsOf(op) ==
  LET Hearing[n \in Nat] ==
        IF n = 0 THEN {op}
        ELSE Hearing[n - 1] \cup {f[2] : f \in {g \in forwards : g[1] \in Hearing[n - 1]}}
  IN Hearing[Cardinality(Ops)]

-----------------------------------------------------------------------------
(* Running *)

\* run, and runSync, which yields to nobody.
Run(op) ==
  /\ current = Nobody /\ op \notin started
  /\ started' = started \cup {op} /\ current' = op
  /\ stacks' = [stacks EXCEPT ![op] = <<Frame(op, "body")>>]
  /\ forwards' = forwards \cup {l \in onStart : l[2] = op}
  /\ UNCHANGED <<ended, failed, onStart, yielding>>

\* The loop of run: it goes on, or breathes if it is late.
GoOn ==
  /\ current # Nobody /\ yielding
  /\ yielding' = FALSE
  /\ current' \in {current, Nobody}
  /\ UNCHANGED <<started, ended, failed, onStart, forwards, stacks>>

Resume(root) ==
  /\ current = Nobody /\ stacks[root] # <<>>
  /\ current' = root
  /\ UNCHANGED <<started, ended, failed, onStart, forwards, stacks, yielding>>

-----------------------------------------------------------------------------
(* The iterator of the innermost operation *)

Innermost(at) ==
  /\ current # Nobody /\ ~yielding /\ stacks[current] # <<>>
  /\ Top(stacks[current]).at = at

Goes(frame) ==
  stacks' = [stacks EXCEPT ![current] = Append(Seqs!Front(@), frame)]

\* After an embedded operation, the generator below goes on.
Below(stack) ==
  LET rest == Seqs!Front(stack)
  IN IF rest = <<>> THEN <<>>
     ELSE Append(Seqs!Front(rest), [Top(rest) EXCEPT !.next = @ + 1])

\* Embedded, an operation yields before its start and after its end.
Starts ==
  /\ Innermost("entering")
  /\ LET frame == Top(stacks[current])
     IN /\ forwards' = forwards \cup {l \in onStart : l[2] = frame.op}
        /\ onStart' = {l \in onStart : l[2] # frame.op}
        /\ Goes([frame EXCEPT !.at = "body"])
  /\ UNCHANGED <<started, ended, failed, current, yielding>>

Works ==
  /\ Innermost("body")
  /\ LET frame == Top(stacks[current])
     IN /\ frame.next <= Len(Programs[frame.op]) /\ Programs[frame.op][frame.next] = Work
        /\ Goes([frame EXCEPT !.next = @ + 1])
  /\ yielding' = TRUE
  /\ UNCHANGED <<started, ended, failed, onStart, forwards, current>>

\* end, of some operations at once when an error goes through them.
\* Mutant: listeners stay if there was an error.
StopForwardingUnlessFailed(ops) ==
  forwards' = IF ended' \cap failed' = ended \cap failed
              THEN {l \in forwards : l[2] \notin ops} ELSE forwards
StopForwarding(ops) == forwards' = {l \in forwards : l[2] \notin ops}

\* An error is thrown in the generator of the frame at depth n: those which do
\* not catch it end with it.
ThrowAt(n) ==
  LET stack == stacks[current]
      catcher == {i \in 1 .. n : stack[i].op \in Catching}
      at == IF catcher = {} THEN 0 ELSE CHOOSE i \in catcher : \A j \in catcher : j <= i
      through == {stack[i].op : i \in at + 1 .. Len(stack)}
  IN /\ ended' = ended \cup through /\ failed' = failed \cup through
     /\ StopForwarding(through)
     /\ stacks' = [stacks EXCEPT ![current] =
          IF at = 0 THEN <<>>
          ELSE Append(SubSeq(stack, 1, at - 1), [stack[at] EXCEPT !.next = @ + 1])]
     /\ current' = IF at = 0 THEN Nobody ELSE current

\* yield* embed: the operation asserts that it was not started already.
Embeds ==
  /\ Innermost("body")
  /\ LET frame == Top(stacks[current])
         inner == Programs[frame.op][frame.next]
     IN /\ frame.next <= Len(Programs[frame.op]) /\ inner # Work
        /\ onStart' = onStart \cup {<<frame.op, inner>>}
        /\ IF inner \in started
           THEN ThrowAt(Len(stacks[current])) /\ UNCHANGED <<started, yielding>>
           ELSE /\ started' = started \cup {inner} /\ yielding' = TRUE
                /\ stacks' = [stacks EXCEPT ![current] = Append(@, Frame(inner, "entering"))]
                /\ UNCHANGED <<ended, failed, forwards, current>>

\* Its own generator throws.
Fails ==
  /\ Innermost("body")
  /\ ThrowAt(Len(stacks[current]) - 1)
  /\ UNCHANGED <<started, onStart, yielding>>

ProgramEnds ==
  /\ Innermost("body")
  /\ LET frame == Top(stacks[current])
         isRoot == Len(stacks[current]) = 1
     IN /\ frame.next > Len(Programs[frame.op])
        /\ ended' = ended \cup {frame.op} /\ UNCHANGED failed
        /\ StopForwarding({frame.op})
        /\ IF isRoot
           THEN /\ stacks' = [stacks EXCEPT ![current] = <<>>]
                /\ current' = Nobody /\ UNCHANGED yielding
           ELSE Goes([frame EXCEPT !.at = "leaving"]) /\ yielding' = TRUE /\ UNCHANGED current
  /\ UNCHANGED <<started, onStart>>

Leaves ==
  /\ Innermost("leaving")
  /\ stacks' = [stacks EXCEPT ![current] = Below(@)]
  /\ UNCHANGED <<started, ended, failed, onStart, forwards, current, yielding>>

IntensiveInit ==
  /\ started = {} /\ ended = {} /\ failed = {} /\ onStart = {} /\ forwards = {}
  /\ stacks = [op \in Ops |-> <<>>] /\ current = Nobody /\ yielding = FALSE

IntensiveNext ==
  \/ \E op \in Ops : Run(op) \/ Resume(op)
  \/ GoOn \/ Starts \/ Works \/ Embeds \/ Fails \/ ProgramEnds \/ Leaves

IntensiveSpec == IntensiveInit /\ [][IntensiveNext]_intensiveVars

-----------------------------------------------------------------------------
(* Properties *)

\* The operations which root is running, between their start and their end.
Running(root) ==
  {stacks[root][i].op : i \in {j \in DOMAIN stacks[root] : stacks[root][j].at = "body"}}

\* Whatever runs meanwhile, embeds and fails, the breaths of a running operation
\* are heard by all those it embeds which are running, and never by one which
\* is not ("breath events will be emitted on both the outer and inner
\* operations", intensive.ts:47).
BreathsAreHeard ==
  \A root \in Ops : stacks[root] # <<>> =>
    /\ Running(root) \subseteq HearBreathsOf(root)
    /\ \A op \in HearBreathsOf(root) \ {root} : op \in started \ ended

\* Refuted by the code: an operation hears the breaths of its run only. One
\* which failed to embed it, after it was entered and before its start, hears
\* its start as well and forwards to it.
OwnBreathsOnly ==
  \A root \in Ops : stacks[root] # <<>> => HearBreathsOf(root) = Running(root)
=============================================================================
