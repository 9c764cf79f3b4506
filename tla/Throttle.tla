------------------------------ MODULE Throttle ------------------------------
(***************************************************************************)
(* stl-koa's throttle: a steady limiter and, optionally, a burst one which *)
(* is asked when the steady one refuses.  The limiters are external        *)
(* (RateLimiterMemory): a window starts with the first points consumed     *)
(* after the previous one, and refused points count in it too.             *)
(*                                                                         *)
(* One eligible key; calls with the key `false` return at once.  A rate    *)
(* without steady points makes a throttle which never refuses.             *)
(***************************************************************************)
EXTENDS Integers, Sequences, Sums

CONSTANTS
  Rates,     \* what throttleRate parsed: [steady, burst] of [points, seconds]
  Costs,     \* the points of a call
  MaxCalls,  \* bounds the calls
  MaxSeconds \* and the clock

NoBurst == [points |-> 0, seconds |-> 0]
Fresh == [consumed |-> 0, until |-> 0]
NoAdvice == [by |-> "none", until |-> 0, points |-> 0]

\* parsePointSource.
PointSource(src) ==
  src \in [points : Nat, seconds : Nat] /\ (src.points > 0 <=> src.seconds > 0)
ThrottleRate(r) ==
  DOMAIN r = {"steady", "burst"} /\ \A l \in DOMAIN r : PointSource(r[l])

ASSUME ThrottleAssumption ==
  /\ \A r \in Rates : ThrottleRate(r)
  /\ Costs \subseteq Nat \ {0} /\ MaxCalls \in Nat /\ MaxSeconds \in Nat

VARIABLES
  rate, seconds, made,
  windows,  \* of "steady" and "burst": points consumed, and when it is over
  bursting, \* the calls which the steady limiter refused: [points, until]
  allowed,  \* history: the calls allowed, [by, points, at]
  advice    \* history: the last call refused, and when to retry, unless the key
            \* was used since

throttleVars == <<rate, seconds, made, windows, bursting, allowed, advice>>

-----------------------------------------------------------------------------
(* The limiters *)

Throttles == rate.steady.points > 0

Consumed(l) == IF seconds < windows[l].until THEN windows[l].consumed ELSE 0
RemainingPoints(l) == LET left == rate[l].points - Consumed(l) IN IF left < 0 THEN 0 ELSE left

\* consume and penalty count the points, then tell whether there are too many.
Add(l, points) ==
  [consumed |-> Consumed(l) + points,
   until |-> IF seconds < windows[l].until THEN windows[l].until
             ELSE seconds + rate[l].seconds]
Refuses(l, points) == Consumed(l) + points > rate[l].points

-----------------------------------------------------------------------------
(* The calls *)

Allow(by, points) == allowed' = Append(allowed, [by |-> by, points |-> points, at |-> seconds])

\* The error tells after how long to retry.
Throw(by, until, points) == advice' = [by |-> by, until |-> until, points |-> points]

\* consume: the burst limiter is only asked in a later job.
Consume(points) ==
  /\ made < MaxCalls /\ made' = made + 1
  /\ IF ~Throttles THEN Allow("none", points) /\ UNCHANGED <<windows, bursting, advice>>
     ELSE LET window == Add("steady", points)
          IN /\ windows' = [windows EXCEPT !["steady"] = window]
             /\ IF ~Refuses("steady", points)
                THEN Allow("steady", points) /\ advice' = NoAdvice /\ UNCHANGED bursting
                ELSE IF rate.burst = NoBurst
                THEN Throw("consume", window.until, points) /\ UNCHANGED <<allowed, bursting>>
                ELSE /\ bursting' = Append(bursting, [points |-> points, until |-> window.until])
                     /\ advice' = NoAdvice /\ UNCHANGED allowed
  /\ UNCHANGED <<rate, seconds>>

\* Mutant: the error tells when the steady window is over.
RetrySteady(a, b) == a
Retry(a, b) == IF a < b THEN a ELSE b
\* The rest of consume.
ConsumeBurst ==
  /\ bursting # <<>>
  /\ LET call == Head(bursting)
         window == Add("burst", call.points)
     IN /\ bursting' = Tail(bursting)
        /\ windows' = [windows EXCEPT !["burst"] = window]
        /\ IF ~Refuses("burst", call.points)
           THEN Allow("burst", call.points) /\ advice' = NoAdvice
           ELSE Throw("consume", Retry(call.until, window.until), call.points) /\ UNCHANGED allowed
  /\ UNCHANGED <<rate, seconds, made>>

\* ensure reads the steady limiter only, whatever burst is left, and only a
\* window which is open: whatever it costs, the first call passes.
Ensure(points) ==
  /\ made < MaxCalls /\ made' = made + 1
  /\ IF Throttles /\ seconds < windows["steady"].until /\ RemainingPoints("steady") < points
     THEN Throw("ensure", windows["steady"].until, points)
     ELSE UNCHANGED advice
  /\ UNCHANGED <<rate, seconds, windows, bursting, allowed>>

Penalize(points) ==
  /\ made < MaxCalls /\ made' = made + 1
  /\ windows' = IF Throttles THEN [windows EXCEPT !["steady"] = Add("steady", points)]
                ELSE windows
  /\ advice' = NoAdvice
  /\ UNCHANGED <<rate, seconds, bursting, allowed>>

\* The burst limiter is asked in the turn in which the steady one refuses, the
\* limiters being in memory: the clock stays meanwhile, other calls do not.
SecondPasses ==
  /\ seconds < MaxSeconds /\ bursting = <<>>
  /\ seconds' = seconds + 1
  /\ UNCHANGED <<rate, made, windows, bursting, allowed, advice>>

ThrottleInit ==
  /\ rate \in Rates /\ seconds = 0 /\ made = 0
  /\ windows = [l \in {"steady", "burst"} |-> Fresh]
  /\ bursting = <<>> /\ allowed = <<>> /\ advice = NoAdvice

ThrottleNext ==
  \/ \E points \in Costs : Consume(points) \/ Ensure(points) \/ Penalize(points)
  \/ ConsumeBurst \/ SecondPasses

ThrottleSpec == ThrottleInit /\ [][ThrottleNext]_throttleVars

-----------------------------------------------------------------------------
(* Properties *)

\* While the key is not used again, an error tells when a limiter's window is
\* over (errors.throttled's time, the retry-after header).  Earlier, consume
\* lets nothing through which it refused.  From then on, it refuses what it
\* refused only as long as each limiter which has that many points is still in
\* a window over later: never if the limiter told of has them.
RetryAfterHolds ==
  LET limiters == {l \in {"steady", "burst"} : rate[l] # NoBurst}
      through == \E l \in limiters : ~Refuses(l, advice.points)
  IN advice # NoAdvice =>
       /\ \E l \in limiters : advice.until = windows[l].until
       /\ advice.by = "consume" /\ seconds < advice.until => ~through
       /\ advice.until <= seconds /\ ~through =>
            \A l \in limiters :
              advice.points <= rate[l].points => seconds < windows[l].until

\* "Please retry" at that time (throttle/index.errors.ts:11) is let through, if
\* any limiter has that many points.  Refuted: the time is the earlier one of
\* the windows' ends, and may be that of a limiter which never lets that many
\* through (throttle/index.ts:139), where the other one would, later.
RetriesPass ==
  LET limiters == {l \in {"steady", "burst"} : rate[l] # NoBurst}
  IN advice # NoAdvice /\ advice.until <= seconds
     /\ (\E l \in limiters : advice.points <= rate[l].points) =>
       \E l \in limiters : ~Refuses(l, advice.points)

\* The points of the first n calls allowed which a limiter let through.
Points(l) == [i \in DOMAIN allowed |-> IF allowed[i].by = l THEN allowed[i].points ELSE 0]
Spent(l, n) == SumTo(Points(l), n)

\* However calls interleave, and whether or not others are refused or penalized,
\* within as long as a steady window a limiter lets not more points through than
\* its windows which that time meets have.
RateBounded ==
  LET Met(l) == IF rate[l].seconds = 0 THEN 0
                ELSE 2 + (rate.steady.seconds - 1) \div rate[l].seconds
      Within(i, j) == i <= j /\ allowed[j].at < allowed[i].at + rate.steady.seconds
  IN Throttles => \A l \in {"steady", "burst"}, i, j \in DOMAIN allowed :
       Within(i, j) => Spent(l, j) - Spent(l, i - 1) <= Met(l) * rate[l].points

\* The rate is kept, and whoever was refused is told when a window is over, and
\* not too late.
ThrottleHolds == RateBounded /\ RetryAfterHolds
=============================================================================
