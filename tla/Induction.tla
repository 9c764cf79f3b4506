----------------------------- MODULE Induction -----------------------------
(***************************************************************************)
(* Induction for the proofs: sets of naturals have a smallest element, so  *)
(* that a statement about numbers holds if it has no smallest              *)
(* counterexample; what follows of it for recursive functions, and sums.   *)
(***************************************************************************)
EXTENDS Sums, WellFoundedInduction, TLAPS

LEMMA SmallestOf ==
  ASSUME NEW T, T \subseteq Nat, T # {}
  PROVE  \E i \in T : \A j \in T : i <= j
<1> DEFINE R == OpToRel(<, Nat)
<1>1. \E x \in T : \A y \in T : ~ (<<y, x>> \in R)
  <2>1. IsWellFoundedOn(R, Nat)
    BY NatLessThanWellFounded
  <2> HIDE DEF R
  <2> QED
    BY <2>1, WFMin
<1>2. \A x, y \in Nat : <<y, x>> \in R <=> y < x
  BY DEF OpToRel
<1>3. PICK i \in T : \A j \in T : ~ (<<j, i>> \in R)
  BY <1>1
<1>4. \A j \in T : ~ (j < i)
  BY <1>2, <1>3
<1> QED
  BY <1>4

LEMMA LargestOf ==
  ASSUME NEW n \in Nat, NEW T, T \subseteq 1 .. n, T # {}
  PROVE  \E i \in T : \A j \in T : j <= i
<1> DEFINE Left == {n - i : i \in T}
<1>1. Left \subseteq Nat /\ Left # {}
  <2>1. \A i \in T : n - i \in Nat
    OBVIOUS
  <2> QED
    BY <2>1
<1>2. PICK l \in Left : \A k \in Left : l <= k
  <2> HIDE DEF Left
  <2> QED
    BY <1>1, SmallestOf
<1>3. PICK i \in T : l = n - i
  BY <1>2
<1>4. ASSUME NEW j \in T
      PROVE  j <= i
  <2>1. n - i <= n - j
    BY <1>2, <1>3
  <2> QED
    BY <2>1
<1> QED
  BY <1>4

\* f starts with base, and each of its values follows the previous one.
Follows(f, base, step) ==
  f[0] = base /\ \A n \in Nat : f[n + 1] = step[n][f[n]]

\* A step which is applied again and again makes a function.
LEMMA Iterates ==
  ASSUME NEW S, NEW base \in S, NEW step \in [Nat -> [S -> S]]
  PROVE  \E f \in [Nat -> S] : Follows(f, base, step)
<1> DEFINE Upto(n) == {g \in [0 .. n -> S] :
                         g[0] = base /\ \A m \in 0 .. n - 1 : g[m + 1] = step[m][g[m]]}
           Without == {n \in Nat : Upto(n) = {}}
<1>1. Without = {}
  <2>1. SUFFICES ASSUME Without # {}
                 PROVE  FALSE
    OBVIOUS
  <2>2. PICK n \in Without : \A m \in Without : n <= m
    <3>1. Without \subseteq Nat
      OBVIOUS
    <3> HIDE DEF Without
    <3> QED
      BY <2>1, <3>1, SmallestOf
  <2>3. CASE n = 0
    <3>1. [i \in 0 .. 0 |-> base] \in Upto(0)
      OBVIOUS
    <3> QED
      BY <2>2, <2>3, <3>1
  <2>4. CASE n # 0
    <3>1. n \in Nat /\ n - 1 \in Nat /\ n - 1 \notin Without /\ Upto(n) = {}
      BY <2>2, <2>4
    <3>2. PICK g \in Upto(n - 1) : TRUE
      BY <3>1
    <3>3. g \in [0 .. n - 1 -> S] /\ g[0] = base
          /\ \A m \in 0 .. n - 2 : g[m + 1] = step[m][g[m]]
      BY <3>1, <3>2
    <3> DEFINE h == [i \in 0 .. n |-> IF i = n THEN step[n - 1][g[n - 1]] ELSE g[i]]
    <3>4. g[n - 1] \in S /\ step[n - 1][g[n - 1]] \in S
      BY <3>1, <3>3
    <3>5. h \in [0 .. n -> S] /\ h[0] = base
      BY <2>4, <3>1, <3>3, <3>4
    <3>6. ASSUME NEW m \in 0 .. n - 1
          PROVE  h[m + 1] = step[m][h[m]]
      <4>1. CASE m = n - 1
        <5>1. m + 1 = n /\ n \in 0 .. n /\ m \in 0 .. n /\ m # n
          BY <3>1, <4>1
        <5> QED
          BY <4>1, <5>1
      <4>2. CASE m # n - 1
        <5>1. m \in 0 .. n - 2 /\ m + 1 # n /\ m # n /\ m + 1 \in 0 .. n /\ m \in 0 .. n
          BY <3>1, <4>2
        <5> QED
          BY <3>3, <5>1
      <4> QED
        BY <4>1, <4>2
    <3> QED
      BY <3>1, <3>5, <3>6
  <2> QED
    BY <2>3, <2>4
<1>2. ASSUME NEW n \in Nat, NEW g \in Upto(n), NEW h \in Upto(n + 1)
      PROVE  g[n] = h[n]
  <2> DEFINE Differs == {m \in 0 .. n : g[m] # h[m]}
  <2>0. n \in 0 .. n
    OBVIOUS
  <2>1. SUFFICES ASSUME Differs # {}
                 PROVE  FALSE
    <3> HIDE DEF Upto, Without
    <3> QED
      BY <2>0
  <2>2. PICK m \in Differs : \A k \in Differs : m <= k
    <3>1. Differs \subseteq Nat
      OBVIOUS
    <3> HIDE DEF Differs
    <3> QED
      BY <2>1, <3>1, SmallestOf
  <2>3. m # 0 /\ m - 1 \in 0 .. n /\ g[m - 1] = h[m - 1] /\ m - 1 \in 0 .. n - 1
    BY <2>2
  <2>4. g[(m - 1) + 1] = step[m - 1][g[m - 1]] /\ h[(m - 1) + 1] = step[m - 1][h[m - 1]]
    BY <2>3
  <2> QED
    BY <2>2, <2>3, <2>4
<1> DEFINE Pick(n) == CHOOSE g : g \in Upto(n)
           f == [n \in Nat |-> Pick(n)[n]]
<1>3. \A n \in Nat : Pick(n) \in Upto(n)
  <2>1. \A n \in Nat : Upto(n) # {}
    BY <1>1
  <2> HIDE DEF Upto
  <2> QED
    BY <2>1
<1> HIDE DEF Pick
<1>4. f \in [Nat -> S] /\ f[0] = base
  <2>1. \A n \in Nat : Pick(n)[n] \in S
    BY <1>3
  <2>2. Pick(0)[0] = base
    BY <1>3
  <2> QED
    BY <2>1, <2>2
<1>5. ASSUME NEW n \in Nat
      PROVE  f[n + 1] = step[n][f[n]]
  <2>1. Pick(n) \in Upto(n) /\ Pick(n + 1) \in Upto(n + 1)
    BY <1>3
  <2>2. Pick(n)[n] = Pick(n + 1)[n]
    <3> HIDE DEF Upto
    <3> QED
      BY <1>2, <2>1
  <2>3. Pick(n + 1)[n + 1] = step[n][Pick(n + 1)[n]]
    BY <2>1
  <2>4. f[n] = Pick(n)[n] /\ f[n + 1] = Pick(n + 1)[n + 1]
    OBVIOUS
  <2> QED
    BY <2>2, <2>3, <2>4
<1>6. Follows(f, base, step)
  BY <1>4, <1>5 DEF Follows
<1> QED
  BY <1>4, <1>6

\* The same over the numbers to n.
FollowsTo(f, n, base, step) ==
  f[0] = base /\ \A m \in 1 .. n : f[m] = step[m][f[m - 1]]

LEMMA IteratesTo ==
  ASSUME NEW n \in Nat, NEW S, NEW base \in S, NEW step \in [1 .. n -> [S -> S]]
  PROVE  \E f \in [0 .. n -> S] : FollowsTo(f, n, base, step)
<1> DEFINE same == [s \in S |-> s]
           steps == [m \in Nat |-> IF m < n THEN step[m + 1] ELSE same]
<1>1. steps \in [Nat -> [S -> S]]
  <2>1. \A m \in Nat : m < n => m + 1 \in 1 .. n
    OBVIOUS
  <2>2. same \in [S -> S]
    OBVIOUS
  <2> HIDE DEF same
  <2> QED
    BY <2>1, <2>2
<1>2. PICK f \in [Nat -> S] : Follows(f, base, steps)
  <2> HIDE DEF steps
  <2> QED
    BY <1>1, Iterates
<1> DEFINE g == [m \in 0 .. n |-> f[m]]
<1>3. g \in [0 .. n -> S] /\ g[0] = base
  BY <1>2 DEF Follows
<1>4. ASSUME NEW m \in 1 .. n
      PROVE  g[m] = step[m][g[m - 1]]
  <2>1. m - 1 \in Nat /\ m - 1 < n /\ (m - 1) + 1 = m /\ m \in 0 .. n /\ m - 1 \in 0 .. n
    OBVIOUS
  <2>2. f[(m - 1) + 1] = steps[m - 1][f[m - 1]]
    <3> HIDE DEF steps
    <3> QED
      BY <1>2, <2>1 DEF Follows
  <2>3. steps[m - 1] = step[m]
    BY <2>1
  <2> QED
    BY <2>1, <2>2, <2>3
<1> QED
  BY <1>3, <1>4 DEF FollowsTo

-----------------------------------------------------------------------------
(* Sums *)

\* The sums of f are those which each number adds its element to.
SumsFrom(T, f) ==
  [m \in Nat |-> IF m = 0 THEN 0 ELSE IF m \in DOMAIN f THEN T[m - 1] + f[m] ELSE T[m - 1]]
SumsOf(f) == CHOOSE T : T = SumsFrom(T, f)

LEMMA SumIsOfSums ==
  ASSUME NEW f, NEW n
  PROVE  SumTo(f, n) = SumsOf(f)[n]
  BY DEF SumTo, SumsOf, SumsFrom

LEMMA SumsExist ==
  ASSUME NEW f, \A i \in DOMAIN f : f[i] \in Int
  PROVE  \E T \in [Nat -> Int] : T = SumsFrom(T, f)
<1> DEFINE more(m) == IF m \in DOMAIN f THEN f[m] ELSE 0
           add(m) == [s \in Int |-> s + more(m + 1)]
           step == [m \in Nat |-> add(m)]
<1>1. \A m \in Nat : more(m) \in Int
  OBVIOUS
<1>2. step \in [Nat -> [Int -> Int]]
  <2>1. \A m \in Nat : more(m + 1) \in Int
    BY <1>1
  <2> HIDE DEF more
  <2>2. ASSUME NEW m \in Nat
        PROVE  add(m) \in [Int -> Int]
    <3>1. more(m + 1) \in Int
      BY <2>1
    <3>2. \A s \in Int : s + more(m + 1) \in Int
      BY <3>1
    <3> QED
      BY <3>2
  <2> HIDE DEF add
  <2> QED
    BY <2>2
<1>3. PICK T \in [Nat -> Int] : Follows(T, 0, step)
  <2> DEFINE S == Int
             base == 0
  <2>1. base \in S /\ step \in [Nat -> [S -> S]]
    BY <1>2
  <2>2. \E T \in [Nat -> S] : Follows(T, base, step)
    <3> HIDE DEF step, S, base
    <3> QED
      BY <2>1, Iterates
  <2> QED
    BY <2>2
<1>4. ASSUME NEW m \in Nat, m # 0
      PROVE  T[m] = T[m - 1] + more(m)
  <2>1. m - 1 \in Nat /\ (m - 1) + 1 = m /\ T[m - 1] \in Int
    BY <1>3, <1>4
  <2>2. T[(m - 1) + 1] = step[m - 1][T[m - 1]]
    <3> HIDE DEF step
    <3> QED
      BY <1>3, <2>1 DEF Follows
  <2>3. step[m - 1][T[m - 1]] = T[m - 1] + more(m)
    <3> HIDE DEF more
    <3> QED
      BY <2>1
  <2> HIDE DEF step, more
  <2> QED
    BY <2>1, <2>2, <2>3
<1>5. \A m \in Nat : m # 0 => T[m - 1] \in Int
  BY <1>3
<1>6. T[0] = 0
  BY <1>3 DEF Follows
<1>7. \A m \in Nat :
        T[m] = IF m = 0 THEN 0 ELSE IF m \in DOMAIN f THEN T[m - 1] + f[m] ELSE T[m - 1]
  BY <1>4, <1>5, <1>6
<1>8. T = SumsFrom(T, f)
  BY <1>3, <1>7 DEF SumsFrom
<1> QED
  BY <1>3, <1>8

LEMMA SumSteps ==
  ASSUME NEW f, \A i \in DOMAIN f : f[i] \in Int
  PROVE  /\ SumTo(f, 0) = 0
         /\ \A n \in Nat \ {0} :
              SumTo(f, n) = SumTo(f, n - 1) + (IF n \in DOMAIN f THEN f[n] ELSE 0)
         /\ \A n \in Nat : SumTo(f, n) \in Int
<1> DEFINE T == SumsOf(f)
<1>1. T = SumsFrom(T, f)
  BY SumsExist DEF SumsOf
<1>2. \A n : SumTo(f, n) = T[n]
  BY SumIsOfSums
<1> HIDE DEF T
<1>3. T[0] = 0
  BY <1>1 DEF SumsFrom
<1>4. \A m \in Nat : m # 0 =>
        T[m] = IF m \in DOMAIN f THEN T[m - 1] + f[m] ELSE T[m - 1]
  BY <1>1 DEF SumsFrom
<1>5. \A m \in Nat : T[m] \in Int
  <2> DEFINE Bad == {m \in Nat : T[m] \notin Int}
  <2>1. SUFFICES ASSUME Bad # {}
                 PROVE  FALSE
    OBVIOUS
  <2>2. PICK m \in Bad : \A k \in Bad : m <= k
    <3>1. Bad \subseteq Nat
      OBVIOUS
    <3> HIDE DEF Bad
    <3> QED
      BY <2>1, <3>1, SmallestOf
  <2>3. m # 0 /\ m - 1 \in Nat /\ T[m - 1] \in Int
    BY <1>3, <2>2
  <2> QED
    BY <1>4, <2>2, <2>3
<1>6. \A n \in Nat \ {0} : T[n] = T[n - 1] + (IF n \in DOMAIN f THEN f[n] ELSE 0)
  <2>1. \A n \in Nat \ {0} : n - 1 \in Nat /\ T[n - 1] \in Int
    BY <1>5
  <2> QED
    BY <1>4, <2>1
<1> QED
  BY <1>2, <1>3, <1>5, <1>6

\* What agrees on the first n elements has the same sum of them.
LEMMA SameSums ==
  ASSUME NEW f, NEW g, NEW n \in Nat,
         \A i \in DOMAIN f : f[i] \in Int, \A i \in DOMAIN g : g[i] \in Int,
         \A i \in 1 .. n : (i \in DOMAIN f <=> i \in DOMAIN g) /\ (i \in DOMAIN f => f[i] = g[i])
  PROVE  SumTo(f, n) = SumTo(g, n)
<1> DEFINE Bad == {m \in 0 .. n : SumTo(f, m) # SumTo(g, m)}
<1>1. SUFFICES ASSUME Bad # {}
               PROVE  FALSE
  OBVIOUS
<1>2. PICK m \in Bad : \A k \in Bad : m <= k
  <2>1. Bad \subseteq Nat
    OBVIOUS
  <2> HIDE DEF Bad
  <2> QED
    BY <1>1, <2>1, SmallestOf
<1>3. SumTo(f, 0) = 0 /\ SumTo(g, 0) = 0
  BY SumSteps
<1>4. m # 0 /\ m - 1 \in 0 .. n /\ m \in 1 .. n /\ SumTo(f, m - 1) = SumTo(g, m - 1)
  BY <1>2, <1>3
<1>5. /\ SumTo(f, m) = SumTo(f, m - 1) + (IF m \in DOMAIN f THEN f[m] ELSE 0)
      /\ SumTo(g, m) = SumTo(g, m - 1) + (IF m \in DOMAIN g THEN g[m] ELSE 0)
  BY <1>4, SumSteps
<1> QED
  BY <1>2, <1>4, <1>5

\* One element which changes changes the sum by as much.
LEMMA SumOfChanged ==
  ASSUME NEW f, NEW g, NEW n \in Nat, NEW i \in 1 .. n,
         DOMAIN f = 1 .. n, DOMAIN g = 1 .. n,
         \A k \in 1 .. n : f[k] \in Int /\ g[k] \in Int,
         \A k \in 1 .. n : k # i => g[k] = f[k]
  PROVE  SumTo(g, n) = SumTo(f, n) + g[i] - f[i]
<1> DEFINE Off(m) == SumTo(g, m) # SumTo(f, m) + g[i] - f[i]
           Bad == {m \in i .. n : Off(m)}
<1>0. /\ \A k \in DOMAIN f : f[k] \in Int
      /\ \A k \in DOMAIN g : g[k] \in Int
  OBVIOUS
<1>1. SUFFICES ASSUME Bad # {}
               PROVE  FALSE
  OBVIOUS
<1>2. PICK m \in Bad : \A k \in Bad : m <= k
  <2>1. Bad \subseteq Nat
    OBVIOUS
  <2> HIDE DEF Bad
  <2> QED
    BY <1>1, <2>1, SmallestOf
<1>3. m \in i .. n /\ m \in Nat \ {0} /\ m \in 1 .. n /\ m - 1 \in Nat /\ i - 1 \in Nat
  BY <1>2
<1>4. /\ SumTo(f, m) = SumTo(f, m - 1) + f[m]
      /\ SumTo(g, m) = SumTo(g, m - 1) + g[m]
      /\ SumTo(f, m - 1) \in Int /\ SumTo(g, m - 1) \in Int
  BY <1>0, <1>3, SumSteps
<1>5. CASE m = i
  <2>1. SumTo(f, i - 1) = SumTo(g, i - 1)
    <3>1. \A k \in 1 .. i - 1 :
            k \in DOMAIN f /\ k \in DOMAIN g /\ f[k] = g[k]
      BY <1>3
    <3> QED
      BY <1>0, <1>3, <3>1, SameSums
  <2>2. g[i] \in Int /\ f[i] \in Int
    OBVIOUS
  <2>3. Off(m)
    BY <1>2
  <2> QED
    BY <1>4, <1>5, <2>1, <2>2, <2>3
<1>6. CASE m # i
  <2>1. m - 1 \in i .. n /\ m - 1 \notin Bad
    BY <1>2, <1>3, <1>6
  <2>2. SumTo(g, m - 1) = SumTo(f, m - 1) + g[i] - f[i]
    BY <2>1
  <2>3. g[m] = f[m] /\ f[m] \in Int /\ g[i] \in Int /\ f[i] \in Int
    BY <1>3, <1>6
  <2>4. Off(m)
    BY <1>2
  <2> QED
    BY <1>4, <2>2, <2>3, <2>4
<1> QED
  BY <1>5, <1>6

\* A sequence which an element is cut from has a sum less by that element.
LEMMA SumOfCut ==
  ASSUME NEW f, NEW g, NEW n \in Nat, NEW i \in 1 .. n,
         DOMAIN f = 1 .. n, DOMAIN g = 1 .. n - 1,
         \A k \in 1 .. n : f[k] \in Int,
         \A k \in 1 .. n - 1 : g[k] = IF k < i THEN f[k] ELSE f[k + 1]
  PROVE  SumTo(g, n - 1) = SumTo(f, n) - f[i]
<1> DEFINE Off(m) == SumTo(g, m - 1) # SumTo(f, m) - f[i]
           Bad == {m \in i .. n : Off(m)}
<1>0. /\ \A k \in DOMAIN f : f[k] \in Int
      /\ \A k \in DOMAIN g : g[k] \in Int
  OBVIOUS
<1>1. SUFFICES ASSUME Bad # {}
               PROVE  FALSE
  OBVIOUS
<1>2. PICK m \in Bad : \A k \in Bad : m <= k
  <2>1. Bad \subseteq Nat
    OBVIOUS
  <2> HIDE DEF Bad
  <2> QED
    BY <1>1, <2>1, SmallestOf
<1>3. m \in i .. n /\ m \in Nat \ {0} /\ m \in 1 .. n /\ m - 1 \in Nat /\ i - 1 \in Nat
  BY <1>2
<1>4. /\ SumTo(f, m) = SumTo(f, m - 1) + f[m]
      /\ SumTo(f, m - 1) \in Int
  BY <1>0, <1>3, SumSteps
<1>5. CASE m = i
  <2>1. SumTo(g, i - 1) = SumTo(f, i - 1)
    <3>1. \A k \in 1 .. i - 1 :
            k \in DOMAIN f /\ k \in DOMAIN g /\ f[k] = g[k]
      BY <1>3
    <3> QED
      BY <1>0, <1>3, <3>1, SameSums
  <2>2. f[i] \in Int
    OBVIOUS
  <2>3. Off(m)
    BY <1>2
  <2> QED
    BY <1>4, <1>5, <2>1, <2>2, <2>3
<1>6. CASE m # i
  <2>1. m - 1 \in i .. n /\ m - 1 \notin Bad /\ m - 1 \in 1 .. n - 1
        /\ m - 1 \in Nat \ {0} /\ ~ (m - 1 < i) /\ (m - 1) + 1 = m
    BY <1>2, <1>3, <1>6
  <2>2. SumTo(g, (m - 1) - 1) = SumTo(f, m - 1) - f[i]
    BY <2>1
  <2>3. g[m - 1] = f[m] /\ f[m] \in Int /\ f[i] \in Int
    BY <1>3, <2>1
  <2>4. SumTo(g, m - 1) = SumTo(g, (m - 1) - 1) + g[m - 1]
    BY <1>0, <2>1, SumSteps
  <2>5. Off(m)
    BY <1>2
  <2> QED
    BY <1>4, <2>2, <2>3, <2>4, <2>5
<1> QED
  BY <1>5, <1>6

-----------------------------------------------------------------------------
(* Recursion on higher numbers *)

\* The numbers up to n lead to higher ones, or are last and have a value in S.
Ascending(n, S, last, out, next) ==
  /\ n \in Nat /\ out \in [1 .. n -> S] /\ next \in [1 .. n -> 1 .. n]
  /\ \A e \in 1 .. n : e \notin last => e < next[e]

\* f has the value of the last number which each leads to.
Climbs(f, n, last, out, next) ==
  \A e \in 1 .. n : f[e] = IF e \in last THEN out[e] ELSE f[next[e]]

\* Such a function exists.
LEMMA Ascends ==
  ASSUME NEW n, NEW S, NEW last, NEW out, NEW next, Ascending(n, S, last, out, next)
  PROVE  \E f \in [1 .. n -> S] : Climbs(f, n, last, out, next)
<1>0. /\ n \in Nat /\ out \in [1 .. n -> S] /\ next \in [1 .. n -> 1 .. n]
      /\ \A e \in 1 .. n : e \notin last => e < next[e]
  BY DEF Ascending
<1> DEFINE G == [1 .. n -> S]
           Next(g) == [e \in 1 .. n |-> IF e \in last THEN out[e] ELSE g[next[e]]]
           step == [m \in Nat |-> [g \in G |-> Next(g)]]
<1>1. step \in [Nat -> [G -> G]] /\ out \in G
  <2>1. \A g \in G : Next(g) \in G
    BY <1>0
  <2> HIDE DEF G, Next
  <2> QED
    BY <1>0, <2>1 DEF G
<1>2. PICK f \in [Nat -> G] : Follows(f, out, step)
  <2> HIDE DEF G, step
  <2> QED
    BY <1>1, Iterates
<1>3. \A m \in Nat : f[m + 1] = Next(f[m]) /\ f[m] \in G
  <2>1. \A m \in Nat : f[m + 1] = step[m][f[m]] /\ f[m] \in G
    BY <1>2 DEF Follows
  <2> HIDE DEF G, Next
  <2> QED
    BY <2>1
<1>4. \A m \in Nat : \A e \in 1 .. n :
        f[m] \in G /\ f[m + 1][e] = IF e \in last THEN out[e] ELSE f[m][next[e]]
  <2> HIDE DEF G
  <2> QED
    BY <1>3
<1> HIDE DEF step
\* After as many steps as there are numbers from e, its value stays.
<1> DEFINE Stays(m) == \A e \in 1 .. n : n - e < m => f[m + 1][e] = f[m][e]
           Bad == {m \in Nat : ~Stays(m)}
<1>5. Bad = {}
  <2> SUFFICES ASSUME Bad # {}
               PROVE  FALSE
    OBVIOUS
  <2>1. PICK m \in Bad : \A k \in Bad : m <= k
    <3>1. Bad \subseteq Nat
      OBVIOUS
    <3> HIDE DEF Bad
    <3> QED
      BY <3>1, SmallestOf
  <2>2. PICK e \in 1 .. n : n - e < m /\ f[m + 1][e] # f[m][e]
    BY <2>1
  <2>3. m \in Nat /\ m # 0
    BY <1>0, <2>1, <2>2
  <2>4. m - 1 \in Nat /\ (m - 1) + 1 = m /\ ~ (m <= m - 1)
    BY <2>3
  <2>5. Stays(m - 1)
    <3> HIDE DEF Stays
    <3> QED
      BY <2>1, <2>4
  <2>6. /\ f[m + 1][e] = IF e \in last THEN out[e] ELSE f[m][next[e]]
        /\ f[m][e] = IF e \in last THEN out[e] ELSE f[m - 1][next[e]]
    <3>1. f[m + 1][e] = IF e \in last THEN out[e] ELSE f[m][next[e]]
      BY <1>4, <2>3
    <3>2. f[(m - 1) + 1][e] = IF e \in last THEN out[e] ELSE f[m - 1][next[e]]
      BY <1>4, <2>4
    <3> QED
      BY <2>4, <3>1, <3>2
  <2>7. e \notin last /\ next[e] \in 1 .. n /\ e < next[e]
    BY <1>0, <2>2, <2>6
  <2>8. n - next[e] < m - 1
    BY <1>0, <2>2, <2>3, <2>7
  <2>9. f[m][next[e]] = f[m - 1][next[e]]
    BY <2>4, <2>5, <2>7, <2>8
  <2> QED
    BY <2>2, <2>6, <2>7, <2>9
<1>6. Stays(n)
  <2> HIDE DEF Stays
  <2> QED
    BY <1>0, <1>5
<1>7. \A e \in 1 .. n : f[n + 1][e] = f[n][e]
  <2>1. \A e \in 1 .. n : n - e < n
    BY <1>0
  <2> QED
    BY <1>6, <2>1
<1>8. f[n] \in G /\ \A e \in 1 .. n : f[n][e] = IF e \in last THEN out[e] ELSE f[n][next[e]]
  BY <1>0, <1>4, <1>7
<1> QED
  BY <1>8 DEF Climbs
=============================================================================
