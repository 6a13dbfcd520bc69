------------------------- MODULE RetryPolicyProofs -------------------------
(***************************************************************************)
(* What RetryPolicy.Delay computes at every attempt, under every policy.   *)
(*                                                                         *)
(* Delay is defined by recursion, and the induction theorems of the        *)
(* library take a predicate as a parameter, which no installed prover      *)
(* instantiates.  So induction is stated here of sets, from the theorem    *)
(* that a well-founded relation has minimal elements.                      *)
(***************************************************************************)
EXTENDS RetryPolicy, WellFoundedInduction, TLAPS

-----------------------------------------------------------------------------
(* Induction and recursion over Nat, stated of sets.                       *)

\* Every set of naturals that is not empty has a least element.
LEMMA LeastNumber ==
  ASSUME NEW T \in SUBSET Nat, T # {}
  PROVE  \E m \in T : \A n \in T : m <= n
<1>. DEFINE R == OpToRel(<, Nat)
<1>1. IsWellFoundedOn(R, Nat)
  BY NatLessThanWellFounded
<1>2. \A x, y \in Nat : x < y => <<x, y>> \in R
  BY DEF OpToRel
<1>. HIDE DEF R
<1>3. PICK x \in T : \A y \in T : ~(<<y, x>> \in R)
  BY <1>1, WFMin
<1>4. ASSUME NEW y \in T PROVE x <= y
  <2>1. x \in Nat /\ y \in Nat
    OBVIOUS
  <2>2. ~(y < x)
    BY <2>1, <1>2, <1>3
  <2>. QED  BY <2>1, <2>2
<1>. QED  BY <1>4

\* A set that has zero and the successor of each of its naturals has them all.
LEMMA SetInduction ==
  ASSUME NEW S, 0 \in S, \A n \in Nat : n \in S => n + 1 \in S
  PROVE  Nat \subseteq S
<1>. DEFINE T == {n \in Nat : n \notin S}
<1>1. SUFFICES ASSUME T # {} PROVE FALSE
  OBVIOUS
<1>2. PICK m \in T : \A n \in T : m <= n
  <2>. T \in SUBSET Nat
    OBVIOUS
  <2>. HIDE DEF T
  <2>. QED  BY <1>1, LeastNumber
<1>3. m \in Nat /\ m # 0
  OBVIOUS
<1>4. m - 1 \in Nat /\ m - 1 \notin T
  BY <1>2, <1>3
<1>5. (m - 1) + 1 \in S
  BY <1>4
<1>. QED  BY <1>3, <1>5

Iterates(f, F, a) == f[0] = a /\ \A n \in Nat : f[n + 1] = F[f[n]]

\* Iterating a function F from a defines a function on Nat.
LEMMA IterationExists ==
  ASSUME NEW S, NEW a \in S, NEW F \in [S -> S]
  PROVE  \E f \in [Nat -> S] : Iterates(f, F, a)
<1>. DEFINE Starts(n) == {g \in [0..n -> S] :
                            g[0] = a /\ \A i \in 0..(n - 1) : g[i + 1] = F[g[i]]}
            Defined == {n \in Nat : Starts(n) # {}}
<1>1. 0 \in Defined
  <2>1. [i \in 0..0 |-> a] \in Starts(0)
    OBVIOUS
  <2>. QED  BY <2>1
<1>2. ASSUME NEW n \in Nat, n \in Defined PROVE n + 1 \in Defined
  <2>1. PICK g \in Starts(n) : TRUE
    BY <1>2
  <2>. DEFINE h == [i \in 0..(n + 1) |-> IF i = n + 1 THEN F[g[n]] ELSE g[i]]
  <2>2. \A i \in 0..n : g[i] \in S
    BY <2>1
  <2>3. h \in [0..(n + 1) -> S]
    BY <2>2
  <2>4. h[0] = a
    BY <2>1
  <2>5. ASSUME NEW i \in 0..n PROVE h[i + 1] = F[h[i]]
    <3>1. CASE i = n
      BY <3>1
    <3>2. CASE i # n
      <4>1. i \in 0..(n - 1) /\ i + 1 \in 0..n /\ i + 1 # n + 1 /\ i # n + 1
        BY <3>2
      <4>2. g[i + 1] = F[g[i]]
        BY <4>1, <2>1
      <4>. QED  BY <4>1, <4>2
    <3>. QED  BY <3>1, <3>2
  <2>6. h \in Starts(n + 1)
    <3>1. (n + 1) - 1 = n
      OBVIOUS
    <3>. HIDE DEF h
    <3>. QED  BY <2>3, <2>4, <2>5, <3>1
  <2>7. Starts(n + 1) # {}
    <3>. HIDE DEF Starts
    <3>. QED  BY <2>6
  <2>. QED  BY <2>7
<1>3. \A n \in Nat : Starts(n) # {}
  <2>1. Nat \subseteq Defined
    <3>. HIDE DEF Defined
    <3>. QED  BY <1>1, <1>2, SetInduction
  <2>. QED  BY <2>1
<1>4. ASSUME NEW n \in Nat, NEW g \in Starts(n), NEW h \in Starts(n + 1)
      PROVE  g[n] = h[n]
  <2>. DEFINE Agree == {i \in Nat : i <= n => g[i] = h[i]}
  <2>1. 0 \in Agree
    BY <1>4
  <2>2. ASSUME NEW i \in Nat, i \in Agree PROVE i + 1 \in Agree
    <3>1. CASE i + 1 <= n
      <4>1. i \in 0..(n - 1) /\ i \in 0..((n + 1) - 1) /\ i <= n
        BY <3>1
      <4>2. g[i + 1] = F[g[i]]
        BY <4>1, <1>4
      <4>3. h[i + 1] = F[h[i]]
        BY <4>1, <1>4
      <4>. QED  BY <4>1, <4>2, <4>3, <2>2
    <3>2. CASE ~(i + 1 <= n)
      BY <3>2
    <3>. QED  BY <3>1, <3>2
  <2>3. Nat \subseteq Agree
    <3>. HIDE DEF Agree
    <3>. QED  BY <2>1, <2>2, SetInduction
  <2>. QED  BY <2>3
<1>. DEFINE start(n) == CHOOSE g \in Starts(n) : TRUE
            f == [n \in Nat |-> start(n)[n]]
<1>5. \A n \in Nat : start(n) \in Starts(n)
  BY <1>3
<1>6. \A n \in Nat : f[n] \in S
  <2>. SUFFICES ASSUME NEW n \in Nat PROVE start(n)[n] \in S
    OBVIOUS
  <2>1. n \in 0..n
    OBVIOUS
  <2>. HIDE DEF start
  <2>. QED  BY <2>1, <1>5
<1>7. f[0] = a
  <2>1. start(0)[0] = a
    <3>. HIDE DEF start
    <3>. QED  BY <1>5
  <2>. QED  BY <2>1
<1>8. ASSUME NEW n \in Nat PROVE f[n + 1] = F[f[n]]
  <2>1. start(n) \in Starts(n) /\ start(n + 1) \in Starts(n + 1)
    <3>1. n + 1 \in Nat
      OBVIOUS
    <3>. HIDE DEF start, Starts
    <3>. QED  BY <3>1, <1>5
  <2>2. start(n)[n] = start(n + 1)[n]
    <3>. HIDE DEF start, Starts
    <3>. QED  BY <2>1, <1>4
  <2>3. start(n + 1)[n + 1] = F[start(n + 1)[n]]
    <3>1. n \in 0..((n + 1) - 1)
      OBVIOUS
    <3>. HIDE DEF start
    <3>. QED  BY <2>1, <3>1
  <2>4. f[n + 1] = start(n + 1)[n + 1] /\ f[n] = start(n)[n]
    OBVIOUS
  <2>. HIDE DEF f, start
  <2>. QED  BY <2>2, <2>3, <2>4
<1>9. f \in [Nat -> S]
  BY <1>6
<1>. HIDE DEF f
<1>. QED  BY <1>7, <1>8, <1>9 DEF Iterates

-----------------------------------------------------------------------------
(* The delays.                                                             *)

\* The loop of Delay, as the function its definition chooses.
delays(policy) ==
  CHOOSE g : g = [current \in Nat |-> IF current <= 1 THEN policy.initial
                                     ELSE NextDelay(policy, g[current - 1])]

LEMMA DelayIs ==
  ASSUME NEW policy, NEW attempt
  PROVE  Delay(policy, attempt) =
           IF ~policyValid(policy, attempt) \/ policy.initial = 0 THEN 0
           ELSE IF delays(policy)[attempt] < policy.maximum THEN delays(policy)[attempt]
           ELSE policy.maximum
  BY DEF Delay, delays

LEMMA DoubledFits ==
  ASSUME NEW d \in Nat, NEW m \in Nat, m <= MaxRetryDelay * Microsecond, d <= m \div 2
  PROVE  Doubled(d) = 2 * d /\ 2 * d <= m
<1>. DEFINE half == 2 ^ (WordBits - 1)
<1>1. half \in Nat /\ m < half
  BY LimitsAssumption, DurationAssumption
<1>. HIDE DEF half
<1>2. 2 * d <= m
  OBVIOUS
<1>3. \A x \in Int, y \in Nat \ {0} : x >= 0 /\ x < y => x % y = x
  OBVIOUS
<1>4. 2 * d + half \in Int /\ 2 * half \in Nat \ {0}
      /\ 2 * d + half >= 0 /\ 2 * d + half < 2 * half
  BY <1>1, <1>2
<1>5. (2 * d + half) % (2 * half) = 2 * d + half
  BY <1>3, <1>4
<1>6. ((2 * d + half) % (2 * half)) - half = 2 * d
  BY <1>1, <1>5
<1>7. Doubled(d) = 2 * d
  BY <1>6 DEF Doubled, half
<1>. QED  BY <1>2, <1>7

\* The loop is well defined wherever its steps stay in a set.
LEMMA DelaysWithin ==
  ASSUME NEW policy, NEW S, policy.initial \in S,
         \A d \in S : NextDelay(policy, d) \in S
  PROVE  /\ \A n \in Nat : delays(policy)[n] \in S
         /\ delays(policy)[1] = policy.initial
         /\ \A n \in Nat \ {0} :
              delays(policy)[n + 1] = NextDelay(policy, delays(policy)[n])
<1>. DEFINE F == [d \in S |-> NextDelay(policy, d)]
            Loop(g) == [current \in Nat |-> IF current <= 1 THEN policy.initial
                                           ELSE NextDelay(policy, g[current - 1])]
<1>1. F \in [S -> S]
  OBVIOUS
<1>2. PICK f \in [Nat -> S] : /\ f[0] = policy.initial
                             /\ \A n \in Nat : f[n + 1] = F[f[n]]
  <2>. HIDE DEF F
  <2>1. \E f \in [Nat -> S] : Iterates(f, F, policy.initial)
    BY <1>1, IterationExists
  <2>. QED  BY <2>1 DEF Iterates
<1>. DEFINE h == [current \in Nat |-> IF current <= 1 THEN policy.initial ELSE f[current - 1]]
<1>3. ASSUME NEW n \in Nat, ~(n <= 1) PROVE f[n - 1] = NextDelay(policy, h[n - 1])
  <2>1. n - 1 \in Nat /\ n - 2 \in Nat /\ (n - 2) + 1 = n - 1
    BY <1>3
  <2>2. f[n - 1] = F[f[n - 2]] /\ f[n - 2] \in S
    BY <2>1, <1>2
  <2>3. h[n - 1] = f[n - 2]
    <3>1. CASE n = 2
      BY <3>1, <1>2
    <3>2. CASE n # 2
      <4>1. ~(n - 1 <= 1) /\ (n - 1) - 1 = n - 2
        BY <3>2, <1>3
      <4>. QED  BY <4>1, <2>1
    <3>. QED  BY <3>1, <3>2
  <2>. QED  BY <2>2, <2>3
<1>4. h = Loop(h)
  <2>1. ASSUME NEW n \in Nat PROVE h[n] = Loop(h)[n]
    <3>1. CASE n <= 1
      BY <3>1
    <3>2. CASE ~(n <= 1)
      BY <3>2, <1>3
    <3>. QED  BY <3>1, <3>2
  <2>. QED  BY <2>1
<1>. DEFINE D == delays(policy)
<1>5. D = Loop(D)
  <2>1. \E g : g = Loop(g)
    <3>. HIDE DEF h, Loop
    <3>. QED  BY <1>4
  <2>2. D = CHOOSE g : g = Loop(g)
    BY DEF delays
  <2>. HIDE DEF D, Loop
  <2>. QED  BY <2>1, <2>2
<1>. HIDE DEF D
<1>6. D[0] = policy.initial /\ D[1] = policy.initial
  BY <1>5
<1>7. ASSUME NEW n \in Nat \ {0} PROVE D[n + 1] = NextDelay(policy, D[n])
  <2>1. n + 1 \in Nat /\ ~(n + 1 <= 1) /\ (n + 1) - 1 = n
    OBVIOUS
  <2>2. Loop(D)[n + 1] = NextDelay(policy, D[(n + 1) - 1])
    BY <2>1
  <2>. QED  BY <1>5, <2>1, <2>2
<1>. DEFINE In == {n \in Nat : D[n] \in S}
<1>8. Nat \subseteq In
  <2>1. 0 \in In
    BY <1>6
  <2>2. ASSUME NEW n \in Nat, n \in In PROVE n + 1 \in In
    <3>1. CASE n = 0
      BY <3>1, <1>6
    <3>2. CASE n # 0
      BY <3>2, <2>2, <1>7
    <3>. QED  BY <3>1, <3>2
  <2>. HIDE DEF In
  <2>. QED  BY <2>1, <2>2, SetInduction
<1>9. \A n \in Nat : D[n] \in S
  BY <1>8
<1>. QED  BY <1>6, <1>7, <1>9 DEF D

\* One turn of the loop doubles up to the maximum and never wraps.
LEMMA NextDelayDoubles ==
  ASSUME NEW policy, policy.maximum \in Nat,
         policy.maximum <= MaxRetryDelay * Microsecond, NEW d \in 0..policy.maximum
  PROVE  NextDelay(policy, d) = IF 2 * d <= policy.maximum THEN 2 * d ELSE policy.maximum
<1>. DEFINE m == policy.maximum
<1>1. CASE d >= m
  BY <1>1 DEF NextDelay
<1>2. CASE d < m /\ d > m \div 2
  BY <1>2 DEF NextDelay
<1>3. CASE d < m /\ ~(d > m \div 2)
  <2>1. Doubled(d) = 2 * d /\ 2 * d <= m
    BY <1>3, DoubledFits
  <2>2. NextDelay(policy, d) = Doubled(d)
    BY <1>3 DEF NextDelay
  <2>. QED  BY <2>1, <2>2
<1>. QED  BY <1>1, <1>2, <1>3

\* What a product leaves when it is divided by one of its factors.
LEMMA Multiples ==
  ASSUME NEW M \in Nat \ {0}
  PROVE  /\ \A q \in Nat : (q * M) % M = 0 /\ (q * M) \div M = q
         /\ \A d \in Nat : d % M = 0 => d \div M \in Nat /\ d = (d \div M) * M
         /\ \A p, q \in Nat : q * M <= p * M => q <= p
         /\ \A q \in Nat : 2 * (q * M) = (2 * q) * M
<1>1. \A q \in Nat : (q * M) % M = 0
  OBVIOUS
<1>2. \A q \in Nat : (q * M) \div M = q
  OBVIOUS
<1>3. \A d \in Nat : d % M = 0 => d \div M \in Nat /\ d = (d \div M) * M
  OBVIOUS
<1>4. \A p, q \in Nat : q * M <= p * M => q <= p
  OBVIOUS
<1>5. \A q \in Nat : 2 * (q * M) = (2 * q) * M
  OBVIOUS
<1>. QED  BY <1>1, <1>2, <1>3, <1>4, <1>5

\* RetryPolicy.Delay never leaves the library's bounds, whatever the attempt.
LEMMA DelayBounded ==
  ASSUME NEW policy, policy.initial \in Int, policy.maximum \in Int, NEW attempt \in Nat
  PROVE  Delay(policy, attempt) \in 0..(MaxRetryDelay * Microsecond)
<1>. DEFINE top == MaxRetryDelay * Microsecond
<1>1. top \in Nat
  BY LimitsAssumption, DurationAssumption
<1>2. CASE ~policyValid(policy, attempt)
  BY <1>1, <1>2, DelayIs
<1>3. CASE policyValid(policy, attempt)
  <2>. DEFINE S == 0..policy.maximum
  <2>1. policy.maximum \in Nat /\ policy.maximum <= top /\ policy.initial \in S
    BY <1>1, <1>3 DEF policyValid
  <2>2. \A d \in S : NextDelay(policy, d) \in S
    BY <2>1, NextDelayDoubles
  <2>3. delays(policy)[attempt] \in S
    <3>. HIDE DEF S
    <3>. QED  BY <2>1, <2>2, DelaysWithin
  <2>. HIDE DEF top
  <2>4. delays(policy)[attempt] \in 0..top /\ policy.maximum \in 0..top
    BY <1>1, <2>1, <2>3
  <2>5. 0 \in 0..top
    BY <1>1
  <2>. QED  BY <2>4, <2>5, DelayIs DEF top
<1>. QED  BY <1>2, <1>3

\* A policy of whole microseconds yields whole microseconds, and a delay that
\* Fail accepts: what the worker computes, the repository can record.
LEMMA DelayRecordable ==
  ASSUME NEW policy, policy.initial \in Int, policy.maximum \in Int, NEW attempt \in Nat,
         policyValid(policy, attempt),
         policy.initial % Microsecond = 0, policy.maximum % Microsecond = 0
  PROVE  /\ Delay(policy, attempt) % Microsecond = 0
         /\ Delay(policy, attempt) \div Microsecond \in 0..MaxRetryDelay
<1>. DEFINE M == Microsecond
            S == {d \in 0..policy.maximum : \E q \in Nat : d = q * M}
<1>1. M \in Nat \ {0} /\ MaxRetryDelay \in Nat
  BY LimitsAssumption, DurationAssumption
<1>2. /\ policy.maximum \in Nat /\ policy.maximum <= MaxRetryDelay * M
      /\ policy.initial \in 0..policy.maximum
  BY <1>1 DEF policyValid
<1>3. policy.initial \in S /\ policy.maximum \in S /\ 0 \in S
  <2>1. ASSUME NEW d \in 0..policy.maximum, d % M = 0 PROVE d \in S
    <3>1. d \div M \in Nat /\ d = (d \div M) * M
      BY <1>1, <1>2, <2>1, Multiples
    <3>. QED  BY <3>1
  <2>2. 0 = 0 * M
    BY <1>1
  <2>3. 0 \in S
    BY <1>2, <2>2
  <2>4. policy.maximum \in 0..policy.maximum
    BY <1>2
  <2>. QED  BY <1>2, <2>1, <2>3, <2>4
<1>4. ASSUME NEW d \in S PROVE NextDelay(policy, d) \in S
  <2>1. NextDelay(policy, d) = IF 2 * d <= policy.maximum THEN 2 * d ELSE policy.maximum
    BY <1>2, NextDelayDoubles
  <2>2. PICK q \in Nat : d = q * M
    BY <1>4
  <2>3. 2 * d = (2 * q) * M /\ 2 * q \in Nat
    BY <1>1, <2>2, Multiples
  <2>4. 2 * d <= policy.maximum => 2 * d \in S
    BY <1>2, <1>4, <2>3
  <2>. QED  BY <2>1, <2>4, <1>3
<1>5. delays(policy)[attempt] \in S
  <2>. HIDE DEF S
  <2>. QED  BY <1>3, <1>4, DelaysWithin
<1>6. Delay(policy, attempt) \in S
  <2>. HIDE DEF S
  <2>. QED  BY <1>3, <1>5, DelayIs
<1>7. PICK q \in Nat : Delay(policy, attempt) = q * M
  BY <1>6
<1>8. q * M <= MaxRetryDelay * M
  BY <1>1, <1>2, <1>6, <1>7
<1>9. q <= MaxRetryDelay
  BY <1>1, <1>8, Multiples
<1>10. (q * M) % M = 0 /\ (q * M) \div M = q
  BY <1>1, Multiples
<1>. QED  BY <1>1, <1>7, <1>9, <1>10

=============================================================================
